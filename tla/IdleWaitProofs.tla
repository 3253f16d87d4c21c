--------------------------- MODULE IdleWaitProofs ---------------------------
(***************************************************************************)
(* That the workers are never all asleep while a fiber is queued, for any  *)
(* number of workers and pushes, on x86-64's memory model.                 *)
(*                                                                         *)
(* Every action is shown to preserve IdleInv.  Most change the queues only *)
(* by publishing cells, which keeps them as long as they were: lemma       *)
(* PublishedSeq says so once.                                              *)
(***************************************************************************)
EXTENDS IdleWait, SequenceTheorems, TLAPS

Cell == Workers \cup {Nobody}

(* Publishing the cells of a worker (the store to cell->seq becoming       *)
(* visible, queue.c:53) renames that worker's cells and nothing else.      *)
LEMMA PublishedSeq ==
  ASSUME NEW w \in Workers, NEW s \in Seq(Cell)
  PROVE  /\ Published(w, s) \in Seq(Cell)
         /\ DOMAIN Published(w, s) = DOMAIN s
         /\ \A i \in DOMAIN s : Published(w, s)[i] = IF s[i] = w THEN Nobody ELSE s[i]
         /\ Published(w, s) = <<>> <=> s = <<>>
  <1>1. DOMAIN s = 1..Len(s) /\ Len(s) \in Nat /\ \A i \in 1..Len(s) : s[i] \in Cell
    BY LenProperties
  <1>2. Published(w, s) \in [1..Len(s) -> Cell]
    BY <1>1 DEF Published, Cell
  <1>3. Published(w, s) \in Seq(Cell)
    BY <1>1, <1>2, SeqDef
  <1>4. /\ DOMAIN Published(w, s) = DOMAIN s
        /\ \A i \in DOMAIN s : Published(w, s)[i] = IF s[i] = w THEN Nobody ELSE s[i]
    BY DEF Published
  <1>5. Len(Published(w, s)) = Len(s)
    BY <1>1, <1>3, <1>4, LenProperties
  <1>6. Published(w, s) = <<>> <=> s = <<>>
    BY <1>3, <1>5, EmptySeq
  <1> QED BY <1>3, <1>4, <1>6

(* What vgc_pop leaves of a queue is its tail: its cells are cells of the  *)
(* queue (queue.c:73-75).                                                  *)
LEMMA TailSeq ==
  ASSUME NEW s \in Seq(Cell), s # <<>>
  PROVE  /\ Tail(s) \in Seq(Cell)
         /\ \A i \in DOMAIN Tail(s) : \E j \in DOMAIN s : Tail(s)[i] = s[j]
  BY HeadTailProperties, LenProperties

(* What vgc_push adds to a queue is one cell at its end (queue.c:52-53).   *)
LEMMA AppendSeq ==
  ASSUME NEW s \in Seq(Cell), NEW c \in Cell
  PROVE  /\ Append(s, c) \in Seq(Cell)
         /\ Append(s, c) # <<>>
         /\ \A i \in DOMAIN Append(s, c) :
              Append(s, c)[i] = c \/ \E j \in DOMAIN s : Append(s, c)[i] = s[j]
  BY AppendProperties, LenProperties

(* A step that leaves every queue as it is up to publication by w, and     *)
(* moves only w, to a place that covers what it covered, keeps the parts   *)
(* of the invariant that are about the queues.                             *)
LEMMA PublishStep ==
  ASSUME IdleInv, NEW w \in Workers, NEW to \in PCs,
         q' = [p \in Queues |-> Published(w, q[p])],
         pc' = [pc EXCEPT ![w] = to],
         \A p \in Queues : pc[w] \notin DoneLooking[p] => to \notin DoneLooking[p]
  PROVE  /\ q' \in [Queues -> Seq(Cell)] /\ pc' \in [Workers -> PCs]
         /\ BufferedEarly' /\ Covered'
  <1> USE DEF IdleInv, TypeOK, Cell
  <1>1. ASSUME NEW p \in Queues
        PROVE  /\ q'[p] \in Seq(Cell)
               /\ q'[p] = <<>> <=> q[p] = <<>>
               /\ DOMAIN q'[p] = DOMAIN q[p]
               /\ \A i \in DOMAIN q[p] : q'[p][i] = IF q[p][i] = w THEN Nobody ELSE q[p][i]
    BY PublishedSeq
  <1>2. q' \in [Queues -> Seq(Cell)] /\ pc' \in [Workers -> PCs]
    BY <1>1
  <1>3. BufferedEarly'
    <2> SUFFICES ASSUME NEW p \in Queues, NEW i \in DOMAIN q'[p], NEW u \in Workers,
                        q'[p][i] = u
                 PROVE  pc'[u] \in Early
      BY DEF BufferedEarly
    <2>1. u # w /\ q[p][i] = u /\ i \in DOMAIN q[p]
      BY <1>1, WorkerAssumption
    <2> QED BY <2>1 DEF BufferedEarly
  <1>4. Covered'
    <2> SUFFICES ASSUME NEW p \in Queues, q'[p] # <<>>
                 PROVE  \E u \in Workers : pc'[u] \notin DoneLooking[p]
      BY DEF Covered, Covers
    <2>1. PICK u \in Workers : pc[u] \notin DoneLooking[p]
      BY <1>1 DEF Covered, Covers
    <2> QED BY <2>1
  <1> QED BY <1>2, <1>3, <1>4

(* A step that leaves the queues alone and moves only w, neither away from *)
(* a queue it covered nor past a drain of its store buffer, keeps them.    *)
LEMMA QuietStep ==
  ASSUME IdleInv, NEW w \in Workers, NEW to \in PCs,
         q' = q,
         pc' = [pc EXCEPT ![w] = to],
         pc[w] \in Early => to \in Early,
         \A p \in Queues : pc[w] \notin DoneLooking[p] => to \notin DoneLooking[p]
  PROVE  /\ q' \in [Queues -> Seq(Cell)] /\ pc' \in [Workers -> PCs]
         /\ BufferedEarly' /\ Covered'
  <1>1. q' \in [Queues -> Seq(Cell)] /\ pc' \in [Workers -> PCs]
    BY DEF IdleInv, TypeOK, Cell
  <1>2. \A u \in Workers : pc'[u] = IF u = w THEN to ELSE pc[u]
    BY DEF IdleInv, TypeOK
  <1>3. BufferedEarly'
    BY <1>2 DEF IdleInv, BufferedEarly
  <1>4. Covered'
    <2> SUFFICES ASSUME NEW p \in Queues, q[p] # <<>>
                 PROVE  \E u \in Workers : pc'[u] \notin DoneLooking[p]
      BY DEF Covered, Covers
    <2>1. PICK u \in Workers : pc[u] \notin DoneLooking[p]
      BY DEF Covered, Covers, IdleInv
    <2> QED BY <2>1, <1>2
  <1> QED BY <1>1, <1>3, <1>4

\* Each cell after the step was there before it, and is w's only if w may still
\* have one in its store buffer at to.
CellsKept(w, to) ==
  \A p \in Queues : \A i \in DOMAIN q'[p] :
    \/ q'[p][i] = Nobody
    \/ q'[p][i] = w /\ to \in Early
    \/ q'[p][i] # w /\ \E j \in DOMAIN q[p] : q'[p][i] = q[p][j]

(* A step after which w covers every queue may change the queues, as long  *)
(* as it leaves no cell in a store buffer but those that were there, and   *)
(* none of w's unless w is still before its next locked instruction.       *)
LEMMA TakingStep ==
  ASSUME IdleInv, NEW w \in Workers, NEW to \in PCs,
         q' \in [Queues -> Seq(Cell)],
         pc' = [pc EXCEPT ![w] = to],
         \A p \in Queues : to \notin DoneLooking[p],
         CellsKept(w, to)
  PROVE  /\ pc' \in [Workers -> PCs]
         /\ BufferedEarly' /\ Covered'
  <1>1. pc' \in [Workers -> PCs] /\ \A u \in Workers : pc'[u] = IF u = w THEN to ELSE pc[u]
    BY DEF IdleInv, TypeOK
  <1>2. BufferedEarly'
    <2> SUFFICES ASSUME NEW p \in Queues, NEW i \in DOMAIN q'[p], NEW u \in Workers,
                        q'[p][i] = u
                 PROVE  pc'[u] \in Early
      BY DEF BufferedEarly
    <2>1. CASE u = w
      BY <2>1, <1>1, WorkerAssumption DEF CellsKept
    <2>2. CASE u # w
      <3>1. PICK j \in DOMAIN q[p] : q[p][j] = u
        BY <2>2, WorkerAssumption DEF CellsKept
      <3> QED BY <3>1, <2>2, <1>1 DEF IdleInv, BufferedEarly
    <2> QED BY <2>1, <2>2
  <1>3. Covered'
    BY <1>1 DEF Covered, Covers
  <1> QED BY <1>1, <1>2, <1>3

(* vgc_pop by a worker (scheduler.c:167-169, 175-177): the rest of the     *)
(* queue remains, with the worker's own publications visible.              *)
LEMMA PopCells ==
  ASSUME IdleInv, NEW w \in Workers, NEW p \in Queues, Pop(w, p)
  PROVE  q' \in [Queues -> Seq(Cell)] /\ \A to \in PCs : CellsKept(w, to)
  <1> DEFINE rest(r) == IF r = p THEN Tail(q[r]) ELSE q[r]
  <1>1. ASSUME NEW r \in Queues
        PROVE  /\ rest(r) \in Seq(Cell)
               /\ \A i \in DOMAIN rest(r) : \E j \in DOMAIN q[r] : rest(r)[i] = q[r][j]
    <2>1. q[r] \in Seq(Cell) /\ q[p] # <<>>
      BY DEF IdleInv, TypeOK, Cell, Pop, Ready
    <2>2. CASE r = p
      BY <2>1, <2>2, TailSeq
    <2>3. CASE r # p
      BY <2>1, <2>3
    <2> QED BY <2>2, <2>3
  <1>2. q' = [r \in Queues |-> Published(w, rest(r))]
    BY DEF Pop
  <1> HIDE DEF rest
  <1>3. ASSUME NEW r \in Queues
        PROVE  /\ q'[r] \in Seq(Cell)
               /\ DOMAIN q'[r] = DOMAIN rest(r)
               /\ \A i \in DOMAIN q'[r] :
                    q'[r][i] = IF rest(r)[i] = w THEN Nobody ELSE rest(r)[i]
    BY <1>1, <1>2, PublishedSeq
  <1>4. q' \in [Queues -> Seq(Cell)]
    BY <1>2, <1>3
  <1>5. ASSUME NEW r \in Queues, NEW i \in DOMAIN q'[r]
        PROVE  \/ q'[r][i] = Nobody
               \/ q'[r][i] # w /\ \E j \in DOMAIN q[r] : q'[r][i] = q[r][j]
    BY <1>1, <1>3
  <1> QED BY <1>4, <1>5 DEF CellsKept

(* vgc_push by a running worker (queue.c:36-55): one cell more, the        *)
(* worker's own and still unpublished; its older ones are visible.         *)
LEMMA PushCells ==
  ASSUME IdleInv, NEW w \in Workers, NEW p \in Queues, Push(w, p)
  PROVE  q' \in [Queues -> Seq(Cell)] /\ CellsKept(w, "load")
  <1>1. ASSUME NEW r \in Queues
        PROVE  /\ Published(w, q[r]) \in Seq(Cell)
               /\ DOMAIN Published(w, q[r]) = DOMAIN q[r]
               /\ \A i \in DOMAIN q[r] :
                    Published(w, q[r])[i] = IF q[r][i] = w THEN Nobody ELSE q[r][i]
    <2>1. q[r] \in Seq(Cell)
      BY DEF IdleInv, TypeOK, Cell
    <2> QED BY <2>1, PublishedSeq
  <1>2. q' = [r \in Queues |-> IF r = p THEN Append(Published(w, q[r]), w)
                                        ELSE Published(w, q[r])]
    BY DEF Push
  <1>3. ASSUME NEW r \in Queues
        PROVE  /\ q'[r] \in Seq(Cell)
               /\ \A i \in DOMAIN q'[r] :
                    \/ q'[r][i] = w
                    \/ \E j \in DOMAIN q[r] : q'[r][i] = Published(w, q[r])[j]
    <2>1. CASE r = p
      <3>1. q'[r] = Append(Published(w, q[r]), w) /\ w \in Cell
        BY <1>2, <2>1 DEF Cell
      <3> QED BY <3>1, <1>1, AppendSeq
    <2>2. CASE r # p
      BY <2>2, <1>1, <1>2
    <2> QED BY <2>1, <2>2
  <1>4. q' \in [Queues -> Seq(Cell)]
    BY <1>2, <1>3
  <1>5. ASSUME NEW r \in Queues, NEW i \in DOMAIN q'[r]
        PROVE  \/ q'[r][i] = Nobody
               \/ q'[r][i] = w
               \/ q'[r][i] # w /\ \E j \in DOMAIN q[r] : q'[r][i] = q[r][j]
    BY <1>1, <1>3
  <1> QED BY <1>4, <1>5 DEF CellsKept, Early

(* A miss under the mutex (scheduler.c:175-177) at a queue that holds a    *)
(* cell: the cell at its head is in another worker's store buffer, and     *)
(* that worker looks at every queue before it sleeps.                      *)
LEMMA MissCovered ==
  ASSUME IdleInv, NEW w \in Workers, NEW p \in Queues, CheckMiss(w, p), q[p] # <<>>
  PROVE  \E u \in Workers \ {w} : \A r \in Queues : pc[u] \notin DoneLooking[r]
  <1>1. q[p] \in Seq(Cell)
    BY DEF IdleInv, TypeOK, Cell
  <1>2. 1 \in DOMAIN q[p] /\ Head(q[p]) = q[p][1] /\ q[p][1] \in Cell
    BY <1>1, HeadTailProperties, LenProperties, EmptySeq
  <1>3. PICK u \in Workers \ {w} : q[p][1] = u
    BY <1>2 DEF CheckMiss, Ready, Cell
  <1>4. pc[u] \in Early
    BY <1>2, <1>3 DEF IdleInv, BufferedEarly
  <1> QED BY <1>3, <1>4 DEF Early, Queues, DoneLooking

(* So CheckMiss keeps the invariant: w stops covering only the queue it    *)
(* missed at.                                                              *)
LEMMA MissStep ==
  ASSUME IdleInv, NEW w \in Workers, NEW p \in Queues, CheckMiss(w, p)
  PROVE  /\ q' \in [Queues -> Seq(Cell)] /\ pc' \in [Workers -> PCs]
         /\ BufferedEarly' /\ Covered'
  <1>1. pc[w] = Check[p] /\ pc' = [pc EXCEPT ![w] = AfterCheckMiss[p]] /\ q' = q
    BY DEF CheckMiss, Goto
  <1>2. /\ AfterCheckMiss[p] \in PCs
        /\ Check[p] \notin Early
        /\ \A r \in Queues \ {p} : Check[p] \notin DoneLooking[r] =>
                                     AfterCheckMiss[p] \notin DoneLooking[r]
    BY DEF Queues, AfterCheckMiss, Check, PCs, Spin, Early, DoneLooking
  <1>3. q' \in [Queues -> Seq(Cell)] /\ pc' \in [Workers -> PCs]
    BY <1>1, <1>2 DEF IdleInv, TypeOK, Cell
  <1>4. \A u \in Workers : pc'[u] = IF u = w THEN AfterCheckMiss[p] ELSE pc[u]
    BY <1>1 DEF IdleInv, TypeOK
  <1>5. BufferedEarly'
    BY <1>1, <1>2, <1>4 DEF IdleInv, BufferedEarly
  <1>6. Covered'
    <2> SUFFICES ASSUME NEW r \in Queues, q[r] # <<>>
                 PROVE  \E u \in Workers : pc'[u] \notin DoneLooking[r]
      BY <1>1 DEF Covered, Covers
    <2>1. CASE r = p
      BY <2>1, <1>4, MissCovered
    <2>2. CASE r # p
      <3>1. PICK u \in Workers : pc[u] \notin DoneLooking[r]
        BY DEF IdleInv, Covered, Covers
      <3> QED BY <3>1, <2>2, <1>1, <1>2, <1>4
    <2> QED BY <2>1, <2>2
  <1> QED BY <1>3, <1>5, <1>6

(* uv_cond_broadcast (queue.c:87) only adds workers that will look.        *)
LEMMA BroadcastStep ==
  ASSUME IdleInv, NEW w \in Workers, Broadcast(w)
  PROVE  /\ q' \in [Queues -> Seq(Cell)] /\ pc' \in [Workers -> PCs]
         /\ BufferedEarly' /\ Covered'
  <1>1. /\ q' = q
        /\ pc[w] = "bcast"
        /\ \A u \in Workers : pc'[u] = IF u = w THEN "bcast_unlock"
                              ELSE IF pc[u] = "sleep" THEN "woken" ELSE pc[u]
    BY DEF Broadcast
  <1>2. q' \in [Queues -> Seq(Cell)] /\ pc' \in [Workers -> PCs]
    BY DEF IdleInv, TypeOK, Cell, Broadcast, PCs
  <1>3. BufferedEarly'
    BY <1>1 DEF IdleInv, BufferedEarly, Early
  <1>4. Covered'
    <2> SUFFICES ASSUME NEW p \in Queues, q[p] # <<>>
                 PROVE  \E u \in Workers : pc'[u] \notin DoneLooking[p]
      BY <1>1 DEF Covered, Covers
    <2>1. PICK u \in Workers : pc[u] \notin DoneLooking[p]
      BY DEF IdleInv, Covered, Covers
    <2> QED BY <2>1, <1>1 DEF Queues, DoneLooking
  <1> QED BY <1>2, <1>3, <1>4

\* The other variables keep their types.
ScalarsOK ==
  /\ flag \in BOOLEAN
  /\ sbuf \in Workers \cup {Nobody}
  /\ mux \in Workers \cup {Nobody}
  /\ pushes \in 0..MaxPush

(* The types of is_waiter, the store buffer, waiter_mux and the push       *)
(* count are kept by every step.                                           *)
LEMMA ScalarsKept ==
  ASSUME IdleInv, Next
  PROVE  ScalarsOK'
  <1> USE DEF ScalarsOK, IdleInv, TypeOK, Drain
  <1>1. PICK w \in Workers : Step(w) \/ StoreDrains(w) \/ SpuriousWake(w)
    BY DEF Next
  <1>2. ASSUME StoreDrains(w) PROVE ScalarsOK'
    BY <1>2 DEF StoreDrains
  <1>3. ASSUME SpuriousWake(w) PROVE ScalarsOK'
    BY <1>3 DEF SpuriousWake
  <1>4. ASSUME NEW p \in Queues, SpinHit(w, p) \/ SpinMiss(w, p) \/ CheckHit(w, p)
                                 \/ CheckMiss(w, p) \/ Push(w, p)
        PROVE  ScalarsOK'
    <2>1. CASE SpinHit(w, p) \/ CheckHit(w, p)
      BY <2>1 DEF SpinHit, CheckHit, Pop
    <2>2. CASE SpinMiss(w, p) \/ CheckMiss(w, p)
      BY <2>2 DEF SpinMiss, CheckMiss
    <2>3. CASE Push(w, p)
      <3>1. pushes' \in 0..MaxPush
        BY <2>3, PushAssumption DEF Push
      <3> QED BY <2>3, <3>1 DEF Push
    <2> QED BY <1>4, <2>1, <2>2, <2>3
  <1>5. ASSUME IdleLock(w) \/ WokenLock(w) \/ BroadcastLock(w) PROVE ScalarsOK'
    BY <1>5 DEF IdleLock, WokenLock, BroadcastLock, Lock
  <1>6. ASSUME SetFlag(w) \/ CondWait(w) \/ ClearFlag(w) \/ IdleUnlock(w) \/ LoadFlag(w)
               \/ Broadcast(w) \/ BroadcastUnlock(w) \/ Return(w)
        PROVE  ScalarsOK'
    BY <1>6 DEF SetFlag, CondWait, ClearFlag, IdleUnlock, LoadFlag, Broadcast,
                BroadcastUnlock, Return
  <1> QED BY <1>1, <1>2, <1>3, <1>4, <1>5, <1>6 DEF Step

(* Every step of an idle or running worker keeps the parts of IdleInv that *)
(* are about the queues.                                                   *)
LEMMA QueuesKept ==
  ASSUME IdleInv, Next
  PROVE  /\ q' \in [Queues -> Seq(Cell)] /\ pc' \in [Workers -> PCs]
         /\ BufferedEarly' /\ Covered'
  <1> DEFINE Kept == /\ q' \in [Queues -> Seq(Cell)] /\ pc' \in [Workers -> PCs]
                     /\ BufferedEarly' /\ Covered'
  <1>1. PICK w \in Workers : Step(w) \/ StoreDrains(w) \/ SpuriousWake(w)
    BY DEF Next
  <1> DEFINE Quiet(from, to) ==
               /\ to \in PCs
               /\ from \in Early => to \in Early
               /\ \A p \in Queues : from \notin DoneLooking[p] => to \notin DoneLooking[p]
             Publishing == q' = [p \in Queues |-> Published(w, q[p])]
  <1>2. ASSUME NEW from \in PCs, NEW to \in PCs, Goto(w, from, to), Quiet(from, to), q' = q
        PROVE  Kept
    BY <1>2, QuietStep DEF Goto
  <1>3. ASSUME NEW from \in PCs, NEW to \in PCs, Goto(w, from, to), Publishing,
               \A p \in Queues : from \notin DoneLooking[p] => to \notin DoneLooking[p]
        PROVE  Kept
    BY <1>3, PublishStep DEF Goto
  <1> HIDE DEF Kept, Quiet, Publishing
  <1>4. ASSUME StoreDrains(w) PROVE Kept
    <2>1. Publishing /\ Goto(w, pc[w], pc[w]) /\ pc[w] \in PCs
      BY <1>4 DEF StoreDrains, Publishing, Goto, IdleInv, TypeOK
    <2> QED BY <1>3, <2>1
  <1>5. ASSUME SpuriousWake(w) PROVE Kept
    BY <1>2, <1>5 DEF SpuriousWake, Quiet, PCs, Early, Queues, DoneLooking
  <1>6. ASSUME NEW p \in Queues, SpinHit(w, p) PROVE Kept
    <2>1. Pop(w, p) /\ pc' = [pc EXCEPT ![w] = "run"]
      BY <1>6 DEF SpinHit, Goto
    <2>2. "run" \in PCs /\ \A r \in Queues : "run" \notin DoneLooking[r]
      BY DEF PCs, Queues, DoneLooking
    <2>3. q' \in [Queues -> Seq(Cell)] /\ \A to \in PCs : CellsKept(w, to)
      BY <2>1, PopCells
    <2>4. pc' \in [Workers -> PCs] /\ BufferedEarly' /\ Covered'
      BY <2>1, <2>2, <2>3, TakingStep
    <2> QED BY <2>3, <2>4 DEF Kept
  <1>7. ASSUME NEW p \in Queues, SpinMiss(w, p) PROVE Kept
    <2>1. Quiet(Spin[p], AfterSpinMiss[p]) /\ Spin[p] \in PCs /\ AfterSpinMiss[p] \in PCs
      BY DEF Quiet, PCs, Early, Queues, DoneLooking, Spin, Check, AfterSpinMiss
    <2> QED BY <1>2, <1>7, <2>1 DEF SpinMiss
  <1>8. ASSUME IdleLock(w) PROVE Kept
    BY <1>3, <1>8 DEF IdleLock, Lock, Publishing, PCs, Queues, DoneLooking
  <1>9. ASSUME WokenLock(w) PROVE Kept
    BY <1>3, <1>9 DEF WokenLock, Lock, Publishing, PCs, Queues, DoneLooking
  <1>10. ASSUME SetFlag(w) PROVE Kept
    <2>1. Quiet("flag", "check_hi") /\ "flag" \in PCs /\ "check_hi" \in PCs
      BY DEF Quiet, PCs, Early, Queues, DoneLooking, Check
    <2> QED BY <1>2, <1>10, <2>1 DEF SetFlag
  <1>11. ASSUME NEW p \in Queues, CheckHit(w, p) PROVE Kept
    <2>1. Pop(w, p) /\ pc' = [pc EXCEPT ![w] = "clear"]
      BY <1>11 DEF CheckHit, Goto
    <2>2. "clear" \in PCs /\ \A r \in Queues : "clear" \notin DoneLooking[r]
      BY DEF PCs, Queues, DoneLooking
    <2>3. q' \in [Queues -> Seq(Cell)] /\ \A to \in PCs : CellsKept(w, to)
      BY <2>1, PopCells
    <2>4. pc' \in [Workers -> PCs] /\ BufferedEarly' /\ Covered'
      BY <2>1, <2>2, <2>3, TakingStep
    <2> QED BY <2>3, <2>4 DEF Kept
  <1>12. ASSUME NEW p \in Queues, CheckMiss(w, p) PROVE Kept
    BY <1>12, MissStep DEF Kept
  <1>13. ASSUME CondWait(w) PROVE Kept
    BY <1>2, <1>13 DEF CondWait, Quiet, PCs, Early, Queues, DoneLooking
  <1>14. ASSUME ClearFlag(w) PROVE Kept
    BY <1>2, <1>14 DEF ClearFlag, Quiet, PCs, Early, Queues, DoneLooking
  <1>15. ASSUME IdleUnlock(w) PROVE Kept
    BY <1>2, <1>15 DEF IdleUnlock, Quiet, PCs, Early, Queues, DoneLooking
  <1>16. ASSUME NEW p \in Queues, Push(w, p) PROVE Kept
    <2>1. pc' = [pc EXCEPT ![w] = "load"]
      BY <1>16 DEF Push, Goto
    <2>2. "load" \in PCs /\ "load" \in Early /\ \A r \in Queues : "load" \notin DoneLooking[r]
      BY DEF PCs, Queues, DoneLooking, Early
    <2>3. q' \in [Queues -> Seq(Cell)] /\ CellsKept(w, "load")
      BY <1>16, PushCells
    <2>4. pc' \in [Workers -> PCs] /\ BufferedEarly' /\ Covered'
      BY <2>1, <2>2, <2>3, TakingStep
    <2> QED BY <2>3, <2>4 DEF Kept
  <1>17. ASSUME LoadFlag(w) PROVE Kept
    <2> DEFINE to == IF flag THEN "bcast_lock" ELSE "run"
    <2>1. Quiet("load", to) /\ "load" \in PCs /\ to \in PCs
      BY DEF Quiet, PCs, Early, Queues, DoneLooking
    <2> QED BY <1>2, <1>17, <2>1 DEF LoadFlag
  <1>18. ASSUME BroadcastLock(w) PROVE Kept
    BY <1>3, <1>18 DEF BroadcastLock, Lock, Publishing, PCs, Queues, DoneLooking
  <1>19. ASSUME Broadcast(w) PROVE Kept
    BY <1>19, BroadcastStep DEF Kept
  <1>20. ASSUME BroadcastUnlock(w) PROVE Kept
    BY <1>2, <1>20 DEF BroadcastUnlock, Quiet, PCs, Early, Queues, DoneLooking
  <1>21. ASSUME Return(w) PROVE Kept
    <2>1. Quiet("run", "spin_hi") /\ "run" \in PCs /\ "spin_hi" \in PCs
      BY DEF Quiet, PCs, Early, Queues, DoneLooking, Spin
    <2> QED BY <1>2, <1>21, <2>1 DEF Return
  <1> QED
    BY <1>1, <1>4, <1>5, <1>6, <1>7, <1>8, <1>9, <1>10, <1>11, <1>12, <1>13, <1>14, <1>15,
       <1>16, <1>17, <1>18, <1>19, <1>20, <1>21 DEF Step, Kept

(* The idle-wait protocol of vgc_enqueue and vgc_scheduler_run keeps its   *)
(* invariant: every non-empty queue has a worker that looks at it before   *)
(* it sleeps, in every state.                                              *)
THEOREM IdleInvariant == Spec => []IdleInv
  <1>1. Init => IdleInv
    <2> SUFFICES ASSUME Init PROVE IdleInv
      OBVIOUS
    <2>1. <<Nobody>> \in Seq(Cell) /\ DOMAIN <<Nobody>> = {1} /\ <<Nobody>>[1] = Nobody
      BY DEF Cell
    <2>2. <<>> \in Seq(Cell) /\ DOMAIN <<>> = {}
      BY EmptySeq
    <2>3. q \in [Queues -> Seq(Cell)]
      BY <2>1, <2>2 DEF Init
    <2>4. TypeOK
      <3>1. pc \in [Workers -> PCs]
        BY DEF Init, PCs, Spin, Queues
      <3>2. flag \in BOOLEAN
        BY Zenon DEF Init
      <3>3. sbuf \in Cell /\ mux \in Cell
        BY DEF Init, Cell
      <3>4. pushes \in 0..MaxPush
        BY PushAssumption DEF Init
      <3> QED BY <2>3, <3>1, <3>2, <3>3, <3>4 DEF TypeOK, Cell
    <2>5. BufferedEarly
      BY <2>1, <2>2, WorkerAssumption DEF Init, BufferedEarly, Early
    <2>6. Covered
      BY WorkerAssumption DEF Init, Covered, Covers, Queues, DoneLooking
    <2> QED BY <2>4, <2>5, <2>6 DEF IdleInv
  <1>2. IdleInv /\ [Next]_vars => IdleInv'
    <2> SUFFICES ASSUME IdleInv, [Next]_vars PROVE IdleInv'
      OBVIOUS
    <2>1. CASE Next
      BY <2>1, ScalarsKept, QueuesKept DEF IdleInv, TypeOK, ScalarsOK, Cell
    <2>2. CASE UNCHANGED vars
      BY <2>2 DEF vars, IdleInv, TypeOK, BufferedEarly, Covered, Covers
    <2> QED BY <2>1, <2>2
  <1> QED BY <1>1, <1>2, PTL DEF Spec

(* No lost wakeup: the workers are never all asleep in uv_cond_wait        *)
(* (scheduler.c:178) while a fiber is queued, whatever the store buffers   *)
(* delay, for any number of workers and pushes.                            *)
THEOREM NoLostWakeup == Spec => []NeverAllAsleepWithWork
  <1>1. IdleInv => NeverAllAsleepWithWork
    BY WorkerAssumption
       DEF IdleInv, NeverAllAsleepWithWork, Asleep, Work, Covered, Covers, Queues, DoneLooking
  <1> QED BY <1>1, IdleInvariant, PTL

(* Mutual exclusion of the waiter_mux sections of vgc_enqueue              *)
(* (queue.c:86-88) and vgc_scheduler_run (scheduler.c:172-182), with the   *)
(* sleep in the middle that gives the mutex up, for any number of workers. *)
THEOREM MutexHolds == Spec => []CriticalUnderMutex
  <1>1. Init => CriticalUnderMutex
    BY WorkerAssumption DEF Init, CriticalUnderMutex, Critical
  <1>2. IdleInv /\ CriticalUnderMutex /\ [Next]_vars => CriticalUnderMutex'
    <2> SUFFICES ASSUME IdleInv, CriticalUnderMutex, [Next]_vars PROVE CriticalUnderMutex'
      OBVIOUS
    <2>0. pc \in [Workers -> PCs] /\ Nobody \notin Workers
      BY WorkerAssumption DEF IdleInv, TypeOK
    <2> USE <2>0
    <2>1. ASSUME NEW w \in Workers, NEW from, NEW to, Goto(w, from, to), mux' = mux,
                 from \in Critical <=> to \in Critical
          PROVE  CriticalUnderMutex'
      BY <2>1 DEF CriticalUnderMutex, Goto
    <2>2. ASSUME NEW w \in Workers, NEW from, NEW to, Goto(w, from, to), mux = Nobody,
                 mux' = w, to \in Critical
          PROVE  CriticalUnderMutex'
      BY <2>2 DEF CriticalUnderMutex, Goto
    <2>3. ASSUME NEW w \in Workers, NEW from, NEW to, Goto(w, from, to), mux' = Nobody,
                 from \in Critical, to \notin Critical
          PROVE  CriticalUnderMutex'
      BY <2>3 DEF CriticalUnderMutex, Goto
    <2>4. ASSUME NEW w \in Workers, Step(w) \/ StoreDrains(w) \/ SpuriousWake(w)
          PROVE  CriticalUnderMutex'
      <3>1. ASSUME StoreDrains(w) PROVE CriticalUnderMutex'
        BY <3>1 DEF StoreDrains, CriticalUnderMutex
      <3>2. ASSUME SpuriousWake(w) \/ SetFlag(w) \/ ClearFlag(w) PROVE CriticalUnderMutex'
        BY <2>1, <3>2 DEF SpuriousWake, SetFlag, ClearFlag, Critical
      <3>3. ASSUME NEW p \in Queues, SpinHit(w, p) \/ SpinMiss(w, p) PROVE CriticalUnderMutex'
        BY <2>1, <3>3 DEF SpinHit, SpinMiss, Critical, Queues, Spin, AfterSpinMiss
      <3>4. ASSUME NEW p \in Queues, CheckHit(w, p) \/ CheckMiss(w, p) PROVE CriticalUnderMutex'
        BY <2>1, <3>4 DEF CheckHit, CheckMiss, Critical, Queues, Check, AfterCheckMiss
      <3>5. ASSUME IdleLock(w) \/ WokenLock(w) \/ BroadcastLock(w) PROVE CriticalUnderMutex'
        BY <2>2, <3>5 DEF IdleLock, WokenLock, BroadcastLock, Lock, Critical
      <3>6. ASSUME CondWait(w) \/ IdleUnlock(w) \/ BroadcastUnlock(w) PROVE CriticalUnderMutex'
        BY <2>3, <3>6 DEF CondWait, IdleUnlock, BroadcastUnlock, Critical
      <3>7. ASSUME NEW p \in Queues, Push(w, p) PROVE CriticalUnderMutex'
        BY <2>1, <3>7 DEF Push, Critical
      <3>8. ASSUME LoadFlag(w) \/ Return(w) PROVE CriticalUnderMutex'
        BY <2>1, <3>8 DEF LoadFlag, Return, Critical
      <3>9. ASSUME Broadcast(w) PROVE CriticalUnderMutex'
        BY <3>9 DEF Broadcast, CriticalUnderMutex, Critical
      <3> QED BY <2>4, <3>1, <3>2, <3>3, <3>4, <3>5, <3>6, <3>7, <3>8, <3>9 DEF Step
    <2>5. CASE UNCHANGED vars
      BY <2>5 DEF vars, CriticalUnderMutex
    <2> QED BY <2>4, <2>5 DEF Next
  <1> QED BY <1>1, <1>2, IdleInvariant, PTL DEF Spec
=============================================================================
