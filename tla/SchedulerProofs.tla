-------------------------- MODULE SchedulerProofs --------------------------
(***************************************************************************)
(* Proofs about Scheduler, for every set of workers and fibers and every   *)
(* number of rounds, jobs and nestings.                                    *)
(*                                                                         *)
(* A fiber is in one place: the pool, one queue, one worker, or popped by  *)
(* a job that is being scheduled; a fiber in none of them sleeps.  The     *)
(* counter of a fiber is the number of its jobs that are under way plus    *)
(* those it has yet to schedule, so that it reaches zero once, at the last *)
(* of them.  A fiber that sleeps is a waiter of its own counter and either *)
(* that counter is not zero or a worker is about to wake it.  All of this  *)
(* rests on each lock having one holder, which in turn rests on InTurn.    *)
(***************************************************************************)
EXTENDS Scheduler, FiniteSetTheorems, SequenceTheorems, TLAPS

(* The hypothesis of the theorems.  It rules out the one thing that the    *)
(* code should see to and does not: that a fiber which has been woken      *)
(* initialises the counter of its next round while the worker that woke it *)
(* has yet to release the counter of the last one (scheduler.c:201, 212).  *)
InTurn ==
  \A w \in Workers :
    Running(w, "start") /\ body'[cur[w]].pc = "enque" =>
      \A v \in Workers : wpc[v] \in {"zero", "wake", "wake_publish", "unlock"} =>
                           Parent(v) # cur[w]

-----------------------------------------------------------------------------
(* The inductive invariant. *)

Distinct(s) == \A i, j \in 1..Len(s) : s[i] = s[j] => i = j

Queued == UNION {Rng(q[p]) : p \in Priorities}

(* A worker is looking for work, has a fiber whose job has not been        *)
(* counted off yet, or one whose job has (Over).                           *)
Look   == {"hi", "mid", "lo"}
Counts == {"done", "load", "store"}
Busy   == {"run", "add", "park"} \cup Counts \cup Over
Round  == {"enque", "push", "publish", "wait", "test"}

FiberData == [state : {"START", "RUN", "WAIT", "DONE"}, priority : Priorities,
              parent : Fibers \cup {NoFiber}]
CounterData == [lock : {0, 1}, counter : Int, waiters : Seq(Fibers)]
BodyData == [pc : Round \cup {"start"}, round : Nat, depth : Nat, len : Nat, todo : Nat,
             got : Fibers \cup {NoFiber}]

\* The types of the state.
SchedTypeOK ==
  /\ q \in [Priorities -> Seq(Fibers)]
  /\ pool \in Seq(Fibers)
  /\ wpc \in [Workers -> Look \cup Busy \cup {"free_publish"}]
  /\ cur \in [Workers -> Fibers \cup {NoFiber}]
  /\ wtmp \in [Workers -> Int]
  /\ fd \in [Fibers -> FiberData]
  /\ cnt \in [Fibers -> CounterData]
  /\ body \in [Fibers -> BodyData]

(* A worker has a fiber, unless it is looking for one.                     *)
Holding ==
  /\ \A w \in Workers : wpc[w] \in Busy \cup {"free_publish"} => cur[w] \in Fibers
  /\ \A w \in Workers : wpc[w] \notin Busy \cup {"free_publish"} => cur[w] = NoFiber

(* The pool and the queues hold a fiber once.                              *)
Apart ==
  /\ Distinct(pool)
  /\ \A p \in Priorities : Distinct(q[p])
  /\ \A p, r \in Priorities, f \in Fibers : f \in Rng(q[p]) /\ f \in Rng(q[r]) => p = r
  /\ \A f \in Fibers : ~(f \in Free /\ f \in Queued)

(* A worker's fiber is nowhere else.                                       *)
Exclusive ==
  /\ \A w \in Workers : wpc[w] \in Busy => cur[w] \notin Free /\ cur[w] \notin Queued
  /\ \A v, w \in Workers : wpc[v] \in Busy /\ wpc[w] \in Busy /\ cur[v] = cur[w] => v = w

(* Neither is the fiber that vgc_enque_job has popped and not yet pushed.  *)
Popped ==
  /\ \A g \in Fibers : body[g].got # NoFiber => body[g].pc \in {"push", "publish"}
  /\ \A g \in Fibers : body[g].pc \in {"push", "publish"} => body[g].todo > 0
  /\ \A g \in Fibers : body[g].pc = "push" =>
       /\ body[g].got \in Fibers /\ body[g].got \notin Free /\ body[g].got \notin Queued
       /\ \A w \in Workers : wpc[w] \in Busy => cur[w] # body[g].got
       /\ fd[body[g].got].state \notin {"RUN", "WAIT"}
       /\ body[body[g].got].pc = "start"
  /\ \A g, h \in Fibers :
       body[g].pc = "push" /\ body[h].pc = "push" /\ body[g].got = body[h].got => g = h

(* What the state in fiber_data tells of where the fiber is.               *)
States ==
  /\ \A w \in Workers : wpc[w] = "run" => fd[cur[w]].state = "RUN"
  /\ \A w \in Workers : wpc[w] \in {"add", "park"} => fd[cur[w]].state = "WAIT"
  /\ \A w \in Workers : wpc[w] \in Counts \cup Over =>
       /\ fd[cur[w]].state = "DONE" /\ body[cur[w]].pc = "start"
       /\ Parent(w) \in Fibers /\ cur[w] # Root
  /\ \A f \in Fibers : f \in Free => fd[f].state \notin {"RUN", "WAIT"} /\ f # Root
  /\ \A f \in Fibers : f = Root \/ f \in Free \/ fd[f].parent \in Fibers
  /\ \A f \in Fibers : f \in Free \/ f \in Queued \/ fd[f].state = "WAIT" =>
       body[f].pc = "start"

(* A counter is the number of the jobs that are under way and of those not *)
(* scheduled yet.                                                          *)
Counting == \A f \in Fibers : cnt[f].counter = Cardinality(Out(f)) + Left(f)

(* It is zero between rounds.                                              *)
Between ==
  /\ \A f \in Fibers : f \in Free \/ f \in Queued => cnt[f].counter = 0
  /\ \A g \in Fibers : body[g].pc = "push" => cnt[body[g].got].counter = 0
  /\ \A w \in Workers : wpc[w] \in {"run"} \cup Counts \cup Over /\ body[cur[w]].pc = "start" =>
       cnt[cur[w]].counter = 0

(* Who holds the lock of a counter, and of which.                          *)
InLock(w) ==
  \/ wpc[w] \in {"add", "park", "load", "store", "zero", "wake", "wake_publish", "unlock"}
  \/ wpc[w] = "run" /\ body[cur[w]].pc = "test"
LockOf(w) == IF wpc[w] \in Counts \cup Over THEN Parent(w) ELSE cur[w]

Locks ==
  /\ \A w \in Workers : InLock(w) => cnt[LockOf(w)].lock = 1
  /\ \A v, w \in Workers : InLock(v) /\ InLock(w) /\ LockOf(v) = LockOf(w) => v = w

(* What a worker has read or tested under the lock stays true.             *)
Tested ==
  /\ \A w \in Workers : wpc[w] = "store" => wtmp[w] = cnt[Parent(w)].counter
  /\ \A w \in Workers : wpc[w] = "zero" => wtmp[w] = 0
  /\ \A w \in Workers : wpc[w] = "wake" => wtmp[w] \in {0, 1}
  /\ \A w \in Workers : wpc[w] = "wake_publish" => wtmp[w] = 1
  /\ \A w \in Workers : wpc[w] \in {"wake", "wake_publish"} => cnt[Parent(w)].counter = 0
  /\ \A w \in Workers : wpc[w] \in {"add", "park"} => cnt[cur[w]].counter # 0

Unplaced(f) ==
  /\ f \notin Free /\ f \notin Queued
  /\ \A w \in Workers : wpc[w] \in Busy => cur[w] # f
  /\ \A g \in Fibers : body[g].pc = "push" => body[g].got # f

Asleep(f) == fd[f].state = "WAIT" /\ f \notin Queued

(* Only the fiber itself waits on its counter.                             *)
Listed ==
  /\ \A f \in Fibers : cnt[f].waiters = <<>> \/ cnt[f].waiters = <<f>>
  /\ \A f \in Fibers : body[f].pc \in Round => cnt[f].waiters = <<>>
  /\ \A w \in Workers : wpc[w] = "add" => cnt[cur[w]].waiters = <<>>

(* A fiber that is nowhere else waits.                                     *)
Somewhere == \A f \in Fibers : Unplaced(f) => fd[f].state = "WAIT"

(* Who sleeps is or will be a waiter, and has jobs to wait for or is about *)
(* to be woken ...                                                         *)
Sleeping ==
  /\ \A f \in Fibers : Asleep(f) =>
       \/ cnt[f].waiters = <<f>>
       \/ \E w \in Workers : wpc[w] = "add" /\ cur[w] = f
  /\ \A f \in Fibers : Asleep(f) =>
       \/ cnt[f].counter # 0
       \/ \E w \in Workers : wpc[w] \in {"zero", "wake"} /\ Parent(w) = f /\ wtmp[w] = 0

(* ... and who is about to be woken sleeps.                                *)
Woken ==
  /\ \A f \in Fibers : cnt[f].waiters # <<>> /\ cnt[f].counter # 0 => Asleep(f)
  /\ \A w \in Workers, f \in Fibers :
       /\ wpc[w] \in {"zero", "wake"} /\ wtmp[w] = 0 /\ Parent(w) = f
       /\ cnt[f].counter = 0 /\ cnt[f].waiters # <<>>
       => Asleep(f)

SchedInv ==
  /\ SchedTypeOK /\ Holding /\ Apart /\ Exclusive /\ Popped /\ States
  /\ Counting /\ Between /\ Locks /\ Tested
  /\ Listed /\ Somewhere /\ Sleeping /\ Woken

-----------------------------------------------------------------------------
(* Sequences whose elements are distinct. *)

\* What is left of a sequence of distinct elements without its first.
LEMMA TailFacts ==
  ASSUME NEW S, NEW s \in Seq(S), s # <<>>, Distinct(s)
  PROVE  /\ Head(s) \in S /\ Head(s) \in Rng(s)
         /\ Tail(s) \in Seq(S) /\ Distinct(Tail(s))
         /\ Rng(Tail(s)) = Rng(s) \ {Head(s)}
<1>1. /\ Tail(s) \in Seq(S) /\ Len(s) \in Nat /\ Len(s) > 0
      /\ Len(Tail(s)) = Len(s) - 1
      /\ \A i \in 1..Len(Tail(s)) : Tail(s)[i] = s[i+1]
      /\ Head(s) = s[1]
  OBVIOUS
<1>2. Distinct(Tail(s))
  BY <1>1 DEF Distinct
<1>3. ASSUME NEW x \in Rng(s) \ {Head(s)} PROVE x \in Rng(Tail(s))
  <2>1. PICK i \in 1..Len(s) : x = s[i]
    BY <1>3 DEF Rng
  <2>2. i # 1 /\ i - 1 \in 1..Len(Tail(s)) /\ Tail(s)[i-1] = x
    BY <1>1, <1>3, <2>1
  <2> QED  BY <2>2 DEF Rng
<1>4. ASSUME NEW x \in Rng(Tail(s)) PROVE x \in Rng(s) \ {Head(s)}
  <2>1. PICK i \in 1..Len(Tail(s)) : x = Tail(s)[i]
    BY <1>4 DEF Rng
  <2>2. i + 1 \in 1..Len(s) /\ 1 \in 1..Len(s) /\ s[i+1] = x /\ i + 1 # 1
    BY <1>1, <2>1
  <2>3. s[i+1] # s[1]
    BY <2>2 DEF Distinct
  <2> QED  BY <1>1, <2>2, <2>3 DEF Rng
<1>5. Head(s) \in S /\ Head(s) \in Rng(s)
  BY <1>1 DEF Rng
<1> QED  BY <1>1, <1>2, <1>3, <1>4, <1>5

\* And with one more at its end.
LEMMA AppendFacts ==
  ASSUME NEW S, NEW s \in Seq(S), NEW x \in S, x \notin Rng(s), Distinct(s)
  PROVE  /\ Append(s, x) \in Seq(S) /\ Distinct(Append(s, x))
         /\ Rng(Append(s, x)) = Rng(s) \cup {x}
<1> DEFINE t == Append(s, x)
<1>1. /\ t \in Seq(S) /\ Len(s) \in Nat /\ Len(t) = Len(s) + 1
      /\ \A i \in 1..Len(s) : t[i] = s[i]
      /\ t[Len(s) + 1] = x
  OBVIOUS
<1>2. Distinct(t)
  BY <1>1 DEF Distinct, Rng
<1>3. \A y : y \in Rng(t) => y \in Rng(s) \cup {x}
  BY <1>1 DEF Rng
<1>4. \A y : y \in Rng(s) => y \in Rng(t)
  BY <1>1 DEF Rng
<1>5. x \in Rng(t)
  <2>1. Len(s) + 1 \in 1..Len(t)
    BY <1>1
  <2> QED  BY <1>1, <2>1 DEF Rng
<1> QED  BY <1>1, <1>2, <1>3, <1>4, <1>5

-----------------------------------------------------------------------------
(* The queues and the pool. *)

\* vgc_pop of a queue: the fiber was in this queue and is in none now.
LEMMA DequeueFacts ==
  ASSUME SchedTypeOK, Apart, NEW p \in Priorities, q[p] # <<>>,
         q' = [q EXCEPT ![p] = Tail(@)], UNCHANGED pool
  PROVE  /\ Head(q[p]) \in Fibers /\ Head(q[p]) \in Queued /\ Head(q[p]) \notin Free
         /\ Queued' = Queued \ {Head(q[p])} /\ Free' = Free
         /\ q' \in [Priorities -> Seq(Fibers)] /\ Apart'
<1> DEFINE f == Head(q[p])
<1>1. /\ f \in Fibers /\ f \in Rng(q[p])
      /\ Tail(q[p]) \in Seq(Fibers) /\ Distinct(Tail(q[p]))
      /\ Rng(Tail(q[p])) = Rng(q[p]) \ {f}
  BY TailFacts DEF SchedTypeOK, Apart
<1>2. q'[p] = Tail(q[p]) /\ \A r \in Priorities : r # p => q'[r] = q[r]
  BY DEF SchedTypeOK
<1>3. q' \in [Priorities -> Seq(Fibers)]
  BY <1>1 DEF SchedTypeOK
<1>4. \A r \in Priorities : Rng(q'[r]) = Rng(q[r]) \ {f}
  <2> TAKE r \in Priorities
  <2>1. r # p => f \notin Rng(q[r])
    BY <1>1 DEF Apart
  <2> QED  BY <1>1, <1>2, <2>1
<1>5. Queued' = Queued \ {f}
  <2>1. \A x : x \in Queued' <=> \E r \in Priorities : x \in Rng(q'[r])
    BY DEF Queued
  <2>2. \A x : x \in Queued <=> \E r \in Priorities : x \in Rng(q[r])
    BY DEF Queued
  <2>3. \A r \in Priorities : \A x : x \in Rng(q'[r]) <=> x \in Rng(q[r]) /\ x # f
    BY <1>4
  <2> HIDE DEF f
  <2>4. \A x : x \in Queued' <=> x \in Queued /\ x # f
    BY <2>1, <2>2, <2>3
  <2> QED  BY <2>4
<1>6. f \in Queued /\ f \notin Free
  BY <1>1 DEF Queued, Apart
<1>7. Free' = Free
  BY DEF Free
<1>8. Apart'
  <2>1. Distinct(pool)' /\ \A r \in Priorities : Distinct(q'[r])
    BY <1>1, <1>2 DEF Apart
  <2>2. \A r, t \in Priorities, g \in Fibers : g \in Rng(q'[r]) /\ g \in Rng(q'[t]) => r = t
    BY <1>4 DEF Apart
  <2>3. \A g \in Fibers : ~(g \in Free' /\ g \in Queued')
    BY <1>5, <1>7 DEF Apart
  <2> QED  BY <2>1, <2>2, <2>3 DEF Apart
<1> QED  BY <1>1, <1>3, <1>5, <1>6, <1>7, <1>8

\* vgc_push to a queue of a fiber that is in none.
LEMMA EnqueueFacts ==
  ASSUME SchedTypeOK, Apart, NEW p \in Priorities, NEW f \in Fibers,
         f \notin Queued, f \notin Free, Enqueue(p, f), UNCHANGED pool
  PROVE  /\ Queued' = Queued \cup {f} /\ Free' = Free
         /\ q' \in [Priorities -> Seq(Fibers)] /\ Apart'
<1>1. \A r \in Priorities : f \notin Rng(q[r])
  BY DEF Queued
<1>2. /\ Append(q[p], f) \in Seq(Fibers) /\ Distinct(Append(q[p], f))
      /\ Rng(Append(q[p], f)) = Rng(q[p]) \cup {f}
  BY <1>1, AppendFacts DEF SchedTypeOK, Apart
<1>3. q'[p] = Append(q[p], f) /\ \A r \in Priorities : r # p => q'[r] = q[r]
  BY DEF SchedTypeOK, Enqueue
<1>4. q' \in [Priorities -> Seq(Fibers)]
  BY <1>2 DEF SchedTypeOK, Enqueue
<1>5. Rng(q'[p]) = Rng(q[p]) \cup {f} /\ \A r \in Priorities : r # p => Rng(q'[r]) = Rng(q[r])
  BY <1>2, <1>3
<1>6. Queued' = Queued \cup {f}
  BY <1>5 DEF Queued
<1>7. Free' = Free
  BY DEF Free
<1>8. Apart'
  <2>1. Distinct(pool)' /\ \A r \in Priorities : Distinct(q'[r])
    BY <1>2, <1>3 DEF Apart
  <2>2. \A r, t \in Priorities, g \in Fibers : g \in Rng(q'[r]) /\ g \in Rng(q'[t]) => r = t
    BY <1>1, <1>5 DEF Apart
  <2>3. \A g \in Fibers : ~(g \in Free' /\ g \in Queued')
    BY <1>6, <1>7 DEF Apart
  <2> QED  BY <2>1, <2>2, <2>3 DEF Apart
<1> QED  BY <1>4, <1>6, <1>7, <1>8

\* vgc_pop of the pool of free fibers.
LEMMA PoolPopFacts ==
  ASSUME SchedTypeOK, Apart, pool # <<>>, pool' = Tail(pool), UNCHANGED q
  PROVE  /\ Head(pool) \in Fibers /\ Head(pool) \in Free
         /\ Free' = Free \ {Head(pool)} /\ Queued' = Queued
         /\ pool' \in Seq(Fibers) /\ Apart'
<1>1. /\ Head(pool) \in Fibers /\ Head(pool) \in Rng(pool)
      /\ Tail(pool) \in Seq(Fibers) /\ Distinct(Tail(pool))
      /\ Rng(Tail(pool)) = Rng(pool) \ {Head(pool)}
  BY TailFacts DEF SchedTypeOK, Apart
<1>2. Free' = Free \ {Head(pool)} /\ Queued' = Queued
  BY <1>1 DEF Free, Queued
<1>3. Apart'
  BY <1>1, <1>2 DEF Apart
<1> QED  BY <1>1, <1>2, <1>3 DEF Free

\* vgc_push of a fiber back to the pool.
LEMMA PoolPushFacts ==
  ASSUME SchedTypeOK, Apart, NEW f \in Fibers, f \notin Free, f \notin Queued,
         pool' = Append(pool, f), UNCHANGED q
  PROVE  /\ Free' = Free \cup {f} /\ Queued' = Queued
         /\ pool' \in Seq(Fibers) /\ Apart'
<1>1. /\ Append(pool, f) \in Seq(Fibers) /\ Distinct(Append(pool, f))
      /\ Rng(Append(pool, f)) = Rng(pool) \cup {f}
  BY AppendFacts DEF SchedTypeOK, Apart, Free
<1>2. Free' = Free \cup {f} /\ Queued' = Queued
  BY <1>1 DEF Free, Queued
<1>3. Apart'
  BY <1>1, <1>2 DEF Apart
<1> QED  BY <1>1, <1>2, <1>3

\* Neither moves.
LEMMA SameQueues ==
  ASSUME Apart, UNCHANGED <<q, pool>>
  PROVE  Free' = Free /\ Queued' = Queued /\ Apart'
<1>1. Free' = Free /\ Queued' = Queued
  BY DEF Free, Queued
<1> QED  BY <1>1 DEF Apart

-----------------------------------------------------------------------------
(* Types. *)

\* An assignment to the state of a fiber.
LEMMA SetState ==
  ASSUME SchedTypeOK, NEW f \in Fibers, NEW s \in {"START", "RUN", "WAIT", "DONE"},
         fd' = [fd EXCEPT ![f].state = s]
  PROVE  /\ fd' \in [Fibers -> FiberData]
         /\ fd'[f].state = s /\ fd'[f].parent = fd[f].parent
         /\ \A g \in Fibers : g # f => fd'[g] = fd[g]
<1>1. fd \in [Fibers -> FiberData] /\ fd[f] \in FiberData
  BY DEF SchedTypeOK
<1>2. [fd[f] EXCEPT !.state = s] \in FiberData
  BY <1>1 DEF FiberData
<1>3. fd' = [fd EXCEPT ![f] = [fd[f] EXCEPT !.state = s]]
  BY <1>1
<1>4. fd' \in [Fibers -> FiberData] /\ \A g \in Fibers : g # f => fd'[g] = fd[g]
  BY <1>1, <1>2, <1>3
<1>5. fd'[f].state = s /\ fd'[f].parent = fd[f].parent
  BY <1>1 DEF FiberData
<1> QED  BY <1>4, <1>5

\* Taking or releasing the lock of a counter.
LEMMA SetLock ==
  ASSUME SchedTypeOK, NEW f \in Fibers, NEW x \in {0, 1},
         cnt' = [cnt EXCEPT ![f].lock = x]
  PROVE  /\ cnt' \in [Fibers -> CounterData]
         /\ cnt'[f].lock = x
         /\ \A g \in Fibers : g # f => cnt'[g].lock = cnt[g].lock
         /\ \A g \in Fibers : cnt'[g].counter = cnt[g].counter /\ cnt'[g].waiters = cnt[g].waiters
<1>1. cnt \in [Fibers -> CounterData] /\ cnt[f] \in CounterData
  BY DEF SchedTypeOK
<1>2. [cnt[f] EXCEPT !.lock = x] \in CounterData
  BY <1>1 DEF CounterData
<1>3. cnt' = [cnt EXCEPT ![f] = [cnt[f] EXCEPT !.lock = x]]
  BY <1>1
<1>4. cnt' \in [Fibers -> CounterData] /\ \A g \in Fibers : g # f => cnt'[g] = cnt[g]
  BY <1>1, <1>2, <1>3
<1>5. cnt'[f].lock = x /\ cnt'[f].counter = cnt[f].counter /\ cnt'[f].waiters = cnt[f].waiters
  BY <1>1 DEF CounterData
<1> QED  BY <1>4, <1>5

-----------------------------------------------------------------------------
(* Counting. *)

\* A counter is kept when the same jobs are under way and left.
LEMMA SameCount ==
  ASSUME Counting,
         \A f \in Fibers : fd'[f].parent = fd[f].parent /\ Active(f)' = Active(f),
         \A f \in Fibers : cnt'[f].counter = cnt[f].counter /\ Left(f)' = Left(f)
  PROVE  Counting' /\ \A f \in Fibers : Out(f)' = Out(f)
<1>1. ASSUME NEW f \in Fibers PROVE Out(f)' = Out(f)
  BY DEF Out
<1> QED  BY <1>1 DEF Counting

\* What is under way can be counted.
LEMMA OutFinite ==
  ASSUME NEW f \in Fibers
  PROVE  /\ IsFiniteSet(Out(f)) /\ Cardinality(Out(f)) \in Nat
         /\ Cardinality(Out(f)) = 0 <=> Out(f) = {}
<1>1. IsFiniteSet(Out(f))
  BY FS_Subset, FiberAssumption DEF Out
<1> QED  BY <1>1, FS_CardinalityType, FS_EmptySet

-----------------------------------------------------------------------------
(* What a step of one worker leaves to the others. *)

\* Whoever runs, counts or holds a lock is busy with a fiber.
LEMMA PcFacts ==
  /\ \A x : x \in {"run", "add", "park"} \/ x \in Counts \/ x \in Over => x \in Busy
  /\ \A x : x \in {"done", "load", "store"} => x \in Busy
  /\ \A x : x \in {"zero", "wake", "wake_publish", "unlock", "free"} => x \in Busy
  /\ \A v \in Workers : InLock(v) => wpc[v] \in Busy
BY DEF Counts, Over, Busy, InLock

(* The fibers that a step of w may change: those in the pool, in a queue   *)
(* or its own.                                                             *)
LEMMA OthersFibers ==
  ASSUME Exclusive, Holding, NEW w \in Workers,
         \A v \in Workers : v # w => wpc'[v] = wpc[v] /\ cur'[v] = cur[v],
         NEW X \in SUBSET Fibers,
         \A x \in X : x \in Free \/ x \in Queued \/ (wpc[w] \in Busy /\ x = cur[w]),
         \A g \in Fibers : g \notin X => fd'[g] = fd[g] /\ body'[g] = body[g],
         NEW v \in Workers, v # w, wpc[v] \in Busy
  PROVE  /\ cur[v] \in Fibers /\ cur[v] \notin X
         /\ fd'[cur'[v]] = fd[cur[v]] /\ body'[cur'[v]] = body[cur[v]]
         /\ Parent(v)' = Parent(v) /\ (InLock(v)' <=> InLock(v)) /\ LockOf(v)' = LockOf(v)
<1>1. cur[v] \in Fibers
  BY DEF Holding
<1>2. cur[v] \notin X
  BY DEF Exclusive
<1>3. fd'[cur'[v]] = fd[cur[v]] /\ body'[cur'[v]] = body[cur[v]]
  BY <1>1, <1>2
<1>4. Parent(v)' = Parent(v)
  BY <1>3 DEF Parent
<1>5. (InLock(v)' <=> InLock(v))
  BY <1>3 DEF InLock
<1>6. LockOf(v)' = LockOf(v)
  BY <1>4 DEF LockOf
<1> QED  BY <1>1, <1>2, <1>3, <1>4, <1>5, <1>6

\* A lock is a fiber's.
LEMMA LockOfFiber ==
  ASSUME Holding, States
  PROVE  \A v \in Workers : InLock(v) => LockOf(v) \in Fibers
BY PcFacts DEF Holding, States, LockOf

-----------------------------------------------------------------------------
(* Looking for work. *)

\* A worker takes the first fiber of a queue and runs it.
LEMMA TakeKeeps ==
  ASSUME SchedInv, NEW w \in Workers, NEW p \in Priorities, Take(w, p)
  PROVE  SchedInv'
<1>1. PICK f \in Fibers : f = Head(q[p])
  BY DequeueFacts DEF SchedInv, Take, Ready
<1>2. /\ f \in Queued /\ f \notin Free
      /\ Queued' = Queued \ {f} /\ Free' = Free
      /\ q' \in [Priorities -> Seq(Fibers)] /\ Apart'
  BY <1>1, DequeueFacts DEF SchedInv, Take, Ready
<1>3. /\ wpc[w] \in Look /\ wpc'[w] = "run" /\ cur'[w] = f
      /\ \A v \in Workers : v # w => wpc'[v] = wpc[v] /\ cur'[v] = cur[v]
  BY <1>1 DEF SchedInv, SchedTypeOK, Take, Goto, Priorities, Look
<1>4. /\ fd'[f].state = "RUN" /\ fd'[f].parent = fd[f].parent
      /\ \A g \in Fibers : g # f => fd'[g] = fd[g]
  BY <1>1, SetState DEF SchedInv, Take
<1>5. pool' = pool /\ wtmp' = wtmp /\ cnt' = cnt /\ body' = body
  BY DEF Take
<1>6. \A v \in Workers : v # w /\ wpc[v] \in Busy =>
        /\ cur[v] \in Fibers /\ cur[v] # f
        /\ fd'[cur'[v]] = fd[cur[v]]
        /\ Parent(v)' = Parent(v) /\ (InLock(v)' <=> InLock(v)) /\ LockOf(v)' = LockOf(v)
  <2> TAKE v \in Workers
  <2> DEFINE X == {f}
  <2>1. X \in SUBSET Fibers /\ \A x \in X : x \in Free \/ x \in Queued \/ (wpc[w] \in Busy /\ x = cur[w])
    BY <1>2
  <2>2. \A g \in Fibers : g \notin X => fd'[g] = fd[g] /\ body'[g] = body[g]
    BY <1>4, <1>5
  <2> HIDE DEF X
  <2>3. v # w /\ wpc[v] \in Busy =>
        /\ cur[v] \in Fibers /\ cur[v] \notin X
        /\ fd'[cur'[v]] = fd[cur[v]]
        /\ Parent(v)' = Parent(v) /\ (InLock(v)' <=> InLock(v)) /\ LockOf(v)' = LockOf(v)
    BY <1>3, <2>1, <2>2, OthersFibers DEF SchedInv
  <2> QED  BY <2>3 DEF X
<1>7. SchedTypeOK'
  <2>1. wpc' \in [Workers -> Look \cup Busy \cup {"free_publish"}]
    BY DEF SchedInv, SchedTypeOK, Take, Goto, Busy
  <2>2. cur' \in [Workers -> Fibers \cup {NoFiber}]
    BY <1>1 DEF SchedInv, SchedTypeOK, Take
  <2>3. fd' \in [Fibers -> FiberData]
    BY <1>1, SetState DEF SchedInv, Take
  <2> QED  BY <1>2, <1>5, <2>1, <2>2, <2>3 DEF SchedInv, SchedTypeOK
<1>8. /\ wpc[w] \notin Busy /\ wpc'[w] \in Busy
      /\ wpc[w] \notin Over /\ wpc'[w] \notin Over /\ wpc'[w] \notin Counts
      /\ wpc[w] # "add" /\ wpc'[w] \notin {"add", "park"} /\ wpc[w] \notin {"zero", "wake"}
  BY <1>3 DEF Look, Busy, Counts, Over
<1>9. Holding' /\ Exclusive'
  BY <1>2, <1>3, <1>8 DEF SchedInv, Exclusive, Holding
<1>10. Popped'
  BY <1>2, <1>3, <1>4, <1>5, <1>8 DEF SchedInv, Popped
<1>11. States'
  <2>1. \A v \in Workers : wpc'[v] = "run" => fd'[cur'[v]].state = "RUN"
    BY <1>3, <1>4, <1>6, PcFacts DEF SchedInv, States
  <2>2. \A v \in Workers : wpc'[v] \in {"add", "park"} => fd'[cur'[v]].state = "WAIT"
    BY <1>3, <1>6, <1>8, PcFacts DEF SchedInv, States
  <2>3. \A v \in Workers : wpc'[v] \in Counts \cup Over =>
       /\ fd'[cur'[v]].state = "DONE" /\ body'[cur'[v]].pc = "start"
       /\ Parent(v)' \in Fibers /\ cur'[v] # Root
    BY <1>3, <1>5, <1>6, <1>8, PcFacts DEF SchedInv, States
  <2>4. \A g \in Fibers : g \in Free' => fd'[g].state \notin {"RUN", "WAIT"} /\ g # Root
    BY <1>2, <1>4 DEF SchedInv, States
  <2>5. \A g \in Fibers : g = Root \/ g \in Free' \/ fd'[g].parent \in Fibers
    BY <1>2, <1>4 DEF SchedInv, States
  <2>6. \A g \in Fibers : g \in Free' \/ g \in Queued' \/ fd'[g].state = "WAIT" =>
       body'[g].pc = "start"
    BY <1>2, <1>4, <1>5 DEF SchedInv, States
  <2> QED  BY <2>1, <2>2, <2>3, <2>4, <2>5, <2>6 DEF States
<1>12. Counting'
  BY <1>2, <1>3, <1>4, <1>5, <1>8, SameCount DEF SchedInv, Active, Left
<1>13. Between'
  BY <1>2, <1>3, <1>4, <1>5, <1>8 DEF SchedInv, Between
<1>14. Locks'
  <2>1. ~InLock(w)'
    BY <1>2, <1>3, <1>5 DEF SchedInv, States, InLock
  <2>2. \A v \in Workers : InLock(v)' => v # w /\ InLock(v) /\ LockOf(v)' = LockOf(v)
    BY <1>3, <1>6, <2>1, PcFacts DEF InLock
  <2> QED  BY <1>5, <2>2 DEF SchedInv, Locks
<1>15. Tested'
  BY <1>3, <1>5, <1>6, <1>8, PcFacts DEF SchedInv, Tested
<1>16. Listed'
  BY <1>3, <1>5, <1>8 DEF SchedInv, Listed
<1>17. Somewhere'
  <2>1. ASSUME NEW g \in Fibers, Unplaced(g)' PROVE g # f /\ Unplaced(g)
    BY <1>2, <1>3, <1>5, <1>8, <2>1 DEF Unplaced
  <2> QED  BY <1>4, <2>1 DEF SchedInv, Somewhere
<1>18. \A g \in Fibers : Asleep(g)' <=> Asleep(g)
  BY <1>2, <1>4 DEF Asleep
<1>19. Sleeping'
  BY <1>3, <1>5, <1>6, <1>8, <1>18, PcFacts DEF SchedInv, Sleeping
<1>20. Woken'
  BY <1>3, <1>5, <1>6, <1>8, <1>18, PcFacts DEF SchedInv, Woken, States
<1> QED  BY <1>2, <1>7, <1>9, <1>10, <1>11, <1>12, <1>13, <1>14, <1>15, <1>16, <1>17, <1>19, <1>20 DEF SchedInv

-----------------------------------------------------------------------------
(* Steps that move a worker within a phase. *)

\* The phases of vgc_scheduler_run that the invariant tells apart.
SamePhase(x, y) ==
  \/ x \in Look /\ y \in Look
  \/ x \in {"add", "park"} /\ y \in {"add", "park"}
  \/ x \in Counts /\ y \in Counts
  \/ x \in Over /\ y \in Over

\* A worker that goes on within a phase stays in the classes above.
LEMMA PhaseFacts ==
  ASSUME NEW x, NEW y, SamePhase(x, y)
  PROVE  /\ x \in Look <=> y \in Look
         /\ x \in Busy <=> y \in Busy
         /\ x \in {"add", "park"} <=> y \in {"add", "park"}
         /\ x \in Counts <=> y \in Counts
         /\ x \in Over <=> y \in Over
         /\ x # "run" /\ y # "run" /\ x # "free_publish" /\ y # "free_publish"
BY DEF SamePhase, Look, Busy, Counts, Over

(* The step changes only the worker's place, the locks and the waiters.    *)
Moves(w) ==
  /\ SamePhase(wpc[w], wpc'[w])
  /\ \E x \in Look \cup Busy : wpc' = [wpc EXCEPT ![w] = x]
  /\ cur' = cur /\ q' = q /\ pool' = pool /\ fd' = fd /\ body' = body
  /\ \A f \in Fibers : cnt'[f].counter = cnt[f].counter

(* What it leaves.                                                         *)
Unmoved(w) ==
  /\ \A f \in Fibers : Asleep(f)' <=> Asleep(f)
  /\ \A v \in Workers : Parent(v)' = Parent(v) /\ LockOf(v)' = LockOf(v) /\ cur'[v] = cur[v]
  /\ \A v \in Workers : v # w => wpc'[v] = wpc[v] /\ (InLock(v)' <=> InLock(v))

\* A worker goes on without changing a fiber, a counter or a queue.
LEMMA MovesKeeps ==
  ASSUME SchedInv, NEW w \in Workers, Moves(w)
  PROVE  /\ wpc' \in [Workers -> Look \cup Busy \cup {"free_publish"}]
         /\ Apart' /\ Holding' /\ Exclusive' /\ Popped' /\ States'
         /\ Counting' /\ Between' /\ Somewhere'
         /\ Unmoved(w)
<1>1. wpc' \in [Workers -> Look \cup Busy \cup {"free_publish"}]
  BY DEF Moves, SchedInv, SchedTypeOK
<1>2. \A v \in Workers : v # w => wpc'[v] = wpc[v]
  BY DEF Moves, SchedInv, SchedTypeOK
<1>3. \A v \in Workers :
        /\ wpc[v] \in Busy <=> wpc'[v] \in Busy
        /\ wpc[v] \in {"add", "park"} <=> wpc'[v] \in {"add", "park"}
        /\ wpc[v] \in Counts <=> wpc'[v] \in Counts
        /\ wpc[v] \in Over <=> wpc'[v] \in Over
        /\ wpc[v] = "run" <=> wpc'[v] = "run"
        /\ wpc[v] = "free_publish" <=> wpc'[v] = "free_publish"
  BY <1>2, PhaseFacts DEF Moves
<1>4. cur' = cur /\ fd' = fd /\ body' = body /\ \A f \in Fibers : cnt'[f].counter = cnt[f].counter
  BY DEF Moves
<1>5. Free' = Free /\ Queued' = Queued /\ Apart'
  BY SameQueues DEF Moves, SchedInv
<1>6. \A v \in Workers : Parent(v)' = Parent(v)
  BY <1>4 DEF Parent
<1>7. \A v \in Workers : LockOf(v)' = LockOf(v)
  BY <1>3, <1>4, <1>6 DEF LockOf
<1>8. \A v \in Workers : v # w => (InLock(v)' <=> InLock(v))
  BY <1>2, <1>4 DEF InLock
<1>9. Holding' /\ Exclusive'
  BY <1>3, <1>4, <1>5 DEF SchedInv, Holding, Exclusive
<1>10. Popped'
  BY <1>3, <1>4, <1>5 DEF SchedInv, Popped
<1>11. States'
  BY <1>3, <1>4, <1>5, <1>6 DEF SchedInv, States
<1>12. Counting'
  BY <1>3, <1>4, <1>5, SameCount DEF SchedInv, Active, Left
<1>13. Between'
  <2>1. /\ \A f \in Fibers : f \in Free' \/ f \in Queued' => cnt'[f].counter = 0
        /\ \A g \in Fibers : body'[g].pc = "push" => cnt'[body'[g].got].counter = 0
    BY <1>4, <1>5 DEF SchedInv, Between, Popped
  <2>2. ASSUME NEW v \in Workers, wpc'[v] \in {"run"} \cup Counts \cup Over, body'[cur'[v]].pc = "start"
        PROVE  cnt'[cur'[v]].counter = 0
    <3>1. cur[v] \in Fibers /\ cnt[cur[v]].counter = 0
      BY <1>3, <1>4, <2>2, PcFacts DEF SchedInv, Between, Holding
    <3> QED  BY <1>4, <3>1
  <2> QED  BY <2>1, <2>2 DEF Between
<1>14. Somewhere'
  BY <1>3, <1>4, <1>5 DEF SchedInv, Somewhere, Unplaced
<1>15. \A f \in Fibers : Asleep(f)' <=> Asleep(f)
  BY <1>4, <1>5 DEF Asleep
<1>16. Unmoved(w)
  BY <1>2, <1>4, <1>6, <1>7, <1>8, <1>15 DEF Unmoved
<1> QED  BY <1>1, <1>5, <1>9, <1>10, <1>11, <1>12, <1>13, <1>14, <1>16

\* A worker finds a queue empty and looks at the next.
LEMMA MissKeeps ==
  ASSUME SchedInv, NEW w \in Workers, NEW p \in Priorities, Miss(w, p)
  PROVE  SchedInv'
<1>1. wpc[w] \in Look /\ wpc'[w] \in Look /\ wpc' = [wpc EXCEPT ![w] = wpc'[w]]
  BY DEF SchedInv, SchedTypeOK, Miss, Goto, AfterMiss, Priorities, Look
<1>2. wtmp' = wtmp /\ cnt' = cnt /\ body' = body /\ Moves(w)
  BY <1>1 DEF Miss, Moves, SamePhase
<1>3. Unmoved(w)
  BY <1>2, MovesKeeps
<1>4. wpc[w] \notin Busy /\ wpc'[w] \notin Busy /\ ~InLock(w) /\ ~InLock(w)'
  BY <1>1 DEF Look, Busy, Counts, Over, InLock
<1>5. SchedTypeOK'
  BY <1>2, MovesKeeps DEF SchedInv, SchedTypeOK, Moves
<1>6. Locks'
  BY <1>2, <1>3, <1>4 DEF SchedInv, Locks, Unmoved
<1>7. Tested'
  BY <1>2, <1>3, <1>4, PcFacts DEF SchedInv, Tested, Unmoved
<1>8. Listed'
  BY <1>2, <1>3, <1>4, PcFacts DEF SchedInv, Listed, Unmoved
<1>9. Sleeping' /\ Woken'
  BY <1>2, <1>3, <1>4, PcFacts DEF SchedInv, Sleeping, Woken, Unmoved
<1> QED  BY <1>2, <1>5, <1>6, <1>7, <1>8, <1>9, MovesKeeps DEF SchedInv

\* scheduler.c:191: the parked fiber becomes a waiter of its counter.
LEMMA AddWaiterKeeps ==
  ASSUME SchedInv, NEW w \in Workers, AddWaiter(w)
  PROVE  SchedInv'
<1> DEFINE f == cur[w]
<1>1. wpc[w] = "add" /\ wpc'[w] = "park" /\ wpc' = [wpc EXCEPT ![w] = "park"]
  BY DEF SchedInv, SchedTypeOK, AddWaiter, Goto
<1>2. f \in Fibers /\ cnt[f].waiters = <<>> /\ cnt[f] \in CounterData
  BY <1>1, PcFacts DEF SchedInv, SchedTypeOK, Holding, Listed
<1>3. /\ \A g \in Fibers : g # f => cnt'[g] = cnt[g]
      /\ cnt'[f].lock = cnt[f].lock /\ cnt'[f].counter = cnt[f].counter
      /\ cnt'[f].waiters = <<f>> /\ cnt'[f].waiters # <<>>
      /\ cnt' \in [Fibers -> CounterData]
  <2>1. cnt' = [cnt EXCEPT ![f] = [cnt[f] EXCEPT !.waiters = Append(<<>>, f)]]
    BY <1>2 DEF AddWaiter, SchedInv, SchedTypeOK
  <2>2. Append(<<>>, f) = <<f>> /\ <<f>> \in Seq(Fibers) /\ <<f>> # <<>>
    BY <1>2
  <2>3. [cnt[f] EXCEPT !.waiters = <<f>>] \in CounterData
    BY <1>2, <2>2 DEF CounterData
  <2>4. cnt \in [Fibers -> CounterData]
    BY DEF SchedInv, SchedTypeOK
  <2>5. cnt'[f] = [cnt[f] EXCEPT !.waiters = <<f>>]
    BY <1>2, <2>1, <2>2, <2>4
  <2>6. cnt' \in [Fibers -> CounterData] /\ \A g \in Fibers : g # f => cnt'[g] = cnt[g]
    BY <1>2, <2>1, <2>2, <2>3, <2>4
  <2> QED  BY <1>2, <2>2, <2>5, <2>6 DEF CounterData
<1>4. Moves(w)
  BY <1>1, <1>3 DEF AddWaiter, Moves, SamePhase, Busy
<1>5. Unmoved(w)
  BY <1>4, MovesKeeps
<1>6. wtmp' = wtmp /\ body' = body
  BY DEF AddWaiter
<1>7. InLock(w) /\ LockOf(w) = f
  BY <1>1 DEF InLock, LockOf, Counts, Over
<1>8. fd[f].state = "WAIT" /\ f \notin Queued /\ body[f].pc = "start"
  BY <1>1, <1>2, PcFacts DEF SchedInv, States, Exclusive
<1>9. cnt[f].counter # 0 /\ Asleep(f)
  BY <1>1, <1>8 DEF SchedInv, Tested, Asleep
<1> HIDE DEF f
<1>10. SchedTypeOK'
  BY <1>3, <1>4, <1>6, MovesKeeps DEF SchedInv, SchedTypeOK, Moves
<1>11. \A v \in Workers : InLock(v) => LockOf(v) \in Fibers
  BY LockOfFiber DEF SchedInv
<1>12. Locks'
  <2>1. \A g \in Fibers : cnt'[g].lock = cnt[g].lock
    BY <1>3
  <2> QED  BY <1>5, <1>7, <1>11, <2>1 DEF SchedInv, Locks, Unmoved
<1>13. Tested'
  <2>1. \A g \in Fibers : cnt'[g].counter = cnt[g].counter
    BY <1>3
  <2> QED  BY <1>1, <1>5, <1>6, <1>11, <2>1, PcFacts DEF SchedInv, Tested, Holding, States, Unmoved, Counts, Over
<1>14. Listed'
  <2>1. \A v \in Workers : wpc'[v] = "add" => v # w /\ cur'[v] \in Fibers /\ cur'[v] # f
    BY <1>1, <1>5, PcFacts DEF SchedInv, Holding, Exclusive, Unmoved, f
  <2>2. "start" \notin Round
    BY DEF Round
  <2> QED  BY <1>1, <1>3, <1>5, <1>6, <1>8, <2>1, <2>2 DEF SchedInv, Listed, Unmoved
<1>15. Sleeping'
  BY <1>1, <1>3, <1>5, <1>6 DEF SchedInv, Sleeping, Unmoved, f
<1>16. Woken'
  BY <1>1, <1>3, <1>5, <1>6, <1>9 DEF SchedInv, Woken, Unmoved
<1> QED  BY <1>4, <1>10, <1>12, <1>13, <1>14, <1>15, <1>16, MovesKeeps DEF SchedInv

\* The lock that a finished fiber's worker takes, uses and releases.
LEMMA DoneParent ==
  ASSUME SchedInv, NEW w \in Workers, wpc[w] \in Counts \cup Over
  PROVE  /\ Parent(w) \in Fibers /\ LockOf(w) = Parent(w)
         /\ wpc[w] \notin {"done", "free"} => InLock(w)
BY DEF SchedInv, States, LockOf, InLock, Counts, Over

\* scheduler.c:195: the counter of the finished job is locked,
LEMMA DoneAcquireKeeps ==
  ASSUME SchedInv, NEW w \in Workers, DoneAcquire(w)
  PROVE  SchedInv'
<1> DEFINE f == Parent(w)
<1>1. wpc[w] = "done" /\ wpc'[w] = "load" /\ wpc' = [wpc EXCEPT ![w] = "load"]
  BY DEF SchedInv, SchedTypeOK, DoneAcquire, Goto
<1>2. f \in Fibers /\ LockOf(w) = f
  BY <1>1, DoneParent DEF Counts
<1>3. /\ cnt[f].lock = 0 /\ cnt' \in [Fibers -> CounterData] /\ cnt'[f].lock = 1
      /\ \A g \in Fibers : g # f => cnt'[g].lock = cnt[g].lock
      /\ \A g \in Fibers : cnt'[g].counter = cnt[g].counter /\ cnt'[g].waiters = cnt[g].waiters
  BY <1>2, SetLock DEF DoneAcquire, Acquire, SchedInv
<1>4. Moves(w)
  BY <1>1, <1>3 DEF DoneAcquire, Moves, SamePhase, Busy, Counts
<1>5. Unmoved(w)
  BY <1>4, MovesKeeps
<1>6. wtmp' = wtmp /\ body' = body
  BY DEF DoneAcquire
<1> HIDE DEF f
<1>7. SchedTypeOK'
  BY <1>3, <1>4, <1>6, MovesKeeps DEF SchedInv, SchedTypeOK, Moves
<1>8. \A v \in Workers : InLock(v) => LockOf(v) \in Fibers
  BY LockOfFiber DEF SchedInv
<1>9. Locks'
  <2>1. \A v \in Workers : InLock(v) => LockOf(v) # f
    BY <1>3 DEF SchedInv, Locks
  <2> QED  BY <1>2, <1>3, <1>5, <1>8, <2>1 DEF SchedInv, Locks, Unmoved
<1>10. Tested'
  BY <1>1, <1>3, <1>5, <1>6, PcFacts DEF SchedInv, Tested, Holding, States, Unmoved, Counts, Over
<1>11. Listed'
  BY <1>1, <1>3, <1>5, <1>6, PcFacts DEF SchedInv, Listed, Holding, Unmoved
<1>12. Sleeping' /\ Woken'
  BY <1>1, <1>3, <1>5, <1>6 DEF SchedInv, Sleeping, Woken, Unmoved
<1> QED  BY <1>4, <1>7, <1>9, <1>10, <1>11, <1>12, MovesKeeps DEF SchedInv

\* and read for the decrement.
LEMMA CounterLoadKeeps ==
  ASSUME SchedInv, NEW w \in Workers, CounterLoad(w)
  PROVE  SchedInv'
<1>1. wpc[w] = "load" /\ wpc'[w] = "store" /\ wpc' = [wpc EXCEPT ![w] = "store"]
  BY DEF SchedInv, SchedTypeOK, CounterLoad, Goto
<1>2. Parent(w) \in Fibers /\ InLock(w)
  BY <1>1, DoneParent DEF Counts
<1>3. cnt[Parent(w)].counter \in Int
  BY <1>2 DEF SchedInv, SchedTypeOK, CounterData
<1>4. /\ wtmp' \in [Workers -> Int] /\ wtmp'[w] = cnt[Parent(w)].counter
      /\ \A v \in Workers : v # w => wtmp'[v] = wtmp[v]
  BY <1>3 DEF CounterLoad, SchedInv, SchedTypeOK
<1>5. Moves(w)
  BY <1>1 DEF CounterLoad, Moves, SamePhase, Busy, Counts
<1>6. Unmoved(w)
  BY <1>5, MovesKeeps
<1>7. cnt' = cnt /\ body' = body
  BY DEF CounterLoad
<1>8. SchedTypeOK'
  BY <1>4, <1>5, <1>7, MovesKeeps DEF SchedInv, SchedTypeOK, Moves
<1>9. Locks'
  BY <1>2, <1>6, <1>7 DEF SchedInv, Locks, Unmoved
<1>10. Tested'
  BY <1>1, <1>4, <1>6, <1>7 DEF SchedInv, Tested, Unmoved
<1>11. Listed'
  BY <1>1, <1>6, <1>7 DEF SchedInv, Listed, Unmoved
<1>12. Sleeping' /\ Woken'
  BY <1>1, <1>4, <1>6, <1>7 DEF SchedInv, Sleeping, Woken, Unmoved
<1> QED  BY <1>5, <1>8, <1>9, <1>10, <1>11, <1>12, MovesKeeps DEF SchedInv

\* The decremented counter is compared with zero.
LEMMA CounterTestKeeps ==
  ASSUME SchedInv, NEW w \in Workers, CounterTest(w)
  PROVE  SchedInv'
<1>1. /\ wpc[w] = "zero" /\ wpc' = [wpc EXCEPT ![w] = wpc'[w]]
      /\ \/ wpc'[w] = "wake" /\ cnt[Parent(w)].counter = 0
         \/ wpc'[w] = "unlock" /\ cnt[Parent(w)].counter # 0
  BY DEF SchedInv, SchedTypeOK, CounterTest, Goto
<1>2. Parent(w) \in Fibers /\ InLock(w) /\ wtmp[w] = 0
  BY <1>1, DoneParent DEF Over, SchedInv, Tested
<1>3. Moves(w)
  BY <1>1 DEF CounterTest, Moves, SamePhase, Busy, Over
<1>4. Unmoved(w)
  BY <1>3, MovesKeeps
<1>5. wtmp' = wtmp /\ cnt' = cnt /\ body' = body
  BY DEF CounterTest
<1>6. SchedTypeOK'
  BY <1>3, <1>5, MovesKeeps DEF SchedInv, SchedTypeOK, Moves
<1>7. Locks'
  BY <1>2, <1>4, <1>5 DEF SchedInv, Locks, Unmoved
<1>8. Tested'
  BY <1>1, <1>2, <1>4, <1>5 DEF SchedInv, Tested, Unmoved
<1>9. Listed'
  BY <1>1, <1>4, <1>5 DEF SchedInv, Listed, Unmoved
<1>10. Sleeping' /\ Woken'
  BY <1>1, <1>2, <1>4, <1>5 DEF SchedInv, Sleeping, Woken, Unmoved
<1> QED  BY <1>3, <1>6, <1>7, <1>8, <1>9, <1>10, MovesKeeps DEF SchedInv

\* The push of a woken fiber is published.
LEMMA WakePublishKeeps ==
  ASSUME SchedInv, NEW w \in Workers, WakePublish(w)
  PROVE  SchedInv'
<1>1. wpc[w] = "wake_publish" /\ wpc'[w] = "wake" /\ wpc' = [wpc EXCEPT ![w] = "wake"]
  BY DEF SchedInv, SchedTypeOK, WakePublish, Goto
<1>2. Parent(w) \in Fibers /\ InLock(w) /\ wtmp[w] = 1 /\ cnt[Parent(w)].counter = 0
  BY <1>1, DoneParent DEF Over, SchedInv, Tested
<1>3. Moves(w)
  BY <1>1 DEF WakePublish, Moves, SamePhase, Busy, Over
<1>4. Unmoved(w)
  BY <1>3, MovesKeeps
<1>5. wtmp' = wtmp /\ cnt' = cnt /\ body' = body
  BY DEF WakePublish
<1>6. SchedTypeOK'
  BY <1>3, <1>5, MovesKeeps DEF SchedInv, SchedTypeOK, Moves
<1>7. Locks'
  BY <1>2, <1>4, <1>5 DEF SchedInv, Locks, Unmoved
<1>8. Tested'
  BY <1>1, <1>2, <1>4, <1>5 DEF SchedInv, Tested, Unmoved
<1>9. Listed'
  BY <1>1, <1>4, <1>5 DEF SchedInv, Listed, Unmoved
<1>10. Sleeping' /\ Woken'
  BY <1>1, <1>2, <1>4, <1>5 DEF SchedInv, Sleeping, Woken, Unmoved
<1> QED  BY <1>3, <1>6, <1>7, <1>8, <1>9, <1>10, MovesKeeps DEF SchedInv

\* No waiter is left to wake.
LEMMA WakeEndKeeps ==
  ASSUME SchedInv, NEW w \in Workers, WakeEnd(w)
  PROVE  SchedInv'
<1>1. /\ wpc[w] = "wake" /\ wpc'[w] = "unlock" /\ wpc' = [wpc EXCEPT ![w] = "unlock"]
      /\ wtmp[w] + 1 > Len(cnt[Parent(w)].waiters)
  BY DEF SchedInv, SchedTypeOK, WakeEnd, Goto
<1>2. /\ Parent(w) \in Fibers /\ InLock(w) /\ LockOf(w) = Parent(w) /\ wtmp[w] \in {0, 1}
      /\ cnt[Parent(w)].counter = 0
  BY <1>1, DoneParent DEF Over, SchedInv, Tested
<1>3. Moves(w)
  BY <1>1 DEF WakeEnd, Moves, SamePhase, Busy, Over
<1>4. Unmoved(w)
  BY <1>3, MovesKeeps
<1>5. wtmp' = wtmp /\ cnt' = cnt /\ body' = body
  BY DEF WakeEnd
<1>6. SchedTypeOK'
  BY <1>3, <1>5, MovesKeeps DEF SchedInv, SchedTypeOK, Moves
<1>7. Locks'
  BY <1>2, <1>4, <1>5 DEF SchedInv, Locks, Unmoved
<1>8. Tested'
  BY <1>1, <1>2, <1>4, <1>5 DEF SchedInv, Tested, Unmoved
<1>9. Listed'
  BY <1>1, <1>4, <1>5 DEF SchedInv, Listed, Unmoved
<1>10. wtmp[w] = 0 => ~Asleep(Parent(w))
  <2>1. SUFFICES ASSUME wtmp[w] = 0, Asleep(Parent(w)) PROVE FALSE
    OBVIOUS
  <2>2. cnt[Parent(w)].waiters = <<Parent(w)>> => Len(cnt[Parent(w)].waiters) = 1
    OBVIOUS
  <2>3. cnt[Parent(w)].waiters # <<Parent(w)>>
    <3>1. 0 + 1 > Len(cnt[Parent(w)].waiters)
      BY <1>1, <2>1
    <3> QED  BY <2>2, <3>1
  <2>4. PICK v \in Workers : wpc[v] = "add" /\ cur[v] = Parent(w)
    BY <1>2, <2>1, <2>3 DEF SchedInv, Sleeping
  <2>5. InLock(v) /\ LockOf(v) = Parent(w)
    BY <2>4 DEF InLock, LockOf, Counts, Over
  <2> QED  BY <1>1, <1>2, <2>4, <2>5 DEF SchedInv, Locks
<1>11. Sleeping' /\ Woken'
  BY <1>1, <1>2, <1>4, <1>5, <1>10 DEF SchedInv, Sleeping, Woken, Unmoved
<1> QED  BY <1>3, <1>6, <1>7, <1>8, <1>9, <1>11, MovesKeeps DEF SchedInv

\* scheduler.c:212: the counter is released.
LEMMA DoneReleaseKeeps ==
  ASSUME SchedInv, NEW w \in Workers, DoneRelease(w)
  PROVE  SchedInv'
<1> DEFINE f == Parent(w)
<1>1. wpc[w] = "unlock" /\ wpc'[w] = "free" /\ wpc' = [wpc EXCEPT ![w] = "free"]
  BY DEF SchedInv, SchedTypeOK, DoneRelease, Goto
<1>2. f \in Fibers /\ LockOf(w) = f /\ InLock(w) /\ ~InLock(w)'
  BY <1>1, DoneParent DEF Over, InLock
<1>3. /\ cnt' \in [Fibers -> CounterData]
      /\ \A g \in Fibers : g # f => cnt'[g].lock = cnt[g].lock
      /\ \A g \in Fibers : cnt'[g].counter = cnt[g].counter /\ cnt'[g].waiters = cnt[g].waiters
  BY <1>2, SetLock DEF DoneRelease, Release, SchedInv
<1>4. Moves(w)
  BY <1>1, <1>3 DEF DoneRelease, Moves, SamePhase, Busy, Over
<1>5. Unmoved(w)
  BY <1>4, MovesKeeps
<1>6. wtmp' = wtmp /\ body' = body
  BY DEF DoneRelease
<1> HIDE DEF f
<1>7. SchedTypeOK'
  BY <1>3, <1>4, <1>6, MovesKeeps DEF SchedInv, SchedTypeOK, Moves
<1>8. \A v \in Workers : InLock(v) => LockOf(v) \in Fibers
  BY LockOfFiber DEF SchedInv
<1>9. Locks'
  <2>1. \A v \in Workers : v # w /\ InLock(v) => LockOf(v) # f
    BY <1>2 DEF SchedInv, Locks
  <2> QED  BY <1>2, <1>3, <1>5, <1>8, <2>1 DEF SchedInv, Locks, Unmoved
<1>10. Tested'
  BY <1>1, <1>3, <1>5, <1>6, PcFacts DEF SchedInv, Tested, Holding, States, Unmoved, Counts, Over
<1>11. Listed'
  BY <1>1, <1>3, <1>5, <1>6, PcFacts DEF SchedInv, Listed, Holding, Unmoved
<1>12. Sleeping' /\ Woken'
  BY <1>1, <1>3, <1>5, <1>6 DEF SchedInv, Sleeping, Woken, Unmoved
<1> QED  BY <1>4, <1>7, <1>9, <1>10, <1>11, <1>12, MovesKeeps DEF SchedInv

-----------------------------------------------------------------------------
(* Steps of a running fiber on its own. *)

(* The fiber of w goes from one place of its code to another, with nothing *)
(* in its hands.                                                           *)
Runs(w) ==
  /\ wpc[w] = "run" /\ body[cur[w]].pc # "push"
  /\ body'[cur[w]].pc # "push" /\ body'[cur[w]].pc # "publish" /\ body'[cur[w]].got = NoFiber
  /\ \A g \in Fibers : g # cur[w] => body'[g] = body[g]
  /\ cur' = cur /\ q' = q /\ pool' = pool /\ fd' = fd /\ wpc' = wpc /\ wtmp' = wtmp

\* A running fiber goes on in its own code.
LEMMA RunsKeeps ==
  ASSUME SchedInv, NEW w \in Workers, Runs(w)
  PROVE  /\ cur[w] \in Fibers
         /\ Apart' /\ Holding' /\ Exclusive' /\ Popped' /\ States' /\ Somewhere'
         /\ Free' = Free /\ Queued' = Queued
         /\ \A g \in Fibers : Active(g)' <=> Active(g)
         /\ \A v \in Workers : v # w /\ wpc[v] \in Busy => cur[v] # cur[w]
         /\ Unmoved(w)
<1> DEFINE f == cur[w]
<1>1. wpc[w] = "run" /\ wpc[w] \in Busy /\ f \in Fibers
  BY PcFacts DEF Runs, SchedInv, Holding
<1>2. /\ body[f].pc # "push" /\ body'[f].pc # "push" /\ body'[f].pc # "publish"
      /\ body'[f].got = NoFiber
      /\ \A g \in Fibers : g # f => body'[g] = body[g]
  BY DEF Runs
<1>3. cur' = cur /\ fd' = fd /\ wpc' = wpc /\ wtmp' = wtmp
  BY DEF Runs
<1>4. Free' = Free /\ Queued' = Queued /\ Apart'
  BY SameQueues DEF Runs, SchedInv
<1>5. fd[f].state = "RUN" /\ f \notin Free /\ f \notin Queued
  BY <1>1 DEF SchedInv, States, Exclusive
<1>6. \A v \in Workers : v # w /\ wpc[v] \in Busy => cur[v] # f
  BY <1>1 DEF SchedInv, Exclusive
<1> HIDE DEF f
<1>7. Holding' /\ Exclusive'
  BY <1>3, <1>4 DEF SchedInv, Holding, Exclusive
<1>8. Popped'
  <2>1. /\ \A g \in Fibers : body'[g].got # NoFiber => body'[g].pc \in {"push", "publish"}
        /\ \A g \in Fibers : body'[g].pc \in {"push", "publish"} => body'[g].todo > 0
    BY <1>2 DEF SchedInv, Popped
  <2>2. \A g \in Fibers : body'[g].pc = "push" => g # f /\ body'[g] = body[g]
    BY <1>2
  <2>3. \A g \in Fibers : body'[g].pc = "push" => body'[g].got # f
    BY <1>1, <1>2, <1>5, <2>2 DEF SchedInv, Popped, f
  <2>4. \A g \in Fibers : body'[g].pc = "push" =>
           /\ body'[g].got \in Fibers /\ body'[g].got \notin Free /\ body'[g].got \notin Queued
           /\ \A v \in Workers : wpc[v] \in Busy => cur[v] # body'[g].got
           /\ fd[body'[g].got].state \notin {"RUN", "WAIT"}
           /\ body[body'[g].got].pc = "start"
    BY <2>2 DEF SchedInv, Popped
  <2>5. \A g \in Fibers : body'[g].pc = "push" => body'[body'[g].got].pc = "start"
    BY <1>2, <2>3, <2>4
  <2>6. \A g, h \in Fibers :
       body'[g].pc = "push" /\ body'[h].pc = "push" /\ body'[g].got = body'[h].got => g = h
    BY <2>2 DEF SchedInv, Popped
  <2> QED  BY <1>3, <1>4, <2>1, <2>4, <2>5, <2>6 DEF Popped
<1>9. \A v \in Workers : Parent(v)' = Parent(v)
  BY <1>3 DEF Parent
<1>10. States'
  <2>1. \A v \in Workers : wpc[v] \in Counts \cup Over => cur[v] \in Fibers /\ cur[v] # f
    BY <1>1, <1>6, PcFacts DEF SchedInv, Holding, Counts, Over
  <2> QED  BY <1>2, <1>3, <1>4, <1>5, <1>9, <2>1 DEF SchedInv, States
<1>11. Somewhere'
  <2>1. \A g \in Fibers : body'[g].pc = "push" <=> body[g].pc = "push"
    BY <1>2
  <2>2. \A g \in Fibers : body[g].pc = "push" => body'[g].got = body[g].got
    BY <1>2
  <2>3. ASSUME NEW g \in Fibers, Unplaced(g)' PROVE Unplaced(g)
    BY <1>3, <1>4, <2>1, <2>2, <2>3 DEF Unplaced
  <2> QED  BY <1>3, <2>3 DEF SchedInv, Somewhere
<1>12. \A g \in Fibers : Active(g)' <=> Active(g)
  BY <1>3, <1>4 DEF Active
<1>13. Unmoved(w)
  <2>1. \A g \in Fibers : Asleep(g)' <=> Asleep(g)
    BY <1>3, <1>4 DEF Asleep
  <2>2. \A v \in Workers : LockOf(v)' = LockOf(v)
    BY <1>3, <1>9 DEF LockOf
  <2>3. ASSUME NEW v \in Workers, v # w PROVE InLock(v)' <=> InLock(v)
    <3>1. wpc[v] = "run" => body'[cur[v]] = body[cur[v]]
      BY <1>2, <1>6, <2>3, PcFacts DEF SchedInv, Holding
    <3> QED  BY <1>3, <3>1 DEF InLock
  <2> QED  BY <1>3, <1>9, <2>1, <2>2, <2>3 DEF Unmoved
<1> QED  BY <1>1, <1>4, <1>6, <1>7, <1>8, <1>10, <1>11, <1>12, <1>13 DEF f

(* Its counter stays as it was, and so does what it has left to schedule.  *)
LEMMA RunsOnKeeps ==
  ASSUME SchedInv, NEW w \in Workers, Runs(w), cnt' = cnt,
         body[cur[w]].pc \in {"enque", "publish"}, body'[cur[w]].pc \in {"enque", "wait"},
         body' \in [Fibers -> BodyData], body'[cur[w]].todo = Left(cur[w])
  PROVE  SchedInv'
<1> DEFINE f == cur[w]
<1>1. /\ f \in Fibers /\ Free' = Free /\ Queued' = Queued
      /\ \A g \in Fibers : Active(g)' <=> Active(g)
      /\ \A v \in Workers : v # w /\ wpc[v] \in Busy => cur[v] # f
      /\ Unmoved(w)
  BY RunsKeeps
<1>2. /\ wpc[w] = "run" /\ wpc' = wpc /\ wtmp' = wtmp /\ fd' = fd /\ cur' = cur
      /\ \A g \in Fibers : g # f => body'[g] = body[g]
  BY DEF Runs
<1>3. body[f].pc \in Round /\ body'[f].pc \in Round /\ body'[f].pc # "start" /\ body'[f].pc # "push"
      /\ body'[f].pc # "test" /\ body[f].pc # "test"
  BY DEF Round
<1>4. body'[f].todo = Left(f) /\ body'[f].pc \notin {"push", "publish"}
  OBVIOUS
<1> HIDE DEF f
<1>5. SchedTypeOK'
  BY DEF SchedInv, SchedTypeOK, Runs
<1>6. Counting'
  <2>1. ASSUME NEW g \in Fibers PROVE Left(g)' = Left(g)
    BY <1>2, <1>4 DEF Left
  <2>2. \A g \in Fibers : Active(g)' = Active(g)
    BY <1>1 DEF Active
  <2> QED  BY <1>2, <2>1, <2>2, SameCount DEF SchedInv
<1>7. Between'
  <2>1. \A g \in Fibers : body'[g].pc = "push" => g # f /\ body'[g] = body[g]
    BY <1>2, <1>3
  <2>2. \A v \in Workers : wpc'[v] \in {"run"} \cup Counts \cup Over /\ body'[cur'[v]].pc = "start" =>
          cur[v] # f /\ cur[v] \in Fibers
    BY <1>1, <1>2, <1>3, PcFacts DEF SchedInv, Holding
  <2> QED  BY <1>1, <1>2, <2>1, <2>2 DEF SchedInv, Between
<1>8. Locks'
  <2>1. ~InLock(w)'
    BY <1>2, <1>3 DEF InLock, f
  <2> QED  BY <1>1, <2>1 DEF SchedInv, Locks, Unmoved
<1>9. Tested'
  BY <1>1, <1>2 DEF SchedInv, Tested, Unmoved
<1>10. Listed'
  BY <1>1, <1>2, <1>3 DEF SchedInv, Listed
<1>11. Sleeping' /\ Woken'
  BY <1>1, <1>2 DEF SchedInv, Sleeping, Woken, Unmoved
<1> QED  BY <1>5, <1>6, <1>7, <1>8, <1>9, <1>10, <1>11, RunsKeeps DEF SchedInv

\* What a step may do to the code a fiber is in.
LEMMA SetBody ==
  ASSUME SchedTypeOK, NEW f \in Fibers, NEW b \in BodyData, body' = [body EXCEPT ![f] = b]
  PROVE  /\ body' \in [Fibers -> BodyData] /\ body'[f] = b
         /\ \A g \in Fibers : g # f => body'[g] = body[g]
BY DEF SchedTypeOK

\* The fiber that a worker runs.
LEMMA RunningFiber ==
  ASSUME SchedInv, NEW w \in Workers, NEW pc, Running(w, pc)
  PROVE  /\ cur[w] \in Fibers /\ body[cur[w]] \in BodyData /\ wpc[w] = "run" /\ body[cur[w]].pc = pc
         /\ pc \notin {"push", "publish"} => body[cur[w]].got = NoFiber
<1>1. wpc[w] = "run" /\ body[cur[w]].pc = pc /\ cur[w] \in Fibers
  BY PcFacts DEF Running, SchedInv, Holding
<1> QED  BY <1>1 DEF SchedInv, SchedTypeOK, Popped

\* A fiber goes on at another place of its code.
LEMMA FiberGotoFacts ==
  ASSUME SchedTypeOK, NEW f \in Fibers, NEW pc \in Round \cup {"start"}, FiberGoto(f, pc)
  PROVE  /\ body' \in [Fibers -> BodyData] /\ body'[f].pc = pc
         /\ body'[f].todo = body[f].todo /\ body'[f].got = body[f].got
         /\ \A g \in Fibers : g # f => body'[g] = body[g]
<1>1. body[f] \in BodyData /\ body' = [body EXCEPT ![f] = [body[f] EXCEPT !.pc = pc]]
  BY DEF FiberGoto, SchedTypeOK
<1>2. [body[f] EXCEPT !.pc = pc] \in BodyData
  BY <1>1 DEF BodyData
<1>3. body'[f] = [body[f] EXCEPT !.pc = pc]
  BY <1>1, <1>2, SetBody
<1> QED  BY <1>1, <1>2, <1>3, SetBody DEF BodyData

\* All jobs of a round have been scheduled.
LEMMA ScheduledKeeps ==
  ASSUME SchedInv, NEW w \in Workers, Scheduled(w)
  PROVE  SchedInv'
<1>1. cur[w] \in Fibers /\ wpc[w] = "run" /\ body[cur[w]].pc = "enque" /\ body[cur[w]].got = NoFiber
  BY RunningFiber DEF Scheduled
<1>2. /\ body' \in [Fibers -> BodyData] /\ body'[cur[w]].pc = "wait"
      /\ body'[cur[w]].todo = body[cur[w]].todo /\ body'[cur[w]].got = NoFiber
      /\ \A g \in Fibers : g # cur[w] => body'[g] = body[g]
  BY <1>1, FiberGotoFacts DEF Scheduled, SchedInv, Round
<1>3. Runs(w) /\ cnt' = cnt
  BY <1>1, <1>2 DEF Scheduled, Runs
<1>4. body'[cur[w]].todo = Left(cur[w])
  BY <1>1, <1>2 DEF Left
<1> QED  BY <1>1, <1>2, <1>3, <1>4, RunsOnKeeps

\* The invariant is not about how the process ends.
LEMMA HaltKeeps ==
  ASSUME SchedInv, UNCHANGED <<q, pool, wpc, cur, wtmp, fd, cnt, body>>
  PROVE  SchedInv'
<1>1. /\ q' = q /\ pool' = pool /\ wpc' = wpc /\ cur' = cur /\ wtmp' = wtmp
      /\ fd' = fd /\ cnt' = cnt /\ body' = body
  OBVIOUS
<1>2. Free' = Free /\ Queued' = Queued
  BY <1>1 DEF Free, Queued
<1>3. /\ \A v \in Workers : Parent(v)' = Parent(v) /\ LockOf(v)' = LockOf(v)
      /\ \A v \in Workers : InLock(v)' <=> InLock(v)
  BY <1>1 DEF Parent, LockOf, InLock
<1>4. /\ \A f \in Fibers : Out(f)' = Out(f) /\ Left(f)' = Left(f)
      /\ \A f \in Fibers : (Unplaced(f)' <=> Unplaced(f)) /\ (Asleep(f)' <=> Asleep(f))
  BY <1>1, <1>2 DEF Active, Out, Left, Unplaced, Asleep
<1>5. SchedTypeOK' /\ Holding' /\ Apart' /\ Exclusive' /\ Popped'
  BY <1>1, <1>2 DEF SchedInv, SchedTypeOK, Holding, Apart, Exclusive, Popped
<1>6. States' /\ Counting' /\ Between'
  BY <1>1, <1>2, <1>3, <1>4 DEF SchedInv, States, Counting, Between
<1>7. Locks' /\ Tested' /\ Listed' /\ Somewhere'
  BY <1>1, <1>3, <1>4 DEF SchedInv, Locks, Tested, Listed, Somewhere
<1>8. Sleeping' /\ Woken'
  BY <1>1, <1>3, <1>4 DEF SchedInv, Sleeping, Woken
<1> QED  BY <1>5, <1>6, <1>7, <1>8 DEF SchedInv

\* vgc_enque_job finds no free fiber.
LEMMA EnqueJobFailsKeeps ==
  ASSUME SchedInv, NEW w \in Workers, EnqueJobFails(w)
  PROVE  SchedInv'
<1>1. cur[w] \in Fibers /\ wpc[w] = "run" /\ body[cur[w]].pc = "enque" /\ body[cur[w]].got = NoFiber
  BY RunningFiber DEF EnqueJobFails
<1>2. CASE body[cur[w]].todo = body[cur[w]].len
  <2>1. /\ body' \in [Fibers -> BodyData] /\ body'[cur[w]].pc = "wait"
        /\ body'[cur[w]].todo = body[cur[w]].todo /\ body'[cur[w]].got = NoFiber
        /\ \A g \in Fibers : g # cur[w] => body'[g] = body[g]
    BY <1>1, <1>2, FiberGotoFacts DEF EnqueJobFails, SchedInv, Round
  <2>2. Runs(w) /\ cnt' = cnt
    BY <1>1, <2>1 DEF EnqueJobFails, Runs
  <2>3. body'[cur[w]].todo = Left(cur[w])
    BY <1>1, <2>1 DEF Left
  <2> QED  BY <1>1, <2>1, <2>2, <2>3, RunsOnKeeps
<1>3. CASE body[cur[w]].todo # body[cur[w]].len
  BY <1>3, HaltKeeps DEF EnqueJobFails
<1> QED  BY <1>2, <1>3

\* The push of a job is published.
LEMMA EnqueJobPublishKeeps ==
  ASSUME SchedInv, NEW w \in Workers, EnqueJobPublish(w)
  PROVE  SchedInv'
<1> DEFINE f == cur[w]
<1>1. f \in Fibers /\ wpc[w] = "run" /\ body[f].pc = "publish" /\ body[f] \in BodyData
  BY RunningFiber DEF EnqueJobPublish
<1>2. body[f].todo > 0
  BY <1>1 DEF SchedInv, Popped
<1>3. /\ body' \in [Fibers -> BodyData] /\ body'[f].pc = "enque"
      /\ body'[f].todo = body[f].todo - 1 /\ body'[f].got = NoFiber
      /\ \A g \in Fibers : g # f => body'[g] = body[g]
  <2> DEFINE b == [body[f] EXCEPT !.pc = "enque", !.got = NoFiber, !.todo = @ - 1]
  <2>1. body' = [body EXCEPT ![f] = b]
    BY <1>1 DEF EnqueJobPublish, SchedInv, SchedTypeOK
  <2>2. b \in BodyData /\ b.pc = "enque" /\ b.todo = body[f].todo - 1 /\ b.got = NoFiber
    <3>1. body[f].todo - 1 \in Nat
      BY <1>1, <1>2 DEF BodyData
    <3>2. "enque" \in Round
      BY DEF Round
    <3> QED  BY <1>1, <3>1, <3>2 DEF BodyData
  <2> HIDE DEF b
  <2> QED  BY <1>1, <2>1, <2>2, SetBody DEF SchedInv
<1>4. Runs(w) /\ cnt' = cnt
  BY <1>1, <1>3 DEF EnqueJobPublish, Runs
<1>5. body'[f].todo = Left(f)
  BY <1>1, <1>3 DEF Left
<1> QED  BY <1>1, <1>3, <1>4, <1>5, RunsOnKeeps

\* vgc_wait_for_counter takes the lock of the counter.
LEMMA WaitAcquireKeeps ==
  ASSUME SchedInv, NEW w \in Workers, WaitAcquire(w)
  PROVE  SchedInv'
<1> DEFINE f == cur[w]
<1>1. f \in Fibers /\ wpc[w] = "run" /\ body[f].pc = "wait" /\ body[f].got = NoFiber
  BY RunningFiber DEF WaitAcquire
<1>2. /\ body' \in [Fibers -> BodyData] /\ body'[f].pc = "test"
      /\ body'[f].todo = body[f].todo /\ body'[f].got = NoFiber
      /\ \A g \in Fibers : g # f => body'[g] = body[g]
  BY <1>1, FiberGotoFacts DEF WaitAcquire, SchedInv, Round
<1>3. /\ cnt[f].lock = 0 /\ cnt' \in [Fibers -> CounterData] /\ cnt'[f].lock = 1
      /\ \A g \in Fibers : g # f => cnt'[g].lock = cnt[g].lock
      /\ \A g \in Fibers : cnt'[g].counter = cnt[g].counter /\ cnt'[g].waiters = cnt[g].waiters
  BY <1>1, SetLock DEF WaitAcquire, Acquire, SchedInv
<1>4. Runs(w)
  BY <1>1, <1>2 DEF WaitAcquire, Runs
<1>5. /\ Free' = Free /\ Queued' = Queued
      /\ \A g \in Fibers : Active(g)' <=> Active(g)
      /\ \A v \in Workers : v # w /\ wpc[v] \in Busy => cur[v] # f
      /\ Unmoved(w)
  BY <1>4, RunsKeeps
<1>6. wpc' = wpc /\ wtmp' = wtmp /\ fd' = fd /\ cur' = cur
  BY <1>4 DEF Runs
<1>7. LockOf(w) = f /\ f = cur[w]
  BY <1>1 DEF LockOf, Counts, Over
<1>8. \A v \in Workers : InLock(v) => LockOf(v) \in Fibers
  BY LockOfFiber DEF SchedInv
<1> HIDE DEF f
<1>9. SchedTypeOK'
  BY <1>2, <1>3, <1>4 DEF SchedInv, SchedTypeOK, Runs
<1>10. Counting'
  <2>1. ASSUME NEW g \in Fibers PROVE Left(g)' = Left(g)
    BY <1>1, <1>2 DEF Left
  <2>2. \A g \in Fibers : Active(g)' = Active(g)
    BY <1>5 DEF Active
  <2> QED  BY <1>3, <1>6, <2>1, <2>2, SameCount DEF SchedInv
<1>11. Between'
  <2>1. \A g \in Fibers : body'[g].pc = "push" => g # f /\ body'[g] = body[g] /\ body[g].got \in Fibers
    BY <1>2 DEF SchedInv, Popped
  <2>2. \A v \in Workers : wpc'[v] \in {"run"} \cup Counts \cup Over /\ body'[cur'[v]].pc = "start" =>
          cur[v] # f /\ cur[v] \in Fibers
    BY <1>2, <1>5, <1>6, <1>7, PcFacts DEF SchedInv, Holding
  <2> QED  BY <1>2, <1>3, <1>5, <1>6, <2>1, <2>2 DEF SchedInv, Between
<1>12. Locks'
  <2>1. \A v \in Workers : InLock(v) => LockOf(v) # f
    BY <1>3 DEF SchedInv, Locks
  <2> QED  BY <1>1, <1>3, <1>5, <1>7, <1>8, <2>1 DEF SchedInv, Locks, Unmoved
<1>13. Tested'
  BY <1>3, <1>5, <1>6, PcFacts DEF SchedInv, Tested, Holding, States, Unmoved, Counts, Over
<1>14. Listed'
  <2>1. "wait" \in Round
    BY DEF Round
  <2> QED  BY <1>1, <1>2, <1>3, <1>5, <1>6, <2>1, PcFacts DEF SchedInv, Listed, Holding
<1>15. Sleeping' /\ Woken'
  BY <1>3, <1>5, <1>6 DEF SchedInv, Sleeping, Woken, Unmoved
<1> QED  BY <1>4, <1>9, <1>10, <1>11, <1>12, <1>13, <1>14, <1>15, RunsKeeps DEF SchedInv

\* It finds the counter at zero and returns.
LEMMA WaitOverKeeps ==
  ASSUME SchedInv, NEW w \in Workers, WaitOver(w)
  PROVE  SchedInv'
<1> DEFINE f == cur[w]
<1>1. f \in Fibers /\ wpc[w] = "run" /\ body[f].pc = "test" /\ body[f].got = NoFiber
      /\ cnt[f].counter = 0
  BY RunningFiber DEF WaitOver
<1>2. /\ body' \in [Fibers -> BodyData] /\ body'[f].pc = "start"
      /\ body'[f].todo = body[f].todo /\ body'[f].got = NoFiber
      /\ \A g \in Fibers : g # f => body'[g] = body[g]
  BY <1>1, FiberGotoFacts DEF WaitOver, SchedInv
<1>3. /\ cnt' \in [Fibers -> CounterData]
      /\ \A g \in Fibers : g # f => cnt'[g].lock = cnt[g].lock
      /\ \A g \in Fibers : cnt'[g].counter = cnt[g].counter /\ cnt'[g].waiters = cnt[g].waiters
  BY <1>1, SetLock DEF WaitOver, Release, SchedInv
<1>4. Runs(w)
  BY <1>1, <1>2 DEF WaitOver, Runs
<1>5. /\ Free' = Free /\ Queued' = Queued
      /\ \A g \in Fibers : Active(g)' <=> Active(g)
      /\ \A v \in Workers : v # w /\ wpc[v] \in Busy => cur[v] # f
      /\ Unmoved(w)
  BY <1>4, RunsKeeps
<1>6. wpc' = wpc /\ wtmp' = wtmp /\ fd' = fd /\ cur' = cur
  BY <1>4 DEF Runs
<1>7. LockOf(w) = f /\ InLock(w) /\ f = cur[w]
  BY <1>1 DEF LockOf, InLock, Counts, Over
<1>8. ~InLock(w)'
  BY <1>1, <1>2, <1>6 DEF InLock
<1>9. \A v \in Workers : InLock(v) => LockOf(v) \in Fibers
  BY LockOfFiber DEF SchedInv
<1> HIDE DEF f
<1>10. SchedTypeOK'
  BY <1>2, <1>3, <1>4 DEF SchedInv, SchedTypeOK, Runs
<1>11. Counting'
  <2>1. ASSUME NEW g \in Fibers PROVE Left(g)' = Left(g)
    BY <1>1, <1>2 DEF Left
  <2>2. \A g \in Fibers : Active(g)' = Active(g)
    BY <1>5 DEF Active
  <2> QED  BY <1>3, <1>6, <2>1, <2>2, SameCount DEF SchedInv
<1>12. Between'
  <2>1. \A g \in Fibers : body'[g].pc = "push" => g # f /\ body'[g] = body[g] /\ body[g].got \in Fibers
    BY <1>2 DEF SchedInv, Popped
  <2>2. \A v \in Workers : wpc'[v] \in {"run"} \cup Counts \cup Over /\ body'[cur'[v]].pc = "start" =>
          cnt[cur[v]].counter = 0 /\ cur[v] \in Fibers
    BY <1>1, <1>2, <1>5, <1>6, <1>7, PcFacts DEF SchedInv, Holding, Between
  <2> QED  BY <1>2, <1>3, <1>5, <1>6, <2>1, <2>2 DEF SchedInv, Between
<1>13. Locks'
  <2>1. \A v \in Workers : v # w /\ InLock(v) => LockOf(v) # f
    BY <1>7 DEF SchedInv, Locks
  <2> QED  BY <1>3, <1>5, <1>8, <1>9, <2>1 DEF SchedInv, Locks, Unmoved
<1>14. Tested'
  BY <1>3, <1>5, <1>6, PcFacts DEF SchedInv, Tested, Holding, States, Unmoved, Counts, Over
<1>15. Listed'
  <2>1. "start" \notin Round
    BY DEF Round
  <2> QED  BY <1>1, <1>2, <1>3, <1>5, <1>6, <2>1, PcFacts DEF SchedInv, Listed, Holding
<1>16. Sleeping' /\ Woken'
  BY <1>3, <1>5, <1>6 DEF SchedInv, Sleeping, Woken, Unmoved
<1> QED  BY <1>4, <1>10, <1>11, <1>12, <1>13, <1>14, <1>15, <1>16, RunsKeeps DEF SchedInv

\* A job that is being counted off is under way.
LEMMA CountsOut ==
  ASSUME SchedInv, NEW v \in Workers, wpc[v] \in Counts
  PROVE  cur[v] \in Fibers /\ Parent(v) \in Fibers /\ cur[v] \in Out(Parent(v))
<1>1. cur[v] \in Fibers /\ Parent(v) \in Fibers
  BY PcFacts DEF SchedInv, Holding, States
<1>2. \A x \in Over : x \notin Counts
  BY DEF Over, Counts
<1>3. Active(cur[v])
  BY <1>2, PcFacts DEF SchedInv, Exclusive, Active
<1> QED  BY <1>1, <1>3 DEF Out, Parent

\* A fiber initialises its counter: the one step that needs InTurn.
LEMMA ScheduleJobsKeeps ==
  ASSUME SchedInv, NEW w \in Workers, NEW n \in 1..MaxJobs, ScheduleJobs(w, n), InTurn
  PROVE  SchedInv'
<1> DEFINE f == cur[w]
<1>1. /\ f \in Fibers /\ wpc[w] = "run" /\ body[f].pc = "start" /\ body[f].got = NoFiber
      /\ body[f] \in BodyData /\ n \in Nat
  BY RunningFiber, BoundsAssumption DEF ScheduleJobs
<1>2. /\ body' \in [Fibers -> BodyData] /\ body'[f].pc = "enque"
      /\ body'[f].todo = n /\ body'[f].got = NoFiber
      /\ \A g \in Fibers : g # f => body'[g] = body[g]
  <2> DEFINE b == [body[f] EXCEPT !.pc = "enque", !.round = @ + 1, !.len = n, !.todo = n]
  <2>1. body' = [body EXCEPT ![f] = b]
    BY <1>1 DEF ScheduleJobs, SchedInv, SchedTypeOK
  <2>2. b \in BodyData /\ b.pc = "enque" /\ b.todo = n /\ b.got = NoFiber
    <3>1. body[f].round + 1 \in Nat
      BY <1>1 DEF BodyData
    <3>2. "enque" \in Round
      BY DEF Round
    <3> QED  BY <1>1, <3>1, <3>2 DEF BodyData
  <2> HIDE DEF b
  <2> QED  BY <1>1, <2>1, <2>2, SetBody DEF SchedInv
<1>3. /\ cnt' \in [Fibers -> CounterData]
      /\ cnt'[f].counter = n /\ cnt'[f].waiters = <<>>
      /\ \A g \in Fibers : g # f => cnt'[g] = cnt[g]
  <2>1. CounterInit(n) \in CounterData /\ CounterInit(n).counter = n /\ CounterInit(n).waiters = <<>>
    BY <1>1 DEF CounterInit, CounterData
  <2> HIDE DEF CounterInit
  <2> QED  BY <1>1, <2>1 DEF ScheduleJobs, SchedInv, SchedTypeOK
<1>4. Runs(w)
  BY <1>1, <1>2 DEF ScheduleJobs, Runs
<1>5. /\ Free' = Free /\ Queued' = Queued
      /\ \A g \in Fibers : Active(g)' <=> Active(g)
      /\ \A v \in Workers : v # w /\ wpc[v] \in Busy => cur[v] # f
      /\ Unmoved(w)
  BY <1>4, RunsKeeps
<1>6. wpc' = wpc /\ wtmp' = wtmp /\ fd' = fd /\ cur' = cur
  BY <1>4 DEF Runs
<1>7. f = cur[w] /\ ~InLock(w)' /\ ~Asleep(f) /\ f \notin Free /\ f \notin Queued
  BY <1>1, <1>2, <1>6, PcFacts DEF InLock, Asleep, SchedInv, States, Exclusive
<1>8. Out(f) = {} /\ Cardinality(Out(f)) = 0
  <2>1. cnt[f].counter = 0
    BY <1>1 DEF SchedInv, Between
  <2>2. Left(f) \in Nat
    BY <1>1 DEF Left, BodyData
  <2>3. cnt[f].counter = Cardinality(Out(f)) + Left(f)
    BY <1>1 DEF SchedInv, Counting
  <2> HIDE DEF f
  <2>4. Cardinality(Out(f)) = 0
    BY <1>1, <2>1, <2>2, <2>3, OutFinite
  <2> QED  BY <1>1, <2>4, OutFinite
<1>9. \A v \in Workers : v # w /\ (InLock(v) \/ wpc[v] \in Counts) => LockOf(v) # f
  <2>1. SUFFICES ASSUME NEW v \in Workers, v # w, InLock(v) \/ wpc[v] \in Counts, LockOf(v) = f
                 PROVE  FALSE
    OBVIOUS
  <2>2. wpc[v] \in Counts \cup Over
    BY <1>5, <2>1, PcFacts DEF LockOf
  <2>3. Parent(v) = f
    BY <2>1, <2>2 DEF LockOf
  <2>4. wpc[v] \notin Counts
    BY <1>8, <2>3, CountsOut
  <2>5. wpc[v] \in {"zero", "wake", "wake_publish", "unlock"}
    BY <2>1, <2>2, <2>4 DEF Over, InLock, Counts
  <2> QED  BY <1>1, <1>2, <2>3, <2>5 DEF InTurn, Running
<1>10. \A v \in Workers : InLock(v) => LockOf(v) \in Fibers
  BY LockOfFiber DEF SchedInv
<1>11. \A v \in Workers : wpc[v] \in {"store", "wake", "wake_publish"} =>
         Parent(v) # f /\ Parent(v) \in Fibers
  <2> SUFFICES ASSUME NEW v \in Workers, wpc[v] \in {"store", "wake", "wake_publish"}
               PROVE  Parent(v) # f /\ Parent(v) \in Fibers
    OBVIOUS
  <2>1. wpc[v] \in Counts \cup Over /\ wpc[v] # "run" /\ wpc[v] \notin {"done", "free"}
    BY DEF Counts, Over
  <2> QED  BY <1>1, <1>9, <2>1, DoneParent
<1> HIDE DEF f
<1>12. SchedTypeOK'
  BY <1>2, <1>3, <1>4 DEF SchedInv, SchedTypeOK, Runs
<1>13. Counting'
  <2>1. \A g \in Fibers : Out(g)' = Out(g)
    BY <1>5, <1>6 DEF Out
  <2>2. \A g \in Fibers : g # f => Left(g)' = Left(g)
    BY <1>2 DEF Left
  <2>3. (IF body'[f].pc \in {"push", "publish"} THEN body'[f].todo - 1 ELSE body'[f].todo) = n
    BY <1>2
  <2>4. ASSUME NEW g \in Fibers PROVE (cnt[g].counter = Cardinality(Out(g)) + Left(g))'
    <3>1. CASE g = f
      <4>1. Cardinality(Out(g)') = 0 /\ Left(g)' = n
        BY <1>8, <2>1, <2>3, <3>1 DEF Left
      <4> QED  BY <1>1, <1>3, <3>1, <4>1
    <3>2. CASE g # f
      BY <1>3, <2>1, <2>2, <3>2 DEF SchedInv, Counting
    <3> QED  BY <3>1, <3>2
  <2> QED  BY <2>4 DEF Counting
<1>14. Between'
  <2>1. \A g \in Fibers : body'[g].pc = "push" =>
          g # f /\ body'[g] = body[g] /\ body[g].got \in Fibers /\ body[g].got # f
    BY <1>1, <1>2, <1>7, PcFacts DEF SchedInv, Popped
  <2>2. \A v \in Workers : wpc'[v] \in {"run"} \cup Counts \cup Over /\ body'[cur'[v]].pc = "start" =>
          cur[v] # f /\ cur[v] \in Fibers
    BY <1>1, <1>2, <1>5, <1>6, <1>7, PcFacts DEF SchedInv, Holding
  <2> QED  BY <1>2, <1>3, <1>5, <1>6, <1>7, <2>1, <2>2 DEF SchedInv, Between
<1>15. Locks'
  BY <1>3, <1>5, <1>7, <1>9, <1>10 DEF SchedInv, Locks, Unmoved
<1>16. Tested'
  <2>1. \A v \in Workers : wpc[v] \in {"add", "park"} => cur[v] \in Fibers /\ cur[v] # f
    BY <1>1, <1>5, PcFacts DEF SchedInv, Holding
  <2> QED  BY <1>3, <1>5, <1>6, <1>11, <2>1 DEF SchedInv, Tested, Unmoved
<1>17. Listed'
  <2>1. \A v \in Workers : wpc[v] = "add" => cur[v] \in Fibers /\ cur[v] # f
    BY <1>1, <1>5, PcFacts DEF SchedInv, Holding
  <2> QED  BY <1>2, <1>3, <1>5, <1>6, <2>1 DEF SchedInv, Listed
<1>18. Sleeping' /\ Woken'
  BY <1>3, <1>5, <1>6, <1>7, <1>11 DEF SchedInv, Sleeping, Woken, Unmoved
<1> QED  BY <1>4, <1>12, <1>13, <1>14, <1>15, <1>16, <1>17, <1>18, RunsKeeps DEF SchedInv

-----------------------------------------------------------------------------
(* The end of an iteration of vgc_scheduler_run. *)

\* A worker gives its fiber up and looks for work again.
LEMMA LoopKeeps ==
  ASSUME SchedInv, NEW w \in Workers, NEW from \in {"park", "free_publish"}, Loop(w, from),
         q' = q, pool' = pool, fd' = fd, body' = body,
         \A g \in Fibers : cnt'[g].counter = cnt[g].counter /\ cnt'[g].waiters = cnt[g].waiters
  PROVE  /\ wpc' \in [Workers -> Look \cup Busy \cup {"free_publish"}]
         /\ cur' \in [Workers -> Fibers \cup {NoFiber}] /\ wtmp' \in [Workers -> Int]
         /\ Apart' /\ Holding' /\ Exclusive' /\ Popped' /\ States' /\ Counting' /\ Between'
         /\ Tested' /\ Listed' /\ Somewhere' /\ Sleeping' /\ Woken'
         /\ ~InLock(w)' /\ \A v \in Workers : v # w =>
              (InLock(v)' <=> InLock(v)) /\ LockOf(v)' = LockOf(v)
<1>1. /\ wpc' \in [Workers -> Look \cup Busy \cup {"free_publish"}]
      /\ cur' \in [Workers -> Fibers \cup {NoFiber}] /\ wtmp' \in [Workers -> Int]
  BY DEF Loop, Goto, SchedInv, SchedTypeOK, Look
<1>2. /\ wpc[w] \in {"park", "free_publish"} /\ wpc'[w] = "hi" /\ cur'[w] = NoFiber
      /\ \A v \in Workers : v # w => wpc'[v] = wpc[v] /\ cur'[v] = cur[v] /\ wtmp'[v] = wtmp[v]
  BY DEF Loop, Goto, SchedInv, SchedTypeOK
<1>3. /\ wpc'[w] \notin Busy /\ wpc'[w] \notin Counts /\ wpc'[w] \notin Over /\ wpc[w] \notin Over
      /\ wpc'[w] \notin {"run", "add", "park", "store", "zero", "wake", "wake_publish", "free_publish"}
      /\ wpc[w] \notin {"add", "zero", "wake"}
  BY <1>2 DEF Busy, Counts, Over
<1>4. Free' = Free /\ Queued' = Queued /\ Apart'
  BY SameQueues DEF SchedInv
<1>5. \A v \in Workers : v # w => Parent(v)' = Parent(v)
  BY <1>2 DEF Parent
<1>6. \A v \in Workers : v # w => LockOf(v)' = LockOf(v) /\ (InLock(v)' <=> InLock(v))
  BY <1>2, <1>5 DEF LockOf, InLock
<1>7. ~InLock(w)'
  BY <1>2 DEF InLock
<1>8. Holding' /\ Exclusive'
  BY <1>2, <1>3, <1>4 DEF SchedInv, Holding, Exclusive
<1>9. Popped'
  BY <1>2, <1>3, <1>4 DEF SchedInv, Popped
<1>10. States'
  BY <1>2, <1>3, <1>4, <1>5 DEF SchedInv, States
<1>11. Counting'
  <2>1. \A g \in Fibers : Active(g)' = Active(g)
    BY <1>2, <1>3, <1>4 DEF Active
  <2>2. \A g \in Fibers : Left(g)' = Left(g)
    BY DEF Left
  <2> QED  BY <2>1, <2>2, SameCount DEF SchedInv
<1>12. Between'
  <2>1. \A v \in Workers : wpc'[v] \in {"run"} \cup Counts \cup Over => v # w /\ cur[v] \in Fibers
    BY <1>2, <1>3, PcFacts DEF SchedInv, Holding
  <2>2. \A g \in Fibers : body[g].pc = "push" => body[g].got \in Fibers
    BY DEF SchedInv, Popped
  <2> QED  BY <1>2, <1>4, <2>1, <2>2 DEF SchedInv, Between
<1>13. Tested'
  <2>1. \A v \in Workers : wpc[v] \in {"store", "wake", "wake_publish"} => Parent(v) \in Fibers
    BY DEF SchedInv, States, Counts, Over
  <2>2. \A v \in Workers : wpc[v] \in {"add", "park"} => cur[v] \in Fibers
    BY PcFacts DEF SchedInv, Holding
  <2> QED  BY <1>2, <1>3, <1>5, <2>1, <2>2 DEF SchedInv, Tested
<1>14. Listed'
  BY <1>2, <1>3, PcFacts DEF SchedInv, Listed, Holding
<1>15. Somewhere'
  <2>1. ASSUME NEW g \in Fibers, Unplaced(g)' PROVE Unplaced(g) \/ (wpc[w] = "park" /\ g = cur[w])
    <3>1. wpc[w] \in Busy => wpc[w] = "park"
      BY <1>2 DEF Busy, Counts, Over
    <3> QED  BY <1>2, <1>3, <1>4, <2>1, <3>1 DEF Unplaced
  <2> QED  BY <2>1 DEF SchedInv, Somewhere, States
<1>16. \A g \in Fibers : Asleep(g)' <=> Asleep(g)
  BY <1>4 DEF Asleep
<1>17. Sleeping' /\ Woken'
  BY <1>2, <1>3, <1>5, <1>16 DEF SchedInv, Sleeping, Woken
<1> QED  BY <1>1, <1>4, <1>6, <1>7, <1>8, <1>9, <1>10, <1>11, <1>12, <1>13, <1>14, <1>15, <1>17

\* The worker releases the counter of the fiber that it has parked.
LEMMA ParkReleaseKeeps ==
  ASSUME SchedInv, NEW w \in Workers, ParkRelease(w)
  PROVE  SchedInv'
<1> DEFINE f == cur[w]
<1>1. wpc[w] = "park" /\ Loop(w, "park") /\ q' = q /\ pool' = pool /\ fd' = fd /\ body' = body
  BY DEF ParkRelease, Loop, Goto
<1>2. f \in Fibers /\ InLock(w) /\ LockOf(w) = f
  BY <1>1, PcFacts DEF SchedInv, Holding, InLock, LockOf, Counts, Over
<1>3. /\ cnt' \in [Fibers -> CounterData]
      /\ \A g \in Fibers : g # f => cnt'[g].lock = cnt[g].lock
      /\ \A g \in Fibers : cnt'[g].counter = cnt[g].counter /\ cnt'[g].waiters = cnt[g].waiters
  BY <1>2, SetLock DEF ParkRelease, Release, SchedInv
<1> HIDE DEF f
<1>4. /\ ~InLock(w)'
      /\ \A v \in Workers : v # w => (InLock(v)' <=> InLock(v)) /\ LockOf(v)' = LockOf(v)
  BY <1>1, <1>3, LoopKeeps
<1>5. Locks'
  <2>1. \A v \in Workers : InLock(v) => LockOf(v) \in Fibers
    BY LockOfFiber DEF SchedInv
  <2>2. \A v \in Workers : v # w /\ InLock(v) => LockOf(v) # f
    BY <1>2 DEF SchedInv, Locks
  <2> QED  BY <1>3, <1>4, <2>1, <2>2 DEF SchedInv, Locks
<1>6. SchedTypeOK'
  BY <1>1, <1>3, LoopKeeps DEF SchedInv, SchedTypeOK
<1> QED  BY <1>1, <1>3, <1>5, <1>6, LoopKeeps DEF SchedInv

\* The push of a finished fiber to the pool is published.
LEMMA FreePublishKeeps ==
  ASSUME SchedInv, NEW w \in Workers, FreePublish(w)
  PROVE  SchedInv'
<1>1. /\ Loop(w, "free_publish") /\ q' = q /\ pool' = pool /\ fd' = fd /\ body' = body
      /\ cnt' = cnt
  BY DEF FreePublish
<1>2. /\ ~InLock(w)'
      /\ \A v \in Workers : v # w => (InLock(v)' <=> InLock(v)) /\ LockOf(v)' = LockOf(v)
  BY <1>1, LoopKeeps
<1>3. Locks'
  BY <1>1, <1>2 DEF SchedInv, Locks
<1>4. SchedTypeOK'
  BY <1>1, LoopKeeps DEF SchedInv, SchedTypeOK
<1> QED  BY <1>1, <1>3, <1>4, LoopKeeps DEF SchedInv

\* A finished fiber goes back to the pool.
LEMMA FreeFiberKeeps ==
  ASSUME SchedInv, NEW w \in Workers, FreeFiber(w)
  PROVE  SchedInv'
<1> DEFINE f == cur[w]
<1>1. /\ wpc[w] = "free" /\ wpc'[w] = "free_publish"
      /\ \A v \in Workers : v # w => wpc'[v] = wpc[v]
      /\ wpc' \in [Workers -> Look \cup Busy \cup {"free_publish"}]
  BY DEF FreeFiber, Goto, SchedInv, SchedTypeOK
<1>2. /\ wpc[w] \in Busy /\ wpc[w] \in Over
      /\ wpc'[w] \notin Busy /\ wpc'[w] \notin Counts /\ wpc'[w] \notin Over
      /\ wpc'[w] \notin {"run", "add", "park", "store", "zero", "wake", "wake_publish"}
  BY <1>1 DEF Busy, Counts, Over
<1>3. cur' = cur /\ wtmp' = wtmp /\ fd' = fd /\ cnt' = cnt /\ body' = body
  BY DEF FreeFiber
<1>4. /\ f \in Fibers /\ f \notin Free /\ f \notin Queued
      /\ fd[f].state = "DONE" /\ body[f].pc = "start" /\ f # Root /\ cnt[f].counter = 0
      /\ \A v \in Workers : v # w /\ wpc[v] \in Busy => cur[v] # f
  BY <1>2 DEF SchedInv, Holding, Exclusive, States, Between
<1>5. Free' = Free \cup {f} /\ Queued' = Queued /\ pool' \in Seq(Fibers) /\ Apart'
  BY <1>4, PoolPushFacts DEF FreeFiber, SchedInv
<1>6. /\ \A v \in Workers : Parent(v)' = Parent(v)
      /\ \A v \in Workers : v # w => LockOf(v)' = LockOf(v) /\ (InLock(v)' <=> InLock(v))
      /\ ~InLock(w)'
  BY <1>1, <1>3 DEF Parent, LockOf, InLock
<1>7. f = cur[w]
  OBVIOUS
<1> HIDE DEF f
<1>8. SchedTypeOK'
  BY <1>1, <1>3, <1>5 DEF SchedInv, SchedTypeOK, FreeFiber
<1>9. Holding' /\ Exclusive'
  BY <1>1, <1>2, <1>3, <1>4, <1>5, <1>7 DEF SchedInv, Holding, Exclusive
<1>10. Popped'
  BY <1>1, <1>2, <1>3, <1>5, <1>7 DEF SchedInv, Popped
<1>11. States'
  BY <1>1, <1>2, <1>3, <1>4, <1>5, <1>6 DEF SchedInv, States
<1>12. Counting'
  <2>1. \A g \in Fibers : Active(g)' = Active(g)
    BY <1>1, <1>2, <1>3, <1>4, <1>5, <1>7 DEF Active
  <2>2. \A g \in Fibers : Left(g)' = Left(g)
    BY <1>3 DEF Left
  <2> QED  BY <1>3, <2>1, <2>2, SameCount DEF SchedInv
<1>13. Between'
  BY <1>1, <1>2, <1>3, <1>4, <1>5 DEF SchedInv, Between
<1>14. Locks'
  BY <1>3, <1>6 DEF SchedInv, Locks
<1>15. Tested'
  BY <1>1, <1>2, <1>3, <1>6 DEF SchedInv, Tested
<1>16. Listed'
  BY <1>1, <1>2, <1>3 DEF SchedInv, Listed
<1>17. Somewhere'
  <2>1. ASSUME NEW g \in Fibers, Unplaced(g)' PROVE Unplaced(g)
    BY <1>1, <1>2, <1>3, <1>5, <1>7, <2>1 DEF Unplaced
  <2> QED  BY <1>3, <2>1 DEF SchedInv, Somewhere
<1>18. \A g \in Fibers : Asleep(g)' <=> Asleep(g)
  BY <1>3, <1>5 DEF Asleep
<1>19. Sleeping' /\ Woken'
  BY <1>1, <1>2, <1>3, <1>6, <1>18 DEF SchedInv, Sleeping, Woken
<1> QED  BY <1>5, <1>8, <1>9, <1>10, <1>11, <1>12, <1>13, <1>14, <1>15, <1>16, <1>17, <1>19 DEF SchedInv

-----------------------------------------------------------------------------
(* Counting off and waking. *)

\* What a fiber has left to schedule is a natural number.
LEMMA LeftNat ==
  ASSUME SchedInv, NEW f \in Fibers
  PROVE  Left(f) \in Nat
<1>1. body[f].todo \in Nat /\ (body[f].pc \in {"push", "publish"} => body[f].todo > 0)
  BY DEF SchedInv, SchedTypeOK, BodyData, Popped
<1> QED  BY <1>1 DEF Left

\* counter--: a job under way becomes one that is over.
LEMMA CounterStoreKeeps ==
  ASSUME SchedInv, NEW w \in Workers, CounterStore(w)
  PROVE  SchedInv'
<1> DEFINE f == cur[w]
           P == Parent(w)
<1>1. /\ wpc[w] = "store" /\ wpc'[w] = "zero"
      /\ \A v \in Workers : v # w => wpc'[v] = wpc[v]
      /\ wpc' \in [Workers -> Look \cup Busy \cup {"free_publish"}]
  BY DEF CounterStore, Goto, SchedInv, SchedTypeOK, Busy, Over
<1>2. \A v \in Workers :
        /\ wpc[v] \in Busy <=> wpc'[v] \in Busy
        /\ wpc[v] \in {"add", "park"} <=> wpc'[v] \in {"add", "park"}
        /\ wpc[v] \in Counts \cup Over <=> wpc'[v] \in Counts \cup Over
        /\ wpc[v] = "run" <=> wpc'[v] = "run"
        /\ wpc[v] = "free_publish" <=> wpc'[v] = "free_publish"
  BY <1>1 DEF Busy, Counts, Over
<1>3. cur' = cur /\ q' = q /\ pool' = pool /\ fd' = fd /\ body' = body
  BY DEF CounterStore
<1>4. /\ f \in Fibers /\ P \in Fibers /\ f \in Out(P) /\ LockOf(w) = P /\ InLock(w)
      /\ wtmp[w] = cnt[P].counter /\ fd[f].parent = P
  BY <1>1, CountsOut, DoneParent DEF Counts, SchedInv, Tested, Parent
<1>5. /\ wtmp' \in [Workers -> Int] /\ wtmp'[w] = 0
      /\ \A v \in Workers : v # w => wtmp'[v] = wtmp[v]
  BY DEF CounterStore, SchedInv, SchedTypeOK
<1>6. /\ cnt' \in [Fibers -> CounterData]
      /\ cnt'[P].counter = cnt[P].counter - 1
      /\ \A g \in Fibers : g # P => cnt'[g].counter = cnt[g].counter
      /\ \A g \in Fibers : cnt'[g].lock = cnt[g].lock /\ cnt'[g].waiters = cnt[g].waiters
  <2> DEFINE c == [cnt[P] EXCEPT !.counter = wtmp[w] - 1]
  <2>1. cnt \in [Fibers -> CounterData] /\ cnt[P] \in CounterData /\ wtmp[w] - 1 \in Int
    BY <1>4 DEF SchedInv, SchedTypeOK
  <2>2. cnt' = [cnt EXCEPT ![P] = c]
    BY <1>4, <2>1 DEF CounterStore
  <2>3. /\ c \in CounterData /\ c.counter = cnt[P].counter - 1
        /\ c.lock = cnt[P].lock /\ c.waiters = cnt[P].waiters
    BY <1>4, <2>1 DEF CounterData
  <2> HIDE DEF c
  <2> QED  BY <1>4, <2>1, <2>2, <2>3
<1>7. f = cur[w] /\ Parent(w) = P
  OBVIOUS
<1> HIDE DEF f, P
<1>8. Free' = Free /\ Queued' = Queued /\ Apart'
  BY <1>3, SameQueues DEF SchedInv
<1>9. \A v \in Workers : Parent(v)' = Parent(v) /\ LockOf(v)' = LockOf(v) /\ (InLock(v)' <=> InLock(v))
  BY <1>1, <1>2, <1>3 DEF Parent, LockOf, InLock
<1>10. cnt[P].counter \in Nat /\ cnt[P].counter > 0
  <2>1. IsFiniteSet(Out(P)) /\ Cardinality(Out(P)) \in Nat /\ Cardinality(Out(P)) # 0
    BY <1>4, OutFinite
  <2>2. Left(P) \in Nat /\ cnt[P].counter = Cardinality(Out(P)) + Left(P)
    BY <1>4, LeftNat DEF SchedInv, Counting
  <2> QED  BY <2>1, <2>2
<1>11. SchedTypeOK'
  BY <1>1, <1>3, <1>5, <1>6 DEF SchedInv, SchedTypeOK
<1>12. Holding' /\ Exclusive' /\ Popped'
  BY <1>2, <1>3, <1>8 DEF SchedInv, Holding, Exclusive, Popped
<1>13. States'
  BY <1>2, <1>3, <1>8, <1>9 DEF SchedInv, States
<1>14. Counting'
  <2>1. wpc[w] \notin Over /\ wpc'[w] \in Over
    BY <1>1 DEF Over
  <2>2. \A g \in Fibers : Active(g)' <=> Active(g) /\ g # f
    BY <1>1, <1>3, <1>7, <1>8, <2>1 DEF Active
  <2>3. ASSUME NEW h \in Fibers PROVE (cnt[h].counter = Cardinality(Out(h)) + Left(h))'
    <3>1. Left(h)' = Left(h) /\ Left(h) \in Nat /\ cnt[h].counter = Cardinality(Out(h)) + Left(h)
      BY <1>3, LeftNat DEF Left, SchedInv, Counting
    <3>2. IsFiniteSet(Out(h)) /\ Cardinality(Out(h)) \in Nat
      BY OutFinite
    <3>3. CASE h = P
      <4>1. Out(h)' = Out(h) \ {f} /\ f \in Out(h)
        BY <1>3, <1>4, <2>2, <3>3 DEF Out
      <4>2. Cardinality(Out(h) \ {f}) = Cardinality(Out(h)) - 1
        BY <3>2, <4>1, FS_RemoveElement
      <4> QED  BY <1>6, <3>1, <3>2, <3>3, <4>1, <4>2
    <3>4. CASE h # P
      <4>1. Out(h)' = Out(h)
        BY <1>3, <1>4, <2>2, <3>4 DEF Out
      <4> QED  BY <1>6, <3>1, <3>4, <4>1
    <3> QED  BY <3>3, <3>4
  <2> QED  BY <2>3 DEF Counting
<1>15. Between'
  <2>1. \A g \in Fibers : body[g].pc = "push" => body[g].got \in Fibers
    BY DEF SchedInv, Popped
  <2>2. \A v \in Workers : wpc[v] \in {"run"} \cup Counts \cup Over => cur[v] \in Fibers
    BY PcFacts DEF SchedInv, Holding
  <2>3. \A g \in Fibers : cnt[g].counter = 0 => cnt'[g].counter = 0
    BY <1>6, <1>10
  <2>4. \A v \in Workers : wpc'[v] \in {"run"} \cup Counts \cup Over => wpc[v] \in {"run"} \cup Counts \cup Over
    BY <1>2
  <2> QED  BY <1>3, <1>8, <2>1, <2>2, <2>3, <2>4 DEF SchedInv, Between
<1>16. \A v \in Workers : InLock(v) => LockOf(v) \in Fibers
  BY LockOfFiber DEF SchedInv
<1>17. Locks'
  BY <1>6, <1>9, <1>16 DEF SchedInv, Locks
<1>18. \A v \in Workers : v # w /\ InLock(v) => LockOf(v) # P
  BY <1>4 DEF SchedInv, Locks
<1>19. \A v \in Workers : v # w /\ wpc[v] \in {"store", "wake", "wake_publish"} =>
         Parent(v) # P /\ Parent(v) \in Fibers
  <2> SUFFICES ASSUME NEW v \in Workers, v # w, wpc[v] \in {"store", "wake", "wake_publish"}
               PROVE  Parent(v) # P /\ Parent(v) \in Fibers
    OBVIOUS
  <2>1. wpc[v] \in Counts \cup Over /\ wpc[v] \notin {"done", "free"}
    BY DEF Counts, Over
  <2> QED  BY <1>18, <2>1, DoneParent
<1>20. \A v \in Workers : v # w /\ wpc[v] \in {"add", "park"} => cur[v] # P /\ cur[v] \in Fibers
  <2> SUFFICES ASSUME NEW v \in Workers, v # w, wpc[v] \in {"add", "park"}
               PROVE  cur[v] # P /\ cur[v] \in Fibers
    OBVIOUS
  <2>1. InLock(v) /\ LockOf(v) = cur[v]
    BY DEF InLock, LockOf, Counts, Over
  <2> QED  BY <1>16, <1>18, <2>1
<1>21. Tested'
  BY <1>1, <1>3, <1>5, <1>6, <1>9, <1>19, <1>20 DEF SchedInv, Tested
<1>22. Listed'
  BY <1>1, <1>3, <1>6, PcFacts DEF SchedInv, Listed, Holding
<1>23. Somewhere'
  BY <1>2, <1>3, <1>8 DEF SchedInv, Somewhere, Unplaced
<1>24. \A g \in Fibers : Asleep(g)' <=> Asleep(g)
  BY <1>3, <1>8 DEF Asleep
<1>25. Sleeping'
  BY <1>1, <1>3, <1>5, <1>6, <1>7, <1>9, <1>24 DEF SchedInv, Sleeping
<1>26. Woken'
  <2>1. cnt[P].waiters # <<>> => Asleep(P)
    BY <1>4, <1>10 DEF SchedInv, Woken
  <2>2. ASSUME NEW g \in Fibers, cnt'[g].waiters # <<>>, cnt'[g].counter # 0 PROVE Asleep(g)'
    BY <1>6, <1>24, <2>1, <2>2 DEF SchedInv, Woken
  <2>3. ASSUME NEW v \in Workers, NEW g \in Fibers,
               wpc'[v] \in {"zero", "wake"}, wtmp'[v] = 0, Parent(v)' = g,
               cnt'[g].counter = 0, cnt'[g].waiters # <<>>
        PROVE  Asleep(g)'
    BY <1>1, <1>5, <1>6, <1>7, <1>9, <1>24, <2>1, <2>3 DEF SchedInv, Woken
  <2> QED  BY <2>2, <2>3 DEF Woken
<1> QED  BY <1>8, <1>11, <1>12, <1>13, <1>14, <1>15, <1>17, <1>21, <1>22, <1>23, <1>25, <1>26 DEF SchedInv

\* The waiter of a counter that reached zero is queued.
LEMMA WakeKeeps ==
  ASSUME SchedInv, NEW w \in Workers, Wake(w)
  PROVE  SchedInv'
<1>1. /\ wpc[w] = "wake" /\ wpc'[w] = "wake_publish"
      /\ \A v \in Workers : v # w => wpc'[v] = wpc[v]
      /\ wpc' \in [Workers -> Look \cup Busy \cup {"free_publish"}]
  BY DEF Wake, Goto, SchedInv, SchedTypeOK, Busy, Over
<1>2. \A v \in Workers :
        /\ wpc[v] \in Busy <=> wpc'[v] \in Busy
        /\ wpc[v] \in {"add", "park"} <=> wpc'[v] \in {"add", "park"}
        /\ wpc[v] \in Counts <=> wpc'[v] \in Counts
        /\ wpc[v] \in Over <=> wpc'[v] \in Over
        /\ wpc[v] = "run" <=> wpc'[v] = "run"
        /\ wpc[v] = "free_publish" <=> wpc'[v] = "free_publish"
  BY <1>1 DEF Busy, Counts, Over
<1>3. cur' = cur /\ pool' = pool /\ fd' = fd /\ body' = body /\ cnt' = cnt
  BY DEF Wake
<1>4. PICK P \in Fibers : P = Parent(w)
  BY <1>1, DoneParent DEF Over
<1>5. /\ LockOf(w) = P /\ InLock(w) /\ wtmp[w] \in {0, 1}
      /\ cnt[P].counter = 0 /\ cnt[P].waiters \in {<<>>, <<P>>}
  BY <1>1, <1>4, DoneParent DEF Over, SchedInv, Tested, Listed
<1>6. wtmp[w] = 0 /\ cnt[P].waiters = <<P>> /\ cnt[P].waiters[1] = P
  <2>1. wtmp[w] + 1 <= Len(cnt[P].waiters)
    BY <1>4 DEF Wake
  <2>2. CASE cnt[P].waiters = <<>>
    <3>1. Len(cnt[P].waiters) = 0
      BY <2>2
    <3> QED  BY <1>5, <2>1, <3>1
  <2>3. CASE cnt[P].waiters = <<P>>
    <3>1. Len(cnt[P].waiters) = 1 /\ cnt[P].waiters[1] = P
      BY <2>3
    <3> QED  BY <1>5, <2>1, <2>3, <3>1
  <2> QED  BY <1>5, <2>2, <2>3
<1>7. Asleep(P)
  <2>1. cnt[P].waiters # <<>>
    BY <1>6
  <2> QED  BY <1>1, <1>4, <1>5, <1>6, <2>1 DEF SchedInv, Woken
<1>8. fd[P].state = "WAIT" /\ P \notin Queued /\ P \notin Free /\ body[P].pc = "start"
  BY <1>7 DEF Asleep, SchedInv, States
<1>9. fd[P].priority \in Priorities /\ Enqueue(fd[P].priority, P)
  <2>1. fd[P] \in FiberData
    BY DEF SchedInv, SchedTypeOK
  <2>2. Enqueue(fd[cnt[P].waiters[wtmp[w] + 1]].priority, cnt[P].waiters[wtmp[w] + 1])
    BY <1>4 DEF Wake
  <2>3. wtmp[w] + 1 = 1
    BY <1>6
  <2> QED  BY <1>6, <2>1, <2>2, <2>3 DEF FiberData
<1>10. Queued' = Queued \cup {P} /\ Free' = Free /\ q' \in [Priorities -> Seq(Fibers)] /\ Apart'
  BY <1>3, <1>8, <1>9, EnqueueFacts DEF SchedInv
<1>11. /\ wtmp' \in [Workers -> Int] /\ wtmp'[w] = 1
       /\ \A v \in Workers : v # w => wtmp'[v] = wtmp[v]
  BY <1>6 DEF Wake, SchedInv, SchedTypeOK
<1>12. \A v \in Workers : Parent(v)' = Parent(v) /\ LockOf(v)' = LockOf(v) /\ (InLock(v)' <=> InLock(v))
  BY <1>1, <1>2, <1>3 DEF Parent, LockOf, InLock
<1>13. \A v \in Workers : v # w /\ InLock(v) => LockOf(v) # P
  BY <1>5 DEF SchedInv, Locks
<1>14. \A v \in Workers : wpc[v] \in Busy => cur[v] # P
  <2> SUFFICES ASSUME NEW v \in Workers, wpc[v] \in Busy, cur[v] = P PROVE FALSE
    OBVIOUS
  <2>1. wpc[v] \in {"add", "park"}
    BY <1>8 DEF Busy, SchedInv, States
  <2>2. InLock(v) /\ LockOf(v) = P /\ v # w
    BY <1>1, <2>1 DEF InLock, LockOf, Counts, Over
  <2> QED  BY <1>13, <2>2
<1>15. SchedTypeOK'
  BY <1>1, <1>3, <1>10, <1>11 DEF SchedInv, SchedTypeOK
<1>16. Holding' /\ Exclusive'
  BY <1>2, <1>3, <1>10, <1>14 DEF SchedInv, Holding, Exclusive
<1>17. Popped'
  BY <1>2, <1>3, <1>8, <1>10 DEF SchedInv, Popped
<1>18. States'
  BY <1>2, <1>3, <1>8, <1>10, <1>12 DEF SchedInv, States
<1>19. Counting'
  <2>1. \A g \in Fibers : Active(g)' = Active(g)
    BY <1>2, <1>3, <1>10 DEF Active
  <2>2. \A g \in Fibers : Left(g)' = Left(g)
    BY <1>3 DEF Left
  <2> QED  BY <1>3, <2>1, <2>2, SameCount DEF SchedInv
<1>20. Between'
  BY <1>2, <1>3, <1>5, <1>10 DEF SchedInv, Between
<1>21. Locks'
  BY <1>3, <1>12 DEF SchedInv, Locks
<1>22. Tested'
  BY <1>1, <1>3, <1>4, <1>5, <1>11, <1>12 DEF SchedInv, Tested
<1>23. Listed'
  BY <1>1, <1>3 DEF SchedInv, Listed
<1>24. Somewhere'
  <2>1. ASSUME NEW g \in Fibers, Unplaced(g)' PROVE Unplaced(g)
    BY <1>2, <1>3, <1>10, <2>1 DEF Unplaced
  <2> QED  BY <1>3, <2>1 DEF SchedInv, Somewhere
<1>25. \A g \in Fibers : Asleep(g)' <=> Asleep(g) /\ g # P
  BY <1>3, <1>10 DEF Asleep
<1>26. Sleeping'
  BY <1>1, <1>3, <1>4, <1>11, <1>12, <1>25 DEF SchedInv, Sleeping
<1>27. \A v \in Workers : v # w /\ wpc[v] \in {"zero", "wake"} => Parent(v) # P
  <2> SUFFICES ASSUME NEW v \in Workers, v # w, wpc[v] \in {"zero", "wake"} PROVE Parent(v) # P
    OBVIOUS
  <2>1. wpc[v] \in Counts \cup Over /\ wpc[v] \notin {"done", "free"}
    BY DEF Counts, Over
  <2> QED  BY <1>13, <2>1, DoneParent
<1>28. Woken'
  BY <1>1, <1>3, <1>5, <1>11, <1>12, <1>25, <1>27 DEF SchedInv, Woken
<1> QED  BY <1>10, <1>15, <1>16, <1>17, <1>18, <1>19, <1>20, <1>21, <1>22, <1>23, <1>24, <1>26, <1>28 DEF SchedInv

-----------------------------------------------------------------------------
(* Back to the scheduler. *)

\* A fiber that has to wait jumps back to its worker.
LEMMA WaitJumpKeeps ==
  ASSUME SchedInv, NEW w \in Workers, WaitJump(w)
  PROVE  SchedInv'
<1>1. PICK f \in Fibers : f = cur[w]
  BY RunningFiber DEF WaitJump
<1>2. wpc[w] = "run" /\ body[f].pc = "test" /\ body[f].got = NoFiber /\ cnt[f].counter # 0
  BY <1>1, RunningFiber DEF WaitJump
<1>3. /\ wpc'[w] = "add" /\ \A v \in Workers : v # w => wpc'[v] = wpc[v]
      /\ wpc' \in [Workers -> Look \cup Busy \cup {"free_publish"}]
  BY DEF WaitJump, Goto, SchedInv, SchedTypeOK, Busy
<1>4. /\ \A v \in Workers : wpc[v] \in Busy <=> wpc'[v] \in Busy
      /\ \A v \in Workers : wpc[v] \in Counts <=> wpc'[v] \in Counts
      /\ \A v \in Workers : wpc[v] \in Over <=> wpc'[v] \in Over
      /\ \A v \in Workers : wpc[v] = "free_publish" <=> wpc'[v] = "free_publish"
      /\ wpc[w] \in Busy /\ wpc[w] \notin Counts /\ wpc[w] \notin Over
  BY <1>2, <1>3 DEF Busy, Counts, Over
<1>5. cur' = cur /\ q' = q /\ pool' = pool /\ wtmp' = wtmp /\ cnt' = cnt
  BY DEF WaitJump
<1>6. /\ fd' \in [Fibers -> FiberData]
      /\ fd'[f].state = "WAIT" /\ fd'[f].parent = fd[f].parent
      /\ \A g \in Fibers : g # f => fd'[g] = fd[g]
  BY <1>1, SetState DEF WaitJump, SchedInv
<1>7. /\ body' \in [Fibers -> BodyData] /\ body'[f].pc = "start"
      /\ body'[f].todo = body[f].todo /\ body'[f].got = body[f].got
      /\ \A g \in Fibers : g # f => body'[g] = body[g]
  BY <1>1, FiberGotoFacts DEF WaitJump, SchedInv
<1>8. /\ f \notin Free /\ f \notin Queued /\ fd[f].state = "RUN"
      /\ \A v \in Workers : v # w /\ wpc[v] \in Busy => cur[v] # f /\ cur[v] \in Fibers
  BY <1>1, <1>2, <1>4 DEF SchedInv, Exclusive, States, Holding
<1>9. Free' = Free /\ Queued' = Queued /\ Apart'
  BY <1>5, SameQueues DEF SchedInv
<1>10. \A v \in Workers : v # w /\ wpc[v] \in Busy =>
         /\ fd'[cur'[v]] = fd[cur[v]] /\ body'[cur'[v]] = body[cur[v]]
         /\ Parent(v)' = Parent(v) /\ LockOf(v)' = LockOf(v) /\ (InLock(v)' <=> InLock(v))
  BY <1>3, <1>5, <1>6, <1>7, <1>8 DEF Parent, LockOf, InLock
<1>11. InLock(w) /\ LockOf(w) = f /\ LockOf(w)' = f
  BY <1>1, <1>2, <1>3, <1>4, <1>5 DEF InLock, LockOf, Counts, Over
<1>12. SchedTypeOK'
  BY <1>3, <1>5, <1>6, <1>7 DEF SchedInv, SchedTypeOK
<1>13. Holding' /\ Exclusive'
  BY <1>4, <1>5, <1>9 DEF SchedInv, Holding, Exclusive
<1>14. Popped'
  <2>1. \A g \in Fibers : body'[g].pc = "push" => g # f /\ body'[g] = body[g] /\ body[g].got # f
    BY <1>1, <1>4, <1>7 DEF SchedInv, Popped
  <2> QED  BY <1>2, <1>4, <1>5, <1>6, <1>7, <1>9, <2>1 DEF SchedInv, Popped
<1>15. States'
  <2>1. \A v \in Workers : wpc'[v] = "run" => fd'[cur'[v]].state = "RUN"
    BY <1>3, <1>10, PcFacts DEF SchedInv, States
  <2>2. \A v \in Workers : wpc'[v] \in {"add", "park"} => fd'[cur'[v]].state = "WAIT"
    BY <1>1, <1>3, <1>5, <1>6, <1>10, PcFacts DEF SchedInv, States
  <2>3. \A v \in Workers : wpc'[v] \in Counts \cup Over =>
         /\ fd'[cur'[v]].state = "DONE" /\ body'[cur'[v]].pc = "start"
         /\ Parent(v)' \in Fibers /\ cur'[v] # Root
    BY <1>4, <1>5, <1>10, PcFacts DEF SchedInv, States
  <2>4. \A g \in Fibers : g \in Free' => fd'[g].state \notin {"RUN", "WAIT"} /\ g # Root
    BY <1>6, <1>8, <1>9 DEF SchedInv, States
  <2>5. \A g \in Fibers : g = Root \/ g \in Free' \/ fd'[g].parent \in Fibers
    BY <1>6, <1>9 DEF SchedInv, States
  <2>6. \A g \in Fibers : g \in Free' \/ g \in Queued' \/ fd'[g].state = "WAIT" => body'[g].pc = "start"
    BY <1>6, <1>7, <1>9 DEF SchedInv, States
  <2> QED  BY <2>1, <2>2, <2>3, <2>4, <2>5, <2>6 DEF States
<1>16. Counting'
  <2>1. \A g \in Fibers : Active(g)' = Active(g)
    BY <1>4, <1>5, <1>9 DEF Active
  <2>2. ASSUME NEW g \in Fibers PROVE Left(g)' = Left(g)
    BY <1>2, <1>7 DEF Left
  <2>3. \A g \in Fibers : fd'[g].parent = fd[g].parent
    BY <1>6
  <2> QED  BY <1>5, <2>1, <2>2, <2>3, SameCount DEF SchedInv
<1>17. Between'
  <2>1. \A g \in Fibers : body'[g].pc = "push" => body'[g] = body[g]
    BY <1>7
  <2>2. \A v \in Workers : wpc'[v] \in {"run"} \cup Counts \cup Over =>
          v # w /\ wpc[v] \in {"run"} \cup Counts \cup Over /\ body'[cur'[v]] = body[cur[v]]
    BY <1>3, <1>4, <1>10, PcFacts
  <2> QED  BY <1>5, <1>9, <2>1, <2>2 DEF SchedInv, Between
<1>18. Locks'
  <2>1. \A v \in Workers : InLock(v)' => InLock(v) /\ LockOf(v)' = LockOf(v)
    <3>1. ASSUME NEW v \in Workers, InLock(v)', v # w PROVE wpc[v] \in Busy
      BY <1>3, <3>1, PcFacts DEF InLock
    <3> QED  BY <1>10, <1>11, <3>1
  <2> QED  BY <1>5, <2>1 DEF SchedInv, Locks
<1>19. Tested'
  BY <1>1, <1>2, <1>3, <1>5, <1>10, PcFacts DEF SchedInv, Tested
<1>20. Listed'
  <2>1. body[f].pc \in Round /\ "start" \notin Round
    BY <1>2 DEF Round
  <2>2. cnt[f].waiters = <<>>
    BY <2>1 DEF SchedInv, Listed
  <2> QED  BY <1>1, <1>3, <1>5, <1>7, <2>1, <2>2 DEF SchedInv, Listed
<1>21. Somewhere'
  <2>1. \A g \in Fibers : body[g].pc = "push" => g # f /\ body'[g] = body[g]
    BY <1>2, <1>7
  <2>2. ASSUME NEW g \in Fibers, Unplaced(g)' PROVE Unplaced(g)
    BY <1>4, <1>5, <1>9, <2>1, <2>2 DEF Unplaced
  <2> QED  BY <1>6, <2>2 DEF SchedInv, Somewhere
<1>22. \A g \in Fibers : Asleep(g)' <=> Asleep(g) \/ g = f
  BY <1>6, <1>8, <1>9 DEF Asleep
<1>23. Sleeping'
  BY <1>1, <1>2, <1>3, <1>5, <1>10, <1>22, PcFacts DEF SchedInv, Sleeping
<1>24. Woken'
  BY <1>3, <1>5, <1>10, <1>22, PcFacts DEF SchedInv, Woken
<1> QED  BY <1>9, <1>12, <1>13, <1>14, <1>15, <1>16, <1>17, <1>18, <1>19, <1>20, <1>21, <1>23, <1>24 DEF SchedInv

\* A fiber finishes its job.
LEMMA FinishKeeps ==
  ASSUME SchedInv, NEW w \in Workers, Finish(w)
  PROVE  SchedInv'
<1>1. PICK f \in Fibers : f = cur[w]
  BY RunningFiber DEF Finish
<1>2. CASE f = Root
  BY <1>1, <1>2, HaltKeeps DEF Finish
<1>3. CASE f # Root
  <2>1. wpc[w] = "run" /\ body[f].pc = "start"
    BY <1>1, RunningFiber DEF Finish
  <2>2. /\ wpc'[w] = "done" /\ \A v \in Workers : v # w => wpc'[v] = wpc[v]
        /\ wpc' \in [Workers -> Look \cup Busy \cup {"free_publish"}]
    BY <1>1, <1>3 DEF Finish, Goto, SchedInv, SchedTypeOK, Busy, Counts
  <2>3. /\ \A v \in Workers : wpc[v] \in Busy <=> wpc'[v] \in Busy
        /\ \A v \in Workers : wpc[v] \in Over <=> wpc'[v] \in Over
        /\ \A v \in Workers : wpc[v] \in {"add", "park"} <=> wpc'[v] \in {"add", "park"}
        /\ \A v \in Workers : wpc[v] = "free_publish" <=> wpc'[v] = "free_publish"
        /\ wpc[w] \in Busy /\ wpc[w] \notin Counts /\ wpc[w] \notin Over /\ wpc'[w] \in Counts
    BY <2>1, <2>2 DEF Busy, Counts, Over
  <2>4. cur' = cur /\ q' = q /\ pool' = pool /\ wtmp' = wtmp /\ cnt' = cnt /\ body' = body
    BY DEF Finish
  <2>5. /\ fd' \in [Fibers -> FiberData]
        /\ fd'[f].state = "DONE" /\ fd'[f].parent = fd[f].parent
        /\ \A g \in Fibers : g # f => fd'[g] = fd[g]
    BY <1>1, <1>3, SetState DEF Finish, SchedInv
  <2>6. /\ f \notin Free /\ f \notin Queued /\ fd[f].state = "RUN" /\ fd[f].parent \in Fibers
        /\ \A v \in Workers : v # w /\ wpc[v] \in Busy => cur[v] # f /\ cur[v] \in Fibers
    BY <1>1, <1>3, <2>1, <2>3 DEF SchedInv, Exclusive, States, Holding
  <2>7. Free' = Free /\ Queued' = Queued /\ Apart'
    BY <2>4, SameQueues DEF SchedInv
  <2>8. \A v \in Workers : v # w /\ wpc[v] \in Busy =>
           /\ fd'[cur'[v]] = fd[cur[v]]
           /\ Parent(v)' = Parent(v) /\ LockOf(v)' = LockOf(v) /\ (InLock(v)' <=> InLock(v))
    BY <2>2, <2>4, <2>5, <2>6 DEF Parent, LockOf, InLock
  <2>9. ~InLock(w)' /\ Parent(w)' = fd[f].parent
    BY <1>1, <2>2, <2>4, <2>5 DEF InLock, Parent
  <2>10. SchedTypeOK'
    BY <2>2, <2>4, <2>5 DEF SchedInv, SchedTypeOK
  <2>11. Holding' /\ Exclusive'
    BY <2>3, <2>4, <2>7 DEF SchedInv, Holding, Exclusive
  <2>12. Popped'
    <3>1. \A g \in Fibers : body[g].pc = "push" => body[g].got # f
      BY <1>1, <2>3 DEF SchedInv, Popped
    <3> QED  BY <2>3, <2>4, <2>5, <2>7, <3>1 DEF SchedInv, Popped
  <2>13. States'
    <3>1. \A v \in Workers : wpc'[v] = "run" => fd'[cur'[v]].state = "RUN"
      BY <2>2, <2>8, PcFacts DEF SchedInv, States
    <3>2. \A v \in Workers : wpc'[v] \in {"add", "park"} => fd'[cur'[v]].state = "WAIT"
      BY <2>2, <2>8, PcFacts DEF SchedInv, States
    <3>3. \A v \in Workers : wpc'[v] \in Counts \cup Over =>
           /\ fd'[cur'[v]].state = "DONE" /\ body'[cur'[v]].pc = "start"
           /\ Parent(v)' \in Fibers /\ cur'[v] # Root
      <4> SUFFICES ASSUME NEW v \in Workers, wpc'[v] \in Counts \cup Over
                   PROVE  /\ fd'[cur'[v]].state = "DONE" /\ body'[cur'[v]].pc = "start"
                          /\ Parent(v)' \in Fibers /\ cur'[v] # Root
        OBVIOUS
      <4>1. CASE v = w
        BY <1>1, <1>3, <2>1, <2>4, <2>5, <2>6, <2>9, <4>1
      <4>2. CASE v # w
        BY <2>2, <2>4, <2>8, <4>2, PcFacts DEF SchedInv, States
      <4> QED  BY <4>1, <4>2
    <3>4. \A g \in Fibers : g \in Free' => fd'[g].state \notin {"RUN", "WAIT"} /\ g # Root
      BY <2>5, <2>6, <2>7 DEF SchedInv, States
    <3>5. \A g \in Fibers : g = Root \/ g \in Free' \/ fd'[g].parent \in Fibers
      BY <2>5, <2>7 DEF SchedInv, States
    <3>6. \A g \in Fibers : g \in Free' \/ g \in Queued' \/ fd'[g].state = "WAIT" => body'[g].pc = "start"
      BY <2>4, <2>5, <2>7 DEF SchedInv, States
    <3> QED  BY <3>1, <3>2, <3>3, <3>4, <3>5, <3>6 DEF States
  <2>14. Counting'
    <3>1. \A g \in Fibers : Active(g)' = Active(g)
      BY <2>3, <2>4, <2>7 DEF Active
    <3>2. \A g \in Fibers : Left(g)' = Left(g)
      BY <2>4 DEF Left
    <3>3. \A g \in Fibers : fd'[g].parent = fd[g].parent
      BY <2>5
    <3> QED  BY <2>4, <3>1, <3>2, <3>3, SameCount DEF SchedInv
  <2>15. Between'
    <3>1. \A v \in Workers : wpc'[v] \in {"run"} \cup Counts \cup Over =>
            wpc[v] \in {"run"} \cup Counts \cup Over
      BY <2>1, <2>2
    <3> QED  BY <2>4, <2>7, <3>1 DEF SchedInv, Between
  <2>16. Locks'
    <3>1. \A v \in Workers : InLock(v)' => InLock(v) /\ LockOf(v)' = LockOf(v)
      <4>1. ASSUME NEW v \in Workers, InLock(v)', v # w PROVE wpc[v] \in Busy
        BY <2>2, <4>1, PcFacts DEF InLock
      <4> QED  BY <2>8, <2>9, <4>1
    <3> QED  BY <2>4, <3>1 DEF SchedInv, Locks
  <2>17. Tested'
    BY <2>2, <2>4, <2>8, PcFacts DEF SchedInv, Tested
  <2>18. Listed'
    BY <2>2, <2>4 DEF SchedInv, Listed
  <2>19. Somewhere'
    <3>1. ASSUME NEW g \in Fibers, Unplaced(g)' PROVE Unplaced(g) /\ g # f
      BY <1>1, <2>3, <2>4, <2>7, <3>1 DEF Unplaced
    <3> QED  BY <2>5, <3>1 DEF SchedInv, Somewhere
  <2>20. \A g \in Fibers : Asleep(g)' <=> Asleep(g)
    BY <2>5, <2>6, <2>7 DEF Asleep
  <2>21. Sleeping' /\ Woken'
    BY <2>1, <2>2, <2>4, <2>8, <2>20, PcFacts DEF SchedInv, Sleeping, Woken
  <2> QED  BY <2>7, <2>10, <2>11, <2>12, <2>13, <2>14, <2>15, <2>16, <2>17, <2>18, <2>19, <2>21 DEF SchedInv
<1> QED  BY <1>2, <1>3

-----------------------------------------------------------------------------
(* vgc_enque_job. *)

\* vgc_enque_job takes a free fiber: a job left becomes one under way.
LEMMA EnqueJobPopKeeps ==
  ASSUME SchedInv, NEW w \in Workers, NEW p \in JobPrio, EnqueJobPop(w, p)
  PROVE  SchedInv'
<1>1. PICK f \in Fibers : f = cur[w]
  BY RunningFiber DEF EnqueJobPop
<1>2. wpc[w] = "run" /\ body[f].pc = "enque" /\ body[f] \in BodyData /\ body[f].todo > 0
  BY <1>1, RunningFiber DEF EnqueJobPop
<1>3. PICK g \in Fibers : g = Head(pool)
  BY PoolPopFacts DEF EnqueJobPop, Ready, SchedInv
<1>4. g \in Free /\ Free' = Free \ {g} /\ Queued' = Queued /\ pool' \in Seq(Fibers) /\ Apart'
  BY <1>3, PoolPopFacts DEF EnqueJobPop, Ready, SchedInv
<1>5. q' = q /\ wpc' = wpc /\ cur' = cur /\ wtmp' = wtmp /\ cnt' = cnt
  BY DEF EnqueJobPop
<1>6. /\ wpc[w] \in Busy /\ f \notin Free /\ f \notin Queued /\ f # g /\ fd[f].state = "RUN"
      /\ g \notin Queued /\ fd[g].state \notin {"RUN", "WAIT"} /\ g # Root
      /\ \A v \in Workers : v # w /\ wpc[v] \in Busy => cur[v] # f
      /\ \A v \in Workers : wpc[v] \in Busy => cur[v] \in Fibers /\ cur[v] # g
  BY <1>1, <1>2, <1>4, PcFacts DEF SchedInv, Exclusive, States, Holding, Apart
<1>7. /\ fd' \in [Fibers -> FiberData]
      /\ fd'[g].state = fd[g].state /\ fd'[g].parent = f
      /\ \A h \in Fibers : h # g => fd'[h] = fd[h]
  <2> DEFINE d == [fd[g] EXCEPT !.priority = p, !.parent = f]
  <2>1. fd \in [Fibers -> FiberData] /\ fd[g] \in FiberData /\ p \in Priorities
    BY FiberAssumption DEF SchedInv, SchedTypeOK
  <2>2. fd' = [fd EXCEPT ![g] = d]
    BY <1>1, <1>3, <2>1 DEF EnqueJobPop
  <2>3. d \in FiberData /\ d.state = fd[g].state /\ d.parent = f
    BY <2>1 DEF FiberData
  <2> HIDE DEF d
  <2> QED  BY <2>1, <2>2, <2>3
<1>8. /\ body' \in [Fibers -> BodyData]
      /\ body'[f].pc = "push" /\ body'[f].got = g /\ body'[f].todo = body[f].todo
      /\ body'[g].pc = "start" /\ body'[g].got = NoFiber /\ body'[g].todo = 0
      /\ \A h \in Fibers : h # f /\ h # g => body'[h] = body[h]
  <2> DEFINE b == [body[f] EXCEPT !.pc = "push", !.got = g]
             c == BodyInit(body[f].depth + 1)
  <2>1. body \in [Fibers -> BodyData]
    BY DEF SchedInv, SchedTypeOK
  <2>2. body' = [[body EXCEPT ![f] = b] EXCEPT ![g] = c]
    BY <1>1, <1>3, <2>1 DEF EnqueJobPop
  <2>3. b \in BodyData /\ b.pc = "push" /\ b.got = g /\ b.todo = body[f].todo
    <3>1. "push" \in Round
      BY DEF Round
    <3> QED  BY <1>2, <3>1 DEF BodyData
  <2>4. c \in BodyData /\ c.pc = "start" /\ c.got = NoFiber /\ c.todo = 0
    BY <1>2 DEF BodyInit, BodyData
  <2> HIDE DEF b, c
  <2> QED  BY <1>6, <2>1, <2>2, <2>3, <2>4
<1>9. \A v \in Workers : v # w /\ wpc[v] \in Busy =>
         /\ fd'[cur'[v]] = fd[cur[v]] /\ body'[cur'[v]] = body[cur[v]]
         /\ Parent(v)' = Parent(v) /\ LockOf(v)' = LockOf(v) /\ (InLock(v)' <=> InLock(v))
  BY <1>5, <1>6, <1>7, <1>8 DEF Parent, LockOf, InLock
<1>10. ~InLock(w)' /\ fd'[cur'[w]] = fd[cur[w]] /\ wpc[w] \notin {"zero", "wake"}
  BY <1>1, <1>2, <1>5, <1>6, <1>7, <1>8 DEF InLock
<1>11. SchedTypeOK'
  BY <1>4, <1>5, <1>7, <1>8 DEF SchedInv, SchedTypeOK
<1>12. Holding' /\ Exclusive'
  BY <1>4, <1>5 DEF SchedInv, Holding, Exclusive
<1>13. Popped'
  <2>1. /\ \A h \in Fibers : body'[h].got # NoFiber => body'[h].pc \in {"push", "publish"}
        /\ \A h \in Fibers : body'[h].pc \in {"push", "publish"} => body'[h].todo > 0
    BY <1>2, <1>8 DEF SchedInv, Popped
  <2>2. \A h \in Fibers : body'[h].pc = "push" /\ h # f =>
          /\ body'[h] = body[h] /\ body[h].pc = "push"
          /\ body[h].got \in Fibers /\ body[h].got # f /\ body[h].got # g
    BY <1>1, <1>4, <1>6, <1>8 DEF SchedInv, Popped
  <2>3. ASSUME NEW h \in Fibers, body'[h].pc = "push"
        PROVE  /\ body'[h].got \in Fibers /\ body'[h].got \notin Free' /\ body'[h].got \notin Queued'
               /\ \A v \in Workers : wpc'[v] \in Busy => cur'[v] # body'[h].got
               /\ fd'[body'[h].got].state \notin {"RUN", "WAIT"}
               /\ body'[body'[h].got].pc = "start"
    <3>1. CASE h = f
      BY <1>4, <1>5, <1>6, <1>7, <1>8, <3>1
    <3>2. CASE h # f
      <4>1. PICK k \in Fibers : k = body[h].got /\ k = body'[h].got /\ k # f /\ k # g
        BY <2>2, <2>3, <3>2
      <4>2. /\ k \notin Free /\ k \notin Queued
            /\ \A v \in Workers : wpc[v] \in Busy => cur[v] # k
            /\ fd[k].state \notin {"RUN", "WAIT"} /\ body[k].pc = "start"
        BY <2>2, <2>3, <3>2, <4>1 DEF SchedInv, Popped
      <4> QED  BY <1>4, <1>5, <1>7, <1>8, <4>1, <4>2
    <3> QED  BY <3>1, <3>2
  <2>4. \A h, k \in Fibers :
          body'[h].pc = "push" /\ body'[k].pc = "push" /\ body'[h].got = body'[k].got => h = k
    BY <1>8, <2>2 DEF SchedInv, Popped
  <2> QED  BY <2>1, <2>3, <2>4 DEF Popped
<1>14. States'
  <2>1. \A v \in Workers : wpc'[v] = "run" => fd'[cur'[v]].state = "RUN"
    BY <1>5, <1>9, <1>10, PcFacts DEF SchedInv, States
  <2>2. \A v \in Workers : wpc'[v] \in {"add", "park"} => fd'[cur'[v]].state = "WAIT"
    BY <1>5, <1>9, <1>10, PcFacts DEF SchedInv, States
  <2>3. \A v \in Workers : wpc'[v] \in Counts \cup Over =>
         /\ fd'[cur'[v]].state = "DONE" /\ body'[cur'[v]].pc = "start"
         /\ Parent(v)' \in Fibers /\ cur'[v] # Root
    <3>1. wpc[w] \notin Counts \cup Over
      BY <1>2 DEF Counts, Over
    <3> QED  BY <1>5, <1>9, <3>1, PcFacts DEF SchedInv, States
  <2>4. \A h \in Fibers : h \in Free' => fd'[h].state \notin {"RUN", "WAIT"} /\ h # Root
    BY <1>4, <1>7 DEF SchedInv, States
  <2>5. \A h \in Fibers : h = Root \/ h \in Free' \/ fd'[h].parent \in Fibers
    BY <1>4, <1>7 DEF SchedInv, States
  <2>6. \A h \in Fibers : h \in Free' \/ h \in Queued' \/ fd'[h].state = "WAIT" => body'[h].pc = "start"
    BY <1>4, <1>6, <1>7, <1>8 DEF SchedInv, States
  <2> QED  BY <2>1, <2>2, <2>3, <2>4, <2>5, <2>6 DEF States
<1>15. Counting'
  <2>1. \A v \in Workers : wpc[v] \in Over => cur[v] # g
    BY <1>6, PcFacts
  <2>2. \A h \in Fibers : Active(h)' <=> Active(h) \/ h = g
    BY <1>4, <1>5, <2>1 DEF Active
  <2>3. ~Active(g)
    BY <1>4 DEF Active
  <2>4. ASSUME NEW h \in Fibers PROVE (cnt[h].counter = Cardinality(Out(h)) + Left(h))'
    <3>1. Left(h) \in Nat /\ cnt[h].counter = Cardinality(Out(h)) + Left(h)
      BY LeftNat DEF SchedInv, Counting
    <3>2. IsFiniteSet(Out(h)) /\ Cardinality(Out(h)) \in Nat
      BY OutFinite
    <3>3. CASE h = f
      <4>1. Out(h)' = Out(h) \cup {g} /\ g \notin Out(h)
        BY <1>6, <1>7, <2>2, <2>3, <3>3 DEF Out
      <4>2. Cardinality(Out(h) \cup {g}) = Cardinality(Out(h)) + 1
        BY <3>2, <4>1, FS_AddElement
      <4>3. Left(h)' = Left(h) - 1
        BY <1>2, <1>8, <3>3 DEF Left
      <4> QED  BY <1>5, <3>1, <3>2, <4>1, <4>2, <4>3
    <3>4. CASE h # f
      <4>1. Out(h)' = Out(h)
        BY <1>7, <2>2, <2>3, <3>4 DEF Out
      <4>2. Left(h)' = Left(h)
        <5>1. CASE h = g
          <6>1. cnt[h].counter = 0
            BY <1>4, <5>1 DEF SchedInv, Between
          <6>2. Left(h) = 0
            BY <3>1, <3>2, <6>1
          <6> QED  BY <1>8, <5>1, <6>2 DEF Left
        <5>2. CASE h # g
          BY <1>8, <3>4, <5>2 DEF Left
        <5> QED  BY <5>1, <5>2
      <4> QED  BY <1>5, <3>1, <4>1, <4>2
    <3> QED  BY <3>3, <3>4
  <2> QED  BY <2>4 DEF Counting
<1>16. Between'
  <2>1. \A h \in Fibers : h \in Free' \/ h \in Queued' => cnt'[h].counter = 0
    BY <1>4, <1>5 DEF SchedInv, Between
  <2>2. \A h \in Fibers : body'[h].pc = "push" => cnt'[body'[h].got].counter = 0
    BY <1>4, <1>5, <1>8 DEF SchedInv, Between
  <2>3. \A v \in Workers : wpc'[v] \in {"run"} \cup Counts \cup Over /\ body'[cur'[v]].pc = "start" =>
          v # w /\ body'[cur'[v]] = body[cur[v]]
    BY <1>1, <1>5, <1>8, <1>9, PcFacts
  <2> QED  BY <1>5, <2>1, <2>2, <2>3 DEF SchedInv, Between
<1>17. Locks'
  <2>1. \A v \in Workers : InLock(v)' => InLock(v) /\ LockOf(v)' = LockOf(v)
    <3>1. ASSUME NEW v \in Workers, InLock(v)', v # w PROVE wpc[v] \in Busy
      BY <1>5, <3>1, PcFacts DEF InLock
    <3> QED  BY <1>9, <1>10, <3>1
  <2> QED  BY <1>5, <2>1 DEF SchedInv, Locks
<1>18. Tested'
  BY <1>2, <1>5, <1>9, PcFacts DEF SchedInv, Tested
<1>19. Listed'
  <2>1. body[f].pc \in Round /\ "start" \notin Round
    BY <1>2 DEF Round
  <2> QED  BY <1>5, <1>8, <2>1 DEF SchedInv, Listed
<1>20. Somewhere'
  <2>1. \A h \in Fibers : body[h].pc = "push" => h # f /\ h # g /\ body'[h] = body[h]
    BY <1>2, <1>4, <1>8 DEF SchedInv, States
  <2>2. ASSUME NEW h \in Fibers, Unplaced(h)' PROVE Unplaced(h) /\ h # g
    BY <1>4, <1>5, <1>8, <2>1, <2>2 DEF Unplaced
  <2> QED  BY <1>7, <2>2 DEF SchedInv, Somewhere
<1>21. \A h \in Fibers : Asleep(h)' <=> Asleep(h)
  BY <1>4, <1>7 DEF Asleep
<1>22. Sleeping' /\ Woken'
  BY <1>5, <1>9, <1>10, <1>21, PcFacts DEF SchedInv, Sleeping, Woken
<1> QED  BY <1>4, <1>11, <1>12, <1>13, <1>14, <1>15, <1>16, <1>17, <1>18, <1>19, <1>20, <1>22 DEF SchedInv

\* It queues that fiber.
LEMMA EnqueJobPushKeeps ==
  ASSUME SchedInv, NEW w \in Workers, EnqueJobPush(w)
  PROVE  SchedInv'
<1>1. PICK f \in Fibers : f = cur[w]
  BY RunningFiber DEF EnqueJobPush
<1>2. wpc[w] = "run" /\ body[f].pc = "push" /\ wpc[w] \in Busy
  BY <1>1, RunningFiber, PcFacts DEF EnqueJobPush
<1>3. PICK g \in Fibers : g = body[f].got
  BY <1>2 DEF SchedInv, Popped
<1>4. /\ g \notin Free /\ g \notin Queued /\ fd[g].state \notin {"RUN", "WAIT"}
      /\ \A v \in Workers : wpc[v] \in Busy => cur[v] # g
      /\ body[g].pc = "start" /\ cnt[g].counter = 0 /\ g # f
      /\ \A h \in Fibers : body[h].pc = "push" /\ body[h].got = g => h = f
  BY <1>1, <1>2, <1>3 DEF SchedInv, Popped, Between
<1>5. fd[g].priority \in Priorities /\ Enqueue(fd[g].priority, g)
  BY <1>1, <1>3 DEF EnqueJobPush, SchedInv, SchedTypeOK, FiberData
<1>6. wpc' = wpc /\ cur' = cur /\ wtmp' = wtmp /\ cnt' = cnt /\ pool' = pool /\ fd' = fd
  BY DEF EnqueJobPush
<1>7. Queued' = Queued \cup {g} /\ Free' = Free /\ q' \in [Priorities -> Seq(Fibers)] /\ Apart'
  BY <1>4, <1>5, <1>6, EnqueueFacts DEF SchedInv
<1>8. /\ body' \in [Fibers -> BodyData] /\ body'[f].pc = "publish"
      /\ body'[f].todo = body[f].todo /\ body'[f].got = body[f].got
      /\ \A h \in Fibers : h # f => body'[h] = body[h]
  BY <1>1, FiberGotoFacts DEF EnqueJobPush, SchedInv, Round
<1>9. /\ \A v \in Workers : v # w /\ wpc[v] \in Busy => cur[v] # f /\ cur[v] \in Fibers
      /\ f \notin Free /\ f \notin Queued /\ fd[f].state = "RUN"
  BY <1>1, <1>2 DEF SchedInv, Exclusive, Holding, States
<1>10. /\ \A v \in Workers : Parent(v)' = Parent(v)
       /\ \A v \in Workers : LockOf(v)' = LockOf(v)
  BY <1>6 DEF Parent, LockOf
<1>11. \A v \in Workers : InLock(v)' => InLock(v)
  <2> SUFFICES ASSUME NEW v \in Workers, InLock(v)' PROVE InLock(v)
    OBVIOUS
  <2>1. v # w
    BY <1>1, <1>2, <1>6, <1>8 DEF InLock
  <2>2. wpc[v] \in Busy
    BY <1>6, PcFacts DEF InLock
  <2>3. body'[cur'[v]] = body[cur[v]]
    BY <1>6, <1>8, <1>9, <2>1, <2>2
  <2> QED  BY <1>6, <2>3 DEF InLock
<1>12. SchedTypeOK'
  BY <1>6, <1>7, <1>8 DEF SchedInv, SchedTypeOK
<1>13. Holding' /\ Exclusive'
  BY <1>4, <1>6, <1>7 DEF SchedInv, Holding, Exclusive
<1>14. Popped'
  <2>1. /\ \A h \in Fibers : body'[h].got # NoFiber => body'[h].pc \in {"push", "publish"}
        /\ \A h \in Fibers : body'[h].pc \in {"push", "publish"} => body'[h].todo > 0
    BY <1>2, <1>8 DEF SchedInv, Popped
  <2>2. \A h \in Fibers : body'[h].pc = "push" =>
          /\ body'[h] = body[h] /\ body[h].got \in Fibers /\ body[h].got # f /\ body[h].got # g
    BY <1>1, <1>2, <1>4, <1>8 DEF SchedInv, Popped
  <2>3. \A h \in Fibers : body'[h].pc = "push" =>
          /\ body'[h].got \in Fibers /\ body'[h].got \notin Free' /\ body'[h].got \notin Queued'
          /\ \A v \in Workers : wpc'[v] \in Busy => cur'[v] # body'[h].got
          /\ fd'[body'[h].got].state \notin {"RUN", "WAIT"}
          /\ body'[body'[h].got].pc = "start"
    BY <1>6, <1>7, <1>8, <2>2 DEF SchedInv, Popped
  <2>4. \A h, k \in Fibers :
          body'[h].pc = "push" /\ body'[k].pc = "push" /\ body'[h].got = body'[k].got => h = k
    BY <2>2 DEF SchedInv, Popped
  <2> QED  BY <2>1, <2>3, <2>4 DEF Popped
<1>15. States'
  <2>1. \A v \in Workers : wpc[v] \in Counts \cup Over => body'[cur[v]] = body[cur[v]]
    <3>1. wpc[w] \notin Counts \cup Over
      BY <1>2 DEF Counts, Over
    <3> QED  BY <1>8, <1>9, <3>1, PcFacts
  <2>2. \A h \in Fibers : h \in Free' \/ h \in Queued' \/ fd'[h].state = "WAIT" => body'[h].pc = "start"
    BY <1>4, <1>6, <1>7, <1>8, <1>9 DEF SchedInv, States
  <2> QED  BY <1>6, <1>7, <1>10, <2>1, <2>2 DEF SchedInv, States
<1>16. Counting'
  <2>1. \A h \in Fibers : Active(h)' = Active(h)
    BY <1>6, <1>7 DEF Active
  <2>2. ASSUME NEW h \in Fibers PROVE Left(h)' = Left(h)
    BY <1>2, <1>8 DEF Left
  <2> QED  BY <1>6, <2>1, <2>2, SameCount DEF SchedInv
<1>17. Between'
  <2>1. \A h \in Fibers : h \in Free' \/ h \in Queued' => cnt'[h].counter = 0
    BY <1>4, <1>6, <1>7 DEF SchedInv, Between
  <2>2. \A h \in Fibers : body'[h].pc = "push" => body'[h] = body[h]
    BY <1>8
  <2>3. \A v \in Workers : wpc'[v] \in {"run"} \cup Counts \cup Over /\ body'[cur'[v]].pc = "start" =>
          body'[cur'[v]] = body[cur[v]]
    BY <1>1, <1>6, <1>8, <1>9, PcFacts
  <2> QED  BY <1>6, <2>1, <2>2, <2>3 DEF SchedInv, Between
<1>18. Locks'
  BY <1>6, <1>10, <1>11 DEF SchedInv, Locks
<1>19. Tested'
  BY <1>6, <1>10 DEF SchedInv, Tested
<1>20. Listed'
  <2>1. body[f].pc \in Round
    BY <1>2 DEF Round
  <2> QED  BY <1>6, <1>8, <2>1 DEF SchedInv, Listed
<1>21. Somewhere'
  <2>1. \A h \in Fibers : body[h].pc = "push" => h = f \/ body'[h] = body[h]
    BY <1>8
  <2>2. ASSUME NEW h \in Fibers, Unplaced(h)' PROVE Unplaced(h)
    BY <1>3, <1>6, <1>7, <2>1, <2>2 DEF Unplaced
  <2> QED  BY <1>6, <2>2 DEF SchedInv, Somewhere
<1>22. \A h \in Fibers : Asleep(h)' <=> Asleep(h)
  BY <1>4, <1>6, <1>7 DEF Asleep
<1>23. Sleeping' /\ Woken'
  BY <1>6, <1>10, <1>22 DEF SchedInv, Sleeping, Woken
<1> QED  BY <1>7, <1>12, <1>13, <1>14, <1>15, <1>16, <1>17, <1>18, <1>19, <1>20, <1>21, <1>23 DEF SchedInv

-----------------------------------------------------------------------------
(* The beginning. *)

\* A sequence of distinct elements that is as long as the set has all of them.
LEMMA Covers ==
  ASSUME NEW S, IsFiniteSet(S), NEW s \in [1..Cardinality(S) -> S], Distinct(s), s \in Seq(S),
         Len(s) = Cardinality(S)
  PROVE  Rng(s) = S
<1> DEFINE n == Cardinality(S)
<1>1. n \in Nat
  BY FS_CardinalityType
<1>2. s \in Bijection(1..n, Rng(s))
  BY <1>1 DEF Bijection, Injection, Surjection, IsInjective, Rng, Distinct
<1>3. IsFiniteSet(1..n) /\ Cardinality(1..n) = n
  BY <1>1, FS_Interval
<1>4. Cardinality(Rng(s)) = n /\ IsFiniteSet(Rng(s))
  BY <1>2, <1>3, FS_Bijection DEF ExistsBijection
<1>5. Rng(s) \subseteq S
  BY DEF Rng
<1> QED  BY <1>4, <1>5, FS_Subset

\* A function on 1..n is a sequence of length n.
LEMMA FcnIsSeq ==
  ASSUME NEW S, NEW n \in Nat, NEW f \in [1..n -> S]
  PROVE  f \in Seq(S) /\ Len(f) = n
<1>1. f \in Seq(S)
  BY SeqDef
<1>2. 1..Len(f) = 1..n /\ Len(f) \in Nat
  BY <1>1, LenProperties
<1> QED  BY <1>1, <1>2

\* The invariant holds at the start ...
LEMMA InitSched == Init => SchedInv
<1> SUFFICES ASSUME Init PROVE SchedInv
  OBVIOUS
<1> DEFINE S == Fibers \ {Root}
<1>1. IsFiniteSet(S) /\ Cardinality(S) = Cardinality(Fibers) - 1 /\ Cardinality(S) \in Nat
  BY FiberAssumption, FS_RemoveElement, FS_CardinalityType
<1>2. pool \in [1..Cardinality(S) -> S] /\ \A i, j \in DOMAIN pool : i # j => pool[i] # pool[j]
  BY <1>1 DEF Init
<1>3. pool \in Seq(S) /\ Len(pool) = Cardinality(S)
  BY <1>1, <1>2, FcnIsSeq
<1>4. Distinct(pool)
  BY <1>2, <1>3 DEF Distinct
<1>5. Free = S
  BY <1>1, <1>2, <1>3, <1>4, Covers DEF Free
<1>6. pool \in Seq(Fibers)
  BY <1>3
<1>7. /\ q["hi"] = <<Root>> /\ q["mid"] = <<>> /\ q["lo"] = <<>>
      /\ q \in [Priorities -> Seq(Fibers)]
  BY FiberAssumption DEF Init, Priorities
<1>8. Rng(q["hi"]) = {Root} /\ Rng(q["mid"]) = {} /\ Rng(q["lo"]) = {}
  BY <1>7 DEF Rng
<1>9. Queued = {Root}
  BY <1>8 DEF Queued, Priorities
<1>10. Apart
  <2>1. \A p \in Priorities : Distinct(q[p])
    BY <1>7 DEF Distinct, Priorities
  <2>2. \A p, r \in Priorities, f \in Fibers : f \in Rng(q[p]) /\ f \in Rng(q[r]) => p = r
    BY <1>8 DEF Priorities
  <2> QED  BY <1>4, <1>5, <1>9, <2>1, <2>2 DEF Apart
<1>11. /\ \A w \in Workers : wpc[w] = "hi" /\ cur[w] = NoFiber /\ wtmp[w] = 0
       /\ \A f \in Fibers : fd[f].state = "START" /\ fd[f].parent = NoFiber
       /\ \A f \in Fibers : cnt[f].counter = 0 /\ cnt[f].waiters = <<>>
       /\ \A f \in Fibers : body[f].pc = "start" /\ body[f].todo = 0 /\ body[f].got = NoFiber
  BY DEF Init, CounterInit, BodyInit
<1>12. SchedTypeOK
  <2>1. CounterInit(0) \in CounterData /\ BodyInit(0) \in BodyData
    BY DEF CounterInit, BodyInit, CounterData, BodyData
  <2>2. [state |-> "START", priority |-> "hi", parent |-> NoFiber] \in FiberData
    BY DEF FiberData, Priorities
  <2>3. fd \in [Fibers -> FiberData] /\ cnt \in [Fibers -> CounterData] /\ body \in [Fibers -> BodyData]
    BY <2>1, <2>2 DEF Init
  <2>4. /\ wpc \in [Workers -> Look \cup Busy \cup {"free_publish"}]
        /\ cur \in [Workers -> Fibers \cup {NoFiber}] /\ wtmp \in [Workers -> Int]
    BY DEF Init, Look
  <2> QED  BY <1>6, <1>7, <2>3, <2>4 DEF SchedTypeOK
<1>13. "hi" \notin Busy \cup {"free_publish"} /\ "hi" \notin Counts \cup Over
  BY DEF Busy, Counts, Over
<1>14. Holding /\ Exclusive /\ Popped
  BY <1>11, <1>13 DEF Holding, Exclusive, Popped
<1>15. States
  BY <1>5, <1>11, <1>13 DEF States
<1>16. Counting
  <2> SUFFICES ASSUME NEW f \in Fibers PROVE cnt[f].counter = Cardinality(Out(f)) + Left(f)
    BY DEF Counting
  <2>1. Out(f) = {}
    BY <1>11, FiberAssumption DEF Out
  <2>2. Left(f) = 0
    BY <1>11 DEF Left
  <2> QED  BY <1>11, <2>1, <2>2, FS_EmptySet
<1>17. Between /\ Tested
  BY <1>11, <1>13 DEF Between, Tested
<1>18. Locks
  BY <1>11 DEF Locks, InLock
<1>19. Listed /\ Somewhere
  BY <1>5, <1>9, <1>11 DEF Listed, Somewhere, Unplaced, Round
<1>20. Sleeping /\ Woken
  BY <1>11 DEF Sleeping, Woken, Asleep
<1> QED  BY <1>10, <1>12, <1>14, <1>15, <1>16, <1>17, <1>18, <1>19, <1>20 DEF SchedInv

-----------------------------------------------------------------------------
(* Every step. *)

\* Every step of a running fiber keeps it ...
LEMMA FiberStepKeeps ==
  ASSUME SchedInv, NEW w \in Workers, FiberStep(w), InTurn
  PROVE  SchedInv'
<1>1. CASE \E n \in 1..MaxJobs : ScheduleJobs(w, n)
  BY <1>1, ScheduleJobsKeeps
<1>2. CASE \E p \in JobPrio : EnqueJobPop(w, p)
  BY <1>2, EnqueJobPopKeeps
<1>3. CASE EnqueJobPush(w)
  BY <1>3, EnqueJobPushKeeps
<1>4. CASE EnqueJobPublish(w)
  BY <1>4, EnqueJobPublishKeeps
<1>5. CASE EnqueJobFails(w)
  BY <1>5, EnqueJobFailsKeeps
<1>6. CASE Scheduled(w)
  BY <1>6, ScheduledKeeps
<1>7. CASE WaitAcquire(w)
  BY <1>7, WaitAcquireKeeps
<1>8. CASE WaitOver(w)
  BY <1>8, WaitOverKeeps
<1>9. CASE WaitJump(w)
  BY <1>9, WaitJumpKeeps
<1>10. CASE Finish(w)
  BY <1>10, FinishKeeps
<1> QED  BY <1>1, <1>2, <1>3, <1>4, <1>5, <1>6, <1>7, <1>8, <1>9, <1>10 DEF FiberStep

\* ... and so does every step of the scheduler.
LEMMA SchedStep == SchedInv /\ [Next]_vars /\ [InTurn]_vars => SchedInv'
<1> SUFFICES ASSUME SchedInv, [Next]_vars, [InTurn]_vars PROVE SchedInv'
  OBVIOUS
<1>1. CASE UNCHANGED vars
  BY <1>1, HaltKeeps DEF vars
<1>2. CASE ~UNCHANGED vars
  <2>1. InTurn /\ Next
    BY <1>2
  <2>2. CASE Halted
    BY <1>2, <2>2 DEF Halted
  <2>3. ASSUME NEW w \in Workers, WorkerStep(w) PROVE SchedInv'
    <3>1. CASE \E p \in Priorities : Take(w, p) \/ Miss(w, p)
      BY <3>1, TakeKeeps, MissKeeps
    <3>2. CASE FiberStep(w)
      BY <2>1, <3>2, FiberStepKeeps
    <3>3. CASE AddWaiter(w) \/ ParkRelease(w)
      BY <3>3, AddWaiterKeeps, ParkReleaseKeeps
    <3>4. CASE DoneAcquire(w) \/ CounterLoad(w) \/ CounterStore(w) \/ CounterTest(w)
      BY <3>4, DoneAcquireKeeps, CounterLoadKeeps, CounterStoreKeeps, CounterTestKeeps
    <3>5. CASE Wake(w) \/ WakePublish(w) \/ WakeEnd(w) \/ DoneRelease(w)
      BY <3>5, WakeKeeps, WakePublishKeeps, WakeEndKeeps, DoneReleaseKeeps
    <3>6. CASE FreeFiber(w) \/ FreePublish(w)
      BY <3>6, FreeFiberKeeps, FreePublishKeeps
    <3> QED  BY <2>3, <3>1, <3>2, <3>3, <3>4, <3>5, <3>6 DEF WorkerStep
  <2> QED  BY <2>1, <2>2, <2>3 DEF Next
<1> QED  BY <1>1, <1>2

\* The invariant of every behaviour in which the counters are in turn.
LEMMA SchedInvHolds == Spec /\ [][InTurn]_vars => []SchedInv
BY InitSched, SchedStep, PTL DEF Spec

-----------------------------------------------------------------------------
(* The properties. *)

\* A set with at most one element has none or one.
LEMMA AtMostOne ==
  ASSUME NEW S, \A x, y \in S : x = y
  PROVE  Cardinality(S) = IF S = {} THEN 0 ELSE 1
<1>1. CASE S = {}
  BY <1>1, FS_EmptySet
<1>2. CASE S # {}
  <2>1. PICK x \in S : S = {x}
    BY <1>2
  <2> QED  BY <1>2, <2>1, FS_Singleton
<1> QED  BY <1>1, <1>2

\* The same of the occurrences in a sequence of distinct elements.
LEMMA TimesOnce ==
  ASSUME NEW s \in Seq(Fibers), Distinct(s), NEW f
  PROVE  Times(f, s) = IF f \in Rng(s) THEN 1 ELSE 0
<1> DEFINE S == {i \in DOMAIN s : s[i] = f}
<1>1. DOMAIN s = 1..Len(s)
  OBVIOUS
<1>2. \A x, y \in S : x = y
  BY <1>1 DEF Distinct
<1>3. S = {} <=> f \notin Rng(s)
  BY <1>1 DEF Rng
<1> HIDE DEF S
<1>4. Cardinality(S) = IF S = {} THEN 0 ELSE 1
  BY <1>2, AtMostOne
<1> QED  BY <1>3, <1>4 DEF Times, S

\* The terms of Places.
LEMMA PlacesFacts ==
  ASSUME SchedInv, NEW f \in Fibers
  PROVE  /\ Times(f, pool) = IF f \in Free THEN 1 ELSE 0
         /\ \A p \in Priorities : Times(f, q[p]) = IF f \in Rng(q[p]) THEN 1 ELSE 0
         /\ Cardinality({w \in Workers : cur[w] = f /\ wpc[w] \notin {"park", "free_publish"}})
              = IF \E w \in Workers : wpc[w] \in Busy \ {"park"} /\ cur[w] = f THEN 1 ELSE 0
         /\ Cardinality({g \in Fibers : body[g].got = f /\ body[g].pc = "push"})
              = IF \E g \in Fibers : body[g].pc = "push" /\ body[g].got = f THEN 1 ELSE 0
<1>1. Times(f, pool) = IF f \in Free THEN 1 ELSE 0
  BY TimesOnce DEF SchedInv, SchedTypeOK, Apart, Free
<1>2. \A p \in Priorities : Times(f, q[p]) = IF f \in Rng(q[p]) THEN 1 ELSE 0
  BY TimesOnce DEF SchedInv, SchedTypeOK, Apart
<1>3. Cardinality({w \in Workers : cur[w] = f /\ wpc[w] \notin {"park", "free_publish"}})
        = IF \E w \in Workers : wpc[w] \in Busy \ {"park"} /\ cur[w] = f THEN 1 ELSE 0
  <2> DEFINE S == {w \in Workers : cur[w] = f /\ wpc[w] \notin {"park", "free_publish"}}
  <2>1. \A w \in Workers : w \in S <=> wpc[w] \in Busy \ {"park"} /\ cur[w] = f
    <3>1. f # NoFiber /\ "free_publish" \notin Busy
      BY FiberAssumption DEF Busy, Counts, Over
    <3> QED  BY <3>1 DEF SchedInv, Holding
  <2>2. \A v, w \in S : v = w
    BY <2>1 DEF SchedInv, Exclusive
  <2>3. S = {} <=> ~\E w \in Workers : wpc[w] \in Busy \ {"park"} /\ cur[w] = f
    BY <2>1
  <2> HIDE DEF S
  <2>4. Cardinality(S) = IF S = {} THEN 0 ELSE 1
    BY <2>2, AtMostOne
  <2> QED  BY <2>3, <2>4 DEF S
<1>4. Cardinality({g \in Fibers : body[g].got = f /\ body[g].pc = "push"})
        = IF \E g \in Fibers : body[g].pc = "push" /\ body[g].got = f THEN 1 ELSE 0
  <2> DEFINE S == {g \in Fibers : body[g].got = f /\ body[g].pc = "push"}
  <2>1. \A g, h \in S : g = h
    BY DEF SchedInv, Popped
  <2>2. S = {} <=> ~\E g \in Fibers : body[g].pc = "push" /\ body[g].got = f
    OBVIOUS
  <2> HIDE DEF S
  <2>3. Cardinality(S) = IF S = {} THEN 0 ELSE 1
    BY <2>1, AtMostOne
  <2> QED  BY <2>2, <2>3 DEF S
<1> QED  BY <1>1, <1>2, <1>3, <1>4

(* OneStackOneRunner: a fiber is in the pool, in one queue or with one     *)
(* worker, for any number of workers, fibers, rounds and nested jobs, as   *)
(* long as no counter is initialised before its last release.              *)
THEOREM StacksNeverShared == Spec /\ [][InTurn]_vars => []OneStackOneRunner
<1>1. SchedInv => OneStackOneRunner
  <2> SUFFICES ASSUME SchedInv, NEW f \in Fibers PROVE Places(f) <= 1
    BY DEF OneStackOneRunner
  <2> DEFINE A == IF f \in Free THEN 1 ELSE 0
             Q(p) == IF f \in Rng(q[p]) THEN 1 ELSE 0
             H == IF \E w \in Workers : wpc[w] \in Busy \ {"park"} /\ cur[w] = f THEN 1 ELSE 0
             G == IF \E g \in Fibers : body[g].pc = "push" /\ body[g].got = f THEN 1 ELSE 0
  <2>1. Places(f) = A + Q("hi") + Q("mid") + Q("lo") + H + G
    BY PlacesFacts DEF Places, Priorities
  <2>2. \A p \in Priorities : f \in Rng(q[p]) => f \in Queued
    BY DEF Queued
  <2>3. f \in Free => f \notin Queued
    BY DEF SchedInv, Apart
  <2>4. \A p, r \in Priorities : f \in Rng(q[p]) /\ f \in Rng(q[r]) => p = r
    BY DEF SchedInv, Apart
  <2>5. H = 1 => f \notin Free /\ f \notin Queued
    BY DEF SchedInv, Exclusive
  <2>6. G = 1 => f \notin Free /\ f \notin Queued /\ H = 0
    BY DEF SchedInv, Popped
  <2>7. A \in {0, 1} /\ H \in {0, 1} /\ G \in {0, 1} /\ \A p \in Priorities : Q(p) \in {0, 1}
    OBVIOUS
  <2>8. Q("hi") + Q("mid") + Q("lo") \in {0, 1} /\ (Q("hi") + Q("mid") + Q("lo") = 1 => f \in Queued)
    BY <2>2, <2>4 DEF Priorities
  <2>9. A = 1 => f \in Free
    OBVIOUS
  <2> HIDE DEF A, Q, H, G
  <2>10. A + (Q("hi") + Q("mid") + Q("lo")) + H + G <= 1
    <3> DEFINE B == Q("hi") + Q("mid") + Q("lo")
    <3>1. B \in {0, 1} /\ (B = 1 => f \in Queued)
      BY <2>8
    <3> HIDE DEF B
    <3>2. A + B + H + G <= 1
      BY <2>3, <2>5, <2>6, <2>7, <2>9, <3>1
    <3> QED  BY <3>2 DEF B
  <2> QED  BY <2>1, <2>7, <2>10 DEF Priorities
<1> QED  BY <1>1, SchedInvHolds, PTL

(* NoFiberLost: whatever is in no queue and with no worker is a waiter     *)
(* that is still to be woken, under the same proviso.                      *)
THEOREM FibersNeverLost == Spec /\ [][InTurn]_vars => []NoFiberLost
<1>1. SchedInv => NoFiberLost
  <2> SUFFICES ASSUME SchedInv, NEW f \in Fibers, Places(f) = 0 PROVE Parked(f)
    BY DEF NoFiberLost
  <2>1. /\ f \notin Free /\ \A p \in Priorities : f \notin Rng(q[p])
        /\ ~\E w \in Workers : wpc[w] \in Busy \ {"park"} /\ cur[w] = f
        /\ ~\E g \in Fibers : body[g].pc = "push" /\ body[g].got = f
    BY PlacesFacts DEF Places, Priorities
  <2>2. f \notin Queued
    BY <2>1 DEF Queued
  <2>3. fd[f].state = "WAIT"
    <3>1. CASE \E w \in Workers : wpc[w] = "park" /\ cur[w] = f
      BY <3>1 DEF SchedInv, States
    <3>2. CASE ~\E w \in Workers : wpc[w] = "park" /\ cur[w] = f
      <4>1. Unplaced(f)
        BY <2>1, <2>2, <3>2 DEF Unplaced
      <4> QED  BY <4>1 DEF SchedInv, Somewhere
    <3> QED  BY <3>1, <3>2
  <2>4. Asleep(f)
    BY <2>2, <2>3 DEF Asleep
  <2>5. cnt[f].waiters = <<f>>
    <3>1. "add" \in Busy \ {"park"}
      BY DEF Busy
    <3> QED  BY <2>1, <2>4, <3>1 DEF SchedInv, Sleeping
  <2>6. 1 \in DOMAIN cnt[f].waiters /\ cnt[f].waiters[1] = f
    BY <2>5
  <2>7. cnt[f].counter \in Nat
    <3>1. Cardinality(Out(f)) \in Nat /\ Left(f) \in Nat
      BY OutFinite, LeftNat
    <3> QED  BY <3>1 DEF SchedInv, Counting
  <2>8. \/ cnt[f].counter > 0
        \/ \E w \in Workers : /\ wpc[w] \in {"zero", "wake", "wake_publish"}
                              /\ fd[cur[w]].parent = f /\ wtmp[w] < 1
    BY <2>4, <2>7 DEF SchedInv, Sleeping, Parent
  <2> QED  BY <2>6, <2>8 DEF Parked
<1> QED  BY <1>1, SchedInvHolds, PTL

(* ResumesAfterJobs: past vgc_wait_for_counter no job of the round is left *)
(* under way, under the same proviso.                                      *)
THEOREM JobsFinishFirst == Spec /\ [][InTurn]_vars => []ResumesAfterJobs
<1>1. SchedInv => ResumesAfterJobs
  <2> SUFFICES ASSUME SchedInv, NEW w \in Workers, Running(w, "start")
               PROVE  Outstanding(cur[w]) = {}
    BY DEF ResumesAfterJobs
  <2>1. PICK f \in Fibers : f = cur[w]
    BY RunningFiber
  <2>2. wpc[w] = "run" /\ body[f].pc = "start" /\ body[f].got = NoFiber
    BY <2>1, RunningFiber
  <2>3. Out(f) = {}
    <3>1. cnt[f].counter = 0
      BY <2>1, <2>2 DEF SchedInv, Between
    <3>2. Cardinality(Out(f)) \in Nat /\ Left(f) \in Nat /\ cnt[f].counter = Cardinality(Out(f)) + Left(f)
      BY OutFinite, LeftNat DEF SchedInv, Counting
    <3>3. Cardinality(Out(f)) = 0
      BY <3>1, <3>2
    <3> QED  BY <3>3, OutFinite
  <2>4. ASSUME NEW g \in Outstanding(f) PROVE FALSE
    <3>1. g \in Fibers /\ fd[g].parent = f
      BY DEF Outstanding
    <3>2. \/ \E p \in Priorities : Times(g, q[p]) > 0
          \/ \E v \in Workers : cur[v] = g /\ wpc[v] \in {"run", "add", "park", "done", "load", "store"}
          \/ fd[g].state = "WAIT"
      <4>1. body[f].got # g
        BY <2>2, <3>1, FiberAssumption
      <4> QED  BY <4>1 DEF Outstanding
    <3>3. Active(g)
      <4>1. CASE \E p \in Priorities : Times(g, q[p]) > 0
        <5>1. g \in Queued
          <6>1. \A p \in Priorities : Times(g, q[p]) = IF g \in Rng(q[p]) THEN 1 ELSE 0
            BY <3>1, PlacesFacts
          <6>2. PICK p \in Priorities : g \in Rng(q[p])
            BY <4>1, <6>1
          <6> QED  BY <6>2 DEF Queued
        <5> QED  BY <3>1, <5>1, PcFacts DEF SchedInv, Apart, Exclusive, Active
      <4>2. CASE \E v \in Workers : cur[v] = g /\ wpc[v] \in {"run", "add", "park", "done", "load", "store"}
        <5>1. PICK v \in Workers : cur[v] = g /\ wpc[v] \in Busy /\ wpc[v] \notin Over
          BY <4>2 DEF Busy, Counts, Over
        <5> QED  BY <5>1, PcFacts DEF SchedInv, Exclusive, Active
      <4>3. CASE fd[g].state = "WAIT"
        BY <3>1, <4>3 DEF SchedInv, States, Active
      <4> QED  BY <3>2, <4>1, <4>2, <4>3
    <3> QED  BY <2>3, <3>1, <3>3 DEF Out
  <2> QED  BY <2>1, <2>4
<1> QED  BY <1>1, SchedInvHolds, PTL

(* AddWaiterHoldsLock: a worker adds a waiter under the lock that the      *)
(* waiter took, under the same proviso.                                    *)
THEOREM WaitersAddedUnderLock == Spec /\ [][InTurn]_vars => []AddWaiterHoldsLock
<1>1. SchedInv => AddWaiterHoldsLock
  <2> SUFFICES ASSUME SchedInv, NEW w \in Workers, wpc[w] \in {"add", "park"}
               PROVE  cnt[cur[w]].lock = 1
    BY DEF AddWaiterHoldsLock
  <2>1. InLock(w) /\ LockOf(w) = cur[w]
    BY DEF InLock, LockOf, Counts, Over
  <2> QED  BY <2>1 DEF SchedInv, Locks
<1> QED  BY <1>1, SchedInvHolds, PTL

-----------------------------------------------------------------------------
(* The refinement.  What each step of ForkJoin asks for, in terms of the   *)
(* scheduler.                                                              *)

\* The same fibers are given jobs, announce and wait.
SameJobs  == \A g \in Fibers : Out(g)' = Out(g)
SameLeft  == \A g \in Fibers : Left(g)' = Left(g)
SameWaits == \A g \in Fibers : Waits(g)' <=> Waits(g)

LEMMA ToStutter ==
  ASSUME SameJobs, SameLeft, SameWaits
  PROVE  UNCHANGED FJ!vars
BY DEF SameJobs, SameLeft, SameWaits, FJ!vars

LEMMA ToReturn ==
  ASSUME SameJobs, SameLeft, NEW f \in Fibers, Waits(f), ~Waits(f)', Out(f) = {}, Left(f) = 0,
         \A g \in Fibers : g # f => (Waits(g)' <=> Waits(g))
  PROVE  FJ!Return(f)
BY DEF SameJobs, SameLeft, FJ!Return, FJ!Joined

LEMMA ToWait ==
  ASSUME SameJobs, SameLeft, NEW f \in Fibers, ~Waits(f), Waits(f)',
         \A g \in Fibers : g # f => (Waits(g)' <=> Waits(g))
  PROVE  FJ!Wait(f)
BY DEF SameJobs, SameLeft, FJ!Wait, FJ!Running

LEMMA ToAnnounce ==
  ASSUME SameJobs, SameWaits, NEW f \in Fibers, NEW n, ~Waits(f), Out(f) = {}, Left(f) = 0,
         Left(f)' = n, \A g \in Fibers : g # f => Left(g)' = Left(g)
  PROVE  FJ!Announce(f, n)
BY DEF SameJobs, SameWaits, FJ!Announce, FJ!Running, FJ!Joined

LEMMA ToFork ==
  ASSUME SameWaits, NEW f \in Fibers, NEW g \in Fibers, ~Waits(f), Left(f) > 0, g # f,
         g # Root, ~Waits(g), Out(g) = {}, Left(g) = 0, \A h \in Fibers : g \notin Out(h),
         Out(f)' = Out(f) \cup {g}, Left(f)' = Left(f) - 1,
         \A h \in Fibers : h # f => Out(h)' = Out(h) /\ Left(h)' = Left(h)
  PROVE  FJ!Fork(f, g)
BY DEF SameWaits, FJ!Fork, FJ!Running, FJ!Joined, FJ!Unused

LEMMA ToFinish ==
  ASSUME SameLeft, SameWaits, NEW f \in Fibers, NEW g \in Fibers, g \in Out(f), ~Waits(g),
         Out(g) = {}, Left(g) = 0, Out(f)' = Out(f) \ {g},
         \A h \in Fibers : h # f => Out(h)' = Out(h)
  PROVE  FJ!Finish(f, g)
BY DEF SameLeft, SameWaits, FJ!Finish, FJ!Running, FJ!Joined

-----------------------------------------------------------------------------
(* What each step of the scheduler is to the code of the fibers. *)

\* A counter at zero: the jobs have been scheduled and are done.
LEMMA ZeroJoined ==
  ASSUME SchedInv, NEW f \in Fibers, cnt[f].counter = 0
  PROVE  Out(f) = {} /\ Left(f) = 0
<1>1. Left(f) \in Nat /\ Cardinality(Out(f)) \in Nat /\ Cardinality(Out(f)) + Left(f) = 0
  BY LeftNat, OutFinite DEF SchedInv, Counting
<1> QED  BY <1>1, OutFinite

\* The jobs under way, when w does not pass the point where it counts one off.
LEMMA SameActive ==
  ASSUME NEW w \in Workers, UNCHANGED pool,
         \A v \in Workers : v # w => wpc'[v] = wpc[v] /\ cur'[v] = cur[v],
         \/ wpc[w] \in Over /\ wpc'[w] \in Over /\ cur'[w] = cur[w]
         \/ wpc[w] \notin Over /\ wpc'[w] \notin Over
  PROVE  \A g \in Fibers : Active(g)' <=> Active(g)
<1>1. Free' = Free
  BY DEF Free
<1> QED  BY <1>1 DEF Active

\* The same jobs are under way.
LEMMA SameOut ==
  ASSUME \A g \in Fibers : fd'[g].parent = fd[g].parent /\ (Active(g)' <=> Active(g))
  PROVE  SameJobs
BY DEF SameJobs, Out

\* A step that the code of no fiber sees.
LEMMA Unseen ==
  ASSUME \A g \in Fibers : Active(g)' <=> Active(g), UNCHANGED <<fd, body>>
  PROVE  UNCHANGED FJ!vars
<1>1. SameJobs
  BY SameOut
<1>2. SameLeft /\ SameWaits
  BY DEF SameLeft, SameWaits, Left, Waits
<1> QED  BY <1>1, <1>2, ToStutter

\* A worker looks for work, or goes from step to step behind the fibers.
LEMMA WorkerUnseen ==
  ASSUME SchedInv, NEW w \in Workers,
         \/ \E p \in Priorities : Miss(w, p)
         \/ AddWaiter(w) \/ ParkRelease(w) \/ DoneAcquire(w) \/ CounterLoad(w) \/ CounterTest(w)
         \/ Wake(w) \/ WakePublish(w) \/ WakeEnd(w) \/ DoneRelease(w) \/ FreePublish(w)
  PROVE  UNCHANGED FJ!vars
<1> USE DEF SchedInv, SchedTypeOK, Goto
<1>1. UNCHANGED <<pool, fd, body>>
  BY DEF Miss, AddWaiter, ParkRelease, DoneAcquire, CounterLoad, CounterTest,
         Wake, WakePublish, WakeEnd, DoneRelease, FreePublish
<1>2. CASE \E p \in Priorities : Miss(w, p)
  <2>1. PICK p \in Priorities : Miss(w, p)
    BY <1>2
  <2>2. /\ wpc[w] \notin Over /\ wpc'[w] \notin Over
        /\ \A v \in Workers : v # w => wpc'[v] = wpc[v] /\ cur'[v] = cur[v]
    BY <2>1 DEF Miss, AfterMiss, Priorities, Over
  <2> QED  BY <1>1, <2>2, SameActive, Unseen
<1>3. CASE AddWaiter(w) \/ ParkRelease(w) \/ DoneAcquire(w) \/ CounterLoad(w) \/ FreePublish(w)
  <2>1. /\ wpc[w] \notin Over /\ wpc'[w] \notin Over
        /\ \A v \in Workers : v # w => wpc'[v] = wpc[v] /\ cur'[v] = cur[v]
    BY <1>3 DEF AddWaiter, ParkRelease, DoneAcquire, CounterLoad, FreePublish, Loop, Over
  <2> QED  BY <1>1, <2>1, SameActive, Unseen
<1>4. CASE CounterTest(w) \/ Wake(w) \/ WakePublish(w) \/ WakeEnd(w) \/ DoneRelease(w)
  <2>1. /\ wpc[w] \in Over /\ wpc'[w] \in Over
        /\ \A v \in Workers : v # w => wpc'[v] = wpc[v]
        /\ cur' = cur
    BY <1>4 DEF CounterTest, Wake, WakePublish, WakeEnd, DoneRelease, Over
  <2> QED  BY <1>1, <2>1, SameActive, Unseen
<1> QED  BY <1>2, <1>3, <1>4

\* The fiber that goes back to the pool has been counted off before.
LEMMA FreeFiberUnseen ==
  ASSUME SchedInv, NEW w \in Workers, FreeFiber(w)
  PROVE  UNCHANGED FJ!vars
<1>1. /\ wpc[w] = "free" /\ wpc'[w] = "free_publish" /\ cur' = cur
      /\ \A v \in Workers : v # w => wpc'[v] = wpc[v]
  BY DEF FreeFiber, Goto, SchedInv, SchedTypeOK
<1>2. wpc[w] \in Over /\ wpc'[w] \notin Over /\ wpc[w] \in Busy
  BY <1>1 DEF Over, Busy
<1>3. cur[w] \in Fibers /\ Free' = Free \cup {cur[w]}
  <2>1. cur[w] \in Fibers /\ cur[w] \notin Free /\ cur[w] \notin Queued
    BY <1>2 DEF SchedInv, Holding, Exclusive
  <2> QED  BY <2>1, PoolPushFacts DEF FreeFiber, SchedInv
<1>4. \A g \in Fibers : Active(g)' <=> Active(g)
  BY <1>1, <1>2, <1>3 DEF Active
<1> QED  BY <1>4, Unseen DEF FreeFiber

\* vgc_dequeue of a fiber: the one that has waited goes on, a new one begins.
LEMMA TakeReturns ==
  ASSUME SchedInv, NEW w \in Workers, NEW p \in Priorities, Take(w, p)
  PROVE  [FJ!Next]_(FJ!vars)
<1>1. PICK f \in Fibers : f = Head(q[p]) /\ f \in Queued
  BY DequeueFacts DEF SchedInv, Take, Ready
<1>2. /\ wpc[w] \notin Over /\ wpc'[w] \notin Over
      /\ \A v \in Workers : v # w => wpc'[v] = wpc[v] /\ cur'[v] = cur[v]
  BY DEF Take, Goto, Over, Priorities, SchedInv, SchedTypeOK
<1>3. /\ fd'[f].state = "RUN" /\ fd'[f].parent = fd[f].parent
      /\ \A g \in Fibers : g # f => fd'[g] = fd[g]
  BY <1>1, SetState DEF SchedInv, Take
<1>4. SameJobs
  <2>1. \A g \in Fibers : Active(g)' <=> Active(g)
    BY <1>2, SameActive DEF Take
  <2> QED  BY <1>3, <2>1, SameOut
<1>5. SameLeft
  BY DEF SameLeft, Left, Take
<1>6. /\ ~Waits(f)' /\ (Waits(f) <=> fd[f].state = "WAIT")
      /\ \A g \in Fibers : g # f => (Waits(g)' <=> Waits(g))
  <2>1. body[f].pc = "start"
    BY <1>1 DEF SchedInv, States
  <2> QED  BY <1>3, <2>1 DEF Waits, Take
<1>7. CASE Waits(f)
  <2>1. Out(f) = {} /\ Left(f) = 0
    BY <1>1, ZeroJoined DEF SchedInv, Between
  <2>2. FJ!Return(f)
    BY <1>4, <1>5, <1>6, <1>7, <2>1, ToReturn
  <2> QED  BY <2>2 DEF FJ!Next
<1>8. CASE ~Waits(f)
  <2>1. SameWaits
    BY <1>6, <1>8 DEF SameWaits
  <2> QED  BY <1>4, <1>5, <2>1, ToStutter
<1> QED  BY <1>7, <1>8

-----------------------------------------------------------------------------
(* The steps of a running fiber. *)

\* No job is counted off by it.
LEMMA RunsActive ==
  ASSUME SchedInv, NEW w \in Workers, wpc[w] = "run", UNCHANGED <<pool, cur>>,
         wpc' = wpc \/ Goto(w, "run", "add") \/ Goto(w, "run", "done")
  PROVE  \A g \in Fibers : Active(g)' <=> Active(g)
<1>1. /\ wpc[w] \notin Over /\ wpc'[w] \notin Over
      /\ \A v \in Workers : v # w => wpc'[v] = wpc[v] /\ cur'[v] = cur[v]
  BY DEF Goto, Over, SchedInv, SchedTypeOK
<1> QED  BY <1>1, SameActive

\* vgc_schedule_jobs announces its jobs.
LEMMA ScheduleJobsAnnounces ==
  ASSUME SchedInv, NEW w \in Workers, NEW n \in 1..MaxJobs, ScheduleJobs(w, n)
  PROVE  FJ!Announce(cur[w], n)
<1>1. PICK f \in Fibers : f = cur[w]
  BY RunningFiber DEF ScheduleJobs
<1>2. /\ wpc[w] = "run" /\ body[f].pc = "start" /\ body[f] \in BodyData
      /\ fd[f].state = "RUN" /\ cnt[f].counter = 0
  BY <1>1, RunningFiber DEF ScheduleJobs, SchedInv, States, Between
<1>3. /\ body'[f].pc = "enque" /\ body'[f].todo = n
      /\ \A g \in Fibers : g # f => body'[g] = body[g]
  <2>1. body \in [Fibers -> BodyData]
    BY DEF SchedInv, SchedTypeOK
  <2> QED  BY <1>1, <1>2, <2>1 DEF ScheduleJobs, BodyData
<1>4. Out(f) = {} /\ Left(f) = 0
  BY <1>2, ZeroJoined
<1>5. SameJobs
  BY <1>2, RunsActive, SameOut DEF ScheduleJobs
<1>6. SameWaits /\ ~Waits(f)
  BY <1>2, <1>3 DEF SameWaits, Waits, ScheduleJobs
<1>7. Left(f)' = n /\ \A g \in Fibers : g # f => Left(g)' = Left(g)
  BY <1>2, <1>3 DEF Left
<1> QED  BY <1>1, <1>4, <1>5, <1>6, <1>7, ToAnnounce

\* vgc_enque_job gives one of them to a fiber from the pool.
LEMMA EnqueJobPopForks ==
  ASSUME SchedInv, NEW w \in Workers, NEW p \in JobPrio, EnqueJobPop(w, p)
  PROVE  \E f, g \in Fibers : FJ!Fork(f, g)
<1>1. PICK f \in Fibers : f = cur[w]
  BY RunningFiber DEF EnqueJobPop
<1>2. /\ wpc[w] = "run" /\ wpc[w] \in Busy /\ body[f].pc = "enque" /\ body[f] \in BodyData
      /\ body[f].todo > 0
  BY <1>1, RunningFiber, PcFacts DEF EnqueJobPop
<1>3. PICK g \in Fibers : g = Head(pool)
  BY PoolPopFacts DEF EnqueJobPop, Ready, SchedInv
<1>4. g \in Free /\ Free' = Free \ {g}
  BY <1>3, PoolPopFacts DEF EnqueJobPop, Ready, SchedInv
<1>5. wpc' = wpc /\ cur' = cur
  BY DEF EnqueJobPop
<1>6. /\ f # g /\ fd[f].state = "RUN" /\ fd[g].state # "WAIT" /\ g # Root
      /\ body[g].pc = "start" /\ cnt[g].counter = 0
      /\ \A v \in Workers : wpc[v] \in Over => cur[v] # g
  BY <1>1, <1>2, <1>4, PcFacts DEF SchedInv, Exclusive, States, Between
<1>7. /\ fd'[g].state = fd[g].state /\ fd'[g].parent = f
      /\ \A h \in Fibers : h # g => fd'[h] = fd[h]
  <2>1. fd \in [Fibers -> FiberData]
    BY DEF SchedInv, SchedTypeOK
  <2> QED  BY <1>1, <1>3, <2>1 DEF EnqueJobPop, FiberData
<1>8. /\ body'[f].pc = "push" /\ body'[f].todo = body[f].todo
      /\ body'[g].pc = "start" /\ body'[g].todo = 0
      /\ \A h \in Fibers : h # f /\ h # g => body'[h] = body[h]
  <2>1. body \in [Fibers -> BodyData]
    BY DEF SchedInv, SchedTypeOK
  <2> QED  BY <1>1, <1>3, <1>6, <2>1 DEF EnqueJobPop, BodyData, BodyInit
<1>9. Out(g) = {} /\ Left(g) = 0
  BY <1>6, ZeroJoined
<1>10. /\ ~Active(g) /\ Active(g)'
       /\ \A h \in Fibers : h # g => (Active(h)' <=> Active(h))
  BY <1>4, <1>5, <1>6 DEF Active
<1>11. Out(f)' = Out(f) \cup {g} /\ \A h \in Fibers : g \notin Out(h)
  BY <1>7, <1>10 DEF Out
<1>12. \A h \in Fibers : h # f => Out(h)' = Out(h)
  BY <1>7, <1>10 DEF Out
<1>13. Left(f) > 0 /\ Left(f)' = Left(f) - 1 /\ \A h \in Fibers : h # f => Left(h)' = Left(h)
  BY <1>2, <1>6, <1>8, <1>9 DEF Left, BodyData
<1>14. SameWaits /\ ~Waits(f) /\ ~Waits(g)
  BY <1>2, <1>6, <1>7, <1>8 DEF SameWaits, Waits
<1>15. FJ!Fork(f, g)
  BY <1>6, <1>9, <1>11, <1>12, <1>13, <1>14, ToFork
<1> QED  BY <1>15

\* Its push to the queue is not seen.
LEMMA EnqueJobUnseen ==
  ASSUME SchedInv, NEW w \in Workers, EnqueJobPush(w) \/ EnqueJobPublish(w)
  PROVE  UNCHANGED FJ!vars
<1>1. PICK f \in Fibers : f = cur[w]
  BY RunningFiber DEF EnqueJobPush, EnqueJobPublish
<1>2. /\ wpc[w] = "run" /\ body[f] \in BodyData /\ body[f].pc \in {"push", "publish"}
      /\ UNCHANGED <<pool, wpc, cur, fd>>
  BY <1>1, RunningFiber DEF EnqueJobPush, EnqueJobPublish
<1>3. SameJobs
  BY <1>2, RunsActive, SameOut
<1>4. /\ \A g \in Fibers : g # f => body'[g] = body[g]
      /\ Left(f)' = Left(f) /\ body'[f].pc \notin {"wait", "test"}
  <2>1. CASE EnqueJobPush(w)
    <3>1. "publish" \in Round
      BY DEF Round
    <3>2. /\ body'[f].pc = "publish" /\ body'[f].todo = body[f].todo
          /\ \A g \in Fibers : g # f => body'[g] = body[g]
      BY <1>1, <2>1, <3>1, FiberGotoFacts DEF EnqueJobPush, SchedInv
    <3> QED  BY <1>2, <3>2 DEF Left
  <2>2. CASE EnqueJobPublish(w)
    <3>1. body \in [Fibers -> BodyData]
      BY DEF SchedInv, SchedTypeOK
    <3>2. /\ body'[f].pc = "enque" /\ body'[f].todo = body[f].todo - 1
          /\ \A g \in Fibers : g # f => body'[g] = body[g]
      BY <1>1, <1>2, <2>2, <3>1 DEF EnqueJobPublish, BodyData
    <3> QED  BY <1>2, <3>2 DEF Left
  <2> QED  BY <2>1, <2>2
<1>5. SameLeft /\ SameWaits
  BY <1>2, <1>4 DEF SameLeft, SameWaits, Left, Waits
<1> QED  BY <1>3, <1>5, ToStutter

\* vgc_schedule_jobs returns and the fiber waits.
LEMMA ScheduledWaits ==
  ASSUME SchedInv, NEW w \in Workers, Running(w, "enque"), FiberGoto(cur[w], "wait"),
         UNCHANGED <<pool, wpc, cur, fd>>
  PROVE  FJ!Wait(cur[w])
<1>1. PICK f \in Fibers : f = cur[w]
  BY RunningFiber
<1>2. wpc[w] = "run" /\ body[f].pc = "enque" /\ fd[f].state = "RUN" /\ "wait" \in Round
  BY <1>1, RunningFiber DEF SchedInv, States, Round
<1>3. /\ body'[f].pc = "wait" /\ body'[f].todo = body[f].todo
      /\ \A g \in Fibers : g # f => body'[g] = body[g]
  BY <1>1, <1>2, FiberGotoFacts DEF SchedInv
<1>4. SameJobs
  BY <1>2, RunsActive, SameOut
<1>5. SameLeft
  BY <1>2, <1>3 DEF SameLeft, Left
<1>6. ~Waits(f) /\ Waits(f)' /\ \A g \in Fibers : g # f => (Waits(g)' <=> Waits(g))
  BY <1>2, <1>3 DEF Waits
<1> QED  BY <1>1, <1>4, <1>5, <1>6, ToWait

\* vgc_wait_for_counter tests the counter and parks: the fiber goes on waiting.
LEMMA WaitUnseen ==
  ASSUME SchedInv, NEW w \in Workers, WaitAcquire(w) \/ WaitJump(w)
  PROVE  UNCHANGED FJ!vars
<1>1. PICK f \in Fibers : f = cur[w]
  BY RunningFiber DEF WaitAcquire, WaitJump
<1>2. wpc[w] = "run" /\ body[f].pc \in {"wait", "test"} /\ UNCHANGED <<pool, cur>>
  BY <1>1, RunningFiber DEF WaitAcquire, WaitJump
<1>3. /\ body'[f].pc \in {"test", "start"} /\ body'[f].todo = body[f].todo
      /\ \A g \in Fibers : g # f => body'[g] = body[g]
  <2>1. "test" \in Round
    BY DEF Round
  <2> QED  BY <1>1, <2>1, FiberGotoFacts DEF WaitAcquire, WaitJump, SchedInv
<1>4. /\ \A g \in Fibers : fd'[g].parent = fd[g].parent
      /\ \A g \in Fibers : g # f => fd'[g] = fd[g]
      /\ body'[f].pc = "test" \/ fd'[f].state = "WAIT"
  <2>1. CASE WaitAcquire(w)
    <3>1. "test" \in Round
      BY DEF Round
    <3> QED  BY <1>1, <2>1, <3>1, FiberGotoFacts DEF WaitAcquire, SchedInv
  <2>2. CASE WaitJump(w)
    BY <1>1, <2>2, SetState DEF WaitJump, SchedInv
  <2> QED  BY <2>1, <2>2
<1>5. SameJobs
  <2>1. wpc' = wpc \/ Goto(w, "run", "add")
    BY DEF WaitAcquire, WaitJump
  <2> QED  BY <1>2, <1>4, <2>1, RunsActive, SameOut
<1>6. SameLeft
  BY <1>2, <1>3 DEF SameLeft, Left
<1>7. SameWaits
  BY <1>2, <1>3, <1>4 DEF SameWaits, Waits
<1> QED  BY <1>5, <1>6, <1>7, ToStutter

\* It finds all done.
LEMMA WaitOverReturns ==
  ASSUME SchedInv, NEW w \in Workers, WaitOver(w)
  PROVE  FJ!Return(cur[w])
<1>1. PICK f \in Fibers : f = cur[w]
  BY RunningFiber DEF WaitOver
<1>2. /\ wpc[w] = "run" /\ body[f].pc = "test" /\ fd[f].state = "RUN" /\ cnt[f].counter = 0
      /\ UNCHANGED <<pool, wpc, cur, fd>>
  BY <1>1, RunningFiber DEF WaitOver, SchedInv, States
<1>3. /\ body'[f].pc = "start" /\ body'[f].todo = body[f].todo
      /\ \A g \in Fibers : g # f => body'[g] = body[g]
  BY <1>1, FiberGotoFacts DEF WaitOver, SchedInv
<1>4. SameJobs
  BY <1>2, RunsActive, SameOut
<1>5. SameLeft
  BY <1>2, <1>3 DEF SameLeft, Left
<1>6. Waits(f) /\ ~Waits(f)' /\ \A g \in Fibers : g # f => (Waits(g)' <=> Waits(g))
  BY <1>2, <1>3 DEF Waits
<1>7. Out(f) = {} /\ Left(f) = 0
  BY <1>2, ZeroJoined
<1> QED  BY <1>1, <1>4, <1>5, <1>6, <1>7, ToReturn

\* The end of a job is seen when it is counted off, that of the root never.
LEMMA FinishUnseen ==
  ASSUME SchedInv, NEW w \in Workers, Finish(w)
  PROVE  UNCHANGED FJ!vars
<1>1. PICK f \in Fibers : f = cur[w]
  BY RunningFiber DEF Finish
<1>2. wpc[w] = "run" /\ body[f].pc = "start" /\ fd[f].state = "RUN" /\ UNCHANGED <<pool, cur, body>>
  BY <1>1, RunningFiber DEF Finish, SchedInv, States
<1>3. CASE f = Root
  <2>1. UNCHANGED <<wpc, fd>>
    BY <1>1, <1>3 DEF Finish
  <2> QED  BY <1>2, <2>1, RunsActive, Unseen
<1>4. CASE f # Root
  <2>1. Goto(w, "run", "done") /\ fd' = [fd EXCEPT ![f].state = "DONE"]
    BY <1>1, <1>4 DEF Finish
  <2>2. /\ fd'[f].state = "DONE" /\ fd'[f].parent = fd[f].parent
        /\ \A g \in Fibers : g # f => fd'[g] = fd[g]
    BY <2>1, SetState DEF SchedInv
  <2>3. SameJobs
    BY <1>2, <2>1, <2>2, RunsActive, SameOut
  <2>4. SameLeft /\ SameWaits
    BY <1>2, <2>2 DEF SameLeft, SameWaits, Left, Waits
  <2> QED  BY <2>3, <2>4, ToStutter
<1> QED  BY <1>3, <1>4

-----------------------------------------------------------------------------

\* counter--: a job of the parent has finished.
LEMMA CounterStoreFinishes ==
  ASSUME SchedInv, NEW w \in Workers, CounterStore(w)
  PROVE  \E f, g \in Fibers : FJ!Finish(f, g)
<1>1. /\ wpc[w] = "store" /\ wpc'[w] = "zero" /\ \A v \in Workers : v # w => wpc'[v] = wpc[v]
      /\ UNCHANGED <<pool, cur, fd, body>>
  BY DEF CounterStore, Goto, SchedInv, SchedTypeOK
<1>2. wpc[w] \in Counts /\ wpc[w] \notin Over /\ wpc'[w] \in Over
  BY <1>1 DEF Counts, Over
<1>3. PICK f \in Fibers, g \in Fibers : f = Parent(w) /\ g = cur[w] /\ g \in Out(f)
  BY <1>2, CountsOut
<1>4. fd[g].state = "DONE" /\ body[g].pc = "start" /\ fd[g].parent = f
  BY <1>2, <1>3 DEF SchedInv, States, Parent
<1>5. Out(g) = {} /\ Left(g) = 0
  BY <1>2, <1>3, <1>4, ZeroJoined DEF SchedInv, Between
<1>6. \A h \in Fibers : Active(h)' <=> Active(h) /\ h # g
  <2>1. Free' = Free
    BY <1>1 DEF Free
  <2> QED  BY <1>1, <1>2, <1>3, <2>1 DEF Active
<1>7. Out(f)' = Out(f) \ {g} /\ \A h \in Fibers : h # f => Out(h)' = Out(h)
  BY <1>1, <1>4, <1>6 DEF Out
<1>8. SameLeft /\ SameWaits /\ ~Waits(g)
  BY <1>1, <1>4 DEF SameLeft, SameWaits, Left, Waits
<1>9. FJ!Finish(f, g)
  BY <1>3, <1>5, <1>7, <1>8, ToFinish
<1> QED  BY <1>9

\* The scheduler begins with no job scheduled.
LEMMA InitForkJoin == Init => FJ!Init
<1> SUFFICES ASSUME Init PROVE FJ!Init
  OBVIOUS
<1>1. SchedInv /\ \A f \in Fibers : cnt[f].counter = 0 /\ ~Waits(f)
  BY InitSched DEF Init, CounterInit, BodyInit, Waits
<1>2. \A f \in Fibers : Out(f) = {} /\ Left(f) = 0
  BY <1>1, ZeroJoined
<1> QED  BY <1>1, <1>2 DEF FJ!Init

\* Every step of a running fiber is one of ForkJoin ...
LEMMA FiberStepForkJoin ==
  ASSUME SchedInv, NEW w \in Workers, FiberStep(w)
  PROVE  [FJ!Next]_(FJ!vars)
<1>1. CASE \E n \in 1..MaxJobs : ScheduleJobs(w, n)
  BY <1>1, ScheduleJobsAnnounces, RunningFiber DEF FJ!Next, ScheduleJobs
<1>2. CASE \E p \in JobPrio : EnqueJobPop(w, p)
  BY <1>2, EnqueJobPopForks DEF FJ!Next
<1>3. CASE EnqueJobPush(w) \/ EnqueJobPublish(w)
  BY <1>3, EnqueJobUnseen
<1>4. CASE EnqueJobFails(w)
  <2>1. CASE body[cur[w]].todo = body[cur[w]].len
    BY <1>4, <2>1, ScheduledWaits, RunningFiber DEF EnqueJobFails, FJ!Next
  <2>2. CASE body[cur[w]].todo # body[cur[w]].len
    BY <1>4, <2>2, RunningFiber, RunsActive, Unseen DEF EnqueJobFails
  <2> QED  BY <2>1, <2>2
<1>5. CASE Scheduled(w)
  BY <1>5, ScheduledWaits, RunningFiber DEF Scheduled, FJ!Next
<1>6. CASE WaitAcquire(w) \/ WaitJump(w)
  BY <1>6, WaitUnseen
<1>7. CASE WaitOver(w)
  BY <1>7, WaitOverReturns, RunningFiber DEF WaitOver, FJ!Next
<1>8. CASE Finish(w)
  BY <1>8, FinishUnseen
<1> QED  BY <1>1, <1>2, <1>3, <1>4, <1>5, <1>6, <1>7, <1>8 DEF FiberStep

\* ... and so is every step of the scheduler.
LEMMA ForkJoinStep == SchedInv /\ [Next]_vars => [FJ!Next]_(FJ!vars)
<1> SUFFICES ASSUME SchedInv, [Next]_vars PROVE [FJ!Next]_(FJ!vars)
  OBVIOUS
<1>1. CASE UNCHANGED vars
  <2>1. \A g \in Fibers : Active(g)' <=> Active(g)
    BY <1>1 DEF vars, Active, Free
  <2> QED  BY <1>1, <2>1, Unseen DEF vars
<1>2. ASSUME NEW w \in Workers, WorkerStep(w) PROVE [FJ!Next]_(FJ!vars)
  <2>1. CASE \E p \in Priorities : Take(w, p)
    BY <2>1, TakeReturns
  <2>2. CASE FiberStep(w)
    BY <2>2, FiberStepForkJoin
  <2>3. CASE CounterStore(w)
    BY <2>3, CounterStoreFinishes DEF FJ!Next
  <2>4. CASE FreeFiber(w)
    BY <2>4, FreeFiberUnseen
  <2>5. CASE \/ \E p \in Priorities : Miss(w, p)
             \/ AddWaiter(w) \/ ParkRelease(w) \/ DoneAcquire(w) \/ CounterLoad(w)
             \/ CounterTest(w) \/ Wake(w) \/ WakePublish(w) \/ WakeEnd(w) \/ DoneRelease(w)
             \/ FreePublish(w)
    BY <2>5, WorkerUnseen
  <2> QED  BY <1>2, <2>1, <2>2, <2>3, <2>4, <2>5 DEF WorkerStep
<1> QED  BY <1>1, <1>2 DEF Next, Halted

(* Scheduling jobs and waiting for their counter does what ForkJoin        *)
(* promises to the code of a fiber, with any number of workers and fibers  *)
(* and any nesting of jobs: vgc_wait_for_counter returns after all jobs of *)
(* the round and what they waited for, and a fiber has one job at a time   *)
(* (scheduler.c:71-112, 187-213).                                          *)
THEOREM SchedulerImplementsForkJoin == Spec /\ [][InTurn]_vars => ImplementsForkJoin
BY InitForkJoin, ForkJoinStep, SchedInvHolds, PTL DEF Spec, ImplementsForkJoin, FJ!Spec
=============================================================================
