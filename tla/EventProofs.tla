---------------------------- MODULE EventProofs ----------------------------
(***************************************************************************)
(* Proofs about Event for every set of clients, names and sizes; the bound *)
(* MaxOps plays no part in them.                                           *)
(*                                                                         *)
(* The argument.  A slot of an entry is on the stack of free slots, or it  *)
(* is one client's: a callback it holds, or the slot it is about to write  *)
(* or to give back (ClaimsApart).  Only the owner writes a slot, so what   *)
(* it wrote is still there (HeldIntact), and a slot that has never been    *)
(* written has an owner between the two halves of sbev_reg_cb              *)
(* (JunkOwned), whose lock keeps sbev_emit_event away.  Pointers are taken *)
(* and used under one read lock, and the array moves under the write lock  *)
(* (ReadersFresh).  The one pointer that is used without a lock is what    *)
(* sbev_reg_event found: that needs a single registrar (Registering).      *)
(***************************************************************************)
EXTENDS Event, SequenceTheorems, TLAPS

Actors    == Clients \cup {Loop}
Callbacks == Actors \X Nat
Slots     == Seq(Callbacks \cup {NULL, JUNK})
AllNames  == Names \cup {"start", "tick", "kill"}
Handles   == 1..Len(entries)

EntryType == [nomen: AllNames, cbs: Slots, max: Nat, free: Seq(Nat), free_max: Nat]

ClientPc == {"idle", "found", "add", "reg", "store", "unreg"}
LoopPc   == {"emit", "copy", "wait", "test", "exited", "hung"}

\* The types of the state.
TypeOK ==
  /\ entries \in Seq(EntryType)
  /\ block \in Nat /\ evmax \in Nat
  /\ map \subseteq [nomen: AllNames, at: [block: Nat, handle: Nat]]
  /\ pc \in [Actors -> ClientPc \cup LoopPc]
  /\ pc[Loop] \in LoopPc /\ \A c \in Clients : pc[c] \in ClientPc
  /\ ent \in [Actors -> [block: Nat, handle: Nat]]
  /\ slot \in [Clients -> Nat]
  /\ held \in [Clients -> SUBSET [handle: Nat, slot: Nat, cb: Callbacks]]
  /\ ops \in [Clients -> Nat]
  /\ want \in [Clients -> AllNames \cup {""}]
  /\ \A c \in Clients : pc[c] = "add" => want[c] \in AllNames
  /\ phase \in {Start, Tick, Kill}
  /\ stale \in BOOLEAN

\* The array of events has the three of sbev_init_event and does not outgrow
\* its max.
ArrayShape == 3 <= Len(entries) /\ Len(entries) <= evmax

\* An entry's arrays have room for what is in them, and no slot is free twice.
EntryShape ==
  \A h \in Handles :
    /\ Len(entries[h].cbs) <= entries[h].max
    /\ Len(entries[h].free) <= entries[h].free_max
    /\ 1 <= entries[h].max /\ 1 <= entries[h].free_max
    /\ \A i \in 1..Len(entries[h].free) : entries[h].free[i] \in 1..Len(entries[h].cbs)
    /\ \A i, j \in 1..Len(entries[h].free) :
         entries[h].free[i] = entries[h].free[j] => i = j

\* A pointer used under the read lock points into the array.
ReadersFresh ==
  \A a \in Actors : pc[a] \in Reading => ent[a].block = block /\ ent[a].handle \in Handles

\* Slot s of entry h is not free.
NotFree(h, s) ==
  /\ s \in 1..Len(entries[h].cbs)
  /\ \A i \in 1..Len(entries[h].free) : entries[h].free[i] # s

\* Client c is about to write or to give back slot s of entry h.
Busy(c) == pc[c] \in {"store", "unreg"}

\* What a client holds is in its slot.
HeldIntact ==
  \A c \in Clients : \A m \in held[c] :
    m.handle \in Handles /\ NotFree(m.handle, m.slot) /\ entries[m.handle].cbs[m.slot] = m.cb

BusyTaken == \A c \in Clients : Busy(c) => NotFree(ent[c].handle, slot[c])

\* No slot is two clients', or one client's twice.
ClaimsApart ==
  /\ \A c, d \in Clients : \A m \in held[c], n \in held[d] :
       m.handle = n.handle /\ m.slot = n.slot => c = d /\ m = n
  /\ \A c, d \in Clients : \A n \in held[d] :
       Busy(c) => ent[c].handle # n.handle \/ slot[c] # n.slot
  /\ \A c, d \in Clients :
       Busy(c) /\ Busy(d) /\ ent[c].handle = ent[d].handle /\ slot[c] = slot[d] => c = d

\* A slot that was never written has an owner who holds the entry's lock.
JunkOwned ==
  \A h \in Handles : \A i \in 1..Len(entries[h].cbs) :
    entries[h].cbs[i] = JUNK =>
      \E c \in Clients : pc[c] = "store" /\ ent[c].handle = h /\ slot[c] = i

\* The pointers of the map point to the entries they are named for.
MapFresh ==
  \A m \in map : /\ m.at.block = block
                 /\ m.at.handle \in Handles
                 /\ entries[m.at.handle].nomen = m.nomen

SlotInv ==
  /\ TypeOK /\ ArrayShape /\ EntryShape
  /\ ReadersFresh /\ HeldIntact /\ BusyTaken /\ ClaimsApart
  /\ JunkOwned /\ NoWildCall /\ MapFresh

\* At most one fiber registers events.
OneRegistrar == \A c, d \in Registrars : c = d

\* What a lone registrar has found is still there.
Registering ==
  /\ \A c \in Clients : pc[c] \in {"found", "add"} => c \in Registrars
  /\ \A c \in Clients : pc[c] = "found" => ent[c].block = block
  /\ ~stale

-----------------------------------------------------------------------------
(* The initial state, and the array of events. *)

\* A function on 1..n is a sequence of length n.
LEMMA FcnIsSeq ==
  ASSUME NEW S, NEW n \in Nat, NEW f \in [1..n -> S]
  PROVE  f \in Seq(S) /\ Len(f) = n
<1>1. f \in Seq(S)
  BY SeqDef
<1>2. 1..Len(f) = 1..n /\ Len(f) \in Nat
  BY <1>1, LenProperties
<1> QED  BY <1>1, <1>2

\* The state that sbev_init_event and sbnet_init_net leave.
LEMMA InitSlots == Init => SlotInv /\ Registering
<1> SUFFICES ASSUME Init PROVE SlotInv /\ Registering
  OBVIOUS
<1>1. /\ <<<<Loop, 1>>>> \in Slots /\ <<<<Loop, 2>>>> \in Slots /\ <<>> \in Slots
      /\ Len(<<<<Loop, 1>>>>) = 1 /\ Len(<<<<Loop, 2>>>>) = 1 /\ Len(<<>>) = 0
      /\ <<Loop, 1>> \in Callbacks /\ <<Loop, 2>> \in Callbacks
      /\ <<>> \in Seq(Nat)
  BY DEF Slots, Callbacks, Actors
<1>2. /\ DOMAIN entries = 1..3
      /\ \A h \in 1..3 :
            entries[h] = Entry(Events[h], IF h = Kill THEN <<>> ELSE <<<<Loop, h>>>>)
  BY DEF Init
<1>3. ASSUME NEW h \in 1..3
      PROVE  /\ entries[h] \in EntryType
             /\ entries[h].nomen = Events[h]
             /\ entries[h].max = CbMax /\ entries[h].free_max = CbMax
             /\ Len(entries[h].free) = 0
             /\ Len(entries[h].cbs) <= 1
             /\ \A i \in 1..Len(entries[h].cbs) : entries[h].cbs[i] \in Callbacks
  <2>0. h = 1 \/ h = 2 \/ h = 3
    OBVIOUS
  <2>1. CASE h = 1
    <3>1. entries[h] = Entry("start", <<<<Loop, 1>>>>)
      BY <1>2, <2>1 DEF Events, Kill
    <3> QED  BY <1>1, <2>1, <3>1, EventAssumption DEF Entry, EntryType, AllNames, Events
  <2>2. CASE h = 2
    <3>1. entries[h] = Entry("tick", <<<<Loop, 2>>>>)
      BY <1>2, <2>2 DEF Events, Kill
    <3> QED  BY <1>1, <2>2, <3>1, EventAssumption DEF Entry, EntryType, AllNames, Events
  <2>3. CASE h = 3
    <3>1. entries[h] = Entry("kill", <<>>)
      BY <1>2, <2>3 DEF Events, Kill
    <3> QED  BY <1>1, <2>3, <3>1, EventAssumption DEF Entry, EntryType, AllNames, Events
  <2> QED  BY <2>0, <2>1, <2>2, <2>3
<1>4. entries \in [1..3 -> EntryType]
  BY <1>2, <1>3 DEF Init
<1>5. entries \in Seq(EntryType) /\ Len(entries) = 3 /\ Handles = 1..3
  BY <1>4, FcnIsSeq DEF Handles
<1>6. /\ block = 1 /\ evmax = EvMax /\ stale = FALSE /\ jobs = {} /\ phase = Start
      /\ pc    = [a \in Actors |-> IF a = Loop THEN "emit" ELSE "idle"]
      /\ ent   = [a \in Actors |-> [block |-> 0, handle |-> 0]]
      /\ slot  = [c \in Clients |-> 0]
      /\ held  = [c \in Clients |-> {}]
      /\ ops   = [c \in Clients |-> 0]
      /\ want  = [c \in Clients |-> ""]
      /\ map = {[nomen |-> Events[h], at |-> [block |-> 1, handle |-> h]] : h \in 1..3}
  BY DEF Init, Actors, Nowhere
<1>7. /\ \A c \in Clients : pc[c] = "idle" /\ held[c] = {}
      /\ pc[Loop] = "emit"
  BY <1>6, EventAssumption DEF Actors
<1>8. \A h \in 1..3 : Events[h] \in AllNames
  BY DEF Events, AllNames
<1>9. map \subseteq [nomen: AllNames, at: [block: Nat, handle: Nat]]
  <2>1. ASSUME NEW m \in map
        PROVE  m \in [nomen: AllNames, at: [block: Nat, handle: Nat]]
    <3>1. PICK h \in 1..3 : m = [nomen |-> Events[h], at |-> [block |-> 1, handle |-> h]]
      BY <1>6
    <3> QED  BY <1>8, <3>1
  <2> QED  BY <2>1
<1>10. TypeOK
  <2>1. pc \in [Actors -> ClientPc \cup LoopPc]
    BY <1>6 DEF ClientPc, LoopPc
  <2>2. pc[Loop] \in LoopPc /\ \A c \in Clients : pc[c] \in ClientPc /\ pc[c] # "add"
    BY <1>7 DEF ClientPc, LoopPc
  <2>3. want \in [Clients -> AllNames \cup {""}]
    BY <1>6
  <2>4. held \in [Clients -> SUBSET [handle: Nat, slot: Nat, cb: Callbacks]]
    BY <1>6
  <2> QED  BY <1>5, <1>6, <1>9, <2>1, <2>2, <2>3, <2>4, EventAssumption DEF TypeOK, Start
<1>11. ArrayShape /\ EntryShape
  <2>1. ArrayShape
    <3>1. evmax = EvMax
      BY <1>6
    <3> QED  BY <1>5, <3>1, EventAssumption DEF ArrayShape
  <2>2. ASSUME NEW h \in 1..3
        PROVE  /\ Len(entries[h].cbs) <= entries[h].max
               /\ Len(entries[h].free) <= entries[h].free_max
               /\ 1 <= entries[h].max /\ 1 <= entries[h].free_max
               /\ 1..Len(entries[h].free) = {}
    <3>1. Len(entries[h].cbs) \in Nat
      BY <1>3 DEF EntryType, Slots
    <3> QED  BY <1>3, <3>1, EventAssumption
  <2> QED  BY <1>5, <2>1, <2>2 DEF EntryShape
<1>12. ReadersFresh /\ HeldIntact /\ BusyTaken /\ ClaimsApart /\ NoWildCall
  BY <1>6, <1>7 DEF ReadersFresh, HeldIntact, BusyTaken, ClaimsApart, NoWildCall,
                    Busy, Reading, Actors
<1>13. JunkOwned
  BY <1>3, <1>5, EventAssumption DEF JunkOwned, Callbacks, Actors
<1>14. MapFresh
  <2>1. ASSUME NEW m \in map
        PROVE  m.at.block = block /\ m.at.handle \in 1..3
                 /\ entries[m.at.handle].nomen = m.nomen
    <3>1. PICK h \in 1..3 : m = [nomen |-> Events[h], at |-> [block |-> 1, handle |-> h]]
      BY <1>6
    <3> QED  BY <1>3, <1>6, <3>1
  <2> QED  BY <1>5, <2>1 DEF MapFresh
<1>15. Registering
  <2>1. \A c \in Clients : pc[c] \notin {"found", "add"}
    BY <1>7
  <2> QED  BY <1>6, <2>1 DEF Registering
<1> QED  BY <1>10, <1>11, <1>12, <1>13, <1>14, <1>15 DEF SlotInv

-----------------------------------------------------------------------------
(* Steps that leave the entries alone. *)

\* Entries, by their handles.
LEMMA EntryFacts ==
  ASSUME TypeOK
  PROVE  /\ Len(entries) \in Nat /\ DOMAIN entries = Handles
         /\ \A h \in Handles : h \in Nat /\ entries[h] \in EntryType
<1>1. entries \in Seq(EntryType)
  BY DEF TypeOK
<1> QED  BY <1>1, LenProperties, ElementOfSeq DEF Handles

\* The two arrays of an entry.
LEMMA EntryArrays ==
  ASSUME NEW e \in EntryType
  PROVE  /\ e.cbs \in Slots /\ e.free \in Seq(Nat) /\ e.max \in Nat /\ e.free_max \in Nat
         /\ e.nomen \in AllNames
         /\ Len(e.cbs) \in Nat /\ DOMAIN e.cbs = 1..Len(e.cbs)
         /\ Len(e.free) \in Nat /\ DOMAIN e.free = 1..Len(e.free)
         /\ \A i \in 1..Len(e.free) : e.free[i] \in Nat
<1>1. /\ e.cbs \in Slots /\ e.free \in Seq(Nat) /\ e.max \in Nat /\ e.free_max \in Nat
      /\ e.nomen \in AllNames
  BY DEF EntryType
<1>2. Len(e.cbs) \in Nat /\ DOMAIN e.cbs = 1..Len(e.cbs)
  BY <1>1, LenProperties DEF Slots
<1> QED  BY <1>1, <1>2, LenProperties, ElementOfSeq

\* The slot on top of the stack of free ones is taken off.
LEMMA PopLast ==
  ASSUME NEW q \in Seq(Nat), q # <<>>
  PROVE  /\ Len(q) \in Nat \ {0}
         /\ SubSeq(q, 1, Len(q) - 1) \in Seq(Nat)
         /\ Len(SubSeq(q, 1, Len(q) - 1)) = Len(q) - 1
         /\ \A i \in 1..(Len(q) - 1) : SubSeq(q, 1, Len(q) - 1)[i] = q[i]
<1>1. Len(q) \in Nat \ {0}
  BY EmptySeq
<1>2. \A i \in 1..(Len(q) - 1) : q[i] \in Nat
  BY <1>1, ElementOfSeq
<1> DEFINE n == Len(q) - 1
<1>3. n \in Int /\ n >= 0
  BY <1>1
<1> HIDE DEF n
<1>4. /\ SubSeq(q, 1, n) \in Seq(Nat)
      /\ Len(SubSeq(q, 1, n)) = IF 1 <= n THEN n - 1 + 1 ELSE 0
      /\ \A i \in 1..(n - 1 + 1) : SubSeq(q, 1, n)[i] = q[1 + i - 1]
  BY <1>2, <1>3, SubSeqProperties DEF n
<1>5. Len(SubSeq(q, 1, n)) = n /\ \A i \in 1..n : SubSeq(q, 1, n)[i] = q[i]
  BY <1>3, <1>4
<1> QED  BY <1>1, <1>4, <1>5 DEF n

\* An entry's stack or its array of callbacks is replaced.
LEMMA NewFree ==
  ASSUME NEW e \in EntryType, NEW q \in Seq(Nat)
  PROVE  LET e2 == [e EXCEPT !.free = q]
         IN /\ e2 \in EntryType /\ e2.free = q
            /\ e2.nomen = e.nomen /\ e2.cbs = e.cbs /\ e2.max = e.max
            /\ e2.free_max = e.free_max
  BY DEF EntryType

LEMMA NewSlot ==
  ASSUME NEW e \in EntryType, NEW q \in Slots
  PROVE  LET e2 == [e EXCEPT !.cbs = q]
         IN /\ e2 \in EntryType /\ e2.cbs = q /\ e2.max = e.max
            /\ e2.nomen = e.nomen /\ e2.free = e.free /\ e2.free_max = e.free_max
  BY DEF EntryType

\* One entry changes.
LEMMA EntryChange ==
  ASSUME TypeOK, NEW h \in Handles, NEW e \in EntryType, entries' = [entries EXCEPT ![h] = e]
  PROVE  /\ entries' \in Seq(EntryType) /\ Len(entries') = Len(entries) /\ Handles' = Handles
         /\ entries'[h] = e
         /\ \A k \in Handles : k # h => entries'[k] = entries[k]
<1>1. entries \in Seq(EntryType)
  BY DEF TypeOK
<1> QED  BY <1>1, ExceptSeq DEF Handles

\* The callbacks a client holds.
LEMMA HeldFacts ==
  ASSUME TypeOK, HeldIntact
  PROVE  \A d \in Clients : \A m \in held[d] :
           /\ m.handle \in Handles /\ m.slot \in Nat /\ m.cb \in Callbacks
           /\ NotFree(m.handle, m.slot) /\ entries[m.handle].cbs[m.slot] = m.cb
<1>1. held \in [Clients -> SUBSET [handle: Nat, slot: Nat, cb: Callbacks]]
  BY DEF TypeOK
<1>2. \A d \in Clients : \A m \in held[d] : m.slot \in Nat /\ m.cb \in Callbacks
  BY <1>1
<1> QED  BY <1>2 DEF HeldIntact

\* A client goes on.
LEMMA ClientGoes ==
  ASSUME TypeOK, NEW c \in Clients, NEW to \in ClientPc, pc' = [pc EXCEPT ![c] = to]
  PROVE  /\ pc' \in [Actors -> ClientPc \cup LoopPc]
         /\ pc'[Loop] = pc[Loop] /\ pc'[Loop] \in LoopPc
         /\ pc'[c] = to /\ c \in Actors /\ c # Loop
         /\ \A a \in Actors : a # c => pc'[a] = pc[a]
         /\ \A d \in Clients : pc'[d] \in ClientPc /\ d \in Actors
  BY EventAssumption DEF TypeOK, Actors

LEMMA BeginType ==
  ASSUME TypeOK, NEW c \in Clients, Begin(c)
  PROVE  ops' \in [Clients -> Nat]
<1>1. ops \in [Clients -> Nat] /\ ops' = [ops EXCEPT ![c] = ops[c] + 1]
  BY DEF TypeOK, Begin
<1> QED  BY <1>1

\* An actor takes a pointer to the entry of a handle.
LEMMA PointerTaken ==
  ASSUME TypeOK, NEW a \in Actors, NEW h \in Nat,
         ent' = [ent EXCEPT ![a] = [block |-> block, handle |-> h]]
  PROVE  /\ ent' \in [Actors -> [block: Nat, handle: Nat]]
         /\ ent'[a] = [block |-> block, handle |-> h]
         /\ \A b \in Actors : b # a => ent'[b] = ent[b]
<1>1. ent \in [Actors -> [block: Nat, handle: Nat]] /\ block \in Nat
  BY DEF TypeOK
<1> QED  BY <1>1

\* A step that changes neither the entries nor who has which slot.
LEMMA Elsewhere ==
  ASSUME SlotInv, TypeOK', UNCHANGED <<entries, block, evmax, map, slot, held>>,
         \A c \in Clients : pc[c] = "store" <=> pc'[c] = "store",
         \A c \in Clients : pc[c] = "unreg" <=> pc'[c] = "unreg",
         \A c \in Clients : Busy(c) => ent'[c] = ent[c],
         \A a \in Actors : pc'[a] \in Reading =>
           \/ pc[a] \in Reading /\ ent'[a] = ent[a]
           \/ ent'[a].block = block /\ ent'[a].handle \in Handles,
         NoWildCall'
  PROVE  SlotInv'
<1>1. Handles' = Handles /\ \A h, i : NotFree(h, i)' <=> NotFree(h, i)
  BY DEF Handles, NotFree
<1>2. \A c \in Clients : Busy(c)' <=> Busy(c)
  BY DEF Busy
<1>3. ArrayShape' /\ EntryShape'
  BY <1>1 DEF SlotInv, ArrayShape, EntryShape
<1>4. ReadersFresh'
  BY <1>1 DEF SlotInv, ReadersFresh
<1>5. HeldIntact'
  BY <1>1 DEF SlotInv, HeldIntact
<1>6. BusyTaken'
  BY <1>1, <1>2 DEF SlotInv, BusyTaken
<1>7. ClaimsApart'
  BY <1>2 DEF SlotInv, ClaimsApart
<1>8. JunkOwned'
  <2>1. ASSUME NEW h \in Handles, NEW i \in 1..Len(entries[h].cbs), entries[h].cbs[i] = JUNK
        PROVE  \E c \in Clients : pc'[c] = "store" /\ ent'[c].handle = h /\ slot[c] = i
    <3>1. PICK c \in Clients : pc[c] = "store" /\ ent[c].handle = h /\ slot[c] = i
      BY <2>1 DEF SlotInv, JunkOwned
    <3> QED  BY <3>1 DEF Busy
  <2> QED  BY <1>1, <2>1 DEF JunkOwned
<1>9. MapFresh'
  BY <1>1 DEF SlotInv, MapFresh
<1> QED  BY <1>3, <1>4, <1>5, <1>6, <1>7, <1>8, <1>9 DEF SlotInv

\* sbev_reg_event's lookup, and its return of what it has found.
LEMMA FindKeeps ==
  ASSUME SlotInv, NEW c \in Registrars, NEW nomen \in Names, RegEventFind(c, nomen)
  PROVE  SlotInv'
<1>1. c \in Clients /\ c # Loop
  BY EventAssumption
<1>2. /\ pc[c] = "idle" /\ ops' = [ops EXCEPT ![c] = @ + 1]
      /\ UNCHANGED <<entries, block, evmax, map, slot, held, phase, stale, jobs>>
  BY DEF RegEventFind, Goto, Begin, core, loop
<1>5. ops' \in [Clients -> Nat]
  BY <1>1, BeginType DEF SlotInv, RegEventFind
<1>3. CASE \E m \in map : /\ pc' = [pc EXCEPT ![c] = "found"]
                          /\ ent' = [ent EXCEPT ![c] = m.at] /\ want' = want
  <2>1. PICK m \in map : ent' = [ent EXCEPT ![c] = m.at]
    BY <1>3
  <2>2. /\ pc' \in [Actors -> ClientPc \cup LoopPc]
        /\ pc'[Loop] = pc[Loop] /\ pc'[Loop] \in LoopPc
        /\ pc'[c] = "found" /\ c \in Actors /\ c # Loop
        /\ \A a \in Actors : a # c => pc'[a] = pc[a]
        /\ \A d \in Clients : pc'[d] \in ClientPc /\ d \in Actors
    BY <1>1, <1>3, ClientGoes DEF SlotInv, ClientPc
  <2>3. /\ ent' \in [Actors -> [block: Nat, handle: Nat]]
        /\ \A a \in Actors : a # c => ent'[a] = ent[a]
    BY <2>1, <2>2 DEF SlotInv, TypeOK
  <2>4. \A d \in Clients : pc'[d] = "add" => want'[d] \in AllNames
    BY <1>3, <2>2 DEF SlotInv, TypeOK
  <2>5. TypeOK'
    BY <1>2, <1>3, <1>5, <2>2, <2>3, <2>4 DEF SlotInv, TypeOK
  <2> QED  BY <1>1, <1>2, <2>2, <2>3, <2>5, Elsewhere
           DEF SlotInv, Busy, Reading, NoWildCall
<1>4. CASE pc' = [pc EXCEPT ![c] = "add"] /\ ent' = ent /\ want' = [want EXCEPT ![c] = nomen]
  <2>2. /\ pc' \in [Actors -> ClientPc \cup LoopPc]
        /\ pc'[Loop] = pc[Loop] /\ pc'[Loop] \in LoopPc
        /\ pc'[c] = "add" /\ c \in Actors /\ c # Loop
        /\ \A a \in Actors : a # c => pc'[a] = pc[a]
        /\ \A d \in Clients : pc'[d] \in ClientPc /\ d \in Actors
    BY <1>1, <1>4, ClientGoes DEF SlotInv, ClientPc
  <2>3. /\ want' \in [Clients -> AllNames \cup {""}]
        /\ want'[c] \in AllNames /\ \A d \in Clients : d # c => want'[d] = want[d]
    BY <1>1, <1>4 DEF SlotInv, TypeOK, AllNames
  <2>4. \A d \in Clients : pc'[d] = "add" => want'[d] \in AllNames
    BY <2>2, <2>3 DEF SlotInv, TypeOK
  <2>5. TypeOK'
    BY <1>2, <1>4, <1>5, <2>2, <2>3, <2>4 DEF SlotInv, TypeOK
  <2> QED  BY <1>1, <1>2, <1>4, <2>2, <2>5, Elsewhere
           DEF SlotInv, Busy, Reading, NoWildCall
<1> QED  BY <1>3, <1>4 DEF RegEventFind, Goto

LEMMA FoundKeeps ==
  ASSUME SlotInv, NEW c \in Clients, RegEventFound(c)
  PROVE  SlotInv'
<1>1. /\ pc[c] = "found" /\ pc' = [pc EXCEPT ![c] = "idle"]
      /\ UNCHANGED <<entries, block, evmax, map, ent, slot, held, ops, want, phase, jobs>>
  BY DEF RegEventFound, Goto, core, loop, clients
<1>2. /\ pc' \in [Actors -> ClientPc \cup LoopPc]
      /\ pc'[Loop] = pc[Loop] /\ pc'[Loop] \in LoopPc
      /\ pc'[c] = "idle" /\ c \in Actors /\ c # Loop
      /\ \A a \in Actors : a # c => pc'[a] = pc[a]
      /\ \A d \in Clients : pc'[d] \in ClientPc /\ d \in Actors
  BY <1>1, ClientGoes DEF SlotInv, ClientPc
<1>3. \A d \in Clients : pc'[d] = "add" => want[d] \in AllNames
  BY <1>2 DEF SlotInv, TypeOK
<1>4. stale' \in BOOLEAN
  BY DEF RegEventFound, Access
<1>5. TypeOK'
  BY <1>1, <1>2, <1>3, <1>4 DEF SlotInv, TypeOK
<1> QED  BY <1>1, <1>2, <1>5, Elsewhere DEF SlotInv, Busy, Reading, NoWildCall

\* sbev_reg_cb takes the plugin's read lock, and then its pointer.
LEMMA RegCbLockKeeps ==
  ASSUME SlotInv, NEW c \in Clients, NEW h \in DOMAIN entries, RegCbLock(c, h)
  PROVE  SlotInv'
<1>1. /\ pc[c] = "idle" /\ pc' = [pc EXCEPT ![c] = "reg"]
      /\ ent' = [ent EXCEPT ![c] = [block |-> block, handle |-> h]]
      /\ UNCHANGED <<entries, block, evmax, map, slot, held, want, phase, stale, jobs>>
  BY DEF RegCbLock, Goto, Begin, Pointer, core, loop
<1>2. /\ pc' \in [Actors -> ClientPc \cup LoopPc]
      /\ pc'[Loop] = pc[Loop] /\ pc'[Loop] \in LoopPc
      /\ pc'[c] = "reg" /\ c \in Actors /\ c # Loop
      /\ \A a \in Actors : a # c => pc'[a] = pc[a]
      /\ \A d \in Clients : pc'[d] \in ClientPc /\ d \in Actors
  BY <1>1, ClientGoes DEF SlotInv, ClientPc
<1>3. \A d \in Clients : pc'[d] = "add" => want[d] \in AllNames
  BY <1>2 DEF SlotInv, TypeOK
<1>4. ops' \in [Clients -> Nat]
  BY BeginType DEF SlotInv, RegCbLock
<1>5. h \in Handles /\ h \in Nat
  BY EntryFacts DEF SlotInv
<1>6. /\ ent' \in [Actors -> [block: Nat, handle: Nat]]
      /\ ent'[c] = [block |-> block, handle |-> h]
      /\ \A a \in Actors : a # c => ent'[a] = ent[a]
  BY <1>1, <1>2, <1>5, PointerTaken DEF SlotInv
<1>7. TypeOK'
  BY <1>1, <1>2, <1>3, <1>4, <1>6 DEF SlotInv, TypeOK
<1> QED  BY <1>1, <1>2, <1>5, <1>6, <1>7, Elsewhere DEF SlotInv, Busy, Reading, NoWildCall

\* A step of the loop that neither copies nor looks at the entries.
LEMMA LoopKeeps ==
  ASSUME SlotInv, UNCHANGED <<core, ent, clients, jobs, stale>>,
         NEW to \in LoopPc \ {"copy"}, pc' = [pc EXCEPT ![Loop] = to],
         phase' \in {Start, Tick, Kill}
  PROVE  SlotInv'
<1>1. UNCHANGED <<entries, block, evmax, map, ent, slot, held, ops, want, stale, jobs>>
  BY DEF core, clients
<1>2. /\ pc' \in [Actors -> ClientPc \cup LoopPc]
      /\ pc'[Loop] = to
      /\ \A c \in Clients : c \in Actors /\ c # Loop /\ pc'[c] = pc[c]
      /\ \A a \in Actors : a # Loop => a \in Clients /\ pc'[a] = pc[a]
  BY EventAssumption DEF SlotInv, TypeOK, Actors
<1>3. TypeOK'
  BY <1>1, <1>2 DEF SlotInv, TypeOK
<1>4. to \notin Reading
  BY DEF LoopPc, Reading
<1> QED  BY <1>1, <1>2, <1>3, <1>4, Elsewhere DEF SlotInv, Busy, NoWildCall

LEMMA EmitLockKeeps ==
  ASSUME SlotInv, EmitLock
  PROVE  SlotInv'
<1>1. /\ pc[Loop] = "emit" /\ pc' = [pc EXCEPT ![Loop] = "copy"]
      /\ ent' = [ent EXCEPT ![Loop] = [block |-> block, handle |-> phase]]
      /\ UNCHANGED <<entries, block, evmax, map, slot, held, ops, want, phase, stale, jobs>>
  BY DEF EmitLock, Goto, Pointer, core, clients
<1>2. /\ pc' \in [Actors -> ClientPc \cup LoopPc]
      /\ pc'[Loop] = "copy" /\ Loop \in Actors
      /\ \A c \in Clients : c \in Actors /\ c # Loop /\ pc'[c] = pc[c]
      /\ \A a \in Actors : a # Loop => a \in Clients /\ pc'[a] = pc[a]
  BY <1>1, EventAssumption DEF SlotInv, TypeOK, Actors, LoopPc
<1>3. phase \in Handles /\ phase \in Nat /\ block \in Nat
  <2>1. Len(entries) \in Nat /\ 3 <= Len(entries)
    BY LenProperties DEF SlotInv, TypeOK, ArrayShape
  <2>2. phase \in {1, 2, 3} /\ block \in Nat
    BY DEF SlotInv, TypeOK, Start, Tick, Kill
  <2> QED  BY <2>1, <2>2 DEF Handles
<1>4. /\ ent' \in [Actors -> [block: Nat, handle: Nat]]
      /\ ent'[Loop] = [block |-> block, handle |-> phase]
      /\ \A a \in Actors : a # Loop => ent'[a] = ent[a]
  BY <1>1, <1>2, <1>3 DEF SlotInv, TypeOK
<1>5. TypeOK'
  BY <1>1, <1>2, <1>4 DEF SlotInv, TypeOK, LoopPc
<1> QED  BY <1>1, <1>2, <1>3, <1>4, <1>5, Elsewhere DEF SlotInv, Busy, NoWildCall

\* sbev_emit_event copies the callbacks when nobody is between the two
\* halves of sbev_reg_cb for that event.
LEMMA EmitCopyKeeps ==
  ASSUME SlotInv, EmitCopy
  PROVE  SlotInv'
<1> DEFINE h   == ent[Loop].handle
           cbs == entries[h].cbs
<1>1. /\ pc[Loop] = "copy" /\ pc' = [pc EXCEPT ![Loop] = "wait"]
      /\ EntryFree(Loop)
      /\ jobs' = jobs \/ jobs' = {<<i, cbs[i]>> : i \in DOMAIN cbs}
      /\ UNCHANGED <<entries, block, evmax, map, ent, slot, held, ops, want, phase>>
  BY DEF EmitCopy, Goto, core, clients
<1>2. /\ pc' \in [Actors -> ClientPc \cup LoopPc]
      /\ pc'[Loop] = "wait" /\ Loop \in Actors
      /\ \A c \in Clients : c \in Actors /\ c # Loop /\ pc'[c] = pc[c]
      /\ \A a \in Actors : a # Loop => a \in Clients /\ pc'[a] = pc[a]
  BY <1>1, EventAssumption DEF SlotInv, TypeOK, Actors, LoopPc
<1>3. stale' \in BOOLEAN
  BY DEF EmitCopy, Access
<1>4. TypeOK'
  BY <1>1, <1>2, <1>3 DEF SlotInv, TypeOK, LoopPc
<1>5. h \in Handles
  BY <1>1, <1>2 DEF SlotInv, ReadersFresh, Reading
<1>6. DOMAIN cbs = 1..Len(cbs)
  <2>1. entries[h] \in EntryType
    BY <1>5, ElementOfSeq DEF SlotInv, TypeOK, Handles
  <2>2. cbs \in Seq(Callbacks \cup {NULL, JUNK})
    BY <2>1 DEF EntryType, Slots
  <2> QED  BY <2>2, LenProperties
<1>7. \A i \in DOMAIN cbs : cbs[i] # JUNK
  BY <1>1, <1>5, <1>6 DEF SlotInv, JunkOwned, EntryFree
<1>8. NoWildCall'
  BY <1>1, <1>7 DEF SlotInv, NoWildCall
<1> QED  BY <1>1, <1>2, <1>4, <1>8, Elsewhere DEF SlotInv, Busy, Reading

-----------------------------------------------------------------------------
(* Steps that change an entry. *)

\* The slot that sbev_reg_cb takes was free or is new, and is then taken.
LEMMA RegCbSlotKeeps ==
  ASSUME SlotInv, NEW c \in Clients, RegCbSlot(c)
  PROVE  SlotInv'
<1>h. PICK h : h = ent[c].handle
  OBVIOUS
<1>s. PICK s : s = slot'[c]
  OBVIOUS
<1> DEFINE e == entries[h]
<1>1. /\ pc[c] = "reg" /\ pc' = [pc EXCEPT ![c] = "store"]
      /\ UNCHANGED <<block, evmax, map, ent, held, ops, want, phase, jobs>>
      /\ stale' \in BOOLEAN
  BY DEF RegCbSlot, Goto, Access, loop
<1>2. /\ pc' \in [Actors -> ClientPc \cup LoopPc]
      /\ pc'[Loop] = pc[Loop] /\ pc'[Loop] \in LoopPc
      /\ pc'[c] = "store" /\ c \in Actors /\ c # Loop
      /\ \A a \in Actors : a # c => pc'[a] = pc[a]
      /\ \A d \in Clients : pc'[d] \in ClientPc /\ d \in Actors
  BY <1>1, ClientGoes DEF SlotInv, ClientPc
<1>3. h \in Handles /\ ent[c].block = block
  BY <1>1, <1>2, <1>h DEF SlotInv, ReadersFresh, Reading
<1>4. e \in EntryType
  BY <1>3, EntryFacts DEF SlotInv
<1>5. /\ e.cbs \in Slots /\ e.free \in Seq(Nat) /\ e.max \in Nat /\ e.free_max \in Nat
      /\ e.nomen \in AllNames
      /\ Len(e.cbs) \in Nat /\ DOMAIN e.cbs = 1..Len(e.cbs)
      /\ Len(e.free) \in Nat /\ DOMAIN e.free = 1..Len(e.free)
  BY <1>4, EntryArrays
<1>6. /\ Len(e.cbs) <= e.max /\ Len(e.free) <= e.free_max
      /\ 1 <= e.max /\ 1 <= e.free_max
      /\ \A i \in 1..Len(e.free) : e.free[i] \in 1..Len(e.cbs)
      /\ \A i, j \in 1..Len(e.free) : e.free[i] = e.free[j] => i = j
  BY <1>3 DEF SlotInv, EntryShape
<1>7. slot \in [Clients -> Nat]
  BY DEF SlotInv, TypeOK
<1> DEFINE e2   == entries'[h]
           rest == SubSeq(e.free, 1, Len(e.free) - 1)
           more == Append(e.cbs, JUNK)
           m2   == IF Len(e.cbs) = e.max THEN 2 * e.max ELSE e.max
<1>a. \/ /\ e.free # <<>>
         /\ slot' = [slot EXCEPT ![c] = e.free[Len(e.free)]]
         /\ entries' = [entries EXCEPT ![h] = [e EXCEPT !.free = rest]]
      \/ /\ e.free = <<>>
         /\ slot' = [slot EXCEPT ![c] = Len(e.cbs) + 1]
         /\ entries' = [entries EXCEPT ![h].max = m2, ![h].cbs = more]
  BY <1>h DEF RegCbSlot
<1>b. [entries EXCEPT ![h].max = m2, ![h].cbs = more]
        = [entries EXCEPT ![h] = [[e EXCEPT !.max = m2] EXCEPT !.cbs = more]]
  BY <1>3, EntryFacts DEF SlotInv
<1> HIDE DEF e, e2
<1>8. /\ entries' \in Seq(EntryType) /\ Len(entries') = Len(entries) /\ Handles' = Handles
      /\ \A k \in Handles : k # h => entries'[k] = entries[k]
      /\ e2.nomen = e.nomen
      /\ Len(e2.cbs) \in Nat /\ Len(e2.free) \in Nat
      /\ Len(e.cbs) <= Len(e2.cbs) /\ \A i \in 1..Len(e.cbs) : e2.cbs[i] = e.cbs[i]
      /\ Len(e2.cbs) <= e2.max /\ Len(e2.free) <= e2.free_max
      /\ 1 <= e2.max /\ 1 <= e2.free_max
      /\ Len(e2.free) <= Len(e.free) /\ \A i \in 1..Len(e2.free) : e2.free[i] = e.free[i]
      /\ slot' = [slot EXCEPT ![c] = s] /\ s \in Nat
      /\ s \in 1..Len(e2.cbs) /\ \A i \in 1..Len(e2.free) : e2.free[i] # s
      /\ s \notin 1..Len(e.cbs) \/ \E i \in 1..Len(e.free) : e.free[i] = s
      /\ \A i \in 1..Len(e2.cbs) : i \in 1..Len(e.cbs) \/ i = s
  <2>1. CASE e.free # <<>>
    <3> DEFINE x == [e EXCEPT !.free = rest]
    <3>1. /\ slot' = [slot EXCEPT ![c] = e.free[Len(e.free)]]
          /\ entries' = [entries EXCEPT ![h] = x]
      BY <1>a, <2>1
    <3>2. /\ Len(e.free) \in Nat \ {0}
          /\ rest \in Seq(Nat) /\ Len(rest) = Len(e.free) - 1
          /\ \A i \in 1..(Len(e.free) - 1) : rest[i] = e.free[i]
      BY <1>5, <2>1, PopLast
    <3>3. \A i \in 1..Len(rest) : rest[i] = e.free[i]
      BY <3>2
    <3>4. /\ x \in EntryType /\ x.free = rest
          /\ x.nomen = e.nomen /\ x.cbs = e.cbs /\ x.max = e.max
          /\ x.free_max = e.free_max
      BY <1>4, <3>2, NewFree
    <3>6. s = e.free[Len(e.free)] /\ slot' = [slot EXCEPT ![c] = s]
      BY <1>7, <1>s, <3>1
    <3>7. Len(e.free) \in 1..Len(e.free) /\ s \in 1..Len(e.cbs) /\ s \in Nat
      BY <1>5, <1>6, <3>2, <3>6
    <3>8. \A i \in 1..Len(rest) : rest[i] # s
      <4>1. \A i \in 1..Len(rest) : i \in 1..Len(e.free) /\ i # Len(e.free)
        BY <3>2
      <4> QED  BY <1>6, <3>3, <3>6, <3>7, <4>1
    <3>9. Len(rest) \in Nat /\ Len(rest) <= Len(e.free) /\ Len(rest) <= e.free_max
      BY <1>5, <1>6, <3>2
    <3> HIDE DEF rest, x
    <3>10. /\ entries' \in Seq(EntryType) /\ Len(entries') = Len(entries) /\ Handles' = Handles
           /\ e2 = x
           /\ \A k \in Handles : k # h => entries'[k] = entries[k]
      BY <1>3, <3>1, <3>4, EntryChange DEF SlotInv, e2
    <3>11. \E i \in 1..Len(e.free) : e.free[i] = s
      BY <3>6, <3>7
    <3>12. /\ e2.nomen = e.nomen /\ e2.cbs = e.cbs /\ e2.max = e.max
           /\ e2.free = rest /\ e2.free_max = e.free_max
      BY <3>4, <3>10
    <3>13. Len(e.cbs) <= Len(e.cbs)
      BY <1>5
    <3> QED  BY <1>5, <1>6, <3>3, <3>6, <3>7, <3>8, <3>9, <3>10, <3>11, <3>12, <3>13
  <2>2. CASE e.free = <<>>
    <3> DEFINE x == [[e EXCEPT !.max = m2] EXCEPT !.cbs = more]
    <3>1. /\ slot' = [slot EXCEPT ![c] = Len(e.cbs) + 1]
          /\ entries' = [entries EXCEPT ![h] = x]
      BY <1>a, <1>b, <2>2
    <3>3. /\ more \in Slots /\ Len(more) = Len(e.cbs) + 1
          /\ \A i \in 1..Len(e.cbs) : more[i] = e.cbs[i]
      BY <1>5, AppendProperties DEF Slots
    <3>4. m2 \in Nat /\ Len(more) <= m2 /\ 1 <= m2 /\ Len(more) \in Nat
      BY <1>5, <1>6, <3>3
    <3> HIDE DEF more, m2
    <3>2. m2 \in Nat /\ more \in Slots
      BY <3>3, <3>4
    <3>5. /\ x \in EntryType /\ x.cbs = more /\ x.max = m2
          /\ x.nomen = e.nomen /\ x.free = e.free /\ x.free_max = e.free_max
      BY <1>4, <3>2 DEF EntryType
    <3>7. s = Len(e.cbs) + 1 /\ slot' = [slot EXCEPT ![c] = s] /\ s \in Nat
      BY <1>5, <1>7, <1>s, <3>1
    <3>8. Len(e.free) = 0 /\ 1..Len(e.free) = {}
      BY <2>2
    <3> HIDE DEF more, m2, x
    <3>9. /\ entries' \in Seq(EntryType) /\ Len(entries') = Len(entries) /\ Handles' = Handles
          /\ e2 = x
          /\ \A k \in Handles : k # h => entries'[k] = entries[k]
      BY <1>3, <3>1, <3>5, EntryChange DEF SlotInv, e2
    <3>10. /\ s \in 1..Len(more) /\ s \notin 1..Len(e.cbs)
           /\ \A i \in 1..Len(more) : i \in 1..Len(e.cbs) \/ i = s
      BY <1>5, <3>3, <3>7
    <3> QED  BY <1>5, <1>6, <3>3, <3>4, <3>5, <3>7, <3>8, <3>9, <3>10
  <2> QED  BY <2>1, <2>2
<1>9. TypeOK'
  <2>1. slot' \in [Clients -> Nat]
    BY <1>7, <1>8
  <2>2. \A d \in Clients : pc'[d] = "add" => want[d] \in AllNames
    BY <1>2 DEF SlotInv, TypeOK
  <2> QED  BY <1>1, <1>2, <1>8, <2>1, <2>2 DEF SlotInv, TypeOK
<1>10. ArrayShape' /\ EntryShape'
  <2>0. /\ \A i \in 1..Len(e2.free) : i \in 1..Len(e.free)
        /\ \A i \in 1..Len(e.cbs) : i \in 1..Len(e2.cbs)
    BY <1>5, <1>8
  <2>1. /\ \A i \in 1..Len(e2.free) : e2.free[i] \in 1..Len(e2.cbs)
        /\ \A i, j \in 1..Len(e2.free) : e2.free[i] = e2.free[j] => i = j
    BY <1>6, <1>8, <2>0
  <2>2. ASSUME NEW k \in Handles, k # h
        PROVE  entries'[k] = entries[k]
    BY <1>8, <2>2
  <2>3. EntryShape'
    <3> SUFFICES ASSUME NEW k \in Handles'
                 PROVE  /\ Len(entries'[k].cbs) <= entries'[k].max
                        /\ Len(entries'[k].free) <= entries'[k].free_max
                        /\ 1 <= entries'[k].max /\ 1 <= entries'[k].free_max
                        /\ \A i \in 1..Len(entries'[k].free) :
                             entries'[k].free[i] \in 1..Len(entries'[k].cbs)
                        /\ \A i, j \in 1..Len(entries'[k].free) :
                             entries'[k].free[i] = entries'[k].free[j] => i = j
      BY DEF EntryShape
    <3>1. CASE k = h
      BY <1>8, <2>1, <3>1 DEF e2
    <3>2. CASE k # h
      BY <1>8, <2>2, <3>2 DEF SlotInv, EntryShape
    <3> QED  BY <3>1, <3>2
  <2> QED  BY <1>1, <1>8, <2>3 DEF SlotInv, ArrayShape
<1>11. /\ \A k \in Handles, i \in Nat : NotFree(k, i) => NotFree(k, i)'
       /\ NotFree(h, s)' /\ ~NotFree(h, s)
       /\ \A k \in Handles, i \in Nat : NotFree(k, i) => entries'[k].cbs[i] = entries[k].cbs[i]
  <2>0. /\ \A i \in 1..Len(e2.free) : i \in 1..Len(e.free)
        /\ \A i \in 1..Len(e.cbs) : i \in 1..Len(e2.cbs)
    BY <1>5, <1>8
  <2>1. NotFree(h, s)' /\ ~NotFree(h, s)
    BY <1>8 DEF NotFree, e, e2
  <2>2. ASSUME NEW k \in Handles, NEW i \in Nat, NotFree(k, i)
        PROVE  NotFree(k, i)' /\ entries'[k].cbs[i] = entries[k].cbs[i]
    <3>1. CASE k = h
      BY <1>8, <2>0, <2>2, <3>1 DEF NotFree, e, e2
    <3>2. CASE k # h
      BY <1>8, <2>2, <3>2 DEF NotFree
    <3> QED  BY <3>1, <3>2
  <2> QED  BY <2>1, <2>2
<1>12. /\ \A d \in Clients : Busy(d)' <=> Busy(d) \/ d = c
       /\ \A d \in Clients : d # c => slot'[d] = slot[d]
       /\ slot'[c] = s /\ ~Busy(c)
  BY <1>1, <1>2, <1>7, <1>8 DEF Busy
<1>13. ReadersFresh'
  <2>1. \A a \in Actors : pc'[a] \in Reading => a = c \/ pc[a] \in Reading
    BY <1>2
  <2> QED  BY <1>1, <1>3, <1>8, <1>h, <2>1 DEF SlotInv, ReadersFresh
<1>14. \A d \in Clients : \A m \in held[d] :
         m.handle \in Handles /\ m.slot \in Nat /\ NotFree(m.handle, m.slot)
  BY HeldFacts DEF SlotInv
<1>15. HeldIntact'
  BY <1>1, <1>8, <1>11, <1>14 DEF SlotInv, HeldIntact
<1>16. \A d \in Clients : Busy(d) =>
         ent[d].handle \in Handles /\ slot[d] \in Nat /\ NotFree(ent[d].handle, slot[d])
  BY <1>2, <1>7 DEF SlotInv, BusyTaken, ReadersFresh, Busy, Reading
<1>17. BusyTaken'
  <2>1. NotFree(ent[c].handle, slot[c])'
    BY <1>1, <1>11, <1>12, <1>h DEF NotFree
  <2>2. ASSUME NEW d \in Clients, d # c, Busy(d)
        PROVE  NotFree(ent[d].handle, slot[d])'
    <3>1. PICK x, y : x = ent[d].handle /\ y = slot[d]
      OBVIOUS
    <3>2. NotFree(x, y)'
      BY <1>11, <1>16, <2>2, <3>1
    <3> QED  BY <1>1, <1>12, <2>2, <3>1, <3>2 DEF NotFree
  <2> QED  BY <1>12, <2>1, <2>2 DEF BusyTaken
<1>18. ClaimsApart'
  <2>1. \A a, b \in Clients : \A m \in held'[a], n \in held'[b] :
          m.handle = n.handle /\ m.slot = n.slot => a = b /\ m = n
    BY <1>1 DEF SlotInv, ClaimsApart
  <2>2. \A a, b \in Clients : \A n \in held'[b] :
          Busy(a)' => ent'[a].handle # n.handle \/ slot'[a] # n.slot
    BY <1>1, <1>11, <1>12, <1>14, <1>h DEF SlotInv, ClaimsApart
  <2>3. \A a, b \in Clients :
          Busy(a)' /\ Busy(b)' /\ ent'[a].handle = ent'[b].handle /\ slot'[a] = slot'[b] => a = b
    BY <1>1, <1>11, <1>12, <1>16, <1>h DEF SlotInv, ClaimsApart
  <2> QED  BY <2>1, <2>2, <2>3 DEF ClaimsApart
<1>19. JunkOwned'
  <2> SUFFICES ASSUME NEW k \in Handles, NEW i \in 1..Len(entries'[k].cbs),
                      entries'[k].cbs[i] = JUNK
               PROVE  \E d \in Clients : pc'[d] = "store" /\ ent'[d].handle = k /\ slot'[d] = i
    BY <1>8 DEF JunkOwned
  <2>1. CASE k = h /\ i = s
    BY <1>1, <1>2, <1>12, <1>h, <2>1
  <2>2. CASE ~(k = h /\ i = s)
    <3>1. i \in 1..Len(entries[k].cbs) /\ entries[k].cbs[i] = JUNK
      BY <1>8, <2>2 DEF e, e2
    <3>2. PICK d \in Clients : pc[d] = "store" /\ ent[d].handle = k /\ slot[d] = i
      BY <3>1 DEF SlotInv, JunkOwned
    <3> QED  BY <1>1, <1>2, <1>12, <3>2
  <2> QED  BY <2>1, <2>2
<1>20. MapFresh'
  <2>1. \A k \in Handles : entries'[k].nomen = entries[k].nomen
    BY <1>8 DEF e, e2
  <2> QED  BY <1>1, <1>8, <2>1 DEF SlotInv, MapFresh
<1>21. NoWildCall'
  BY <1>1 DEF SlotInv, NoWildCall
<1> QED  BY <1>9, <1>10, <1>13, <1>15, <1>17, <1>18, <1>19, <1>20, <1>21 DEF SlotInv

\* One slot of an entry is written.
LEMMA SlotWritten ==
  ASSUME NEW e \in EntryType, NEW s \in 1..Len(e.cbs), NEW v \in Callbacks \cup {NULL, JUNK}
  PROVE  LET q == [e.cbs EXCEPT ![s] = v]
         IN /\ q \in Slots /\ Len(q) = Len(e.cbs)
            /\ \A i \in 1..Len(e.cbs) : q[i] = IF i = s THEN v ELSE e.cbs[i]
<1>1. e.cbs \in Seq(Callbacks \cup {NULL, JUNK})
  BY EntryArrays DEF Slots
<1> QED  BY <1>1, ExceptSeq DEF Slots

\* What sbev_reg_cb writes goes to the slot it has taken, which is nobody
\* else's.
LEMMA RegCbStoreKeeps ==
  ASSUME SlotInv, NEW c \in Clients, RegCbStore(c)
  PROVE  SlotInv'
<1>h. PICK h, s : h = ent[c].handle /\ s = slot[c]
  OBVIOUS
<1>v. PICK v : v = <<c, ops[c]>>
  OBVIOUS
<1> DEFINE e    == entries[h]
           q    == [e.cbs EXCEPT ![s] = v]
           x    == [e EXCEPT !.cbs = q]
           mine == [handle |-> h, slot |-> s, cb |-> v]
<1>1. /\ pc[c] = "store" /\ pc' = [pc EXCEPT ![c] = "idle"]
      /\ UNCHANGED <<block, evmax, map, ent, slot, ops, want, phase, jobs>>
      /\ entries' = [entries EXCEPT ![h] = x]
      /\ held' = [held EXCEPT ![c] = @ \cup {mine}]
      /\ stale' \in BOOLEAN
  BY <1>h, <1>v DEF RegCbStore, Goto, Access, Callback, loop
<1>2. /\ pc' \in [Actors -> ClientPc \cup LoopPc]
      /\ pc'[Loop] = pc[Loop] /\ pc'[Loop] \in LoopPc
      /\ pc'[c] = "idle" /\ c \in Actors /\ c # Loop
      /\ \A a \in Actors : a # c => pc'[a] = pc[a]
      /\ \A d \in Clients : pc'[d] \in ClientPc /\ d \in Actors
  BY <1>1, ClientGoes DEF SlotInv, ClientPc
<1>3. h \in Handles /\ h \in Nat /\ e \in EntryType
  BY <1>1, <1>2, <1>h, EntryFacts DEF SlotInv, ReadersFresh, Reading
<1>4. v \in Callbacks /\ v # JUNK
  <2>1. ops \in [Clients -> Nat]
    BY DEF SlotInv, TypeOK
  <2>2. v \in Callbacks
    BY <1>v, <2>1 DEF Callbacks, Actors
  <2>3. JUNK \notin Callbacks
    BY EventAssumption DEF Callbacks, Actors
  <2> QED  BY <2>2, <2>3
<1>5. Busy(c) /\ NotFree(h, s) /\ s \in 1..Len(e.cbs) /\ s \in Nat /\ Len(e.cbs) \in Nat
  BY <1>1, <1>3, <1>h, EntryArrays DEF SlotInv, BusyTaken, Busy, NotFree
<1>6. /\ q \in Slots /\ Len(q) = Len(e.cbs)
      /\ \A i \in 1..Len(e.cbs) : q[i] = IF i = s THEN v ELSE e.cbs[i]
  BY <1>3, <1>4, <1>5, SlotWritten
<1> HIDE DEF q
<1>7. /\ x \in EntryType /\ x.cbs = q /\ x.max = e.max
      /\ x.nomen = e.nomen /\ x.free = e.free /\ x.free_max = e.free_max
  BY <1>3, <1>6, NewSlot
<1> HIDE DEF x
<1>8. /\ entries' \in Seq(EntryType) /\ Len(entries') = Len(entries) /\ Handles' = Handles
      /\ entries'[h] = x
      /\ \A k \in Handles : k # h => entries'[k] = entries[k]
  BY <1>1, <1>3, <1>7, EntryChange DEF SlotInv
<1>9. \A k \in Handles :
        /\ Len(entries'[k].cbs) = Len(entries[k].cbs)
        /\ entries'[k].free = entries[k].free
        /\ entries'[k].max = entries[k].max /\ entries'[k].free_max = entries[k].free_max
        /\ entries'[k].nomen = entries[k].nomen
        /\ \A i \in 1..Len(entries[k].cbs) :
             entries'[k].cbs[i] = IF k = h /\ i = s THEN v ELSE entries[k].cbs[i]
  BY <1>6, <1>7, <1>8
<1>10. \A k \in Handles : \A i : NotFree(k, i)' <=> NotFree(k, i)
  BY <1>9 DEF NotFree
<1>11. mine \in [handle: Nat, slot: Nat, cb: Callbacks]
  BY <1>3, <1>4, <1>5
<1>12. /\ held' \in [Clients -> SUBSET [handle: Nat, slot: Nat, cb: Callbacks]]
       /\ \A d \in Clients : \A m \in held'[d] : m \in held[d] \/ (d = c /\ m = mine)
  <2>1. held \in [Clients -> SUBSET [handle: Nat, slot: Nat, cb: Callbacks]]
    BY DEF SlotInv, TypeOK
  <2> HIDE DEF mine
  <2> QED  BY <1>1, <1>11, <2>1
<1>13. TypeOK'
  <2>1. \A d \in Clients : pc'[d] = "add" => want[d] \in AllNames
    BY <1>2 DEF SlotInv, TypeOK
  <2> QED  BY <1>1, <1>2, <1>8, <1>12, <2>1 DEF SlotInv, TypeOK
<1>14. ArrayShape' /\ EntryShape'
  BY <1>1, <1>8, <1>9 DEF SlotInv, ArrayShape, EntryShape
<1>15. ReadersFresh'
  BY <1>1, <1>2, <1>8 DEF SlotInv, ReadersFresh, Reading
<1>16. mine.handle = h /\ mine.slot = s /\ mine.cb = v
  OBVIOUS
<1>17. \A d \in Clients : \A n \in held[d] :
         /\ n.handle \in Handles /\ n.slot \in 1..Len(entries[n.handle].cbs)
         /\ NotFree(n.handle, n.slot) /\ entries[n.handle].cbs[n.slot] = n.cb
         /\ n.handle # h \/ n.slot # s
  BY <1>5, <1>h, HeldFacts DEF SlotInv, ClaimsApart, NotFree
<1> HIDE DEF mine
<1>18. HeldIntact'
  <2> SUFFICES ASSUME NEW d \in Clients, NEW m \in held'[d]
               PROVE  /\ m.handle \in Handles /\ NotFree(m.handle, m.slot)'
                      /\ entries'[m.handle].cbs[m.slot] = m.cb
    BY <1>8 DEF HeldIntact
  <2>1. CASE m = mine
    BY <1>3, <1>5, <1>9, <1>10, <1>16, <2>1
  <2>2. CASE m # mine
    BY <1>9, <1>10, <1>12, <1>17, <2>2
  <2> QED  BY <2>1, <2>2
<1>19. \A d \in Clients : Busy(d)' <=> Busy(d) /\ d # c
  BY <1>2 DEF Busy
<1>20. BusyTaken'
  <2>1. ASSUME NEW d \in Clients, Busy(d)
        PROVE  NotFree(ent[d].handle, slot[d])'
    <3>1. PICK a, b : a = ent[d].handle /\ b = slot[d]
      OBVIOUS
    <3>2. NotFree(a, b) /\ a \in Handles
      BY <1>2, <2>1, <3>1 DEF SlotInv, BusyTaken, ReadersFresh, Busy, Reading
    <3> QED  BY <1>1, <1>10, <3>1, <3>2 DEF NotFree
  <2> QED  BY <1>19, <2>1 DEF BusyTaken
<1>21. ClaimsApart'
  <2>1. \A a, b \in Clients : \A m \in held'[a], n \in held'[b] :
          m.handle = n.handle /\ m.slot = n.slot => a = b /\ m = n
    BY <1>12, <1>16, <1>17 DEF SlotInv, ClaimsApart
  <2>2. \A a, b \in Clients : \A n \in held'[b] :
          Busy(a)' => ent'[a].handle # n.handle \/ slot'[a] # n.slot
    BY <1>1, <1>5, <1>12, <1>16, <1>19, <1>h DEF SlotInv, ClaimsApart
  <2>3. \A a, b \in Clients :
          Busy(a)' /\ Busy(b)' /\ ent'[a].handle = ent'[b].handle /\ slot'[a] = slot'[b] => a = b
    BY <1>1, <1>19 DEF SlotInv, ClaimsApart
  <2> QED  BY <2>1, <2>2, <2>3 DEF ClaimsApart
<1>22. JunkOwned'
  <2> SUFFICES ASSUME NEW k \in Handles, NEW i \in 1..Len(entries'[k].cbs),
                      entries'[k].cbs[i] = JUNK
               PROVE  \E d \in Clients : pc'[d] = "store" /\ ent'[d].handle = k /\ slot'[d] = i
    BY <1>8 DEF JunkOwned
  <2>1. i \in 1..Len(entries[k].cbs) /\ entries[k].cbs[i] = JUNK /\ (k # h \/ i # s)
    BY <1>4, <1>9
  <2>2. PICK d \in Clients : pc[d] = "store" /\ ent[d].handle = k /\ slot[d] = i
    BY <2>1 DEF SlotInv, JunkOwned
  <2> QED  BY <1>1, <1>2, <1>h, <2>1, <2>2
<1>23. MapFresh' /\ NoWildCall'
  BY <1>1, <1>8, <1>9 DEF SlotInv, MapFresh, NoWildCall
<1> QED  BY <1>13, <1>14, <1>15, <1>18, <1>20, <1>21, <1>22, <1>23 DEF SlotInv

\* sbev_unreg_cb begins to give back a callback that the client holds.
LEMMA UnregCbLockKeeps ==
  ASSUME SlotInv, NEW c \in Clients, NEW mine \in held[c], UnregCbLock(c, mine)
  PROVE  SlotInv'
<1>1. /\ pc[c] = "idle" /\ pc' = [pc EXCEPT ![c] = "unreg"]
      /\ ent' = [ent EXCEPT ![c] = [block |-> block, handle |-> mine.handle]]
      /\ slot' = [slot EXCEPT ![c] = mine.slot]
      /\ held' = [held EXCEPT ![c] = @ \ {mine}]
      /\ UNCHANGED <<entries, block, evmax, map, want, phase, stale, jobs>>
  BY DEF UnregCbLock, Goto, Begin, Pointer, core, loop
<1>2. /\ pc' \in [Actors -> ClientPc \cup LoopPc]
      /\ pc'[Loop] = pc[Loop] /\ pc'[Loop] \in LoopPc
      /\ pc'[c] = "unreg" /\ c \in Actors /\ c # Loop
      /\ \A a \in Actors : a # c => pc'[a] = pc[a]
      /\ \A d \in Clients : pc'[d] \in ClientPc /\ d \in Actors
  BY <1>1, ClientGoes DEF SlotInv, ClientPc
<1>3. \A d \in Clients : pc'[d] = "add" => want[d] \in AllNames
  BY <1>2 DEF SlotInv, TypeOK
<1>4. ops' \in [Clients -> Nat]
  BY BeginType DEF SlotInv, UnregCbLock
<1>5. /\ mine.handle \in Handles /\ mine.slot \in Nat /\ NotFree(mine.handle, mine.slot)
      /\ mine.handle \in Nat
  BY HeldFacts, EntryFacts DEF SlotInv
<1>6. /\ ent' \in [Actors -> [block: Nat, handle: Nat]]
      /\ ent'[c] = [block |-> block, handle |-> mine.handle]
      /\ \A a \in Actors : a # c => ent'[a] = ent[a]
  BY <1>1, <1>2, <1>5, PointerTaken DEF SlotInv
<1>7. /\ slot' \in [Clients -> Nat] /\ slot'[c] = mine.slot
      /\ \A d \in Clients : d # c => slot'[d] = slot[d]
  <2>1. slot \in [Clients -> Nat]
    BY DEF SlotInv, TypeOK
  <2> QED  BY <1>1, <1>5, <2>1
<1>8. /\ held' \in [Clients -> SUBSET [handle: Nat, slot: Nat, cb: Callbacks]]
      /\ \A d \in Clients : \A m \in held'[d] : m \in held[d] /\ (d = c => m # mine)
  <2>1. held \in [Clients -> SUBSET [handle: Nat, slot: Nat, cb: Callbacks]]
    BY DEF SlotInv, TypeOK
  <2> QED  BY <1>1, <2>1
<1>9. TypeOK'
  BY <1>1, <1>2, <1>3, <1>4, <1>6, <1>7, <1>8 DEF SlotInv, TypeOK
<1>10. Handles' = Handles /\ \A k, i : NotFree(k, i)' <=> NotFree(k, i)
  BY <1>1 DEF Handles, NotFree
<1>11. ArrayShape' /\ EntryShape'
  BY <1>1, <1>10 DEF SlotInv, ArrayShape, EntryShape
<1>12. ReadersFresh'
  BY <1>1, <1>2, <1>5, <1>6, <1>10 DEF SlotInv, ReadersFresh
<1>13. HeldIntact'
  BY <1>1, <1>8, <1>10 DEF SlotInv, HeldIntact
<1>14. /\ \A d \in Clients : Busy(d)' <=> Busy(d) \/ d = c
       /\ ~Busy(c)
  BY <1>1, <1>2 DEF Busy
<1>15. BusyTaken'
  <2>1. NotFree(ent[c].handle, slot[c])'
    BY <1>1, <1>5, <1>6, <1>7 DEF NotFree
  <2>2. ASSUME NEW d \in Clients, d # c, Busy(d)
        PROVE  NotFree(ent[d].handle, slot[d])'
    BY <1>1, <1>2, <1>6, <1>7, <2>2 DEF SlotInv, BusyTaken, NotFree
  <2> QED  BY <1>14, <2>1, <2>2 DEF BusyTaken
<1>16. ClaimsApart'
  <2>0. \A d \in Clients : d \in Actors
    BY <1>2
  <2>1. \A a, b \in Clients : \A m \in held'[a], n \in held'[b] :
          m.handle = n.handle /\ m.slot = n.slot => a = b /\ m = n
    BY <1>8 DEF SlotInv, ClaimsApart
  <2>2. \A a, b \in Clients : \A n \in held'[b] :
          Busy(a)' => ent'[a].handle # n.handle \/ slot'[a] # n.slot
    <3>1. ASSUME NEW a \in Clients, NEW b \in Clients, NEW n \in held[b], a # c, Busy(a)
          PROVE  ent'[a].handle # n.handle \/ slot'[a] # n.slot
      BY <1>6, <1>7, <2>0, <3>1 DEF SlotInv, ClaimsApart
    <3>2. ASSUME NEW b \in Clients, NEW n \in held'[b]
          PROVE  mine.handle # n.handle \/ mine.slot # n.slot
      BY <1>8 DEF SlotInv, ClaimsApart
    <3> QED  BY <1>6, <1>7, <1>8, <1>14, <3>1, <3>2
  <2>3. \A a, b \in Clients :
          Busy(a)' /\ Busy(b)' /\ ent'[a].handle = ent'[b].handle /\ slot'[a] = slot'[b] => a = b
    <3>1. ASSUME NEW a \in Clients, a # c, Busy(a)
          PROVE  ent'[a].handle # mine.handle \/ slot'[a] # mine.slot
      BY <1>6, <1>7, <2>0, <3>1 DEF SlotInv, ClaimsApart
    <3>2. ASSUME NEW a \in Clients, NEW b \in Clients, a # c, b # c, Busy(a), Busy(b),
                 ent'[a].handle = ent'[b].handle, slot'[a] = slot'[b]
          PROVE  a = b
      BY <1>6, <1>7, <2>0, <3>2 DEF SlotInv, ClaimsApart
    <3> QED  BY <1>6, <1>7, <1>14, <3>1, <3>2
  <2> QED  BY <2>1, <2>2, <2>3 DEF ClaimsApart
<1>17. JunkOwned'
  <2>1. ASSUME NEW h \in Handles, NEW i \in 1..Len(entries[h].cbs), entries[h].cbs[i] = JUNK
        PROVE  \E d \in Clients : pc'[d] = "store" /\ ent'[d].handle = h /\ slot'[d] = i
    <3>1. PICK d \in Clients : pc[d] = "store" /\ ent[d].handle = h /\ slot[d] = i
      BY <2>1 DEF SlotInv, JunkOwned
    <3>2. d # c
      BY <1>1, <3>1
    <3> QED  BY <1>2, <1>6, <1>7, <3>1, <3>2
  <2> QED  BY <1>1, <1>10, <2>1 DEF JunkOwned
<1>18. MapFresh' /\ NoWildCall'
  BY <1>1, <1>10 DEF SlotInv, MapFresh, NoWildCall
<1> QED  BY <1>9, <1>11, <1>12, <1>13, <1>15, <1>16, <1>17, <1>18 DEF SlotInv

\* The slot that sbev_unreg_cb puts on the stack is nobody's any more.
LEMMA UnregCbKeeps ==
  ASSUME SlotInv, NEW c \in Clients, UnregCb(c)
  PROVE  SlotInv'
<1>h. PICK h, s : h = ent[c].handle /\ s = slot[c]
  OBVIOUS
<1> DEFINE e  == entries[h]
           q  == [e.cbs EXCEPT ![s] = NULL]
           f  == Append(e.free, s)
           m2 == IF Len(e.free) = e.free_max THEN 2 * e.free_max ELSE e.free_max
           x  == [[[e EXCEPT !.free_max = m2] EXCEPT !.cbs = q] EXCEPT !.free = f]
<1>1. /\ pc[c] = "unreg" /\ pc' = [pc EXCEPT ![c] = "idle"]
      /\ UNCHANGED <<block, evmax, map, ent, slot, held, ops, want, phase, jobs>>
      /\ entries' = [entries EXCEPT ![h].free_max = m2, ![h].cbs[s] = NULL, ![h].free = Append(@, s)]
      /\ stale' \in BOOLEAN
  BY <1>h DEF UnregCb, Goto, Access, clients, loop
<1>2. /\ pc' \in [Actors -> ClientPc \cup LoopPc]
      /\ pc'[Loop] = pc[Loop] /\ pc'[Loop] \in LoopPc
      /\ pc'[c] = "idle" /\ c \in Actors /\ c # Loop
      /\ \A a \in Actors : a # c => pc'[a] = pc[a]
      /\ \A d \in Clients : pc'[d] \in ClientPc /\ d \in Actors
  BY <1>1, ClientGoes DEF SlotInv, ClientPc
<1>3. h \in Handles /\ h \in Nat /\ e \in EntryType
  BY <1>1, <1>2, <1>h, EntryFacts DEF SlotInv, ReadersFresh, Reading
<1>4. /\ e.cbs \in Slots /\ e.free \in Seq(Nat) /\ e.max \in Nat /\ e.free_max \in Nat
      /\ e.nomen \in AllNames
      /\ Len(e.cbs) \in Nat /\ Len(e.free) \in Nat
  BY <1>3, EntryArrays
<1>5. /\ Len(e.cbs) <= e.max /\ Len(e.free) <= e.free_max
      /\ 1 <= e.max /\ 1 <= e.free_max
      /\ \A i \in 1..Len(e.free) : e.free[i] \in 1..Len(e.cbs)
      /\ \A i, j \in 1..Len(e.free) : e.free[i] = e.free[j] => i = j
  BY <1>3 DEF SlotInv, EntryShape
<1>6. /\ Busy(c) /\ s \in 1..Len(e.cbs) /\ s \in Nat
      /\ \A i \in 1..Len(e.free) : e.free[i] # s
  BY <1>1, <1>3, <1>4, <1>h DEF SlotInv, BusyTaken, Busy, NotFree
<1>10. entries' = [entries EXCEPT ![h] = x]
  BY <1>1, <1>3, EntryFacts DEF SlotInv, EntryType
<1> HIDE DEF e
<1>7. /\ q \in Slots /\ Len(q) = Len(e.cbs)
      /\ \A i \in 1..Len(e.cbs) : q[i] = IF i = s THEN NULL ELSE e.cbs[i]
  <2>1. PICK v \in Callbacks \cup {NULL, JUNK} : v = NULL
    OBVIOUS
  <2> DEFINE qv == [e.cbs EXCEPT ![s] = v]
  <2>2. /\ qv \in Slots /\ Len(qv) = Len(e.cbs)
        /\ \A i \in 1..Len(e.cbs) : qv[i] = IF i = s THEN v ELSE e.cbs[i]
    BY <1>3, <1>6, SlotWritten
  <2> QED  BY <2>1, <2>2
<1>8. /\ f \in Seq(Nat) /\ Len(f) = Len(e.free) + 1 /\ f[Len(e.free) + 1] = s
      /\ \A i \in 1..Len(e.free) : f[i] = e.free[i]
  BY <1>4, <1>6, AppendProperties
<1> HIDE DEF f
<1>9. m2 \in Nat /\ Len(f) <= m2 /\ 1 <= m2
  <2>1. /\ Len(e.free) \in Nat /\ e.free_max \in Nat /\ Len(e.free) <= e.free_max
        /\ 1 <= e.free_max /\ Len(f) = Len(e.free) + 1
    BY <1>4, <1>5, <1>8
  <2> QED  BY <2>1
<1> HIDE DEF q, f, m2
<1>11. /\ x \in EntryType /\ x.cbs = q /\ x.max = e.max /\ x.nomen = e.nomen
       /\ x.free = f /\ x.free_max = m2
  <2>1. m2 \in Nat
    BY <1>9
  <2> QED  BY <1>3, <1>7, <1>8, <2>1 DEF EntryType
<1> HIDE DEF x
<1>12. /\ entries' \in Seq(EntryType) /\ Len(entries') = Len(entries) /\ Handles' = Handles
       /\ entries'[h] = x
       /\ \A k \in Handles : k # h => entries'[k] = entries[k]
  BY <1>3, <1>10, <1>11, EntryChange DEF SlotInv
<1>13. TypeOK'
  <2>1. \A d \in Clients : pc'[d] = "add" => want[d] \in AllNames
    BY <1>2 DEF SlotInv, TypeOK
  <2> QED  BY <1>1, <1>2, <1>12, <2>1 DEF SlotInv, TypeOK
<1>14. ArrayShape' /\ EntryShape'
  <2>0. \A i \in 1..Len(f) : i \in 1..Len(e.free) \/ i = Len(e.free) + 1
    BY <1>4, <1>8
  <2>1. /\ \A i \in 1..Len(f) : f[i] \in 1..Len(q)
        /\ \A i, j \in 1..Len(f) : f[i] = f[j] => i = j
    BY <1>5, <1>6, <1>7, <1>8, <2>0
  <2>2. EntryShape'
    <3> SUFFICES ASSUME NEW k \in Handles'
                 PROVE  /\ Len(entries'[k].cbs) <= entries'[k].max
                        /\ Len(entries'[k].free) <= entries'[k].free_max
                        /\ 1 <= entries'[k].max /\ 1 <= entries'[k].free_max
                        /\ \A i \in 1..Len(entries'[k].free) :
                             entries'[k].free[i] \in 1..Len(entries'[k].cbs)
                        /\ \A i, j \in 1..Len(entries'[k].free) :
                             entries'[k].free[i] = entries'[k].free[j] => i = j
      BY DEF EntryShape
    <3>1. CASE k = h
      BY <1>4, <1>5, <1>7, <1>9, <1>11, <1>12, <2>1, <3>1
    <3>2. CASE k # h
      BY <1>12, <3>2 DEF SlotInv, EntryShape
    <3> QED  BY <3>1, <3>2
  <2> QED  BY <1>1, <1>12, <2>2 DEF SlotInv, ArrayShape
<1>15. ReadersFresh'
  BY <1>1, <1>2, <1>12 DEF SlotInv, ReadersFresh, Reading
\* Other clients' slots are as they were.
<1>16. ASSUME NEW k \in Handles, NEW i, NotFree(k, i), k # h \/ i # s
       PROVE  NotFree(k, i)' /\ entries'[k].cbs[i] = entries[k].cbs[i]
  <2>1. CASE k = h
    <3>1. i \in 1..Len(e.cbs) /\ \A j \in 1..Len(e.free) : e.free[j] # i
      BY <1>16, <2>1 DEF NotFree, e
    <3>2. \A j \in 1..Len(f) : f[j] # i
      <4>1. \A j \in 1..Len(f) : j \in 1..Len(e.free) \/ j = Len(e.free) + 1
        BY <1>4, <1>8
      <4>2. i # s
        BY <1>16, <2>1
      <4> QED  BY <1>8, <3>1, <4>1, <4>2
    <3>3. x.cbs[i] = e.cbs[i] /\ i \in 1..Len(x.cbs)
      BY <1>7, <1>11, <1>16, <2>1, <3>1
    <3> QED  BY <1>11, <1>12, <2>1, <3>2, <3>3 DEF NotFree, e
  <2>2. CASE k # h
    BY <1>12, <1>16, <2>2 DEF NotFree
  <2> QED  BY <2>1, <2>2
<1>17. HeldIntact'
  <2>1. \A d \in Clients : \A n \in held[d] :
          /\ n.handle \in Handles /\ NotFree(n.handle, n.slot)
          /\ entries[n.handle].cbs[n.slot] = n.cb
          /\ n.handle # h \/ n.slot # s
    BY <1>6, <1>h, HeldFacts DEF SlotInv, ClaimsApart
  <2>2. ASSUME NEW d \in Clients, NEW n \in held[d]
        PROVE  NotFree(n.handle, n.slot)' /\ entries'[n.handle].cbs[n.slot] = n.cb
    BY <1>16, <2>1
  <2> QED  BY <1>1, <1>12, <2>1, <2>2 DEF HeldIntact
<1>18. \A d \in Clients : Busy(d)' <=> Busy(d) /\ d # c
  BY <1>2 DEF Busy
<1>19. BusyTaken'
  <2>1. ASSUME NEW d \in Clients, Busy(d), d # c
        PROVE  NotFree(ent[d].handle, slot[d])'
    <3>1. PICK a, b : a = ent[d].handle /\ b = slot[d]
      OBVIOUS
    <3>2. NotFree(a, b) /\ a \in Handles
      BY <1>2, <2>1, <3>1 DEF SlotInv, BusyTaken, ReadersFresh, Busy, Reading
    <3>3. a # h \/ b # s
      BY <1>6, <1>h, <2>1, <3>1 DEF SlotInv, ClaimsApart
    <3>4. NotFree(a, b)'
      BY <1>16, <3>2, <3>3
    <3> QED  BY <1>1, <3>1, <3>4 DEF NotFree
  <2> QED  BY <1>18, <2>1 DEF BusyTaken
<1>20. ClaimsApart'
  BY <1>1, <1>18 DEF SlotInv, ClaimsApart
<1>21. JunkOwned'
  <2> SUFFICES ASSUME NEW k \in Handles, NEW i \in 1..Len(entries'[k].cbs),
                      entries'[k].cbs[i] = JUNK
               PROVE  \E d \in Clients : pc'[d] = "store" /\ ent'[d].handle = k /\ slot'[d] = i
    BY <1>12 DEF JunkOwned
  <2>1. i \in 1..Len(entries[k].cbs) /\ entries[k].cbs[i] = JUNK
    BY <1>7, <1>11, <1>12, EventAssumption DEF e
  <2>2. PICK d \in Clients : pc[d] = "store" /\ ent[d].handle = k /\ slot[d] = i
    BY <2>1 DEF SlotInv, JunkOwned
  <2>3. d # c
    BY <1>1, <2>2
  <2> QED  BY <1>1, <1>2, <2>2, <2>3
<1>22. MapFresh' /\ NoWildCall'
  <2>1. \A k \in Handles : entries'[k].nomen = entries[k].nomen
    BY <1>11, <1>12 DEF e
  <2> QED  BY <1>1, <1>12, <2>1 DEF SlotInv, MapFresh, NoWildCall
<1> QED  BY <1>13, <1>14, <1>15, <1>17, <1>19, <1>20, <1>21, <1>22 DEF SlotInv

\* sbev_reg_event adds an entry, and may move the array, while nobody has a
\* pointer into it.
LEMMA RegEventAddKeeps ==
  ASSUME SlotInv, NEW c \in Clients, RegEventAdd(c)
  PROVE  SlotInv'
<1> DEFINE n == Len(entries) + 1
           x == Entry(want[c], <<>>)
<1>1. /\ pc[c] = "add" /\ pc' = [pc EXCEPT ![c] = "idle"]
      /\ entries' = Append(entries, x)
      /\ UNCHANGED <<ent, slot, held, ops, want, phase, jobs, stale>>
      /\ \A a \in DOMAIN pc : pc[a] \notin Reading
  BY DEF RegEventAdd, Goto, clients, loop, NoReaders
<1>2. /\ pc' \in [Actors -> ClientPc \cup LoopPc]
      /\ pc'[Loop] = pc[Loop] /\ pc'[Loop] \in LoopPc
      /\ pc'[c] = "idle" /\ c \in Actors /\ c # Loop
      /\ \A a \in Actors : a # c => pc'[a] = pc[a]
      /\ \A d \in Clients : pc'[d] \in ClientPc /\ d \in Actors
  BY <1>1, ClientGoes DEF SlotInv, ClientPc
<1>3. \A a \in Actors : pc'[a] \notin Reading
  <2>1. DOMAIN pc = Actors
    BY DEF SlotInv, TypeOK
  <2> QED  BY <1>1, <1>2, <2>1 DEF Reading
<1>4. /\ want[c] \in AllNames /\ x \in EntryType
      /\ x.nomen = want[c] /\ x.max = CbMax /\ x.free_max = CbMax
      /\ x.cbs = <<>> /\ x.free = <<>> /\ Len(x.cbs) = 0 /\ Len(x.free) = 0
  <2>1. want[c] \in AllNames
    BY <1>1 DEF SlotInv, TypeOK
  <2>2. <<>> \in Slots /\ <<>> \in Seq(Nat) /\ CbMax \in Nat
    BY EventAssumption DEF Slots
  <2> QED  BY <2>1, <2>2 DEF Entry, EntryType
<1> HIDE DEF x
<1>5. entries \in Seq(EntryType) /\ Len(entries) \in Nat
  BY LenProperties DEF SlotInv, TypeOK
<1>6. /\ entries' \in Seq(EntryType) /\ Len(entries') = n
      /\ entries'[n] = x /\ n \in Nat
      /\ \A k \in Handles : k # n /\ entries'[k] = entries[k]
      /\ \A k : k \in Handles' <=> k \in Handles \/ k = n
  BY <1>1, <1>4, <1>5, AppendProperties DEF Handles
<1>7. /\ block' \in Nat /\ evmax' \in Nat /\ n <= evmax'
      /\ map' \subseteq [nomen: AllNames, at: [block: Nat, handle: Nat]]
      /\ MapFresh'
  <2>0. block \in Nat /\ evmax \in Nat /\ 3 <= Len(entries) /\ Len(entries) <= evmax
    BY DEF SlotInv, TypeOK, ArrayShape
  <2>1. CASE Len(entries) = evmax
    <3>1. /\ evmax' = 2 * evmax /\ block' = block + 1
          /\ map' = {[nomen |-> entries'[h].nomen, at |-> [block |-> block', handle |-> h]] :
                       h \in DOMAIN entries'}
      BY <2>1 DEF RegEventAdd
    <3>2. /\ block' \in Nat /\ evmax' \in Nat /\ n <= evmax'
      BY <1>5, <2>0, <2>1, <3>1
    <3>3. /\ DOMAIN entries' = Handles'
          /\ \A h \in Handles' : h \in Nat /\ entries'[h] \in EntryType
      BY <1>6, LenProperties, ElementOfSeq DEF Handles
    <3>4. \A h \in Handles' : entries'[h].nomen \in AllNames
      BY <3>3 DEF EntryType
    <3>5. ASSUME NEW m \in map'
          PROVE  /\ m \in [nomen: AllNames, at: [block: Nat, handle: Nat]]
                 /\ m.at.block = block' /\ m.at.handle \in Handles'
                 /\ entries'[m.at.handle].nomen = m.nomen
      <4>1. PICK h \in Handles' :
              m = [nomen |-> entries'[h].nomen, at |-> [block |-> block', handle |-> h]]
        BY <3>1, <3>3
      <4> QED  BY <3>2, <3>3, <3>4, <4>1
    <3> QED  BY <3>2, <3>5 DEF MapFresh
  <2>2. CASE Len(entries) # evmax
    <3> DEFINE new == [nomen |-> want[c], at |-> [block |-> block, handle |-> n]]
    <3>1. /\ evmax' = evmax /\ block' = block
          /\ map' = map \cup {new}
      BY <1>6, <2>2 DEF RegEventAdd, Pointer
    <3>2. /\ block \in Nat /\ evmax \in Nat /\ n <= evmax
      BY <1>5, <2>0, <2>2
    <3>3. /\ new \in [nomen: AllNames, at: [block: Nat, handle: Nat]]
          /\ new.at.block = block /\ new.at.handle = n /\ new.nomen = x.nomen
      BY <1>4, <1>6, <3>2
    <3> HIDE DEF new
    <3>4. MapFresh'
      BY <1>6, <3>1, <3>3 DEF SlotInv, MapFresh
    <3>5. map \subseteq [nomen: AllNames, at: [block: Nat, handle: Nat]]
      BY DEF SlotInv, TypeOK
    <3> QED  BY <3>1, <3>2, <3>3, <3>4, <3>5
  <2> QED  BY <2>1, <2>2
<1>8. TypeOK'
  <2>1. \A d \in Clients : pc'[d] = "add" => want[d] \in AllNames
    BY <1>2 DEF SlotInv, TypeOK
  <2> QED  BY <1>1, <1>2, <1>6, <1>7, <2>1 DEF SlotInv, TypeOK
<1>9. ArrayShape'
  BY <1>5, <1>6, <1>7 DEF SlotInv, ArrayShape
<1>10. EntryShape'
  <2> SUFFICES ASSUME NEW k \in Handles'
               PROVE  /\ Len(entries'[k].cbs) <= entries'[k].max
                      /\ Len(entries'[k].free) <= entries'[k].free_max
                      /\ 1 <= entries'[k].max /\ 1 <= entries'[k].free_max
                      /\ \A i \in 1..Len(entries'[k].free) :
                           entries'[k].free[i] \in 1..Len(entries'[k].cbs)
                      /\ \A i, j \in 1..Len(entries'[k].free) :
                           entries'[k].free[i] = entries'[k].free[j] => i = j
    BY DEF EntryShape
  <2>1. CASE k = n
    BY <1>4, <1>6, <2>1, EventAssumption
  <2>2. CASE k # n
    BY <1>6, <2>2 DEF SlotInv, EntryShape
  <2> QED  BY <2>1, <2>2
<1>11. ReadersFresh' /\ \A d \in Clients : ~Busy(d)'
  BY <1>2, <1>3 DEF ReadersFresh, Busy, Reading
<1>12. \A k \in Handles : \A i : NotFree(k, i)' <=> NotFree(k, i)
  BY <1>6 DEF NotFree
<1>13. HeldIntact'
  BY <1>1, <1>6, <1>12 DEF SlotInv, HeldIntact
<1>14. BusyTaken' /\ ClaimsApart'
  BY <1>1, <1>11 DEF SlotInv, BusyTaken, ClaimsApart
<1>15. JunkOwned'
  <2>1. \A k \in Handles : \A i \in 1..Len(entries[k].cbs) : entries[k].cbs[i] # JUNK
    <3>1. \A d \in Clients : pc[d] # "store"
      BY <1>1 DEF SlotInv, TypeOK, Reading, Actors
    <3> QED  BY <3>1 DEF SlotInv, JunkOwned
  <2> QED  BY <1>4, <1>6, <2>1 DEF JunkOwned
<1>16. NoWildCall'
  BY <1>1 DEF SlotInv, NoWildCall
<1> QED  BY <1>7, <1>8, <1>9, <1>10, <1>11, <1>13, <1>14, <1>15, <1>16 DEF SlotInv

-----------------------------------------------------------------------------
(* The invariant, and what follows from it. *)

LEMMA SlotStep == SlotInv /\ [Next]_vars => SlotInv'
<1> SUFFICES ASSUME SlotInv, [Next]_vars PROVE SlotInv'
  OBVIOUS
<1>1. CASE UNCHANGED vars
  <2>1. UNCHANGED <<entries, block, evmax, map, pc, ent, slot, held, ops, want, phase, jobs, stale>>
    BY <1>1 DEF vars, core, clients, loop
  <2>2. TypeOK' /\ NoWildCall'
    BY <2>1 DEF SlotInv, TypeOK, NoWildCall
  <2> QED  BY <2>1, <2>2, Elsewhere DEF SlotInv, Busy
<1>2. CASE \E c \in Registrars, n \in Names : RegEventFind(c, n)
  BY <1>2, FindKeeps
<1>3. CASE \E c \in Clients, h \in Watched \cap DOMAIN entries : RegCbLock(c, h)
  BY <1>3, RegCbLockKeeps
<1>4. CASE \E c \in Clients : \E mine \in held[c] : UnregCbLock(c, mine)
  BY <1>4, UnregCbLockKeeps
<1>5. ASSUME NEW c \in Clients, ClientStep(c) PROVE SlotInv'
  BY <1>5, FoundKeeps, RegEventAddKeeps, RegCbSlotKeeps, RegCbStoreKeeps, UnregCbKeeps
     DEF ClientStep
<1>6. ASSUME NEW c \in Clients, KillCall(c) PROVE SlotInv'
  <2>1. UNCHANGED <<entries, block, evmax, map, pc, ent, slot, held, ops, want, phase, jobs, stale>>
    BY <1>6 DEF KillCall, clients, loop
  <2>2. TypeOK' /\ NoWildCall'
    BY <2>1 DEF SlotInv, TypeOK, NoWildCall
  <2> QED  BY <2>1, <2>2, Elsewhere DEF SlotInv, Busy
<1>7. CASE EmitLock
  BY <1>7, EmitLockKeeps
<1>8. CASE EmitCopy
  BY <1>8, EmitCopyKeeps
<1>9. CASE WaitOver
  <2>1. /\ pc' = [pc EXCEPT ![Loop] = "exited"] \/ pc' = [pc EXCEPT ![Loop] = "test"]
        /\ UNCHANGED <<core, ent, clients, jobs, stale>> /\ phase' = phase
    BY <1>9 DEF WaitOver, Goto
  <2>2. "exited" \in LoopPc \ {"copy"} /\ "test" \in LoopPc \ {"copy"}
    BY DEF LoopPc
  <2>3. phase' \in {Start, Tick, Kill}
    BY <2>1 DEF SlotInv, TypeOK
  <2> QED  BY <2>1, <2>2, <2>3, LoopKeeps
<1>10. CASE WaitForGarbage
  <2>1. /\ pc' = [pc EXCEPT ![Loop] = "hung"]
        /\ UNCHANGED <<core, ent, clients, jobs, stale>> /\ phase' = phase
    BY <1>10 DEF WaitForGarbage, Goto, loop
  <2>2. "hung" \in LoopPc \ {"copy"}
    BY DEF LoopPc
  <2>3. phase' \in {Start, Tick, Kill}
    BY <2>1 DEF SlotInv, TypeOK
  <2> QED  BY <2>1, <2>2, <2>3, LoopKeeps
<1>11. CASE TestKill
  <2>1. /\ pc' = [pc EXCEPT ![Loop] = "emit"]
        /\ UNCHANGED <<core, ent, clients, jobs, stale>>
        /\ phase' \in {Start, Tick, Kill}
    BY <1>11 DEF TestKill, Goto
  <2>2. "emit" \in LoopPc \ {"copy"}
    BY DEF LoopPc
  <2> QED  BY <2>1, <2>2, LoopKeeps
<1>12. ASSUME NEW job \in jobs, RunJob(job) PROVE SlotInv'
  <2>1. /\ UNCHANGED <<entries, block, evmax, map, pc, ent, slot, held, ops, want, phase, stale>>
        /\ jobs' \subseteq jobs
    BY <1>12 DEF RunJob, core, clients
  <2>2. TypeOK' /\ NoWildCall'
    BY <2>1 DEF SlotInv, TypeOK, NoWildCall
  <2> QED  BY <2>1, <2>2, Elsewhere DEF SlotInv, Busy
<1> QED  BY <1>1, <1>2, <1>3, <1>4, <1>5, <1>6, <1>7, <1>8, <1>9, <1>10, <1>11, <1>12
         DEF Next, LoopStep

\* Type correctness and the rest of the inductive invariant hold in every
\* state that the event core can be in.
THEOREM SlotInvHolds == Spec => []SlotInv
<1>1. Init => SlotInv
  BY InitSlots
<1> QED  BY <1>1, SlotStep, PTL DEF Spec

\* Any number of clients may register callbacks and give them back, in any
\* order: nobody writes the slot of another (sbev_reg_cb, sbev_unreg_cb).
THEOREM SlotsStayIntact == Spec => []SlotsIntact
<1>1. SlotInv => SlotsIntact
  <2> SUFFICES ASSUME SlotInv PROVE SlotsIntact
    OBVIOUS
  <2>1. \A h \in Handles : DOMAIN entries[h].cbs = 1..Len(entries[h].cbs)
                          /\ DOMAIN entries[h].free = 1..Len(entries[h].free)
    BY EntryFacts, EntryArrays DEF SlotInv
  <2>2. DOMAIN entries = Handles
    BY EntryFacts DEF SlotInv
  <2>3. ASSUME NEW c \in Clients, NEW mine \in held[c]
        PROVE  /\ entries[mine.handle].cbs[mine.slot] = mine.cb
               /\ mine.slot \notin Elems(entries[mine.handle].free)
    BY <2>1, HeldFacts DEF SlotInv, NotFree, Elems
  <2>4. ASSUME NEW h \in Handles
        PROVE  /\ Len(entries[h].cbs) <= entries[h].max
               /\ Len(entries[h].free) <= entries[h].free_max
               /\ Elems(entries[h].free) \subseteq DOMAIN entries[h].cbs
               /\ \A i, j \in DOMAIN entries[h].free :
                    entries[h].free[i] = entries[h].free[j] => i = j
    BY <2>1 DEF SlotInv, EntryShape, Elems
  <2> QED  BY <2>2, <2>3, <2>4 DEF SlotsIntact
<1> QED  BY <1>1, SlotInvHolds, PTL

\* No job is made of a slot that has been taken and not written yet, however
\* registrations and emissions interleave (sbev_emit_event).
THEOREM NoWildCallEver == Spec => []NoWildCall
<1>1. SlotInv => NoWildCall
  BY DEF SlotInv
<1> QED  BY <1>1, SlotInvHolds, PTL

-----------------------------------------------------------------------------
(* A single registrar. *)

\* A step that does not move the array, in which whoever has found an event
\* or misses one has done so before.
LEMMA NothingAdded ==
  ASSUME Registering, block' = block,
         \A c \in Clients : pc'[c] \in {"found", "add"} => pc'[c] = pc[c] /\ ent'[c] = ent[c],
         ~stale'
  PROVE  Registering'
  BY DEF Registering

\* The entry that a reader accesses has not moved.
LEMMA ReaderAccess ==
  ASSUME SlotInv, Registering, NEW a \in Actors, pc[a] \in Reading \/ (a \in Clients /\ pc[a] = "found"),
         Access(a)
  PROVE  ~stale'
<1>1. ent[a].block = block
  BY DEF SlotInv, ReadersFresh, Registering
<1> QED  BY <1>1 DEF Access, Registering

LEMMA RegisteringStep ==
  ASSUME OneRegistrar, SlotInv, Registering, [Next]_vars
  PROVE  Registering'
<1>0. /\ \A c \in Clients : c \in Actors /\ c # Loop
      /\ pc \in [Actors -> ClientPc \cup LoopPc] /\ ent \in [Actors -> [block: Nat, handle: Nat]]
      /\ want \in [Clients -> AllNames \cup {""}]
  BY EventAssumption DEF SlotInv, TypeOK, Actors
<1>1. CASE UNCHANGED vars
  BY <1>1, NothingAdded DEF vars, core, clients, Registering
<1>2. ASSUME NEW c \in Registrars, NEW n \in Names, RegEventFind(c, n) PROVE Registering'
  <2>1. c \in Clients /\ c \in Actors
    BY <1>0, EventAssumption
  <2>2. UNCHANGED <<block, stale>>
    BY <1>2 DEF RegEventFind, core
  <2>3. CASE \E m \in map : pc' = [pc EXCEPT ![c] = "found"] /\ ent' = [ent EXCEPT ![c] = m.at]
    <3>1. PICK m \in map : ent' = [ent EXCEPT ![c] = m.at]
      BY <2>3
    <3>2. m.at.block = block
      BY DEF SlotInv, MapFresh
    <3>3. /\ pc'[c] = "found" /\ ent'[c].block = block
          /\ \A d \in Clients : d # c => pc'[d] = pc[d] /\ ent'[d] = ent[d]
      BY <1>0, <2>1, <2>3, <3>1, <3>2
    <3> QED  BY <2>2, <3>3 DEF Registering
  <2>4. CASE pc' = [pc EXCEPT ![c] = "add"] /\ ent' = ent
    <3>1. /\ pc'[c] = "add"
          /\ \A d \in Clients : d # c => pc'[d] = pc[d]
      BY <1>0, <2>1, <2>4
    <3> QED  BY <2>2, <2>4, <3>1 DEF Registering
  <2> QED  BY <1>2, <2>3, <2>4 DEF RegEventFind, Goto
<1>3. ASSUME NEW c \in Clients, RegEventAdd(c) PROVE Registering'
  <2>1. pc[c] = "add" /\ pc' = [pc EXCEPT ![c] = "idle"] /\ stale' = stale
    BY <1>3 DEF RegEventAdd, Goto
  <2>2. \A d \in Clients : pc'[d] \notin {"found", "add"}
    BY <1>0, <2>1 DEF Registering, OneRegistrar
  <2> QED  BY <2>1, <2>2 DEF Registering
<1>4. ASSUME NEW c \in Clients, RegEventFound(c) PROVE Registering'
  <2>1. ~stale'
    BY <1>0, <1>4, ReaderAccess DEF RegEventFound, Goto
  <2> QED  BY <1>0, <1>4, <2>1, NothingAdded DEF RegEventFound, Goto, core, clients
<1>5. ASSUME NEW c \in Clients, NEW h, RegCbLock(c, h) PROVE Registering'
  BY <1>0, <1>5, NothingAdded DEF RegCbLock, Goto, core, Registering
<1>6. ASSUME NEW c \in Clients, NEW mine, UnregCbLock(c, mine) PROVE Registering'
  BY <1>0, <1>6, NothingAdded DEF UnregCbLock, Goto, core, Registering
<1>7. ASSUME NEW c \in Clients, RegCbSlot(c) \/ RegCbStore(c) \/ UnregCb(c) PROVE Registering'
  <2>1. /\ block' = block /\ ent' = ent
        /\ pc[c] \in Reading /\ Access(c)
        /\ pc' = [pc EXCEPT ![c] = "store"] \/ pc' = [pc EXCEPT ![c] = "idle"]
    BY <1>7 DEF RegCbSlot, RegCbStore, UnregCb, Goto, Reading, clients
  <2>2. ~stale'
    BY <1>0, <2>1, ReaderAccess
  <2> QED  BY <1>0, <2>1, <2>2, NothingAdded
<1>8. ASSUME NEW c \in Clients, KillCall(c) PROVE Registering'
  BY <1>8, NothingAdded DEF KillCall, clients, Registering
<1>9. CASE EmitCopy
  <2>1. ~stale'
    BY <1>9, ReaderAccess DEF EmitCopy, Goto, Reading, Actors
  <2> QED  BY <1>0, <1>9, <2>1, NothingAdded DEF EmitCopy, Goto, core, clients
<1>10. CASE EmitLock \/ WaitOver \/ WaitForGarbage \/ TestKill
  <2>1. /\ UNCHANGED <<entries, block, want, stale>>
        /\ \E to : pc' = [pc EXCEPT ![Loop] = to]
        /\ ent' = ent \/ \E x : ent' = [ent EXCEPT ![Loop] = x]
    BY <1>10 DEF EmitLock, WaitOver, WaitForGarbage, TestKill, Goto, core, clients
  <2> QED  BY <1>0, <2>1, NothingAdded DEF Registering
<1>11. ASSUME NEW job \in jobs, RunJob(job) PROVE Registering'
  BY <1>11, NothingAdded DEF RunJob, core, clients, Registering
<1> QED  BY <1>1, <1>2, <1>3, <1>4, <1>5, <1>6, <1>7, <1>8, <1>9, <1>10, <1>11
         DEF Next, LoopStep, ClientStep

LEMMA RegisteringHolds == ASSUME OneRegistrar PROVE Spec => [](SlotInv /\ Registering)
<1>1. Init => SlotInv /\ Registering
  BY InitSlots
<1>2. (SlotInv /\ Registering) /\ [Next]_vars => (SlotInv /\ Registering)'
  BY SlotStep, RegisteringStep
<1> QED  BY <1>1, <1>2, PTL DEF Spec

\* With one fiber that registers events, as when the plugins are loaded one
\* after the other, no entry is read where the array used to be, not even by
\* sbev_reg_event, which returns the handle of what it found after it has
\* given up the lock; and the map leads to the entries it names.
THEOREM NoStaleEntryEver ==
  ASSUME OneRegistrar
  PROVE  Spec => []NoStaleEntry
<1>1. SlotInv /\ Registering => NoStaleEntry
  BY DEF SlotInv, Registering, MapFresh, NoStaleEntry
<1> QED  BY <1>1, RegisteringHolds, PTL
=============================================================================
