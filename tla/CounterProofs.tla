--------------------------- MODULE CounterProofs ---------------------------
(***************************************************************************)
(* The counter's invariant, for any number of fibers and jobs and any      *)
(* WAIT_FIBER_LEN.                                                         *)
(***************************************************************************)
EXTENDS Counter, FiniteSetTheorems, TLAPS

USE CounterAssumption

\* What a step that moves one fiber leaves alone.
LEMMA PendingSame ==
  ASSUME NEW f \in Fibers, NEW to, Typed, pc' = [pc EXCEPT ![f] = to]
  PROVE  Pending' = Pending
<1>1. \A j \in Jobs : pc'[j] = pc[j]
  BY DEF Typed
<1> QED BY <1>1 DEF Pending

LEMMA WaitersSame == waiters' = waiters => WaiterSet' = WaiterSet
BY DEF WaiterSet

\* The counts are natural numbers.
LEMMA CountsFinite ==
  ASSUME Typed, Counted
  PROVE  /\ IsFiniteSet(Pending) /\ IsFiniteSet(WaiterSet)
         /\ counter \in Nat /\ Len(waiters) \in Nat
<1>1. Pending \subseteq Jobs /\ WaiterSet \subseteq Fibers
  BY DEF Pending, WaiterSet
<1>2. IsFiniteSet(Pending) /\ IsFiniteSet(WaiterSet)
  BY <1>1, FS_Subset
<1> QED BY <1>2, FS_CardinalityType DEF Counted

\* A fiber that is not a waiter yet leaves room for itself: in a counter whose
\* users keep to the comment, the others are fewer than WAIT_FIBER_LEN.
LEMMA PlainHasRoom ==
  ASSUME Typed, Counted, NEW f \in Plain, f \notin WaiterSet
  PROVE  Len(waiters) < WAIT_FIBER_LEN
<1>1. WaiterSet \subseteq Fibers /\ WaiterSet # Fibers
  BY DEF WaiterSet, Fibers
<1>2. Cardinality(WaiterSet) < Cardinality(Fibers)
  <2>1. IsFiniteSet(Fibers) /\ WaiterSet \in SUBSET Fibers
    BY <1>1
  <2>2. Cardinality(WaiterSet) <= Cardinality(Fibers)
        /\ Cardinality(WaiterSet) # Cardinality(Fibers)
    BY <1>1, <2>1, FS_Subset, Zenon
  <2>3. Cardinality(WaiterSet) \in Nat /\ Cardinality(Fibers) \in Nat
    BY <2>1, CountsFinite, FS_CardinalityType
  <2> QED BY <2>2, <2>3
<1>3. Cardinality(Fibers) <= WAIT_FIBER_LEN /\ Cardinality(Fibers) \in Nat
  BY FS_CardinalityType
<1> QED BY <1>2, <1>3, CountsFinite DEF Counted

LEMMA InitInv == Init => CounterInv
<1> SUFFICES ASSUME Init PROVE CounterInv
  OBVIOUS
<1> USE DEF Init
<1>1. Typed /\ InsideHoldsLock /\ ReturnsWhenDone /\ NoneForgotten /\ JumpedHasRoom
  BY DEF Typed, InsideHoldsLock, ReturnsWhenDone, NoneForgotten, JumpedHasRoom
<1>2. Pending = Jobs /\ WaiterSet = {}
  BY DEF Pending, WaiterSet
<1>3. Cardinality({}) = 0
  BY FS_EmptySet
<1>4. Counted /\ NotYetWaiter
  BY <1>2, <1>3 DEF Counted, NotYetWaiter
<1> QED BY <1>1, <1>4 DEF CounterInv

-----------------------------------------------------------------------------
(* One lemma for each kind of step. *)

LEMMA AcquireInv ==
  ASSUME CounterInv, NEW a \in Fibers \cup Jobs, Acquire(a)
  PROVE  CounterInv'
<1> USE DEF CounterInv, Acquire, Goto
<1>1. Typed'
  BY DEF Typed
<1>2. InsideHoldsLock'
  BY DEF InsideHoldsLock, Typed
<1>3. Pending' = Pending /\ WaiterSet' = WaiterSet
  BY DEF Pending, WaiterSet, Typed
<1>4. Counted'
  BY <1>3 DEF Counted
<1>5. NotYetWaiter'
  BY <1>3 DEF NotYetWaiter, Typed
<1>6. JumpedHasRoom' /\ ReturnsWhenDone' /\ NoneForgotten'
  BY DEF JumpedHasRoom, ReturnsWhenDone, NoneForgotten, Typed
<1> QED BY <1>1, <1>2, <1>4, <1>5, <1>6

\* WaitOver, WaitRefused and Resume: the fiber's wait ends.
LEMMA WaitEndsInv ==
  ASSUME CounterInv, NEW f \in Fibers, WaitOver(f) \/ WaitRefused(f) \/ Resume(f)
  PROVE  CounterInv'
<1> USE DEF CounterInv
<1>1. PICK to \in {"returned", "refused"} :
        /\ pc' = [pc EXCEPT ![f] = to]
        /\ pc[f] \in {"locked", "queued"}
        /\ to = "returned" => counter = 0
        /\ to = "refused" => pc[f] = "locked"
        /\ pc[f] = "locked" => lock' = None
        /\ pc[f] = "queued" => lock' = lock
  <2>1. CASE WaitOver(f)    BY <2>1 DEF WaitOver, Goto, Release
  <2>2. CASE WaitRefused(f) BY <2>2 DEF WaitRefused, Goto, Release
  <2>3. CASE Resume(f)      BY <2>3 DEF Resume, Goto, ReturnsWhenDone
  <2> QED BY <2>1, <2>2, <2>3
<1>2. counter' = counter /\ waiters' = waiters
  BY DEF WaitOver, WaitRefused, Resume
<1>3. Typed'
  BY <1>1, <1>2 DEF Typed
<1>4. InsideHoldsLock'
  BY <1>1 DEF InsideHoldsLock, Typed
<1>5. Pending' = Pending /\ WaiterSet' = WaiterSet
  BY <1>1, <1>2, PendingSame, WaitersSame
<1>6. Counted'
  BY <1>2, <1>5 DEF Counted
<1>7. NotYetWaiter'
  BY <1>1, <1>5 DEF NotYetWaiter, Typed
<1>8. JumpedHasRoom' /\ ReturnsWhenDone' /\ NoneForgotten'
  BY <1>1, <1>2 DEF JumpedHasRoom, ReturnsWhenDone, NoneForgotten, Typed
<1> QED BY <1>3, <1>4, <1>6, <1>7, <1>8

LEMMA WaitJumpInv ==
  ASSUME CounterInv, NEW f \in Fibers, WaitJump(f)
  PROVE  CounterInv'
<1> USE DEF CounterInv, WaitJump, Goto
<1>1. Typed'
  BY DEF Typed
<1>2. InsideHoldsLock'
  BY DEF InsideHoldsLock, Typed
<1>3. Pending' = Pending /\ WaiterSet' = WaiterSet
  BY PendingSame, WaitersSame
<1>4. Counted'
  BY <1>3 DEF Counted
<1>5. NotYetWaiter'
  BY <1>3 DEF NotYetWaiter, Typed
<1>6. Len(waiters) < WAIT_FIBER_LEN
  <2>1. f \notin WaiterSet
    BY DEF NotYetWaiter
  <2>2. CASE f \in Plain
    BY <2>1, <2>2, PlainHasRoom
  <2>3. CASE f \in Checked
    BY <2>3, CountsFinite DEF Full, Typed
  <2> QED BY <2>2, <2>3 DEF Fibers
<1>7. JumpedHasRoom'
  BY <1>6, CountsFinite DEF JumpedHasRoom, Typed
<1>8. ReturnsWhenDone' /\ NoneForgotten'
  BY DEF ReturnsWhenDone, NoneForgotten, Typed
<1> QED BY <1>1, <1>2, <1>4, <1>5, <1>7, <1>8

LEMMA ParkInv ==
  ASSUME CounterInv, NEW f \in Fibers, Park(f)
  PROVE  CounterInv'
<1> USE DEF CounterInv, Park, Goto
<1>1. waiters' = Append(waiters, f) /\ counter > 0 /\ pc[f] = "jumped"
  BY DEF JumpedHasRoom
<1>2. Typed'
  <2>1. waiters' \in Seq(Fibers) /\ Len(waiters') = Len(waiters) + 1 /\ Len(waiters) \in Nat
    BY <1>1 DEF Typed
  <2>2. Len(waiters) < WAIT_FIBER_LEN
    BY DEF JumpedHasRoom
  <2> QED BY <2>1, <2>2 DEF Typed, Release
<1>3. InsideHoldsLock'
  BY DEF InsideHoldsLock, Typed, Release
<1>4. WaiterSet' = WaiterSet \cup {f} /\ f \notin WaiterSet
  <2>1. f \notin WaiterSet
    BY <1>1 DEF NotYetWaiter
  <2>2. ASSUME NEW g \in Fibers
        PROVE  (\E i \in DOMAIN waiters' : waiters'[i] = g)
                 <=> (g = f \/ \E i \in DOMAIN waiters : waiters[i] = g)
    BY <1>1 DEF Typed
  <2> QED BY <2>1, <2>2 DEF WaiterSet
<1>5. Counted'
  <2>1. Cardinality(WaiterSet') = Cardinality(WaiterSet) + 1
    BY <1>4, CountsFinite, FS_AddElement
  <2>2. Len(waiters') = Len(waiters) + 1
    BY <1>1 DEF Typed
  <2>3. Pending' = Pending
    BY PendingSame
  <2> QED BY <2>1, <2>2, <2>3 DEF Counted
<1>6. NotYetWaiter'
  BY <1>4 DEF NotYetWaiter, Typed
<1>7. JumpedHasRoom'
  BY <1>1 DEF JumpedHasRoom, InsideHoldsLock, Typed
<1>8. ReturnsWhenDone'
  BY DEF ReturnsWhenDone, Typed
<1>9. NoneForgotten'
  <2>1. \A g \in Fibers : g \in WaiterSet' <=> \E i \in DOMAIN waiters' : waiters'[i] = g
    BY DEF WaiterSet
  <2>2. \A g \in Fibers : pc'[g] = "parked" => g \in WaiterSet' /\ counter' > 0
    BY <1>1, <1>4 DEF NoneForgotten, WaiterSet, Typed
  <2> QED BY <2>1, <2>2 DEF NoneForgotten
<1> QED BY <1>2, <1>3, <1>5, <1>6, <1>7, <1>8, <1>9

LEMMA CountOffInv ==
  ASSUME CounterInv, NEW j \in Jobs, CountOff(j)
  PROVE  CounterInv'
<1> USE DEF CounterInv, CountOff
<1>1. Typed'
  BY DEF Typed
<1>2. InsideHoldsLock'
  BY DEF InsideHoldsLock, Typed
<1>3. j \in Pending /\ WaiterSet' = WaiterSet
  BY DEF Pending, WaiterSet
<1>4. Pending' = Pending \ {j}
  <2>1. \A k \in Jobs : k # j => pc'[k] = pc[k]
    BY DEF Typed
  <2>2. pc'[j] = "counted"
    BY DEF Typed
  <2> QED BY <2>1, <2>2 DEF Pending
<1>5. Cardinality(Pending') = counter - 1 /\ counter \in Nat /\ counter > 0
  <2>1. Cardinality(Pending') = Cardinality(Pending) - 1
    BY <1>3, <1>4, CountsFinite, FS_RemoveElement
  <2>2. IsFiniteSet(Pending')
    BY <1>4, CountsFinite, FS_RemoveElement
  <2>3. Cardinality(Pending') \in Nat
    BY <2>2, FS_CardinalityType
  <2> QED BY <2>1, <2>3, CountsFinite DEF Counted
<1>6. Counted'
  BY <1>3, <1>5 DEF Counted
<1>7. \A f \in Fibers :
        pc'[f] = IF LastJob /\ f \in WaiterSet THEN "queued" ELSE pc[f]
  BY DEF WaiterSet, Typed
<1>8. NotYetWaiter'
  BY <1>3, <1>7 DEF NotYetWaiter
<1>9. JumpedHasRoom'
  BY <1>7 DEF JumpedHasRoom, InsideHoldsLock, Typed
<1>10. ReturnsWhenDone'
  BY <1>5, <1>7 DEF ReturnsWhenDone, LastJob
<1>11. NoneForgotten'
  BY <1>5, <1>7 DEF NoneForgotten, LastJob, WaiterSet
<1> QED BY <1>1, <1>2, <1>6, <1>8, <1>9, <1>10, <1>11

LEMMA DoneReleaseInv ==
  ASSUME CounterInv, NEW j \in Jobs, DoneRelease(j)
  PROVE  CounterInv'
<1> USE DEF CounterInv, DoneRelease, Goto
<1>1. Typed'
  BY DEF Typed, Release
<1>2. InsideHoldsLock'
  BY DEF InsideHoldsLock, Typed, Release
<1>3. Pending' = Pending /\ WaiterSet' = WaiterSet
  BY DEF Pending, WaiterSet, Typed
<1>4. Counted'
  BY <1>3 DEF Counted
<1>5. \A f \in Fibers : pc'[f] = pc[f]
  BY DEF Typed
<1>6. NotYetWaiter'
  BY <1>3, <1>5 DEF NotYetWaiter
<1>7. JumpedHasRoom' /\ ReturnsWhenDone' /\ NoneForgotten'
  BY <1>5 DEF JumpedHasRoom, ReturnsWhenDone, NoneForgotten
<1> QED BY <1>1, <1>2, <1>4, <1>6, <1>7

\* scheduler.c: the counter's lock, count and waiters stay consistent through
\* every wait and every finished job.
THEOREM CounterInvariant == Spec => []CounterInv
<1>1. Init => CounterInv
  BY InitInv
<1>2. CounterInv /\ [Next]_vars => CounterInv'
  <2> SUFFICES ASSUME CounterInv, [Next]_vars PROVE CounterInv'
    OBVIOUS
  <2>1. ASSUME NEW f \in Fibers, FiberStep(f) PROVE CounterInv'
    BY <2>1, AcquireInv, WaitEndsInv, WaitJumpInv, ParkInv DEF FiberStep
  <2>2. ASSUME NEW j \in Jobs, JobStep(j) PROVE CounterInv'
    BY <2>2, AcquireInv, CountOffInv, DoneReleaseInv DEF JobStep
  <2>3. CASE UNCHANGED vars
    BY <2>3 DEF vars, CounterInv, Typed, InsideHoldsLock, Counted, NotYetWaiter,
                JumpedHasRoom, ReturnsWhenDone, NoneForgotten, Pending, WaiterSet
  <2> QED BY <2>1, <2>2, <2>3 DEF Next
<1> QED BY <1>1, <1>2, PTL DEF Spec

\* vgc_wait_for_counter and vgc_wait_for_counter2: a fiber goes on only when
\* every job has been counted off.
THEOREM WaitsForAllJobs == Spec => []ReturnsWhenDone
<1>1. CounterInv => ReturnsWhenDone
  BY DEF CounterInv
<1> QED BY <1>1, CounterInvariant, PTL

\* No fiber is parked that the last job will not wake, also when the counter
\* is full.
THEOREM NoWaiterForgotten == Spec => []NoneForgotten
<1>1. CounterInv => NoneForgotten
  BY DEF CounterInv
<1> QED BY <1>1, CounterInvariant, PTL
=============================================================================
