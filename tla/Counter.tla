------------------------------ MODULE Counter ------------------------------
(***************************************************************************)
(* One vgc_counter and all who use it: src/src/fibers/scheduler.c.  The    *)
(* events of sb_event.c have one waiter each, which module Scheduler       *)
(* models; here several fibers wait for the same jobs, with                *)
(* vgc_wait_for_counter or vgc_wait_for_counter2, and the counter has room *)
(* for WAIT_FIBER_LEN of them.                                             *)
(*                                                                         *)
(* A fiber that waits jumps to its worker with the counter's lock held;    *)
(* the worker adds it to the waiters and gives the lock up.  A worker that *)
(* counts off the last job queues the waiters and then gives the lock up.  *)
(***************************************************************************)
EXTENDS Integers, Sequences, FiniteSets

CONSTANTS
  Plain,           \* the fibers that call vgc_wait_for_counter
  Checked,         \* those that call vgc_wait_for_counter2
  Jobs,            \* the jobs the counter counts
  WAIT_FIBER_LEN,  \* the waiters it has room for (4)
  None             \* the lock is free

Fibers == Plain \cup Checked

\* The comment on vgc_wait_for_counter asks for it: "If you're certain you
\* won't exceed WAIT_FIBER_LEN number of waiters on the counter".
ASSUME CounterAssumption ==
  /\ IsFiniteSet(Fibers) /\ IsFiniteSet(Jobs) /\ WAIT_FIBER_LEN \in Nat
  /\ Plain # {} => Cardinality(Fibers) <= WAIT_FIBER_LEN
  /\ Fibers \cap Jobs = {} /\ None \notin Fibers \cup Jobs

VARIABLES
  lock,      \* the actor that holds the counter's lock, or None
  counter,   \* jobs not yet counted off
  waiters,   \* the fibers added
  pc         \* per fiber and job: where it is

vars == <<lock, counter, waiters, pc>>

Init ==
  /\ lock = None
  /\ counter = Cardinality(Jobs)
  /\ waiters = <<>>
  /\ pc = [a \in Fibers \cup Jobs |-> "run"]

Goto(a, from, to) ==
  /\ pc[a] = from
  /\ pc' = [pc EXCEPT ![a] = to]

\* vgc_counter_acquire, by a fiber that waits or for a job that is done.
Acquire(a) ==
  /\ lock = None
  /\ lock' = a
  /\ Goto(a, "run", "locked")
  /\ UNCHANGED <<counter, waiters>>

\* vgc_counter_release
Release == lock' = None

-----------------------------------------------------------------------------
(* The fibers that wait. *)

\* The jobs are done already.
WaitOver(f) ==
  /\ counter = 0
  /\ Goto(f, "locked", "returned")
  /\ Release
  /\ UNCHANGED <<counter, waiters>>

\* Mutant: one more waiter than there is room for.
Full_OneMore == Len(waiters) = WAIT_FIBER_LEN + 1

Full == Len(waiters) = WAIT_FIBER_LEN

\* vgc_wait_for_counter2 returns an error.
WaitRefused(f) ==
  /\ f \in Checked
  /\ counter # 0 /\ Full
  /\ Goto(f, "locked", "refused")
  /\ Release
  /\ UNCHANGED <<counter, waiters>>

\* Mutant: the lock is given up before the jump.
WaitJump_Unlocked(f) ==
  /\ counter # 0 /\ (f \in Checked => ~Full)
  /\ Goto(f, "locked", "jumped")
  /\ Release
  /\ UNCHANGED <<counter, waiters>>

\* FIBER_WAIT, and vgc_jump to the worker.
WaitJump(f) ==
  /\ counter # 0 /\ (f \in Checked => ~Full)
  /\ Goto(f, "locked", "jumped")
  /\ UNCHANGED <<lock, counter, waiters>>

\* The worker: vgc_counter_add_waiter, whose result is not looked at, and the
\* release.
Park(f) ==
  /\ Goto(f, "jumped", "parked")
  /\ waiters' = IF Len(waiters) < WAIT_FIBER_LEN THEN Append(waiters, f) ELSE waiters
  /\ Release
  /\ UNCHANGED counter

\* A worker takes the fiber from its queue.
Resume(f) ==
  /\ Goto(f, "queued", "returned")
  /\ UNCHANGED <<lock, counter, waiters>>

-----------------------------------------------------------------------------
(* The jobs that are done. *)

\* Mutant: the waiters are woken with a job still to come.
LastJob_OneEarly == counter <= 2

LastJob == counter = 1

\* counter--, and with the last job all the waiters are queued.
CountOff(j) ==
  /\ pc[j] = "locked"
  /\ counter' = counter - 1
  /\ pc' = [a \in DOMAIN pc |->
              IF a = j THEN "counted"
              ELSE IF LastJob /\ \E i \in DOMAIN waiters : waiters[i] = a THEN "queued"
              ELSE pc[a]]
  /\ UNCHANGED <<lock, waiters>>

DoneRelease(j) ==
  /\ Goto(j, "counted", "done")
  /\ Release
  /\ UNCHANGED <<counter, waiters>>

FiberStep(f) ==
  Acquire(f) \/ WaitOver(f) \/ WaitRefused(f) \/ WaitJump(f) \/ Park(f) \/ Resume(f)

JobStep(j) == Acquire(j) \/ CountOff(j) \/ DoneRelease(j)

Next ==
  \/ \E f \in Fibers : FiberStep(f)
  \/ \E j \in Jobs : JobStep(j)

Spec == Init /\ [][Next]_vars

\* Workers go on with what they run.  The lock is a spin lock without order,
\* but each actor takes it once: in the end it is free for whoever is left.
LiveSpec ==
  /\ Spec
  /\ \A f \in Fibers : WF_vars(FiberStep(f))
  /\ \A j \in Jobs : WF_vars(JobStep(j))

-----------------------------------------------------------------------------
(* Properties. *)

\* A fiber goes on after its wait only when every job has been counted off.
ReturnsWhenDone == \A f \in Fibers : pc[f] \in {"queued", "returned"} => counter = 0

\* A fiber that is parked is one of the waiters that will be woken, and once
\* the jobs are done none is parked any more: no wakeup is lost between the
\* test of the counter and the parking, nor for want of room.
NoneForgotten ==
  \A f \in Fibers :
    pc[f] = "parked" => counter > 0 /\ \E i \in DOMAIN waiters : waiters[i] = f

\* The inductive invariant behind the two.  Whoever is between the acquire and
\* the release of the counter is the one who holds its lock; the counter is
\* the number of jobs not counted off; the waiters are different fibers, none
\* of which is still on its way; and a fiber that has jumped finds jobs to
\* wait for and room in the counter.
WaiterSet == {f \in Fibers : \E i \in DOMAIN waiters : waiters[i] = f}
Pending   == {j \in Jobs : pc[j] \in {"run", "locked"}}

Typed ==
  /\ lock \in Fibers \cup Jobs \cup {None}
  /\ waiters \in Seq(Fibers) /\ Len(waiters) <= WAIT_FIBER_LEN
  /\ pc \in [Fibers \cup Jobs -> {"run", "locked", "jumped", "parked", "queued",
                                 "returned", "refused", "counted", "done"}]
InsideHoldsLock ==
  \A a \in Fibers \cup Jobs : pc[a] \in {"locked", "jumped", "counted"} => lock = a
Counted == counter = Cardinality(Pending) /\ Len(waiters) = Cardinality(WaiterSet)
NotYetWaiter ==
  \A f \in Fibers : pc[f] \in {"run", "locked", "jumped", "refused"} => f \notin WaiterSet
JumpedHasRoom ==
  \A f \in Fibers : pc[f] = "jumped" => counter > 0 /\ Len(waiters) < WAIT_FIBER_LEN

CounterInv ==
  /\ Typed /\ InsideHoldsLock /\ Counted /\ NotYetWaiter /\ JumpedHasRoom
  /\ ReturnsWhenDone /\ NoneForgotten

\* Every wait ends: with the jobs, or with vgc_wait_for_counter2's error.
EveryWaitEnds == \A f \in Fibers : <>(pc[f] \in {"returned", "refused"})
=============================================================================
