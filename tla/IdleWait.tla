------------------------------ MODULE IdleWait ------------------------------
(***************************************************************************)
(* How idle workers sleep and are woken: vgc_enqueue (queue.c) and the     *)
(* first half of vgc_scheduler_run's loop (scheduler.c).                   *)
(*                                                                         *)
(* A worker that misses on all three queues takes waiter_mux, sets         *)
(* is_waiter, looks again and sleeps on waiter_cond.  vgc_enqueue pushes,  *)
(* then loads is_waiter and broadcasts if it is set.  Both accesses to     *)
(* is_waiter are relaxed, and x86-64 lets a load overtake an older store,  *)
(* so each side may look before its own store is visible:                  *)
(*   - the sleeper's is_waiter = 1 stays in its store buffer (sbuf) while  *)
(*     it looks at the queues, at the latest until it gives up the mutex;  *)
(*   - the pusher's store to cell->seq stays in its store buffer while it  *)
(*     loads is_waiter, at the latest until its next locked instruction.   *)
(*     Until then the cell is unpublished to the others, and hides the     *)
(*     cells behind it.                                                    *)
(*                                                                         *)
(* What fibers do is left to module Scheduler: a worker that has got a     *)
(* fiber pushes fibers (new jobs or woken waiters) and comes back.  Only   *)
(* workers push: main's push of the root job is the initial state.         *)
(***************************************************************************)
EXTENDS Naturals, Sequences

CONSTANTS
  Workers,   \* the threads in vgc_scheduler_run
  Nobody,    \* no worker
  MaxPush    \* bound: pushes in a behaviour

ASSUME WorkerAssumption == Nobody \notin Workers /\ Workers # {}
ASSUME PushAssumption   == MaxPush \in Nat

VARIABLES
  q,       \* per queue, its cells from head on: Nobody if published, else the
           \* worker in whose store buffer the publication is
  flag,    \* is_waiter, as in memory
  sbuf,    \* the worker whose is_waiter = 1 is still in its store buffer
  mux,     \* the owner of waiter_mux
  pc,      \* per worker: where it is
  pushes   \* pushes so far

vars == <<q, flag, sbuf, mux, pc, pushes>>

Queues == {"hi", "mid", "lo"}

Spin  == [hi |-> "spin_hi", mid |-> "spin_mid", lo |-> "spin_lo"]
Check == [hi |-> "check_hi", mid |-> "check_mid", lo |-> "check_lo"]

\* Where a worker goes when it misses at a queue.
AfterSpinMiss  == [hi |-> "spin_mid", mid |-> "spin_lo", lo |-> "lock"]
AfterCheckMiss == [hi |-> "check_mid", mid |-> "check_lo", lo |-> "wait"]

PCs == {Spin[p] : p \in Queues} \cup {Check[p] : p \in Queues}
       \cup {"lock", "flag", "wait", "sleep", "woken", "clear", "unlock",
             "run", "load", "bcast_lock", "bcast", "bcast_unlock"}

Init ==
  /\ q = [p \in Queues |-> IF p = "hi" THEN <<Nobody>> ELSE <<>>]
  /\ flag = FALSE
  /\ sbuf = Nobody
  /\ mux = Nobody
  /\ pc = [w \in Workers |-> "spin_hi"]
  /\ pushes = 0

Goto(w, from, to) ==
  /\ pc[w] = from
  /\ pc' = [pc EXCEPT ![w] = to]

\* The cells that the stores of w publish become visible.
Published(w, cells) == [i \in DOMAIN cells |-> IF cells[i] = w THEN Nobody ELSE cells[i]]

\* A locked instruction or a drained buffer: all stores of w are visible.
Drain(w) ==
  /\ flag' = (flag \/ sbuf = w)
  /\ sbuf' = IF sbuf = w THEN Nobody ELSE sbuf

Buffered(w) == sbuf = w \/ \E p \in Queues : \E i \in DOMAIN q[p] : q[p][i] = w

\* The store buffer of w drains by itself.
StoreDrains(w) ==
  /\ Buffered(w)
  /\ Drain(w)
  /\ q' = [p \in Queues |-> Published(w, q[p])]
  /\ UNCHANGED <<mux, pc, pushes>>

-----------------------------------------------------------------------------
\* Mutant: the last cell of a queue is taken for empty.
Ready_LeavesLast(w, p) == Len(q[p]) > 1 /\ Head(q[p]) \in {Nobody, w}

\* The head cell of queue p is published, as worker w sees it.
Ready(w, p) == q[p] # <<>> /\ Head(q[p]) \in {Nobody, w}

\* vgc_pop takes it; the compare-and-exchange drains the store buffer.
Pop(w, p) ==
  /\ Ready(w, p)
  /\ q' = [r \in Queues |-> Published(w, IF r = p THEN Tail(q[r]) ELSE q[r])]
  /\ Drain(w)

\* The first, unlocked look at the queues.
SpinHit(w, p) ==
  /\ Goto(w, Spin[p], "run")
  /\ Pop(w, p)
  /\ UNCHANGED <<mux, pushes>>

SpinMiss(w, p) ==
  /\ Goto(w, Spin[p], AfterSpinMiss[p])
  /\ ~Ready(w, p)
  /\ UNCHANGED <<q, flag, sbuf, mux, pushes>>

\* uv_mutex_lock, in vgc_scheduler_run and on return from uv_cond_wait.
Lock(w, from, to) ==
  /\ mux = Nobody
  /\ Goto(w, from, to)
  /\ mux' = w
  /\ Drain(w)
  /\ q' = [p \in Queues |-> Published(w, q[p])]
  /\ UNCHANGED pushes

IdleLock(w) == Lock(w, "lock", "flag")
WokenLock(w) == Lock(w, "woken", "flag")

\* is_waiter = 1, relaxed.
SetFlag(w) ==
  /\ Goto(w, "flag", "check_hi")
  /\ sbuf' = w
  /\ UNCHANGED <<q, flag, mux, pushes>>

\* The second look, under the mutex.
CheckHit(w, p) ==
  /\ Goto(w, Check[p], "clear")
  /\ Pop(w, p)
  /\ UNCHANGED <<mux, pushes>>

CheckMiss(w, p) ==
  /\ Goto(w, Check[p], AfterCheckMiss[p])
  /\ ~Ready(w, p)
  /\ UNCHANGED <<q, flag, sbuf, mux, pushes>>

\* uv_cond_wait gives up the mutex and sleeps in one step.
CondWait(w) ==
  /\ Goto(w, "wait", "sleep")
  /\ mux' = Nobody
  /\ Drain(w)
  /\ UNCHANGED <<q, pushes>>

\* It may return without a broadcast.
SpuriousWake(w) ==
  /\ Goto(w, "sleep", "woken")
  /\ UNCHANGED <<q, flag, sbuf, mux, pushes>>

\* is_waiter = 0, whoever else is asleep ...
ClearFlag(w) ==
  /\ Goto(w, "clear", "unlock")
  /\ flag' = FALSE
  /\ UNCHANGED <<q, sbuf, mux, pushes>>

\* ... and uv_mutex_unlock.
IdleUnlock(w) ==
  /\ Goto(w, "unlock", "run")
  /\ mux' = Nobody
  /\ UNCHANGED <<q, flag, sbuf, pushes>>

-----------------------------------------------------------------------------
(* A running worker: vgc_enqueue, any number of times, then the next fiber. *)

\* vgc_push: the compare-and-exchange drains, then seq is stored.
Push(w, p) ==
  /\ pushes < MaxPush
  /\ Goto(w, "run", "load")
  /\ pushes' = pushes + 1
  /\ q' = [r \in Queues |->
             IF r = p THEN Append(Published(w, q[r]), w) ELSE Published(w, q[r])]
  /\ Drain(w)
  /\ UNCHANGED mux

\* is_waiter is loaded, relaxed.
LoadFlag(w) ==
  /\ Goto(w, "load", IF flag THEN "bcast_lock" ELSE "run")
  /\ UNCHANGED <<q, flag, sbuf, mux, pushes>>

BroadcastLock(w) == Lock(w, "bcast_lock", "bcast")

Broadcast(w) ==
  /\ pc[w] = "bcast"
  /\ pc' = [u \in Workers |-> IF u = w THEN "bcast_unlock"
                              ELSE IF pc[u] = "sleep" THEN "woken" ELSE pc[u]]
  /\ UNCHANGED <<q, flag, sbuf, mux, pushes>>

\* Mutant: the mutex is not given up.
BroadcastUnlock_Forgotten(w) ==
  /\ Goto(w, "bcast_unlock", "run")
  /\ UNCHANGED <<q, flag, sbuf, mux, pushes>>

BroadcastUnlock(w) ==
  /\ Goto(w, "bcast_unlock", "run")
  /\ mux' = Nobody
  /\ UNCHANGED <<q, flag, sbuf, pushes>>

\* The fiber has jumped back and the worker is done with it.
Return(w) ==
  /\ Goto(w, "run", "spin_hi")
  /\ UNCHANGED <<q, flag, sbuf, mux, pushes>>

-----------------------------------------------------------------------------
Step(w) ==
  \/ \E p \in Queues : SpinHit(w, p) \/ SpinMiss(w, p)
  \/ IdleLock(w) \/ WokenLock(w) \/ SetFlag(w)
  \/ \E p \in Queues : CheckHit(w, p) \/ CheckMiss(w, p)
  \/ CondWait(w) \/ ClearFlag(w) \/ IdleUnlock(w)
  \/ \E p \in Queues : Push(w, p)
  \/ LoadFlag(w) \/ BroadcastLock(w) \/ Broadcast(w) \/ BroadcastUnlock(w)
  \/ Return(w)

Next == \E w \in Workers : Step(w) \/ StoreDrains(w) \/ SpuriousWake(w)

Spec == Init /\ [][Next]_vars

(* Threads that can run do, store buffers drain, and a mutex that keeps    *)
(* being released is eventually obtained.  Nothing is assumed of spurious  *)
(* wakeups.                                                                *)
FairSpec ==
  /\ Spec
  /\ \A w \in Workers :
       /\ WF_vars(Step(w))
       /\ WF_vars(StoreDrains(w))
       /\ SF_vars(IdleLock(w)) /\ SF_vars(WokenLock(w)) /\ SF_vars(BroadcastLock(w))

-----------------------------------------------------------------------------
(* The mutex has one owner, the one between its lock and unlock; queue     *)
(* cells and the store buffer name workers.                                *)
TypeOK ==
  /\ q \in [Queues -> Seq(Workers \cup {Nobody})]
  /\ flag \in BOOLEAN
  /\ sbuf \in Workers \cup {Nobody}
  /\ mux \in Workers \cup {Nobody}
  /\ pc \in [Workers -> PCs]
  /\ pushes \in 0..MaxPush

Asleep(w) == pc[w] = "sleep"

Work == \E p \in Queues : q[p] # <<>>

(* The workers are never all asleep while a fiber is queued, although both *)
(* sides of the handshake look before they are seen (queue.c:85,           *)
(* scheduler.c:173-178) and is_waiter is cleared while others sleep (181). *)
NeverAllAsleepWithWork == (\A w \in Workers : Asleep(w)) => ~Work

(* Every queued fiber is eventually taken by some worker, as long as       *)
(* running fibers come back to the scheduler: no wakeup is lost for good.  *)
WorkIsTaken == Work ~> ~Work

Critical == {"flag", "check_hi", "check_mid", "check_lo", "wait", "clear", "unlock",
             "bcast", "bcast_unlock"}

(* Only the worker that took waiter_mux acts under it: a woken worker does *)
(* not look at the queues before it has the mutex back (scheduler.c:178).  *)
CriticalUnderMutex == \A w \in Workers : pc[w] \in Critical <=> mux = w

-----------------------------------------------------------------------------
(* The inductive invariant behind NeverAllAsleepWithWork, by parts.        *)

\* Past its last look at queue p before it sleeps, or asleep.
DoneLooking ==
  [hi |-> {"check_mid", "check_lo", "wait", "sleep"},
   mid |-> {"check_lo", "wait", "sleep"},
   lo |-> {"wait", "sleep"}]

\* Worker w looks at queue p once more before it sleeps.
Covers(w, p) == pc[w] \notin DoneLooking[p]

\* From a push to the next locked instruction.
Early == {"load", "bcast_lock", "run", "spin_hi", "spin_mid", "spin_lo", "lock"}

BufferedEarly ==
  \A p \in Queues : \A i \in DOMAIN q[p] : \A u \in Workers :
    q[p][i] = u => pc[u] \in Early

Covered == \A p \in Queues : q[p] # <<>> => \E w \in Workers : Covers(w, p)

(* A publication is in a store buffer only while its worker has yet to     *)
(* look at all queues under the mutex; so a miss at a non-empty queue      *)
(* leaves someone else to look at it, and every non-empty queue always has *)
(* a worker that looks at it before it sleeps (queue.c:81-89,              *)
(* scheduler.c:172-178).                                                   *)
IdleInv == TypeOK /\ BufferedEarly /\ Covered
=============================================================================
