------------------------------ MODULE Scheduler ------------------------------
(***************************************************************************)
(* The fiber scheduler: src/src/fibers/scheduler.c and fiber.c, with the   *)
(* use that sb_event.c and main.c make of them.                            *)
(*                                                                         *)
(* Worker threads run vgc_scheduler_run: take a fiber from the hi, mid or  *)
(* lo queue, jump into it, and when it jumps back either park it on the    *)
(* counter it waits for or count it off its parent's counter, wake the     *)
(* waiters and return the fiber to the free pool.                          *)
(*                                                                         *)
(* What runs in a fiber is what sb_event.c makes of it: rounds of          *)
(* scheduling jobs against a counter and waiting for the counter, then     *)
(* vgc_fiber_finish (or, in the root fiber of main.c, exit).  The counter  *)
(* is a local variable of the fiber, initialised anew by every             *)
(* vgc_schedule_jobs: cnt[f] is the one on the stack of fiber f.           *)
(*                                                                         *)
(* The queues and the pool are the FIFOs that module RingBuf implements:   *)
(* an element takes its place in one step and is published in the next,    *)
(* and until then it hides those behind it.  No push fails: each ring has  *)
(* as many cells as there are fibers, so it takes a thread that stalls     *)
(* inside vgc_pop for a whole lap.  The sleeping of idle workers is left   *)
(* to module IdleWait: here a worker that finds nothing looks again.       *)
(***************************************************************************)
EXTENDS Integers, Sequences, FiniteSets

CONSTANTS
  Workers,     \* the threads in vgc_scheduler_run
  Fibers,      \* the fibers that vgc_scheduler_init allocates
  Root,        \* the fiber that runs main.c's run_event
  NoFiber,     \* NULL
  JobPrio,     \* the priorities jobs are scheduled with
  Rounds,      \* bound: rounds of schedule-and-wait in one fiber
  MaxJobs,     \* bound: jobs in one round
  MaxDepth     \* bound: nesting of jobs that schedule jobs

Priorities == {"hi", "mid", "lo"}

ASSUME FiberAssumption ==
  /\ IsFiniteSet(Fibers)
  /\ Root \in Fibers
  /\ NoFiber \notin Fibers
  /\ JobPrio \subseteq Priorities

ASSUME BoundsAssumption ==
  /\ Rounds \in Nat \ {0}
  /\ MaxJobs \in Nat \ {0}
  /\ MaxDepth \in Nat

VARIABLES
  q,       \* hi_q, mid_q, lo_q
  pool,    \* free_q_pool
  wpc,     \* per worker: where it is in vgc_scheduler_run
  cur,     \* per worker: its local fiber
  wtmp,    \* per worker: the value counter-- has read, then the loop index i
  pub,     \* per worker: the fiber its vgc_push has placed and not published
  fd,      \* per fiber: state, priority, parent_count of its fiber_data
  cnt,     \* per fiber: the vgc_counter on its stack
  body,    \* per fiber: what it runs (see BodyInit)
  halted   \* "no", or how the process ended

vars == <<q, pool, wpc, cur, wtmp, pub, fd, cnt, body, halted>>

-----------------------------------------------------------------------------
\* vgc_counter_init
CounterInit(n) == [lock |-> 0, counter |-> n, waiters |-> <<>>]

(* What vgc_fiber_assign makes a fiber start with: its place in the code,  *)
(* the rounds it has begun, the nesting of its job, the jobs of the round  *)
(* (len) and those not yet scheduled (todo), the fiber that vgc_enque_job  *)
(* is scheduling (got).                                                    *)
BodyInit(depth) ==
  [pc |-> "start", round |-> 0, depth |-> depth,
   len |-> 0, todo |-> 0, got |-> NoFiber]

\* vgc_scheduler_init, then main's vgc_enque_job of the root job.
Init ==
  /\ q = [p \in Priorities |-> IF p = "hi" THEN <<Root>> ELSE <<>>]
  /\ pool \in { s \in [1..(Cardinality(Fibers) - 1) -> Fibers \ {Root}] :
                  \A i, j \in DOMAIN s : i # j => s[i] # s[j] }
  /\ wpc  = [w \in Workers |-> "hi"]
  /\ cur  = [w \in Workers |-> NoFiber]
  /\ wtmp = [w \in Workers |-> 0]
  /\ pub  = [w \in Workers |-> NoFiber]
  /\ fd   = [f \in Fibers |-> [state |-> "START", priority |-> "hi", parent |-> NoFiber]]
  /\ cnt  = [f \in Fibers |-> CounterInit(0)]
  /\ body = [f \in Fibers |-> BodyInit(0)]
  /\ halted = "no"

Goto(w, from, to) ==
  /\ wpc[w] = from
  /\ wpc' = [wpc EXCEPT ![w] = to]

\* vgc_counter_acquire: the load and compare-and-exchange that succeed.
Acquire(f) ==
  /\ cnt[f].lock = 0
  /\ cnt' = [cnt EXCEPT ![f].lock = 1]

\* vgc_counter_release
Release(f) == cnt' = [cnt EXCEPT ![f].lock = 0]

\* vgc_enqueue takes a place in the queue of a priority.
Enqueue(p, f) == q' = [q EXCEPT ![p] = Append(@, f)]

\* vgc_push of fiber f by w, before and after the store to cell->seq.
Place(w, f) == pub' = [pub EXCEPT ![w] = f]
Publish(w) == pub' = [pub EXCEPT ![w] = NoFiber]

\* vgc_pop finds the first element of s published.
Ready(s) == s # <<>> /\ \A w \in Workers : pub[w] # Head(s)

-----------------------------------------------------------------------------
(* vgc_scheduler_run: looking for work. *)

AfterMiss == [hi |-> "mid", mid |-> "lo", lo |-> "hi"]

\* vgc_dequeue succeeds, and the worker jumps into the fiber.
Take(w, p) ==
  /\ Ready(q[p])
  /\ Goto(w, p, "run")
  /\ cur' = [cur EXCEPT ![w] = Head(q[p])]
  /\ q' = [q EXCEPT ![p] = Tail(@)]
  /\ fd' = [fd EXCEPT ![Head(q[p])].state = "RUN"]
  /\ UNCHANGED <<pool, pub, wtmp, cnt, body, halted>>

\* vgc_dequeue fails: the next queue, and after the last the first again.
Miss(w, p) ==
  /\ ~Ready(q[p])
  /\ Goto(w, p, AfterMiss[p])
  /\ UNCHANGED <<q, pool, pub, cur, wtmp, fd, cnt, body, halted>>

-----------------------------------------------------------------------------
(* What a fiber does while a worker runs it. *)

Running(w, pc) == wpc[w] = "run" /\ body[cur[w]].pc = pc

FiberGoto(f, pc) == body' = [body EXCEPT ![f].pc = pc]

\* vgc_schedule_jobs: the counter is initialised for n jobs.
ScheduleJobs(w, n) ==
  LET f == cur[w] IN
  /\ Running(w, "start")
  /\ body[f].round < Rounds
  /\ body[f].depth < MaxDepth
  /\ cnt' = [cnt EXCEPT ![f] = CounterInit(n)]
  /\ body' = [body EXCEPT ![f].pc = "enque", ![f].round = @ + 1,
                          ![f].len = n, ![f].todo = n]
  /\ UNCHANGED <<q, pool, pub, wpc, cur, wtmp, fd, halted>>

\* vgc_enque_job: a fiber is popped from the pool and assigned the job ...
EnqueJobPop(w, p) ==
  LET f == cur[w]
      g == Head(pool) IN
  /\ Running(w, "enque")
  /\ body[f].todo > 0
  /\ Ready(pool)
  /\ pool' = Tail(pool)
  /\ fd' = [fd EXCEPT ![g].priority = p, ![g].parent = f]
  /\ body' = [body EXCEPT ![f].pc = "push", ![f].got = g,
                          ![g] = BodyInit(body[f].depth + 1)]
  /\ UNCHANGED <<q, pub, wpc, cur, wtmp, cnt, halted>>

\* ... and put in the queue of its priority.
EnqueJobPush(w) ==
  LET g == body[cur[w]].got IN
  /\ Running(w, "push")
  /\ Enqueue(fd[g].priority, g)
  /\ Place(w, g)
  /\ FiberGoto(cur[w], "publish")
  /\ UNCHANGED <<pool, wpc, cur, wtmp, fd, cnt, halted>>

EnqueJobPublish(w) ==
  LET f == cur[w] IN
  /\ Running(w, "publish")
  /\ Publish(w)
  /\ body' = [body EXCEPT ![f].pc = "enque", ![f].got = NoFiber, ![f].todo = @ - 1]
  /\ UNCHANGED <<q, pool, wpc, cur, wtmp, fd, cnt, halted>>

(* vgc_pop finds no fiber: vgc_schedule_jobs returns the index of the job  *)
(* that could not be scheduled.  An index other than 0 makes sbev_emit_event    *)
(* end the process; it takes 0 for success and its caller goes on to wait. *)
EnqueJobFails(w) ==
  LET f == cur[w] IN
  /\ Running(w, "enque")
  /\ body[f].todo > 0
  /\ ~Ready(pool)
  /\ IF body[f].todo = body[f].len
       THEN FiberGoto(f, "wait") /\ UNCHANGED halted
       ELSE halted' = "exit_emit" /\ UNCHANGED body
  /\ UNCHANGED <<q, pool, pub, wpc, cur, wtmp, fd, cnt>>

\* vgc_schedule_jobs returns 0 after its last job.
Scheduled(w) ==
  /\ Running(w, "enque")
  /\ body[cur[w]].todo = 0
  /\ FiberGoto(cur[w], "wait")
  /\ UNCHANGED <<q, pool, pub, wpc, cur, wtmp, fd, cnt, halted>>

\* vgc_wait_for_counter: the counter is acquired ...
WaitAcquire(w) ==
  /\ Running(w, "wait")
  /\ Acquire(cur[w])
  /\ FiberGoto(cur[w], "test")
  /\ UNCHANGED <<q, pool, pub, wpc, cur, wtmp, fd, halted>>

\* ... all jobs are done: it is released, and the fiber goes on ...
WaitOver(w) ==
  /\ Running(w, "test")
  /\ cnt[cur[w]].counter = 0
  /\ Release(cur[w])
  /\ FiberGoto(cur[w], "start")
  /\ UNCHANGED <<q, pool, pub, wpc, cur, wtmp, fd, halted>>

\* Mutant: the lock is given up before the jump.
WaitJump_Unlocked(w) ==
  /\ Running(w, "test")
  /\ cnt[cur[w]].counter # 0
  /\ Goto(w, "run", "add")
  /\ fd' = [fd EXCEPT ![cur[w]].state = "WAIT"]
  /\ FiberGoto(cur[w], "start")
  /\ Release(cur[w])
  /\ UNCHANGED <<q, pool, pub, cur, wtmp, halted>>

\* ... or the fiber jumps back to the scheduler, still holding the lock.
WaitJump(w) ==
  /\ Running(w, "test")
  /\ cnt[cur[w]].counter # 0
  /\ Goto(w, "run", "add")
  /\ fd' = [fd EXCEPT ![cur[w]].state = "WAIT"]
  /\ FiberGoto(cur[w], "start")
  /\ UNCHANGED <<q, pool, pub, cur, wtmp, cnt, halted>>

\* vgc_fiber_finish; the root fiber ends the process instead.
Finish(w) ==
  LET f == cur[w] IN
  /\ Running(w, "start")
  /\ IF f = Root
       THEN body[f].round = Rounds /\ halted' = "exit_ok" /\ UNCHANGED <<wpc, fd>>
       ELSE /\ Goto(w, "run", "done")
            /\ fd' = [fd EXCEPT ![f].state = "DONE"]
            /\ UNCHANGED halted
  /\ UNCHANGED <<q, pool, pub, cur, wtmp, cnt, body>>

FiberStep(w) ==
  \/ \E n \in 1..MaxJobs : ScheduleJobs(w, n)
  \/ \E p \in JobPrio : EnqueJobPop(w, p)
  \/ EnqueJobPush(w) \/ EnqueJobPublish(w) \/ EnqueJobFails(w) \/ Scheduled(w)
  \/ WaitAcquire(w) \/ WaitOver(w) \/ WaitJump(w)
  \/ Finish(w)

-----------------------------------------------------------------------------
(* vgc_scheduler_run: after the fiber has jumped back. *)

\* The worker goes back to the top of its loop.
Loop(w, from) ==
  /\ Goto(w, from, "hi")
  /\ cur' = [cur EXCEPT ![w] = NoFiber]
  /\ wtmp' = [wtmp EXCEPT ![w] = 0]

\* FIBER_WAIT: vgc_counter_add_waiter on the counter the fiber acquired ...
AddWaiter(w) ==
  /\ Goto(w, "add", "park")
  /\ cnt' = [cnt EXCEPT ![cur[w]].waiters = Append(@, cur[w])]
  /\ UNCHANGED <<q, pool, pub, cur, wtmp, fd, body, halted>>

\* ... and vgc_counter_release.
ParkRelease(w) ==
  /\ Loop(w, "park")
  /\ Release(cur[w])
  /\ UNCHANGED <<q, pool, pub, fd, body, halted>>

Parent(w) == fd[cur[w]].parent

\* Mutant: the counter is not acquired.
DoneAcquire_NoLock(w) ==
  /\ Goto(w, "done", "load")
  /\ UNCHANGED <<q, pool, pub, cur, wtmp, fd, cnt, body, halted>>

\* FIBER_DONE: the parent's counter is acquired ...
DoneAcquire(w) ==
  /\ Goto(w, "done", "load")
  /\ Acquire(Parent(w))
  /\ UNCHANGED <<q, pool, pub, cur, wtmp, fd, body, halted>>

\* ... decremented, a read and a write of a plain int ...
CounterLoad(w) ==
  /\ Goto(w, "load", "store")
  /\ wtmp' = [wtmp EXCEPT ![w] = cnt[Parent(w)].counter]
  /\ UNCHANGED <<q, pool, pub, cur, fd, cnt, body, halted>>

CounterStore(w) ==
  /\ Goto(w, "store", "zero")
  /\ cnt' = [cnt EXCEPT ![Parent(w)].counter = wtmp[w] - 1]
  /\ wtmp' = [wtmp EXCEPT ![w] = 0]
  /\ UNCHANGED <<q, pool, pub, cur, fd, body, halted>>

\* Mutant: the waiters are woken with a job still running.
CounterTest_OneEarly(w) ==
  /\ Goto(w, "zero", IF cnt[Parent(w)].counter <= 1 THEN "wake" ELSE "unlock")
  /\ UNCHANGED <<q, pool, pub, cur, wtmp, fd, cnt, body, halted>>

\* ... and tested: at zero the waiters are woken ...
CounterTest(w) ==
  /\ Goto(w, "zero", IF cnt[Parent(w)].counter = 0 THEN "wake" ELSE "unlock")
  /\ UNCHANGED <<q, pool, pub, cur, wtmp, fd, cnt, body, halted>>

\* Mutant: the last waiter is missed.
Wake_MissesLast(w) ==
  LET ws == cnt[Parent(w)].waiters
      i  == wtmp[w] + 1 IN
  /\ Goto(w, "wake", IF i < Len(ws) THEN "wake_publish" ELSE "unlock")
  /\ IF i < Len(ws)
       THEN /\ Enqueue(fd[ws[i]].priority, ws[i])
            /\ Place(w, ws[i])
            /\ wtmp' = [wtmp EXCEPT ![w] = i]
       ELSE UNCHANGED <<q, pub, wtmp>>
  /\ UNCHANGED <<pool, cur, fd, cnt, body, halted>>

Wake(w) ==
  LET ws == cnt[Parent(w)].waiters
      i  == wtmp[w] + 1 IN
  /\ Goto(w, "wake", "wake_publish")
  /\ i <= Len(ws)
  /\ Enqueue(fd[ws[i]].priority, ws[i])
  /\ Place(w, ws[i])
  /\ wtmp' = [wtmp EXCEPT ![w] = i]
  /\ UNCHANGED <<pool, cur, fd, cnt, body, halted>>

WakePublish(w) ==
  /\ Goto(w, "wake_publish", "wake")
  /\ Publish(w)
  /\ UNCHANGED <<q, pool, cur, wtmp, fd, cnt, body, halted>>

WakeEnd(w) ==
  /\ Goto(w, "wake", "unlock")
  /\ wtmp[w] + 1 > Len(cnt[Parent(w)].waiters)
  /\ UNCHANGED <<q, pool, pub, cur, wtmp, fd, cnt, body, halted>>

\* ... the counter is released ...
DoneRelease(w) ==
  /\ Goto(w, "unlock", "free")
  /\ Release(Parent(w))
  /\ UNCHANGED <<q, pool, pub, cur, wtmp, fd, body, halted>>

\* ... and the fiber goes back to the pool.
FreeFiber(w) ==
  /\ Goto(w, "free", "free_publish")
  /\ pool' = Append(pool, cur[w])
  /\ Place(w, cur[w])
  /\ UNCHANGED <<q, cur, wtmp, fd, cnt, body, halted>>

FreePublish(w) ==
  /\ Loop(w, "free_publish")
  /\ Publish(w)
  /\ UNCHANGED <<q, pool, fd, cnt, body, halted>>

WorkerStep(w) ==
  \/ \E p \in Priorities : Take(w, p) \/ Miss(w, p)
  \/ FiberStep(w)
  \/ AddWaiter(w) \/ ParkRelease(w)
  \/ DoneAcquire(w) \/ CounterLoad(w) \/ CounterStore(w) \/ CounterTest(w)
  \/ Wake(w) \/ WakePublish(w) \/ WakeEnd(w) \/ DoneRelease(w)
  \/ FreeFiber(w) \/ FreePublish(w)

\* The process has ended.
Halted == halted # "no" /\ UNCHANGED vars

Next == \/ halted = "no" /\ \E w \in Workers : WorkerStep(w)
        \/ Halted

Spec == Init /\ [][Next]_vars

(* Every worker thread is scheduled by the operating system; a spin lock   *)
(* that keeps being free is eventually taken.                              *)
FairSpec == Spec /\ \A w \in Workers : WF_vars(halted = "no" /\ WorkerStep(w))

-----------------------------------------------------------------------------
(* Properties. *)

Times(f, s) == Cardinality({i \in DOMAIN s : s[i] = f})

\* Where the stack of fiber f is in use or may next be picked up from.
Places(f) ==
    Times(f, pool) + Times(f, q["hi"]) + Times(f, q["mid"]) + Times(f, q["lo"])
  + Cardinality({w \in Workers : cur[w] = f /\ wpc[w] \notin {"park", "free_publish"}})
  + Cardinality({g \in Fibers : body[g].got = f /\ body[g].pc = "push"})

(* A fiber's stack and saved context belong to one place at a time: the    *)
(* pool, one queue, or one worker.  If a waiter could be queued before its *)
(* worker has saved its context (scheduler.c:187-192), woken twice (197),  *)
(* or returned to the pool while queued (213), two workers would run on    *)
(* one stack.                                                              *)
OneStackOneRunner == \A f \in Fibers : Places(f) <= 1

\* f is a waiter of a counter that has yet to come to zero, or whose waiters a
\* worker is about to wake.
Parked(f) ==
  \E g \in Fibers :
    \E i \in DOMAIN cnt[g].waiters :
      /\ cnt[g].waiters[i] = f
      /\ \/ cnt[g].counter > 0
         \/ \E w \in Workers : /\ wpc[w] \in {"zero", "wake", "wake_publish"}
                              /\ fd[cur[w]].parent = g
                              /\ wtmp[w] < i

(* No fiber is lost: each is in the pool, in a queue, in the hands of a    *)
(* worker, or a waiter that is still going to be woken.  A finished fiber  *)
(* that is not pushed back (scheduler.c:213) drains the pool, and a waiter *)
(* that is missed (191, 197) never runs again.                             *)
NoFiberLost == \A f \in Fibers : Places(f) = 0 => Parked(f)

\* g was scheduled by f's current round and has not been counted off yet.
Outstanding(f) ==
  {g \in Fibers : /\ fd[g].parent = f
                  /\ \/ \E p \in Priorities : Times(g, q[p]) > 0
                     \/ \E w \in Workers :
                          cur[w] = g /\ wpc[w] \in {"run", "add", "park", "done",
                                                    "load", "store"}
                     \/ fd[g].state = "WAIT"
                     \/ body[f].got = g}

(* A fiber goes past vgc_wait_for_counter only when every job it scheduled *)
(* has finished: the jobs use the waiting fiber's stack (counter, event    *)
(* data), and sb_net.c:198 relies on it to decode packets in order.        *)
ResumesAfterJobs ==
  \A w \in Workers : Running(w, "start") => Outstanding(cur[w]) = {}

(* "Must acquire counter prior to using this function" (scheduler.c:31):   *)
(* a worker that adds a waiter still owns the lock its fiber took.         *)
AddWaiterHoldsLock ==
  \A w \in Workers : wpc[w] \in {"add", "park"} => cnt[cur[w]].lock = 1

(* A fiber never waits for jobs that could not be scheduled ("Counters     *)
(* from a failed schedule_jobs will never fire", scheduler.c:85): the      *)
(* failure is seen by sbev_emit_event (sb_event.c:176).                    *)
WaitsForScheduledJobs ==
  \A f \in Fibers : body[f].pc \in {"wait", "test"} => body[f].todo = 0

(* The root fiber comes to its end, unless the pool ran out of fibers: no  *)
(* wakeup is lost between testing the counter and parking (scheduler.c:    *)
(* 104-112, 189-192), and no worker is left spinning on a counter.         *)
RootFinishes ==
  <>(halted \in {"exit_ok", "exit_emit"} \/ ~WaitsForScheduledJobs)

-----------------------------------------------------------------------------
(* The promise to the code of a fiber. *)

Rng(s) == {s[i] : i \in 1..Len(s)}
Free   == Rng(pool)

\* Where a worker is when the job of its fiber has been counted off.
Over == {"zero", "wake", "wake_publish", "unlock", "free"}

\* g has been given a job that has not been counted off yet.
Active(g) == g \notin Free /\ \A w \in Workers : wpc[w] \in Over => cur[w] # g

\* The jobs of f's round that are under way, and those not scheduled yet.
Out(f)  == {g \in Fibers : fd[g].parent = f /\ Active(g)}
Left(f) == IF body[f].pc \in {"push", "publish"} THEN body[f].todo - 1 ELSE body[f].todo

\* From the return of vgc_schedule_jobs to that of vgc_wait_for_counter.
Waits(f) == body[f].pc \in {"wait", "test"} \/ fd[f].state = "WAIT"

FJ == INSTANCE ForkJoin WITH
        jobs    <- [f \in Fibers |-> Out(f)],
        left    <- [f \in Fibers |-> Left(f)],
        waiting <- {f \in Fibers : Waits(f)}

(* Scheduling jobs and waiting for the counter does what ForkJoin says,    *)
(* through queues, parking and the reuse of fibers: a fiber is given one   *)
(* job at a time, a wait returns after all jobs of the round and the jobs  *)
(* that these wait for in turn, and none is counted off twice or before it *)
(* has begun (scheduler.c:71-112, 187-213).                                *)
ImplementsForkJoin == FJ!Spec
=============================================================================
