------------------------------ MODULE ForkJoin ------------------------------
(***************************************************************************)
(* What vgc_schedule_jobs and vgc_wait_for_counter promise together to the *)
(* code of a fiber: it announces a number of jobs, each is given to a      *)
(* fiber that nobody is using, and the wait returns when all of them have  *)
(* finished, each after the jobs that it has itself announced.  Queues,    *)
(* workers, counters and locks do not appear.                              *)
(*                                                                         *)
(* Module Scheduler implements this specification (ImplementsForkJoin).    *)
(***************************************************************************)
EXTENDS Integers

CONSTANTS
  Fibers,
  Root,      \* the fiber that is no one's job
  MaxJobs    \* bound: jobs announced at once

VARIABLES
  jobs,      \* per fiber: the fibers that run its unfinished jobs
  left,      \* per fiber: the jobs announced and not yet given to a fiber
  waiting    \* the fibers that wait for their jobs

vars == <<jobs, left, waiting>>

\* All that f announced has been done.
Joined(f) == jobs[f] = {} /\ left[f] = 0

\* f runs code of its own.
Running(f) == f \notin waiting

\* g is in no one's use.
Unused(g) == g # Root /\ Running(g) /\ Joined(g) /\ \A f \in Fibers : g \notin jobs[f]

Init ==
  /\ jobs = [f \in Fibers |-> {}]
  /\ left = [f \in Fibers |-> 0]
  /\ waiting = {}

\* f announces n jobs.
Announce(f, n) ==
  /\ Running(f) /\ Joined(f)
  /\ left' = [left EXCEPT ![f] = n]
  /\ UNCHANGED <<jobs, waiting>>

\* One of them is given to the fiber g.
Fork(f, g) ==
  /\ Running(f) /\ left[f] > 0
  /\ Unused(g) /\ g # f
  /\ jobs' = [jobs EXCEPT ![f] = @ \cup {g}]
  /\ left' = [left EXCEPT ![f] = @ - 1]
  /\ UNCHANGED waiting

\* f begins to wait.
Wait(f) ==
  /\ Running(f)
  /\ waiting' = waiting \cup {f}
  /\ UNCHANGED <<jobs, left>>

\* f goes on, after its jobs.
Return(f) ==
  /\ f \in waiting /\ Joined(f)
  /\ waiting' = waiting \ {f}
  /\ UNCHANGED <<jobs, left>>

\* The job that g does for f finishes, after the jobs of g.
Finish(f, g) ==
  /\ g \in jobs[f]
  /\ Running(g) /\ Joined(g)
  /\ jobs' = [jobs EXCEPT ![f] = @ \ {g}]
  /\ UNCHANGED <<left, waiting>>

Next ==
  \E f \in Fibers :
    \/ \E n \in 1..MaxJobs : Announce(f, n)
    \/ Wait(f) \/ Return(f)
    \/ \E g \in Fibers : Fork(f, g) \/ Finish(f, g)

Spec == Init /\ [][Next]_vars
=============================================================================
