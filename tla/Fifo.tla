-------------------------------- MODULE Fifo --------------------------------
(***************************************************************************)
(* What vgc_push and vgc_pop (src/src/fibers/queue.c) promise: a bounded   *)
(* FIFO queue on which every operation takes effect at one instant between *)
(* its call and its return.                                                *)
(*                                                                         *)
(* The promise about failure is weaker than that of a locked queue.  A     *)
(* push may report "full" below capacity while a pop that already took     *)
(* effect has not returned (its cell is not released yet), and a pop may   *)
(* report "empty" while a push that already took effect has not returned   *)
(* (its cell is not published yet).                                        *)
(***************************************************************************)
EXTENDS Naturals, Sequences

CONSTANTS
  Threads,  \* the threads that share the queue
  Data,     \* what is queued: pointers to fibers
  Size      \* the number of cells

VARIABLES
  queue,    \* the elements in the queue, oldest first
  op        \* per thread, its operation in progress

fifoVars == <<queue, op>>

Idle      == <<"idle">>
Push(d)   == <<"push", d>>     \* called, not yet effective
Pushed    == <<"pushed">>      \* effective, not yet returned
Pop       == <<"pop">>
Popped(d) == <<"popped", d>>

Kind(t)      == op[t][1]
Become(t, o) == op' = [op EXCEPT ![t] = o]

(* Another thread has an operation of kind k that is effective and has not *)
(* returned.                                                               *)
Unreturned(t, k) == \E u \in Threads \ {t} : Kind(u) = k

Init ==
  /\ queue = <<>>
  /\ op = [t \in Threads |-> Idle]

CallPush(t, d) ==
  /\ op[t] = Idle
  /\ Become(t, Push(d))
  /\ UNCHANGED queue

DoPush(t) ==
  /\ Kind(t) = "push"
  /\ Len(queue) < Size
  /\ queue' = Append(queue, op[t][2])
  /\ Become(t, Pushed)

PushFull(t) ==
  /\ Kind(t) = "push"
  /\ Len(queue) = Size \/ Unreturned(t, "popped")
  /\ Become(t, Idle)
  /\ UNCHANGED queue

CallPop(t) ==
  /\ op[t] = Idle
  /\ Become(t, Pop)
  /\ UNCHANGED queue

DoPop(t) ==
  /\ Kind(t) = "pop"
  /\ queue # <<>>
  /\ Become(t, Popped(Head(queue)))
  /\ queue' = Tail(queue)

PopEmpty(t) ==
  /\ Kind(t) = "pop"
  /\ queue = <<>> \/ Unreturned(t, "pushed")
  /\ Become(t, Idle)
  /\ UNCHANGED queue

Return(t) ==
  /\ Kind(t) \in {"pushed", "popped"}
  /\ Become(t, Idle)
  /\ UNCHANGED queue

Next ==
  \E t \in Threads :
    \/ \E d \in Data : CallPush(t, d)
    \/ DoPush(t) \/ PushFull(t)
    \/ CallPop(t) \/ DoPop(t) \/ PopEmpty(t)
    \/ Return(t)

Spec == Init /\ [][Next]_fifoVars
=============================================================================
