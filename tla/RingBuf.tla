------------------------------- MODULE RingBuf -------------------------------
(***************************************************************************)
(* vgc_ringbuf: the lock-free bounded multi-producer multi-consumer ring   *)
(* of src/src/fibers/queue.c, one action per atomic access.                *)
(*                                                                         *)
(* Each cell carries a sequence number that says whose turn it is.  A cell *)
(* of position p is free for the push at p when seq = p, published for the *)
(* pop at p when seq = p + 1, and free for the next lap when               *)
(* seq = p + Size.  A thread owns a cell from the compare-and-exchange     *)
(* that moves tail (head) past its position until its store to seq.        *)
(*                                                                         *)
(* The accesses are modelled sequentially consistent: cell->data is handed *)
(* over through the release store and acquire load of seq, and a relaxed   *)
(* load of tail or head that returns an old value is the same as a load    *)
(* followed by a delay, which the interleaving covers.                     *)
(* atomic_compare_exchange_weak does not fail spuriously on x86-64, the    *)
(* only target (src/CMakeLists.txt assembles x86-64 only).  Positions are  *)
(* size_t: they are natural numbers here, 2^64 operations being out of     *)
(* reach of any run.                                                       *)
(***************************************************************************)
EXTENDS Integers, Sequences

CONSTANTS
  Threads,  \* the threads that push and pop
  Data,     \* the pointers that are queued
  Size,     \* number of cells
  NoData,   \* what an unwritten cell or local holds
  MaxPos    \* bound: no push is called once tail has reached MaxPos

\* "size must be a power of 2 and >= 2", queue.c:8.
ASSUME SizeAssumption ==
  /\ Size \in Nat
  /\ Size >= 2
  /\ \E k \in 1..Size : Size = 2^k

ASSUME DataAssumption == NoData \notin Data

ASSUME BoundAssumption == MaxPos \in Nat

VARIABLES
  head,  \* rb->head: the next position to pop
  tail,  \* rb->tail: the next position to push
  seq,   \* rb->buf[i].seq
  data,  \* rb->buf[i].data
  pc,    \* per thread: the next atomic access of its vgc_push or vgc_pop
  pos,   \* per thread: the local pos
  val,   \* per thread: the argument of vgc_push, the *data of vgc_pop
  log    \* history: log[p + 1] is the pointer pushed at position p

vars == <<head, tail, seq, data, pc, pos, val, log>>

\* pos & rb->bufmask, the mask of a power of two.
Idx(p) == p % Size

Cells == 0..(Size - 1)

PushTrying == {"push_load", "push_seq", "push_cas"}
PushOwning == {"push_write", "push_publish"}
PopTrying  == {"pop_load", "pop_seq", "pop_cas"}
PopOwning  == {"pop_read", "pop_release"}

PC == {"idle"} \cup PushTrying \cup PushOwning \cup PopTrying \cup PopOwning

-----------------------------------------------------------------------------
\* vgc_ringbuf_init
Init ==
  /\ head = 0
  /\ tail = 0
  /\ seq  = [i \in Cells |-> i]
  /\ data = [i \in Cells |-> NoData]
  /\ pc   = [t \in Threads |-> "idle"]
  /\ pos  = [t \in Threads |-> 0]
  /\ val  = [t \in Threads |-> NoData]
  /\ log  = <<>>

Goto(t, from, to) ==
  /\ pc[t] = from
  /\ pc' = [pc EXCEPT ![t] = to]

\* The call returns; its locals go out of scope.
Leave(t, from) ==
  /\ Goto(t, from, "idle")
  /\ pos' = [pos EXCEPT ![t] = 0]
  /\ val' = [val EXCEPT ![t] = NoData]

-----------------------------------------------------------------------------
PushCall(t, d) ==
  /\ tail < MaxPos
  /\ Goto(t, "idle", "push_load")
  /\ val' = [val EXCEPT ![t] = d]
  /\ UNCHANGED <<head, tail, seq, data, pos, log>>

\* pos = atomic_load(tail): on entry, and again after losing a position.
PushLoad(t) ==
  /\ Goto(t, "push_load", "push_seq")
  /\ pos' = [pos EXCEPT ![t] = tail]
  /\ UNCHANGED <<head, tail, seq, data, val, log>>

\* The acquire load of cell->seq with dif == 0 ...
PushSeqReady(t) ==
  /\ seq[Idx(pos[t])] = pos[t]
  /\ Goto(t, "push_seq", "push_cas")
  /\ UNCHANGED <<head, tail, seq, data, pos, val, log>>

\* ... with dif < 0: return -1 ...
PushSeqFull(t) ==
  /\ seq[Idx(pos[t])] < pos[t]
  /\ Leave(t, "push_seq")
  /\ UNCHANGED <<head, tail, seq, data, log>>

\* ... with dif > 0: another push took the position.
PushSeqLate(t) ==
  /\ seq[Idx(pos[t])] > pos[t]
  /\ Goto(t, "push_seq", "push_load")
  /\ UNCHANGED <<head, tail, seq, data, pos, val, log>>

\* Mutant: tail is stored, not compared and exchanged.
PushClaim_PlainStore(t) ==
  /\ Goto(t, "push_cas", "push_write")
  /\ tail' = pos[t] + 1
  /\ log' = IF tail = pos[t] THEN Append(log, val[t]) ELSE log
  /\ UNCHANGED <<head, seq, data, pos, val>>

\* Mutant: the cell is published before its data is written.
PushClaim_PublishesEarly(t) ==
  /\ tail = pos[t]
  /\ Goto(t, "push_cas", "push_write")
  /\ tail' = tail + 1
  /\ log' = Append(log, val[t])
  /\ seq' = [seq EXCEPT ![Idx(pos[t])] = pos[t] + 1]
  /\ UNCHANGED <<head, data, pos, val>>

\* The compare-and-exchange on tail succeeds: the thread owns the cell.
PushClaim(t) ==
  /\ tail = pos[t]
  /\ Goto(t, "push_cas", "push_write")
  /\ tail' = tail + 1
  /\ log' = Append(log, val[t])
  /\ UNCHANGED <<head, seq, data, pos, val>>

\* It fails, and leaves the current tail in pos.
PushLose(t) ==
  /\ tail # pos[t]
  /\ Goto(t, "push_cas", "push_seq")
  /\ pos' = [pos EXCEPT ![t] = tail]
  /\ UNCHANGED <<head, tail, seq, data, val, log>>

PushWrite(t) ==
  /\ Goto(t, "push_write", "push_publish")
  /\ data' = [data EXCEPT ![Idx(pos[t])] = val[t]]
  /\ UNCHANGED <<head, tail, seq, pos, val, log>>

PushPublish(t) ==
  /\ Leave(t, "push_publish")
  /\ seq' = [seq EXCEPT ![Idx(pos[t])] = pos[t] + 1]
  /\ UNCHANGED <<head, tail, data, log>>

-----------------------------------------------------------------------------
PopCall(t) ==
  /\ Goto(t, "idle", "pop_load")
  /\ UNCHANGED <<head, tail, seq, data, pos, val, log>>

PopLoad(t) ==
  /\ Goto(t, "pop_load", "pop_seq")
  /\ pos' = [pos EXCEPT ![t] = head]
  /\ UNCHANGED <<head, tail, seq, data, val, log>>

PopSeqReady(t) ==
  /\ seq[Idx(pos[t])] = pos[t] + 1
  /\ Goto(t, "pop_seq", "pop_cas")
  /\ UNCHANGED <<head, tail, seq, data, pos, val, log>>

PopSeqEmpty(t) ==
  /\ seq[Idx(pos[t])] < pos[t] + 1
  /\ Leave(t, "pop_seq")
  /\ UNCHANGED <<head, tail, seq, data, log>>

PopSeqLate(t) ==
  /\ seq[Idx(pos[t])] > pos[t] + 1
  /\ Goto(t, "pop_seq", "pop_load")
  /\ UNCHANGED <<head, tail, seq, data, pos, val, log>>

PopClaim(t) ==
  /\ head = pos[t]
  /\ Goto(t, "pop_cas", "pop_read")
  /\ head' = head + 1
  /\ UNCHANGED <<tail, seq, data, pos, val, log>>

PopLose(t) ==
  /\ head # pos[t]
  /\ Goto(t, "pop_cas", "pop_seq")
  /\ pos' = [pos EXCEPT ![t] = head]
  /\ UNCHANGED <<head, tail, seq, data, val, log>>

PopRead(t) ==
  /\ Goto(t, "pop_read", "pop_release")
  /\ val' = [val EXCEPT ![t] = data[Idx(pos[t])]]
  /\ UNCHANGED <<head, tail, seq, data, pos, log>>

\* Mutant: the next lap's sequence number is one too high.
PopRelease_OffByOne(t) ==
  /\ Leave(t, "pop_release")
  /\ seq' = [seq EXCEPT ![Idx(pos[t])] = pos[t] + Size + 1]
  /\ UNCHANGED <<head, tail, data, log>>

PopRelease(t) ==
  /\ Leave(t, "pop_release")
  /\ seq' = [seq EXCEPT ![Idx(pos[t])] = pos[t] + Size]
  /\ UNCHANGED <<head, tail, data, log>>

-----------------------------------------------------------------------------
PushStep(t) ==
  \/ \E d \in Data : PushCall(t, d)
  \/ PushLoad(t)
  \/ PushSeqReady(t) \/ PushSeqFull(t) \/ PushSeqLate(t)
  \/ PushClaim(t) \/ PushLose(t)
  \/ PushWrite(t) \/ PushPublish(t)

PopStep(t) ==
  \/ PopCall(t) \/ PopLoad(t)
  \/ PopSeqReady(t) \/ PopSeqEmpty(t) \/ PopSeqLate(t)
  \/ PopClaim(t) \/ PopLose(t)
  \/ PopRead(t) \/ PopRelease(t)

Next == \E t \in Threads : PushStep(t) \/ PopStep(t)

Spec == Init /\ [][Next]_vars

-----------------------------------------------------------------------------
(* Every cell holds a sequence number, every position is a natural number, *)
(* and only pushed pointers are ever logged: the types queue.c relies on   *)
(* when it masks positions and stores through cell->data.                  *)
TypeOK ==
  /\ head \in Nat
  /\ tail \in Nat
  /\ seq  \in [Cells -> Nat]
  /\ data \in [Cells -> Data \cup {NoData}]
  /\ pc   \in [Threads -> PC]
  /\ pos  \in [Threads -> Nat]
  /\ val  \in [Threads -> Data \cup {NoData}]
  /\ log  \in Seq(Data)

Pushing(t) == pc[t] \in PushOwning
Popping(t) == pc[t] \in PopOwning
Owner(t)   == Pushing(t) \/ Popping(t)

(* cell->data is a plain field: no two threads may be between their        *)
(* compare-and-exchange and their store to seq on the same cell, whatever  *)
(* laps their positions are on.  Otherwise vgc_push overwrites, or vgc_pop *)
(* reads, a pointer another thread is still handling (queue.c:53, 74).     *)
NoSlotRace ==
  \A t, u \in Threads :
    t # u /\ Owner(t) /\ Owner(u) => Idx(pos[t]) # Idx(pos[u])

(* Lock freedom: vgc_push and vgc_pop only go round their loop when some   *)
(* other push (pop) has taken the position in the meantime, so a thread    *)
(* that stalls anywhere, even owning a cell, never makes the others spin   *)
(* (queue.c:48, 69).                                                       *)
RetryMeansProgress ==
  [][ \A t \in Threads :
        /\ PushSeqLate(t) => tail > pos[t]
        /\ PopSeqLate(t)  => head > pos[t] ]_vars

-----------------------------------------------------------------------------
(* The ring implements the bounded FIFO of module Fifo.  A push takes      *)
(* effect when it moves tail and a pop when it moves head; the elements in *)
(* the queue are the pointers logged for the positions between the two.    *)

OpOf(t) ==
  CASE pc[t] \in PushTrying    -> <<"push", val[t]>>
    [] pc[t] \in PushOwning    -> <<"pushed">>
    [] pc[t] \in PopTrying     -> <<"pop">>
    [] pc[t] = "pop_read"      -> <<"popped", log[pos[t] + 1]>>
    [] pc[t] = "pop_release"   -> <<"popped", val[t]>>
    [] OTHER                   -> <<"idle">>

Abstract == INSTANCE Fifo WITH
              queue <- SubSeq(log, head + 1, tail),
              op    <- [t \in Threads |-> OpOf(t)]

(* Every execution of the ring is one of the FIFO: what vgc_pop delivers   *)
(* is the pointer pushed at its position, in push order and once; vgc_push *)
(* fails only when all cells are taken or a pop has yet to release its     *)
(* cell, and vgc_pop only when the queue is empty or a push has yet to     *)
(* publish its cell.                                                       *)
ImplementsFifo == Abstract!Spec

-----------------------------------------------------------------------------
(* The inductive invariant behind these properties, by parts.              *)

Counts ==
  /\ head <= tail
  /\ tail <= head + Size
  /\ Len(log) = tail

PushPos ==
  \A t \in Threads :
    /\ pc[t] = "push_seq" => pos[t] <= tail
    /\ pc[t] = "push_cas" =>
         /\ pos[t] <= tail
         /\ pos[t] = tail => seq[Idx(pos[t])] = pos[t]
    /\ Pushing(t) => head <= pos[t] /\ pos[t] < tail

PopPos ==
  \A t \in Threads :
    /\ pc[t] = "pop_seq" => pos[t] <= head
    /\ pc[t] = "pop_cas" =>
         /\ pos[t] <= head
         /\ pos[t] = head => seq[Idx(pos[t])] = pos[t] + 1
    /\ Popping(t) => pos[t] < head /\ tail <= pos[t] + Size

OwnersDistinct ==
  \A t, u \in Threads : t # u /\ Owner(t) /\ Owner(u) => pos[t] # pos[u]

(* A cell, named by the position q of its next push, is in one of four     *)
(* situations: free, being pushed, published, or being popped.             *)
Free(q) ==
  /\ seq[Idx(q)] = q
  /\ q < head + Size
  /\ \A t \in Threads : Owner(t) => pos[t] + Size # q

BeingPushed(q) ==
  /\ q >= Size
  /\ seq[Idx(q)] = q - Size
  /\ \E t \in Threads : Pushing(t) /\ pos[t] + Size = q

Published(q) ==
  /\ q >= head + Size
  /\ seq[Idx(q)] = q - Size + 1
  /\ data[Idx(q)] = log[q - Size + 1]
  /\ \A t \in Threads : Owner(t) => pos[t] + Size # q

BeingPopped(q) ==
  /\ q >= Size
  /\ seq[Idx(q)] = q - Size + 1
  /\ \E t \in Threads : Popping(t) /\ pos[t] + Size = q

CellStates ==
  \A q \in tail..(tail + Size - 1) :
    Free(q) \/ BeingPushed(q) \/ Published(q) \/ BeingPopped(q)

Values ==
  \A t \in Threads :
    /\ pc[t] \in PushTrying => val[t] \in Data
    /\ Pushing(t) => val[t] = log[pos[t] + 1]
    /\ pc[t] = "push_publish" => data[Idx(pos[t])] = val[t]
    /\ pc[t] = "pop_read" => data[Idx(pos[t])] = log[pos[t] + 1]
    /\ pc[t] = "pop_release" => val[t] = log[pos[t] + 1]

(* Each cell's sequence number says exactly which of the four situations   *)
(* the cell is in, the owner's position included; with the bounds on the   *)
(* positions this is the protocol of queue.c and it is inductive.          *)
RingInv ==
  /\ TypeOK
  /\ Counts
  /\ PushPos
  /\ PopPos
  /\ OwnersDistinct
  /\ CellStates
  /\ Values
=============================================================================
