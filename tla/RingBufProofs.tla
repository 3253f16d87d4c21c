---------------------------- MODULE RingBufProofs ----------------------------
(***************************************************************************)
(* Proofs about RingBuf for every set of threads and pointers and every    *)
(* power of two Size >= 2; the bound MaxPos plays no part in them.         *)
(*                                                                         *)
(* The argument.  Size consecutive positions, from tail on, name the Size  *)
(* cells (IdxApart, IdxLap, CellInWindow).  RingInv classifies each cell   *)
(* by the position q of its next push: free (seq = q), being pushed        *)
(* (seq = q - Size), published or being popped (seq = q - Size + 1), and   *)
(* ties the two "being" cases to exactly one owning thread.  A compare-    *)
(* and-exchange that succeeds then proves that the sequence number read    *)
(* before it is still in the cell, since only the owner of a position may  *)
(* change it.  The properties of the runs follow from RingInv.             *)
(***************************************************************************)
EXTENDS RingBuf, SequenceTheorems, TLAPS

\* The mask of a position is the index of a cell.
LEMMA IdxType == \A p \in Nat : Idx(p) \in Cells
  BY SizeAssumption DEF Idx, Cells

\* Consecutive multiples of Size are at least Size apart.
LEMMA Laps ==
  ASSUME NEW a \in Int, NEW b \in Int, a < b
  PROVE  Size * a + Size <= Size * b
  <1>1. PICK d \in Nat : b = a + 1 + d
    <2>1. b - a - 1 \in Nat /\ b = a + 1 + (b - a - 1)
      OBVIOUS
    <2> QED BY <2>1
  <1>2. Size * d \in Nat
     BY SizeAssumption
  <1>3. Size * b = Size * a + Size + Size * d
    BY <1>1, SizeAssumption
  <1> QED BY <1>2, <1>3, SizeAssumption

\* Quotient and remainder of a position by Size.
LEMMA Euclid ==
  ASSUME NEW p \in Nat
  PROVE  /\ p \div Size \in Nat
         /\ p % Size \in 0..(Size - 1)
         /\ p = Size * (p \div Size) + (p % Size)
  BY SizeAssumption

\* Quotient and remainder are unique.
LEMMA EuclidUnique ==
  ASSUME NEW a \in Int, NEW r \in 0..(Size - 1),
         NEW b \in Int, NEW s \in 0..(Size - 1),
         Size * a + r = Size * b + s
  PROVE  a = b /\ r = s
  <1> Size * a \in Int /\ Size * b \in Int BY SizeAssumption
  <1>1. ~(a < b)
    BY Laps, SizeAssumption
  <1>2. ~(b < a)
    BY Laps, SizeAssumption
  <1>3. a = b
    BY <1>1, <1>2
  <1> QED BY <1>3, SizeAssumption

\* Positions one lap apart share their cell: a released cell (queue.c:76)
\* is the cell of the push one lap later.
LEMMA IdxLap == \A p \in Nat : Idx(p + Size) = Idx(p)
  <1> SUFFICES ASSUME NEW p \in Nat PROVE (p + Size) % Size = p % Size
    BY DEF Idx
  <1> DEFINE a == p \div Size
             b == (p + Size) \div Size
             r == p % Size
             s == (p + Size) % Size
  <1>1. p + Size \in Nat
    BY SizeAssumption
  <1>2. a \in Nat /\ r \in 0..(Size - 1) /\ p = Size * a + r
    BY Euclid
  <1>3. b \in Nat /\ s \in 0..(Size - 1) /\ p + Size = Size * b + s
    BY <1>1, Euclid
  <1> HIDE DEF a, b, r, s
  <1>4. Size * a \in Nat /\ Size * (a + 1) = Size * a + Size
    BY <1>2, SizeAssumption
  <1>5. Size * (a + 1) + r = Size * b + s
    BY <1>2, <1>3, <1>4, SizeAssumption
  <1>6. a + 1 \in Int /\ b \in Int
    BY <1>2, <1>3
  <1>7. r = s
    BY <1>2, <1>3, <1>5, <1>6, EuclidUnique
  <1> QED BY <1>7 DEF r, s

\* Positions less than a lap apart have different cells.
LEMMA IdxApart ==
  \A p, q \in Nat : p < q /\ q < p + Size => Idx(p) # Idx(q)
  <1> SUFFICES ASSUME NEW p \in Nat, NEW q \in Nat,
                      p < q, q < p + Size, p % Size = q % Size
               PROVE  FALSE
    BY DEF Idx
  <1> DEFINE a == p \div Size
             b == q \div Size
             r == p % Size
  <1>1. a \in Nat /\ b \in Nat /\ r \in 0..(Size - 1)
    BY Euclid
  <1>2. p = Size * a + r /\ q = Size * b + r
    BY Euclid
  <1>3. Size * a \in Nat /\ Size * b \in Nat
    BY <1>1, SizeAssumption
  <1> HIDE DEF a, b, r
  <1>4. a < b
    <2>1. ~(b < a)
      BY <1>1, <1>2, <1>3, Laps, SizeAssumption
    <2>2. a # b
      BY <1>2
    <2> QED BY <1>1, <2>1, <2>2
  <1>5. Size * a + Size <= Size * b
    BY <1>1, <1>4, Laps
  <1> QED BY <1>1, <1>2, <1>3, <1>5, SizeAssumption

\* Every cell has a position in any window of Size positions.
LEMMA CellInWindow ==
  ASSUME NEW n \in Nat, NEW p \in Nat
  PROVE  \E q \in n..(n + Size - 1) : Idx(q) = Idx(p)
  <1> DEFINE a == n \div Size
             r == n % Size
             s == p % Size
  <1>1. /\ a \in Nat /\ r \in 0..(Size - 1) /\ n = Size * a + r
        /\ s \in 0..(Size - 1) /\ Idx(p) = s
    BY Euclid DEF Idx
  <1> HIDE DEF a, r, s
  <1>2. Size * a \in Nat /\ Size * (a + 1) = Size * a + Size /\ Size \in Nat
    BY <1>1, SizeAssumption
  <1>3. \A b \in Nat : Size * b + s \in Nat => Idx(Size * b + s) = s
    <2> SUFFICES ASSUME NEW b \in Nat, Size * b + s \in Nat
                 PROVE  (Size * b + s) % Size = s
      BY DEF Idx
    <2> DEFINE m == Size * b + s
               c == m \div Size
               z == m % Size
    <2>1. c \in Nat /\ z \in 0..(Size - 1) /\ m = Size * c + z
      BY Euclid
    <2> HIDE DEF c, z
    <2>2. Size * b + s = Size * c + z /\ b \in Int /\ c \in Int
      BY <2>1
    <2>3. z = s
      BY <1>1, <2>1, <2>2, EuclidUnique
    <2> QED BY <2>3 DEF z
  <1>4. CASE s >= r
    <2>1. Size * a + s \in n..(n + Size - 1) /\ Size * a + s \in Nat
      BY <1>1, <1>2, <1>4
    <2> QED BY <1>1, <1>3, <2>1
  <1>5. CASE s < r
    <2>1. /\ Size * (a + 1) + s \in n..(n + Size - 1)
          /\ Size * (a + 1) + s \in Nat /\ a + 1 \in Nat
      BY <1>1, <1>2, <1>5
    <2> QED BY <1>1, <1>3, <2>1
  <1> QED BY <1>1, <1>2, <1>4, <1>5

-----------------------------------------------------------------------------
\* A thread is in one phase of one call.
LEMMA PcDisjoint ==
  /\ PushOwning \cap PopOwning = {}
  /\ PushOwning \cap PushTrying = {} /\ PushOwning \cap PopTrying = {}
  /\ PopOwning \cap PushTrying = {} /\ PopOwning \cap PopTrying = {}
  /\ "idle" \notin PushOwning \cup PopOwning
  BY DEF PushOwning, PopOwning, PushTrying, PopTrying

\* The position of an owner lies within one lap below tail, so that its
\* next lap is one of the positions CellStates speaks of.
LEMMA OwnerWindow ==
  ASSUME RingInv, NEW t \in Threads, Owner(t)
  PROVE  /\ pos[t] \in Nat
         /\ pos[t] < tail
         /\ tail <= pos[t] + Size
         /\ pos[t] + Size \in tail..(tail + Size - 1)
  BY SizeAssumption
     DEF RingInv, TypeOK, Counts, PushPos, PopPos, Owner

\* Between claim and publish, a push's cell carries its own position.
LEMMA PushCell ==
  ASSUME RingInv, NEW t \in Threads, Pushing(t)
  PROVE  seq[Idx(pos[t])] = pos[t]
  <1> DEFINE q == pos[t] + Size
  <1>1. pos[t] \in Nat /\ q \in tail..(tail + Size - 1)
    BY OwnerWindow DEF Owner
  <1>2. Idx(q) = Idx(pos[t])
    BY <1>1, IdxLap
  <1>3. ~Free(q) /\ ~Published(q)
    BY <1>1 DEF Free, Published, Owner
  <1>4. ~BeingPopped(q)
    <2> SUFFICES ASSUME NEW u \in Threads, Popping(u), pos[u] + Size = q
                 PROVE  FALSE
      BY DEF BeingPopped
    <2>1. u # t
      BY PcDisjoint DEF Pushing, Popping
    <2>2. pos[u] # pos[t]
      BY <2>1 DEF RingInv, OwnersDistinct, Owner
    <2> QED BY <2>2, SizeAssumption DEF RingInv, TypeOK
  <1>5. BeingPushed(q)
    BY <1>1, <1>3, <1>4 DEF RingInv, CellStates
  <1> QED BY <1>1, <1>2, <1>5, SizeAssumption DEF BeingPushed

\* Between claim and release, a pop's cell still says published.
LEMMA PopCell ==
  ASSUME RingInv, NEW t \in Threads, Popping(t)
  PROVE  seq[Idx(pos[t])] = pos[t] + 1
  <1> DEFINE q == pos[t] + Size
  <1>1. pos[t] \in Nat /\ q \in tail..(tail + Size - 1)
    BY OwnerWindow DEF Owner
  <1>2. Idx(q) = Idx(pos[t])
    BY <1>1, IdxLap
  <1>3. ~Free(q) /\ ~Published(q)
    BY <1>1 DEF Free, Published, Owner
  <1>4. ~BeingPushed(q)
    <2> SUFFICES ASSUME NEW u \in Threads, Pushing(u), pos[u] + Size = q
                 PROVE  FALSE
      BY DEF BeingPushed
    <2>1. u # t
      BY PcDisjoint DEF Pushing, Popping
    <2>2. pos[u] # pos[t]
      BY <2>1 DEF RingInv, OwnersDistinct, Owner
    <2> QED BY <2>2, SizeAssumption DEF RingInv, TypeOK
  <1>5. BeingPopped(q)
    BY <1>1, <1>3, <1>4 DEF RingInv, CellStates
  <1> QED BY <1>1, <1>2, <1>5, SizeAssumption DEF BeingPopped

\* Positions less than a lap apart have different cells.
LEMMA CellsApart ==
  ASSUME NEW p \in Nat, NEW q \in Nat, p # q, p < q + Size, q < p + Size
  PROVE  Idx(p) # Idx(q)
  BY IdxApart

\* The Size positions from tail on name different cells.
LEMMA WindowApart ==
  ASSUME tail \in Nat,
         NEW p \in tail..(tail + Size - 1), NEW q \in tail..(tail + Size - 1), p # q
  PROVE  Idx(p) # Idx(q)
  <1>1. p \in Nat /\ q \in Nat /\ p < q + Size /\ q < p + Size
    BY SizeAssumption
  <1> QED BY <1>1, CellsApart

\* NoSlotRace follows: owners have different positions within one lap.
LEMMA RaceFree == RingInv => NoSlotRace
  <1> SUFFICES ASSUME RingInv, NEW t \in Threads, NEW u \in Threads,
                      t # u, Owner(t), Owner(u)
               PROVE  Idx(pos[t]) # Idx(pos[u])
    BY DEF NoSlotRace
  <1>1. pos[t] # pos[u]
    BY DEF RingInv, OwnersDistinct
  <1>2. /\ pos[t] \in Nat /\ pos[t] < tail /\ tail <= pos[t] + Size
        /\ pos[u] \in Nat /\ pos[u] < tail /\ tail <= pos[u] + Size
    BY OwnerWindow
  <1>3. tail \in Nat
    BY DEF RingInv, TypeOK
  <1>4. pos[t] < pos[u] + Size /\ pos[u] < pos[t] + Size
    BY <1>2, <1>3, SizeAssumption
  <1> QED BY <1>1, <1>2, <1>4, CellsApart

\* Steps that touch no shared cell and no owner keep the shared parts.
LEMMA Quiet ==
  ASSUME RingInv, NEW t \in Threads,
         UNCHANGED <<head, tail, seq, data, log>>,
         ~Owner(t), ~Owner(t)',
         \A u \in Threads \ {t} : pc'[u] = pc[u] /\ pos'[u] = pos[u]
  PROVE  Counts' /\ OwnersDistinct' /\ CellStates'
  <1>1. \A u \in Threads : /\ Pushing(u)' <=> Pushing(u)
                           /\ Popping(u)' <=> Popping(u)
                           /\ Owner(u) => pos'[u] = pos[u]
    BY DEF Owner, Pushing, Popping
  <1>2. Counts'
    BY DEF RingInv, Counts
  <1>3. OwnersDistinct'
    BY <1>1 DEF RingInv, OwnersDistinct, Owner
  <1>4. CellStates'
    <2> SUFFICES ASSUME NEW q \in tail..(tail + Size - 1)
                 PROVE  (Free(q) \/ BeingPushed(q) \/ Published(q) \/ BeingPopped(q))'
      BY DEF CellStates
    <2>1. Free(q) => Free(q)'
      BY <1>1 DEF Free, Owner
    <2>2. BeingPushed(q) => BeingPushed(q)'
      BY <1>1 DEF BeingPushed, Owner
    <2>3. Published(q) => Published(q)'
      BY <1>1 DEF Published, Owner
    <2>4. BeingPopped(q) => BeingPopped(q)'
      BY <1>1 DEF BeingPopped, Owner
    <2> QED BY <2>1, <2>2, <2>3, <2>4 DEF RingInv, CellStates
  <1> QED BY <1>2, <1>3, <1>4

\* The steps of a call that owns no cell.
LEMMA TryingSteps ==
  ASSUME RingInv, NEW t \in Threads,
         \/ (\E d \in Data : PushCall(t, d)) \/ PushLoad(t)
         \/ PushSeqReady(t) \/ PushSeqFull(t) \/ PushSeqLate(t) \/ PushLose(t)
         \/ PopCall(t) \/ PopLoad(t)
         \/ PopSeqReady(t) \/ PopSeqEmpty(t) \/ PopSeqLate(t) \/ PopLose(t)
  PROVE  RingInv'
  <1> USE DEF PC, PushTrying, PushOwning, PopTrying, PopOwning
  <1>q. ASSUME TypeOK', PushPos', PopPos', Values',
               UNCHANGED <<head, tail, seq, data, log>>,
               ~Owner(t), ~Owner(t)',
               \A u \in Threads \ {t} : pc'[u] = pc[u] /\ pos'[u] = pos[u]
        PROVE  RingInv'
    BY <1>q, Quiet DEF RingInv
  <1>1. ASSUME NEW d \in Data, PushCall(t, d) PROVE RingInv'
    <2>1. TypeOK'
      BY <1>1 DEF RingInv, TypeOK, PushCall, Goto
    <2>2. PushPos'
      BY <1>1 DEF RingInv, TypeOK, PushPos, Pushing, PushCall, Goto
    <2>3. PopPos'
      BY <1>1 DEF RingInv, TypeOK, PopPos, Popping, PushCall, Goto
    <2>4. Values'
      BY <1>1 DEF RingInv, TypeOK, Values, Pushing, PushCall, Goto
    <2>5. ~Owner(t) /\ ~Owner(t)'
      BY <1>1 DEF RingInv, TypeOK, Owner, Pushing, Popping, PushCall, Goto
    <2> QED BY <1>1, <1>q, <2>1, <2>2, <2>3, <2>4, <2>5
            DEF RingInv, TypeOK, PushCall, Goto
  <1>2. CASE PushLoad(t)
    <2>1. TypeOK'
      BY <1>2 DEF RingInv, TypeOK, PushLoad, Goto
    <2>2. PushPos'
      BY <1>2 DEF RingInv, TypeOK, PushPos, Pushing, PushLoad, Goto
    <2>3. PopPos'
      BY <1>2 DEF RingInv, TypeOK, PopPos, Popping, PushLoad, Goto
    <2>4. Values'
      BY <1>2 DEF RingInv, TypeOK, Values, Pushing, PushLoad, Goto
    <2>5. ~Owner(t) /\ ~Owner(t)'
      BY <1>2 DEF RingInv, TypeOK, Owner, Pushing, Popping, PushLoad, Goto
    <2> QED BY <1>2, <1>q, <2>1, <2>2, <2>3, <2>4, <2>5
            DEF RingInv, TypeOK, PushLoad, Goto
  <1>3. CASE PushSeqReady(t)
    <2>1. TypeOK'
      BY <1>3 DEF RingInv, TypeOK, PushSeqReady, Goto
    <2>2. PushPos'
      BY <1>3 DEF RingInv, TypeOK, PushPos, Pushing, PushSeqReady, Goto
    <2>3. PopPos'
      BY <1>3 DEF RingInv, TypeOK, PopPos, Popping, PushSeqReady, Goto
    <2>4. Values'
      BY <1>3 DEF RingInv, TypeOK, Values, Pushing, PushSeqReady, Goto
    <2>5. ~Owner(t) /\ ~Owner(t)'
      BY <1>3 DEF RingInv, TypeOK, Owner, Pushing, Popping, PushSeqReady, Goto
    <2> QED BY <1>3, <1>q, <2>1, <2>2, <2>3, <2>4, <2>5
            DEF RingInv, TypeOK, PushSeqReady, Goto
  <1>4. CASE PushSeqFull(t)
    <2>1. TypeOK'
      BY <1>4 DEF RingInv, TypeOK, PushSeqFull, Leave, Goto
    <2>2. PushPos'
      BY <1>4 DEF RingInv, TypeOK, PushPos, Pushing, PushSeqFull, Leave, Goto
    <2>3. PopPos'
      BY <1>4 DEF RingInv, TypeOK, PopPos, Popping, PushSeqFull, Leave, Goto
    <2>4. Values'
      BY <1>4 DEF RingInv, TypeOK, Values, Pushing, PushSeqFull, Leave, Goto
    <2>5. ~Owner(t) /\ ~Owner(t)'
      BY <1>4 DEF RingInv, TypeOK, Owner, Pushing, Popping, PushSeqFull, Leave, Goto
    <2> QED BY <1>4, <1>q, <2>1, <2>2, <2>3, <2>4, <2>5
            DEF RingInv, TypeOK, PushSeqFull, Leave, Goto
  <1>5. CASE PushSeqLate(t)
    <2>1. TypeOK'
      BY <1>5 DEF RingInv, TypeOK, PushSeqLate, Goto
    <2>2. PushPos'
      BY <1>5 DEF RingInv, TypeOK, PushPos, Pushing, PushSeqLate, Goto
    <2>3. PopPos'
      BY <1>5 DEF RingInv, TypeOK, PopPos, Popping, PushSeqLate, Goto
    <2>4. Values'
      BY <1>5 DEF RingInv, TypeOK, Values, Pushing, PushSeqLate, Goto
    <2>5. ~Owner(t) /\ ~Owner(t)'
      BY <1>5 DEF RingInv, TypeOK, Owner, Pushing, Popping, PushSeqLate, Goto
    <2> QED BY <1>5, <1>q, <2>1, <2>2, <2>3, <2>4, <2>5
            DEF RingInv, TypeOK, PushSeqLate, Goto
  <1>6. CASE PushLose(t)
    <2>1. TypeOK'
      BY <1>6 DEF RingInv, TypeOK, PushLose, Goto
    <2>2. PushPos'
      BY <1>6 DEF RingInv, TypeOK, PushPos, Pushing, PushLose, Goto
    <2>3. PopPos'
      BY <1>6 DEF RingInv, TypeOK, PopPos, Popping, PushLose, Goto
    <2>4. Values'
      BY <1>6 DEF RingInv, TypeOK, Values, Pushing, PushLose, Goto
    <2>5. ~Owner(t) /\ ~Owner(t)'
      BY <1>6 DEF RingInv, TypeOK, Owner, Pushing, Popping, PushLose, Goto
    <2> QED BY <1>6, <1>q, <2>1, <2>2, <2>3, <2>4, <2>5
            DEF RingInv, TypeOK, PushLose, Goto
  <1>7. CASE PopCall(t)
    <2>1. TypeOK'
      BY <1>7 DEF RingInv, TypeOK, PopCall, Goto
    <2>2. PushPos'
      BY <1>7 DEF RingInv, TypeOK, PushPos, Pushing, PopCall, Goto
    <2>3. PopPos'
      BY <1>7 DEF RingInv, TypeOK, PopPos, Popping, PopCall, Goto
    <2>4. Values'
      BY <1>7 DEF RingInv, TypeOK, Values, Pushing, PopCall, Goto
    <2>5. ~Owner(t) /\ ~Owner(t)'
      BY <1>7 DEF RingInv, TypeOK, Owner, Pushing, Popping, PopCall, Goto
    <2> QED BY <1>7, <1>q, <2>1, <2>2, <2>3, <2>4, <2>5
            DEF RingInv, TypeOK, PopCall, Goto
  <1>8. CASE PopLoad(t)
    <2>1. TypeOK'
      BY <1>8 DEF RingInv, TypeOK, PopLoad, Goto
    <2>2. PushPos'
      BY <1>8 DEF RingInv, TypeOK, PushPos, Pushing, PopLoad, Goto
    <2>3. PopPos'
      BY <1>8 DEF RingInv, TypeOK, PopPos, Popping, PopLoad, Goto
    <2>4. Values'
      BY <1>8 DEF RingInv, TypeOK, Values, Pushing, PopLoad, Goto
    <2>5. ~Owner(t) /\ ~Owner(t)'
      BY <1>8 DEF RingInv, TypeOK, Owner, Pushing, Popping, PopLoad, Goto
    <2> QED BY <1>8, <1>q, <2>1, <2>2, <2>3, <2>4, <2>5
            DEF RingInv, TypeOK, PopLoad, Goto
  <1>9. CASE PopSeqReady(t)
    <2>1. TypeOK'
      BY <1>9 DEF RingInv, TypeOK, PopSeqReady, Goto
    <2>2. PushPos'
      BY <1>9 DEF RingInv, TypeOK, PushPos, Pushing, PopSeqReady, Goto
    <2>3. PopPos'
      BY <1>9 DEF RingInv, TypeOK, PopPos, Popping, PopSeqReady, Goto
    <2>4. Values'
      BY <1>9 DEF RingInv, TypeOK, Values, Pushing, PopSeqReady, Goto
    <2>5. ~Owner(t) /\ ~Owner(t)'
      BY <1>9 DEF RingInv, TypeOK, Owner, Pushing, Popping, PopSeqReady, Goto
    <2> QED BY <1>9, <1>q, <2>1, <2>2, <2>3, <2>4, <2>5
            DEF RingInv, TypeOK, PopSeqReady, Goto
  <1>10. CASE PopSeqEmpty(t)
    <2>1. TypeOK'
      BY <1>10 DEF RingInv, TypeOK, PopSeqEmpty, Leave, Goto
    <2>2. PushPos'
      BY <1>10 DEF RingInv, TypeOK, PushPos, Pushing, PopSeqEmpty, Leave, Goto
    <2>3. PopPos'
      BY <1>10 DEF RingInv, TypeOK, PopPos, Popping, PopSeqEmpty, Leave, Goto
    <2>4. Values'
      BY <1>10 DEF RingInv, TypeOK, Values, Pushing, PopSeqEmpty, Leave, Goto
    <2>5. ~Owner(t) /\ ~Owner(t)'
      BY <1>10 DEF RingInv, TypeOK, Owner, Pushing, Popping, PopSeqEmpty, Leave, Goto
    <2> QED BY <1>10, <1>q, <2>1, <2>2, <2>3, <2>4, <2>5
            DEF RingInv, TypeOK, PopSeqEmpty, Leave, Goto
  <1>11. CASE PopSeqLate(t)
    <2>1. TypeOK'
      BY <1>11 DEF RingInv, TypeOK, PopSeqLate, Goto
    <2>2. PushPos'
      BY <1>11 DEF RingInv, TypeOK, PushPos, Pushing, PopSeqLate, Goto
    <2>3. PopPos'
      BY <1>11 DEF RingInv, TypeOK, PopPos, Popping, PopSeqLate, Goto
    <2>4. Values'
      BY <1>11 DEF RingInv, TypeOK, Values, Pushing, PopSeqLate, Goto
    <2>5. ~Owner(t) /\ ~Owner(t)'
      BY <1>11 DEF RingInv, TypeOK, Owner, Pushing, Popping, PopSeqLate, Goto
    <2> QED BY <1>11, <1>q, <2>1, <2>2, <2>3, <2>4, <2>5
            DEF RingInv, TypeOK, PopSeqLate, Goto
  <1>12. CASE PopLose(t)
    <2>1. TypeOK'
      BY <1>12 DEF RingInv, TypeOK, PopLose, Goto
    <2>2. PushPos'
      BY <1>12 DEF RingInv, TypeOK, PushPos, Pushing, PopLose, Goto
    <2>3. PopPos'
      BY <1>12 DEF RingInv, TypeOK, PopPos, Popping, PopLose, Goto
    <2>4. Values'
      BY <1>12 DEF RingInv, TypeOK, Values, Pushing, PopLose, Goto
    <2>5. ~Owner(t) /\ ~Owner(t)'
      BY <1>12 DEF RingInv, TypeOK, Owner, Pushing, Popping, PopLose, Goto
    <2> QED BY <1>12, <1>q, <2>1, <2>2, <2>3, <2>4, <2>5
            DEF RingInv, TypeOK, PopLose, Goto
  <1> QED BY <1>1, <1>2, <1>3, <1>4, <1>5, <1>6, <1>7, <1>8, <1>9, <1>10, <1>11, <1>12

-----------------------------------------------------------------------------
\* The cell the compare-and-exchange on tail hands out is free.
LEMMA ClaimedCellFree ==
  ASSUME RingInv, NEW t \in Threads, PushClaim(t)
  PROVE  /\ Free(tail)
         /\ tail < head + Size
         /\ \A u \in Threads : Owner(u) => pos[u] + Size # tail
  <1>1. pc[t] = "push_cas" /\ pos[t] = tail
    BY DEF PushClaim, Goto
  <1>2. seq[Idx(tail)] = tail
    BY <1>1 DEF RingInv, PushPos
  <1>3. tail \in tail..(tail + Size - 1)
    BY SizeAssumption DEF RingInv, TypeOK
  <1>4. tail - Size # tail /\ tail - Size + 1 # tail
    BY SizeAssumption DEF RingInv, TypeOK
  <1>5. Free(tail)
    BY <1>2, <1>3, <1>4
       DEF RingInv, CellStates, BeingPushed, Published, BeingPopped
  <1> QED BY <1>5 DEF Free

\* The successful compare-and-exchange on tail (queue.c:44).
LEMMA PushClaimStep ==
  ASSUME RingInv, NEW t \in Threads, PushClaim(t)
  PROVE  RingInv'
  <1> USE DEF PC, PushTrying, PushOwning, PopTrying, PopOwning
  <1>1. /\ pc[t] = "push_cas" /\ pos[t] = tail
        /\ pc' = [pc EXCEPT ![t] = "push_write"]
        /\ tail' = tail + 1
        /\ log' = Append(log, val[t])
        /\ UNCHANGED <<head, seq, data, pos, val>>
    BY DEF PushClaim, Goto
  <1>2. val[t] \in Data
    BY <1>1 DEF RingInv, Values
  <1>3. /\ Len(log) = tail
        /\ Len(log') = tail + 1
        /\ log'[tail + 1] = val[t]
        /\ \A p \in Nat : p < tail => log'[p + 1] = log[p + 1]
    BY <1>1, <1>2 DEF RingInv, TypeOK, Counts
  <1>4. /\ Free(tail)
        /\ tail < head + Size
        /\ \A u \in Threads : Owner(u) => pos[u] + Size # tail
    BY ClaimedCellFree
  <1>5. seq[Idx(tail)] = tail
    BY <1>4 DEF Free
  <1>6. /\ \A u \in Threads \ {t} : /\ pc'[u] = pc[u]
                                    /\ Pushing(u)' <=> Pushing(u)
                                    /\ Popping(u)' <=> Popping(u)
                                    /\ Owner(u)' <=> Owner(u)
        /\ ~Owner(t) /\ Pushing(t)' /\ ~Popping(t)' /\ Owner(t)'
    BY <1>1 DEF RingInv, TypeOK, Owner, Pushing, Popping
  <1>7. TypeOK'
    BY <1>1, <1>2 DEF RingInv, TypeOK
  <1>8. Counts'
    BY <1>1, <1>3, <1>4, SizeAssumption DEF RingInv, TypeOK, Counts
  <1>9. PushPos'
    BY <1>1, <1>6 DEF RingInv, TypeOK, Counts, PushPos
  <1>10. PopPos'
    <2> SUFFICES ASSUME NEW u \in Threads
                 PROVE  /\ pc'[u] = "pop_seq" => pos[u] <= head
                        /\ pc'[u] = "pop_cas" =>
                             /\ pos[u] <= head
                             /\ pos[u] = head => seq[Idx(pos[u])] = pos[u] + 1
                        /\ Popping(u)' => /\ pos[u] < head
                                          /\ tail + 1 <= pos[u] + Size
      BY <1>1 DEF PopPos
    <2>1. CASE u = t
      BY <1>1, <1>6, <2>1 DEF RingInv, TypeOK
    <2>2. CASE u # t
      <3>1. Popping(u) => tail # pos[u] + Size
        BY <1>4 DEF Owner
      <3>2. pc'[u] = pc[u] /\ (Popping(u)' <=> Popping(u))
        BY <1>6, <2>2
      <3>3. Popping(u) => pos[u] < head /\ tail <= pos[u] + Size
        BY DEF RingInv, PopPos
      <3>4. Popping(u) => tail + 1 <= pos[u] + Size
        <4>1. tail \in Nat /\ pos[u] \in Nat /\ Size \in Nat
          BY SizeAssumption DEF RingInv, TypeOK
        <4> QED BY <3>1, <3>3, <4>1
      <3> QED BY <3>2, <3>3, <3>4 DEF RingInv, PopPos
    <2> QED BY <2>1, <2>2
  <1>11. OwnersDistinct'
    <2>1. \A u \in Threads : Owner(u) => pos[u] < tail
      BY OwnerWindow
    <2> SUFFICES ASSUME NEW u \in Threads, NEW w \in Threads,
                        u # w, Owner(u)', Owner(w)'
                 PROVE  pos[u] # pos[w]
      BY <1>1 DEF OwnersDistinct
    <2>2. CASE u # t /\ w # t
      BY <1>6, <2>2 DEF RingInv, OwnersDistinct
    <2>3. CASE u = t \/ w = t
      BY <1>1, <1>6, <2>1, <2>3 DEF RingInv, TypeOK
    <2> QED BY <2>2, <2>3
  <1>12. CellStates'
    <2> SUFFICES ASSUME NEW q \in (tail + 1)..(tail + Size)
                 PROVE  (Free(q) \/ BeingPushed(q) \/ Published(q) \/ BeingPopped(q))'
      BY <1>1, SizeAssumption DEF RingInv, TypeOK, CellStates
    <2>1. CASE q = tail + Size
      <3>1. Idx(q) = Idx(tail)
        BY <2>1, IdxLap DEF RingInv, TypeOK
      <3>2. BeingPushed(q)'
        BY <1>1, <1>5, <1>6, <2>1, <3>1, SizeAssumption
           DEF RingInv, TypeOK, BeingPushed
      <3> QED BY <3>2
    <2>2. CASE q < tail + Size
      <3>1. q \in tail..(tail + Size - 1) /\ q \in Nat /\ pos[t] + Size # q
        BY <1>1, <2>2, SizeAssumption DEF RingInv, TypeOK
      <3>2. Free(q) => Free(q)'
        BY <1>1, <1>6, <3>1 DEF Free
      <3>3. BeingPushed(q) => BeingPushed(q)'
        BY <1>1, <1>6 DEF BeingPushed, Owner
      <3>4. Published(q) => Published(q)'
        <4> SUFFICES ASSUME Published(q) PROVE Published(q)'
          OBVIOUS
        <4>1. q - Size \in Nat /\ q - Size < tail
          BY <2>2, <3>1, SizeAssumption DEF RingInv, TypeOK, Published
        <4>2. log'[q - Size + 1] = log[q - Size + 1]
          BY <1>3, <4>1
        <4> QED BY <1>1, <1>6, <3>1, <4>2 DEF Published
      <3>5. BeingPopped(q) => BeingPopped(q)'
        BY <1>1, <1>6 DEF BeingPopped, Owner
      <3> QED BY <3>1, <3>2, <3>3, <3>4, <3>5 DEF RingInv, CellStates
    <2> QED BY <2>1, <2>2, SizeAssumption DEF RingInv, TypeOK
  <1>13. Values'
    <2>1. \A u \in Threads : Owner(u) => log'[pos[u] + 1] = log[pos[u] + 1]
      BY <1>3, OwnerWindow
    <2> SUFFICES ASSUME NEW u \in Threads
                 PROVE  /\ pc'[u] \in PushTrying => val[u] \in Data
                        /\ Pushing(u)' => val[u] = log'[pos[u] + 1]
                        /\ pc'[u] = "push_publish" => data[Idx(pos[u])] = val[u]
                        /\ pc'[u] = "pop_read" => data[Idx(pos[u])] = log'[pos[u] + 1]
                        /\ pc'[u] = "pop_release" => val[u] = log'[pos[u] + 1]
      BY <1>1 DEF Values
    <2>2. CASE u = t
      BY <1>1, <1>3, <2>2 DEF RingInv, TypeOK
    <2>3. CASE u # t
      BY <1>6, <2>1, <2>3 DEF RingInv, Values, Owner, Pushing, Popping
    <2> QED BY <2>2, <2>3
  <1> QED BY <1>7, <1>8, <1>9, <1>10, <1>11, <1>12, <1>13 DEF RingInv

\* The plain store to cell->data (queue.c:53).
LEMMA PushWriteStep ==
  ASSUME RingInv, NEW t \in Threads, PushWrite(t)
  PROVE  RingInv'
  <1> USE DEF PC, PushTrying, PushOwning, PopTrying, PopOwning
  <1>1. /\ pc[t] = "push_write"
        /\ pc' = [pc EXCEPT ![t] = "push_publish"]
        /\ data' = [data EXCEPT ![Idx(pos[t])] = val[t]]
        /\ UNCHANGED <<head, tail, seq, pos, val, log>>
    BY DEF PushWrite, Goto
  <1>2. /\ \A u \in Threads : /\ Pushing(u)' <=> Pushing(u)
                              /\ Popping(u)' <=> Popping(u)
                              /\ Owner(u)' <=> Owner(u)
        /\ Pushing(t)
    BY <1>1 DEF RingInv, TypeOK, Owner, Pushing, Popping
  <1>3. Idx(pos[t]) \in Cells
    BY IdxType DEF RingInv, TypeOK
  <1>4. TypeOK'
    BY <1>1, <1>3 DEF RingInv, TypeOK
  <1>5. Counts' /\ PushPos' /\ PopPos' /\ OwnersDistinct'
    BY <1>1, <1>2 DEF RingInv, TypeOK, Counts, PushPos, PopPos, OwnersDistinct
  <1>6. CellStates'
    <2> SUFFICES ASSUME NEW q \in tail..(tail + Size - 1)
                 PROVE  (Free(q) \/ BeingPushed(q) \/ Published(q) \/ BeingPopped(q))'
      BY <1>1 DEF CellStates
    <2>1. Free(q) => Free(q)'
      BY <1>1, <1>2 DEF Free
    <2>2. BeingPushed(q) => BeingPushed(q)'
      BY <1>1, <1>2 DEF BeingPushed
    <2>3. Published(q) => Published(q)'
      <3> SUFFICES ASSUME Published(q) PROVE Published(q)'
        OBVIOUS
      <3>1. pos[t] + Size # q /\ pos[t] + Size \in tail..(tail + Size - 1)
        BY <1>2, OwnerWindow DEF Published, Owner
      <3>2. Idx(pos[t] + Size) # Idx(q)
        BY <3>1, WindowApart DEF RingInv, TypeOK
      <3>3. Idx(q) # Idx(pos[t])
        BY <3>2, IdxLap DEF RingInv, TypeOK
      <3>4. data'[Idx(q)] = data[Idx(q)]
        BY <1>1, <3>3 DEF RingInv, TypeOK
      <3> QED BY <1>1, <1>2, <3>4 DEF Published
    <2>4. BeingPopped(q) => BeingPopped(q)'
      BY <1>1, <1>2 DEF BeingPopped
    <2> QED BY <2>1, <2>2, <2>3, <2>4 DEF RingInv, CellStates
  <1>7. Values'
    <2>1. data'[Idx(pos[t])] = val[t]
      BY <1>1, <1>3 DEF RingInv, TypeOK
    <2>2. \A u \in Threads \ {t} : Owner(u) => data'[Idx(pos[u])] = data[Idx(pos[u])]
      BY <1>1, <1>2, RaceFree DEF RingInv, TypeOK, NoSlotRace, Owner
    <2> QED BY <1>1, <1>2, <2>1, <2>2
            DEF RingInv, TypeOK, Values, Owner, Pushing, Popping
  <1> QED BY <1>4, <1>5, <1>6, <1>7 DEF RingInv

\* The release store that publishes the cell (queue.c:54).
LEMMA PushPublishStep ==
  ASSUME RingInv, NEW t \in Threads, PushPublish(t)
  PROVE  RingInv'
  <1> USE DEF PC, PushTrying, PushOwning, PopTrying, PopOwning
  <1> DEFINE p == pos[t]
  <1>1. /\ pc[t] = "push_publish"
        /\ pc' = [pc EXCEPT ![t] = "idle"]
        /\ pos' = [pos EXCEPT ![t] = 0]
        /\ val' = [val EXCEPT ![t] = NoData]
        /\ seq' = [seq EXCEPT ![Idx(p)] = p + 1]
        /\ UNCHANGED <<head, tail, data, log>>
    BY DEF PushPublish, Leave, Goto
  <1>2. /\ \A u \in Threads \ {t} : /\ pc'[u] = pc[u] /\ pos'[u] = pos[u]
                                    /\ val'[u] = val[u]
                                    /\ Pushing(u)' <=> Pushing(u)
                                    /\ Popping(u)' <=> Popping(u)
                                    /\ Owner(u)' <=> Owner(u)
        /\ Pushing(t) /\ Owner(t) /\ ~Owner(t)' /\ ~Pushing(t)' /\ ~Popping(t)'
        /\ pc'[t] = "idle"
    BY <1>1 DEF RingInv, TypeOK, Owner, Pushing, Popping
  <1>3. /\ p \in Nat /\ head <= p /\ p < tail /\ tail <= p + Size
        /\ p + Size \in tail..(tail + Size - 1)
    BY <1>2, OwnerWindow DEF RingInv, PushPos
  <1>4. /\ Idx(p) \in Cells
        /\ Idx(p + Size) = Idx(p)
        /\ seq[Idx(p)] = p
        /\ seq'[Idx(p)] = p + 1
    BY <1>1, <1>2, <1>3, IdxType, IdxLap, PushCell DEF RingInv, TypeOK
  <1>5. \A i \in Cells : i # Idx(p) => seq'[i] = seq[i]
    BY <1>1 DEF RingInv, TypeOK
  <1>6. TypeOK'
    BY <1>1, <1>3, <1>4 DEF RingInv, TypeOK
  <1>7. Counts'
    BY <1>1 DEF RingInv, Counts
  <1>8. PushPos'
    <2> SUFFICES ASSUME NEW u \in Threads, pc[u] = "push_cas", pos[u] = tail, u # t
                 PROVE  seq'[Idx(tail)] = tail
      BY <1>1, <1>2 DEF RingInv, PushPos
    <2>1. seq[Idx(tail)] = tail
      BY DEF RingInv, PushPos
    <2>2. Idx(tail) # Idx(p)
      BY <1>3, <1>4, <2>1
    <2>3. Idx(tail) \in Cells
      BY IdxType DEF RingInv, TypeOK
    <2> QED BY <1>5, <2>1, <2>2, <2>3
  <1>9. PopPos'
    <2> SUFFICES ASSUME NEW u \in Threads, pc[u] = "pop_cas", pos[u] = head, u # t
                 PROVE  seq'[Idx(head)] = head + 1
      BY <1>1, <1>2 DEF RingInv, PopPos
    <2>1. seq[Idx(head)] = head + 1
      BY DEF RingInv, PopPos
    <2>2. Idx(head) # Idx(p)
      <3>1. head \in Nat /\ tail \in Nat /\ tail <= head + Size
        BY DEF RingInv, TypeOK, Counts
      <3>2. p # head
        BY <1>4, <2>1, <3>1
      <3> QED BY <1>3, <3>1, <3>2, CellsApart, SizeAssumption
    <2>3. Idx(head) \in Cells
      BY IdxType DEF RingInv, TypeOK
    <2> QED BY <1>5, <2>1, <2>2, <2>3
  <1>10. OwnersDistinct'
    BY <1>2 DEF RingInv, OwnersDistinct
  <1>11. CellStates'
    <2> SUFFICES ASSUME NEW q \in tail..(tail + Size - 1)
                 PROVE  (Free(q) \/ BeingPushed(q) \/ Published(q) \/ BeingPopped(q))'
      BY <1>1 DEF CellStates
    <2>1. CASE q = p + Size
      <3>1. /\ q >= head + Size
            /\ q - Size = p
        BY <1>3, <2>1, SizeAssumption DEF RingInv, TypeOK
      <3>2. data[Idx(p)] = log[p + 1]
        BY <1>1, <1>2 DEF RingInv, Values
      <3>3. \A u \in Threads : Owner(u)' => pos'[u] + Size # q
        <4> SUFFICES ASSUME NEW u \in Threads, Owner(u)' PROVE pos'[u] + Size # q
          OBVIOUS
        <4>1. u # t /\ Owner(u) /\ pos'[u] = pos[u]
          BY <1>2
        <4>2. pos[u] # p
          BY <1>2, <4>1 DEF RingInv, OwnersDistinct
        <4>3. pos[u] \in Nat /\ Size \in Nat
          BY SizeAssumption DEF RingInv, TypeOK
        <4> QED BY <1>3, <2>1, <4>1, <4>2, <4>3
      <3>4. Published(q)'
        BY <1>1, <1>4, <2>1, <3>1, <3>2, <3>3 DEF Published
      <3> QED BY <3>4
    <2>2. CASE q # p + Size
      <3>1. Idx(q) \in Cells /\ Idx(q) # Idx(p)
        <4>1. tail \in Nat /\ q \in Nat
          BY SizeAssumption DEF RingInv, TypeOK
        <4>2. Idx(q) # Idx(p + Size)
          BY <1>3, <2>2, <4>1, WindowApart
        <4> QED BY <1>4, <4>1, <4>2, IdxType
      <3>2. seq'[Idx(q)] = seq[Idx(q)]
        BY <1>5, <3>1
      <3>3. Free(q) => Free(q)'
        BY <1>1, <1>2, <3>2 DEF Free
      <3>4. BeingPushed(q) => BeingPushed(q)'
        BY <1>1, <1>2, <2>2, <3>2 DEF BeingPushed
      <3>5. Published(q) => Published(q)'
        BY <1>1, <1>2, <3>2 DEF Published
      <3>6. BeingPopped(q) => BeingPopped(q)'
        BY <1>1, <1>2, <2>2, <3>2 DEF BeingPopped, Owner
      <3> QED BY <3>3, <3>4, <3>5, <3>6 DEF RingInv, CellStates
    <2> QED BY <2>1, <2>2
  <1>12. Values'
    BY <1>1, <1>2 DEF RingInv, Values
  <1> QED BY <1>6, <1>7, <1>8, <1>9, <1>10, <1>11, <1>12 DEF RingInv

\* The cell the compare-and-exchange on head hands out is published.
LEMMA PoppedCellPublished ==
  ASSUME RingInv, NEW t \in Threads, PopClaim(t)
  PROVE  head < tail /\ Published(head + Size)
  <1>1. pc[t] = "pop_cas" /\ pos[t] = head
    BY DEF PopClaim, Goto
  <1>2. seq[Idx(head)] = head + 1
    BY <1>1 DEF RingInv, PopPos
  <1>3. /\ head \in Nat /\ tail \in Nat /\ Size \in Nat /\ Size >= 2
        /\ head <= tail /\ tail <= head + Size
    BY SizeAssumption DEF RingInv, TypeOK, Counts
  <1>4. head # tail
    <2> SUFFICES ASSUME head = tail PROVE FALSE
      OBVIOUS
    <2>1. tail \in tail..(tail + Size - 1)
      BY <1>3
    <2>2. Free(tail) \/ BeingPushed(tail) \/ Published(tail) \/ BeingPopped(tail)
      BY <2>1 DEF RingInv, CellStates
    <2>3. tail + 1 # tail /\ tail + 1 # tail - Size /\ tail + 1 # tail - Size + 1
      BY <1>3
    <2> QED BY <1>2, <2>2, <2>3 DEF Free, BeingPushed, Published, BeingPopped
  <1>5. head < tail
    BY <1>3, <1>4
  <1> DEFINE q == head + Size
  <1>6. q \in tail..(tail + Size - 1) /\ Idx(q) = Idx(head)
    BY <1>3, <1>5, IdxLap
  <1>7. ~Free(q)
    BY <1>3 DEF Free
  <1>8. ~BeingPushed(q)
    <2>1. q - Size # head + 1
      BY <1>3
    <2> QED BY <1>2, <1>6, <2>1 DEF BeingPushed
  <1>9. ~BeingPopped(q)
    <2> SUFFICES ASSUME NEW u \in Threads, Popping(u), pos[u] + Size = q
                 PROVE  FALSE
      BY DEF BeingPopped
    <2>1. pos[u] < head /\ pos[u] \in Nat
      BY DEF RingInv, TypeOK, PopPos
    <2> QED BY <1>3, <2>1
  <1>10. Published(q)
    BY <1>6, <1>7, <1>8, <1>9 DEF RingInv, CellStates
  <1> QED BY <1>5, <1>10

\* The successful compare-and-exchange on head (queue.c:66).
LEMMA PopClaimStep ==
  ASSUME RingInv, NEW t \in Threads, PopClaim(t)
  PROVE  RingInv'
  <1> USE DEF PC, PushTrying, PushOwning, PopTrying, PopOwning
  <1>1. /\ pc[t] = "pop_cas" /\ pos[t] = head
        /\ pc' = [pc EXCEPT ![t] = "pop_read"]
        /\ head' = head + 1
        /\ UNCHANGED <<tail, seq, data, pos, val, log>>
    BY DEF PopClaim, Goto
  <1>2. /\ \A u \in Threads \ {t} : /\ pc'[u] = pc[u]
                                    /\ Pushing(u)' <=> Pushing(u)
                                    /\ Popping(u)' <=> Popping(u)
                                    /\ Owner(u)' <=> Owner(u)
        /\ ~Owner(t) /\ Popping(t)' /\ ~Pushing(t)' /\ Owner(t)'
        /\ pc'[t] = "pop_read"
    BY <1>1 DEF RingInv, TypeOK, Owner, Pushing, Popping
  <1>3. /\ head \in Nat /\ tail \in Nat /\ Size \in Nat /\ Size >= 2
        /\ head < tail /\ tail <= head + Size
    BY SizeAssumption, PoppedCellPublished DEF RingInv, TypeOK, Counts
  <1>4. /\ Published(head + Size)
        /\ Idx(head + Size) = Idx(head)
        /\ head + Size - Size + 1 = head + 1
    BY <1>3, PoppedCellPublished, IdxLap
  <1>5. /\ \A u \in Threads : Owner(u) => pos[u] # head
        /\ data[Idx(head)] = log[head + 1]
        /\ seq[Idx(head)] = head + 1
    <2>1. data[Idx(head)] = log[head + 1] /\ seq[Idx(head)] = head + 1
      BY <1>3, <1>4 DEF Published
    <2>2. ASSUME NEW u \in Threads, Owner(u) PROVE pos[u] # head
      BY <1>4, <2>2 DEF Published
    <2> QED BY <2>1, <2>2
  <1>6. TypeOK'
    BY <1>1 DEF RingInv, TypeOK
  <1>7. Counts'
    BY <1>1, <1>3 DEF RingInv, Counts
  <1>8. PushPos'
    <2> SUFFICES ASSUME NEW u \in Threads, Pushing(u), u # t
                 PROVE  head + 1 <= pos[u]
      BY <1>1, <1>2 DEF RingInv, PushPos
    <2>1. head <= pos[u] /\ pos[u] # head /\ pos[u] \in Nat
      BY <1>5 DEF RingInv, TypeOK, PushPos, Owner
    <2> QED BY <1>3, <2>1
  <1>9. PopPos'
    <2> SUFFICES ASSUME NEW u \in Threads
                 PROVE  /\ pc'[u] = "pop_seq" => pos[u] <= head + 1
                        /\ pc'[u] = "pop_cas" => pos[u] <= head + 1 /\ pos[u] # head + 1
                        /\ Popping(u)' => pos[u] < head + 1 /\ tail <= pos[u] + Size
      BY <1>1 DEF PopPos
    <2>1. pos[u] \in Nat
      BY DEF RingInv, TypeOK
    <2>2. CASE u = t
      BY <1>1, <1>2, <1>3, <2>2
    <2>3. CASE u # t
      <3>1. /\ pc[u] = "pop_seq" => pos[u] <= head
            /\ pc[u] = "pop_cas" => pos[u] <= head
            /\ Popping(u) => pos[u] < head /\ tail <= pos[u] + Size
        BY DEF RingInv, PopPos
      <3>2. pc'[u] = pc[u] /\ (Popping(u)' <=> Popping(u))
        BY <1>2, <2>3
      <3> QED BY <1>3, <2>1, <3>1, <3>2
    <2> QED BY <2>2, <2>3
  <1>10. OwnersDistinct'
    BY <1>1, <1>2, <1>5 DEF RingInv, OwnersDistinct
  <1>11. CellStates'
    <2> SUFFICES ASSUME NEW q \in tail..(tail + Size - 1)
                 PROVE  (Free(q) \/ BeingPushed(q) \/ Published(q) \/ BeingPopped(q))'
      BY <1>1 DEF CellStates
    <2>1. CASE q = head + Size
      <3>1. BeingPopped(q)'
        BY <1>1, <1>2, <1>3, <1>4, <1>5, <2>1 DEF BeingPopped
      <3> QED BY <3>1
    <2>2. CASE q # head + Size
      <3>1. q \in Nat /\ pos[t] + Size # q
        BY <1>1, <1>3, <2>2
      <3>2. Free(q) => Free(q)'
        BY <1>1, <1>2, <1>3, <3>1 DEF Free
      <3>3. BeingPushed(q) => BeingPushed(q)'
        BY <1>1, <1>2, <3>1 DEF BeingPushed
      <3>4. Published(q) => Published(q)'
        BY <1>1, <1>2, <1>3, <2>2, <3>1 DEF Published
      <3>5. BeingPopped(q) => BeingPopped(q)'
        BY <1>1, <1>2, <3>1 DEF BeingPopped
      <3> QED BY <3>2, <3>3, <3>4, <3>5 DEF RingInv, CellStates
    <2> QED BY <2>1, <2>2
  <1>12. Values'
    BY <1>1, <1>2, <1>5 DEF RingInv, Values
  <1> QED BY <1>6, <1>7, <1>8, <1>9, <1>10, <1>11, <1>12 DEF RingInv

\* The plain load of cell->data (queue.c:74).
LEMMA PopReadStep ==
  ASSUME RingInv, NEW t \in Threads, PopRead(t)
  PROVE  RingInv'
  <1> USE DEF PC, PushTrying, PushOwning, PopTrying, PopOwning
  <1>1. /\ pc[t] = "pop_read"
        /\ pc' = [pc EXCEPT ![t] = "pop_release"]
        /\ val' = [val EXCEPT ![t] = data[Idx(pos[t])]]
        /\ UNCHANGED <<head, tail, seq, data, pos, log>>
    BY DEF PopRead, Goto
  <1>2. \A u \in Threads : /\ Pushing(u)' <=> Pushing(u)
                           /\ Popping(u)' <=> Popping(u)
                           /\ Owner(u)' <=> Owner(u)
    BY <1>1 DEF RingInv, TypeOK, Owner, Pushing, Popping
  <1>3. Idx(pos[t]) \in Cells
    BY IdxType DEF RingInv, TypeOK
  <1>4. TypeOK'
    BY <1>1, <1>3 DEF RingInv, TypeOK
  <1>5. Counts' /\ PushPos' /\ PopPos' /\ OwnersDistinct'
    BY <1>1, <1>2 DEF RingInv, TypeOK, Counts, PushPos, PopPos, OwnersDistinct
  <1>6. CellStates'
    BY <1>1, <1>2
       DEF RingInv, CellStates, Free, BeingPushed, Published, BeingPopped
  <1>7. Values'
    BY <1>1 DEF RingInv, TypeOK, Values, Pushing
  <1> QED BY <1>4, <1>5, <1>6, <1>7 DEF RingInv

\* The release store that frees the cell for the next lap (queue.c:75).
LEMMA PopReleaseStep ==
  ASSUME RingInv, NEW t \in Threads, PopRelease(t)
  PROVE  RingInv'
  <1> USE DEF PC, PushTrying, PushOwning, PopTrying, PopOwning
  <1> DEFINE p == pos[t]
  <1>1. /\ pc[t] = "pop_release"
        /\ pc' = [pc EXCEPT ![t] = "idle"]
        /\ pos' = [pos EXCEPT ![t] = 0]
        /\ val' = [val EXCEPT ![t] = NoData]
        /\ seq' = [seq EXCEPT ![Idx(p)] = p + Size]
        /\ UNCHANGED <<head, tail, data, log>>
    BY DEF PopRelease, Leave, Goto
  <1>2. /\ \A u \in Threads \ {t} : /\ pc'[u] = pc[u] /\ pos'[u] = pos[u]
                                    /\ val'[u] = val[u]
                                    /\ Pushing(u)' <=> Pushing(u)
                                    /\ Popping(u)' <=> Popping(u)
                                    /\ Owner(u)' <=> Owner(u)
        /\ Popping(t) /\ Owner(t) /\ ~Owner(t)' /\ ~Pushing(t)' /\ ~Popping(t)'
        /\ pc'[t] = "idle"
    BY <1>1 DEF RingInv, TypeOK, Owner, Pushing, Popping
  <1>3. /\ p \in Nat /\ p < head /\ p < tail /\ tail <= p + Size
        /\ p + Size \in tail..(tail + Size - 1)
        /\ head \in Nat /\ tail \in Nat /\ head <= tail
        /\ Size \in Nat /\ Size >= 2
    BY <1>2, OwnerWindow, SizeAssumption DEF RingInv, TypeOK, Counts, PopPos
  <1>4. /\ Idx(p) \in Cells
        /\ Idx(p + Size) = Idx(p)
        /\ seq[Idx(p)] = p + 1
        /\ seq'[Idx(p)] = p + Size
    BY <1>1, <1>2, <1>3, IdxType, IdxLap, PopCell DEF RingInv, TypeOK
  <1>5. \A i \in Cells : i # Idx(p) => seq'[i] = seq[i]
    BY <1>1 DEF RingInv, TypeOK
  <1>6. TypeOK'
    BY <1>1, <1>3, <1>4 DEF RingInv, TypeOK
  <1>7. Counts'
    BY <1>1 DEF RingInv, Counts
  <1>8. PushPos'
    <2> SUFFICES ASSUME NEW u \in Threads, pc[u] = "push_cas", pos[u] = tail, u # t
                 PROVE  seq'[Idx(tail)] = tail
      BY <1>1, <1>2 DEF RingInv, PushPos
    <2>1. seq[Idx(tail)] = tail
      BY DEF RingInv, PushPos
    <2>2. Idx(tail) # Idx(p)
      <3>1. CASE tail = p + 1
        BY <1>3, <3>1, CellsApart
      <3>2. CASE tail # p + 1
        BY <1>4, <2>1, <3>2
      <3> QED BY <3>1, <3>2
    <2>3. Idx(tail) \in Cells
      BY <1>3, IdxType
    <2> QED BY <1>5, <2>1, <2>2, <2>3
  <1>9. PopPos'
    <2> SUFFICES ASSUME NEW u \in Threads, pc[u] = "pop_cas", pos[u] = head, u # t
                 PROVE  seq'[Idx(head)] = head + 1
      BY <1>1, <1>2 DEF RingInv, PopPos
    <2>1. seq[Idx(head)] = head + 1
      BY DEF RingInv, PopPos
    <2>2. Idx(head) # Idx(p)
      BY <1>3, <1>4, <2>1
    <2>3. Idx(head) \in Cells
      BY <1>3, IdxType
    <2> QED BY <1>5, <2>1, <2>2, <2>3
  <1>10. OwnersDistinct'
    BY <1>2 DEF RingInv, OwnersDistinct
  <1>11. CellStates'
    <2> SUFFICES ASSUME NEW q \in tail..(tail + Size - 1)
                 PROVE  (Free(q) \/ BeingPushed(q) \/ Published(q) \/ BeingPopped(q))'
      BY <1>1 DEF CellStates
    <2>1. CASE q = p + Size
      <3>1. \A u \in Threads : Owner(u)' => pos'[u] + Size # q
        <4> SUFFICES ASSUME NEW u \in Threads, Owner(u)' PROVE pos'[u] + Size # q
          OBVIOUS
        <4>1. u # t /\ Owner(u) /\ pos'[u] = pos[u]
          BY <1>2
        <4>2. pos[u] # p
          BY <1>2, <4>1 DEF RingInv, OwnersDistinct
        <4>3. pos[u] \in Nat
          BY DEF RingInv, TypeOK
        <4> QED BY <1>3, <2>1, <4>1, <4>2, <4>3
      <3>2. Free(q)'
        BY <1>1, <1>3, <1>4, <2>1, <3>1 DEF Free
      <3> QED BY <3>2
    <2>2. CASE q # p + Size
      <3>1. Idx(q) \in Cells /\ Idx(q) # Idx(p)
        <4>1. Idx(q) # Idx(p + Size)
          BY <1>3, <2>2, WindowApart
        <4> QED BY <1>3, <1>4, <4>1, IdxType
      <3>2. seq'[Idx(q)] = seq[Idx(q)]
        BY <1>5, <3>1
      <3>3. Free(q) => Free(q)'
        BY <1>1, <1>2, <3>2 DEF Free
      <3>4. BeingPushed(q) => BeingPushed(q)'
        BY <1>1, <1>2, <2>2, <3>2 DEF BeingPushed, Owner
      <3>5. Published(q) => Published(q)'
        BY <1>1, <1>2, <3>2 DEF Published
      <3>6. BeingPopped(q) => BeingPopped(q)'
        BY <1>1, <1>2, <2>2, <3>2 DEF BeingPopped
      <3> QED BY <3>3, <3>4, <3>5, <3>6 DEF RingInv, CellStates
    <2> QED BY <2>1, <2>2
  <1>12. Values'
    BY <1>1, <1>2 DEF RingInv, Values
  <1> QED BY <1>6, <1>7, <1>8, <1>9, <1>10, <1>11, <1>12 DEF RingInv

-----------------------------------------------------------------------------
\* vgc_ringbuf_init establishes the invariant.
LEMMA InitInv == Init => RingInv
  <1> SUFFICES ASSUME Init PROVE RingInv
    OBVIOUS
  <1> USE DEF PC, PushTrying, PushOwning, PopTrying, PopOwning
  <1>1. /\ head = 0 /\ tail = 0 /\ log = <<>>
        /\ \A t \in Threads : pc[t] = "idle"
        /\ \A t \in Threads : ~Owner(t) /\ ~Pushing(t) /\ ~Popping(t)
    BY DEF Init, Owner, Pushing, Popping
  <1>2. TypeOK
    BY SizeAssumption DEF Init, TypeOK, Cells
  <1>3. Counts
    BY <1>1, SizeAssumption DEF Counts
  <1>4. PushPos /\ PopPos /\ OwnersDistinct /\ Values
    BY <1>1 DEF PushPos, PopPos, OwnersDistinct, Values
  <1>5. CellStates
    <2> SUFFICES ASSUME NEW q \in 0..(Size - 1) PROVE Free(q)
      BY <1>1, SizeAssumption DEF CellStates
    <2>1. Idx(q) = q
      BY SizeAssumption DEF Idx
    <2>2. seq[Idx(q)] = q
      BY <2>1 DEF Init, Cells
    <2> QED BY <1>1, <2>2, SizeAssumption DEF Free
  <1> QED BY <1>2, <1>3, <1>4, <1>5 DEF RingInv

\* Every atomic access of vgc_push and vgc_pop preserves the invariant.
LEMMA StepInv == RingInv /\ [Next]_vars => RingInv'
  <1> SUFFICES ASSUME RingInv, [Next]_vars PROVE RingInv'
    OBVIOUS
  <1>1. CASE UNCHANGED vars
    BY <1>1 DEF vars, RingInv, TypeOK, Counts, PushPos, PopPos, OwnersDistinct,
                CellStates, Values, Free, BeingPushed, Published, BeingPopped,
                Owner, Pushing, Popping
  <1>2. CASE Next
    <2> PICK t \in Threads : PushStep(t) \/ PopStep(t)
      BY <1>2 DEF Next
    <2>1. CASE (\E d \in Data : PushCall(t, d)) \/ PushLoad(t)
               \/ PushSeqReady(t) \/ PushSeqFull(t) \/ PushSeqLate(t) \/ PushLose(t)
      BY <2>1, TryingSteps
    <2>2. CASE PopCall(t) \/ PopLoad(t)
               \/ PopSeqReady(t) \/ PopSeqEmpty(t) \/ PopSeqLate(t) \/ PopLose(t)
      BY <2>2, TryingSteps
    <2>3. CASE PushClaim(t)   BY <2>3, PushClaimStep
    <2>4. CASE PushWrite(t)   BY <2>4, PushWriteStep
    <2>5. CASE PushPublish(t) BY <2>5, PushPublishStep
    <2>6. CASE PopClaim(t)    BY <2>6, PopClaimStep
    <2>7. CASE PopRead(t)     BY <2>7, PopReadStep
    <2>8. CASE PopRelease(t)  BY <2>8, PopReleaseStep
    <2> QED BY <2>1, <2>2, <2>3, <2>4, <2>5, <2>6, <2>7, <2>8 DEF PushStep, PopStep
  <1> QED BY <1>1, <1>2

\* For any number of threads, any power-of-two Size >= 2 and any pointers,
\* each cell's sequence number tells exactly which of its four situations
\* the cell of the ring is in (queue.c:36-78).
THEOREM RingInvariant == Spec => []RingInv
  <1>1. Init => RingInv
    BY InitInv
  <1>2. RingInv /\ [Next]_vars => RingInv'
    BY StepInv
  <1> QED BY <1>1, <1>2, PTL DEF Spec

\* The state of the ring stays well typed; the types need the invariant,
\* because a claimed position logs the pointer its thread holds.
THEOREM TypeCorrect == Spec => []TypeOK
  <1>1. RingInv => TypeOK
    BY DEF RingInv
  <1> QED BY <1>1, RingInvariant, PTL

\* No two threads are ever between claim and release of the same cell, so
\* the plain accesses to cell->data (queue.c:53, 74) never race.
THEOREM SlotsExclusive == Spec => []NoSlotRace
  BY RaceFree, RingInvariant, PTL

\* A vgc_push or vgc_pop only goes round its loop when another one has taken
\* its position (queue.c:48, 69): a stalled thread blocks nobody.
THEOREM LockFreedom == Spec => RetryMeansProgress
  <1> DEFINE A == \A t \in Threads : /\ PushSeqLate(t) => tail > pos[t]
                                     /\ PopSeqLate(t)  => head > pos[t]
  <1>1. ASSUME RingInv PROVE A
    <2> SUFFICES ASSUME NEW t \in Threads
                 PROVE  /\ PushSeqLate(t) => tail > pos[t]
                        /\ PopSeqLate(t)  => head > pos[t]
      OBVIOUS
    <2>1. /\ head \in Nat /\ tail \in Nat /\ Size \in Nat /\ Size >= 2
          /\ head <= tail /\ tail <= head + Size /\ pos[t] \in Nat
      BY <1>1, SizeAssumption DEF RingInv, TypeOK, Counts
    <2>2. seq[Idx(tail)] <= tail
      <3>1. tail \in tail..(tail + Size - 1)
        BY <2>1
      <3>2. Free(tail) \/ BeingPushed(tail) \/ Published(tail) \/ BeingPopped(tail)
        BY <1>1, <3>1 DEF RingInv, CellStates
      <3>3. tail - Size <= tail /\ tail - Size + 1 <= tail
        BY <2>1
      <3> QED BY <2>1, <3>2, <3>3 DEF Free, BeingPushed, Published, BeingPopped
    <2>3. head < tail => seq[Idx(head)] <= head + 1
      <3> SUFFICES ASSUME head < tail PROVE seq[Idx(head)] <= head + 1
        OBVIOUS
      <3> DEFINE q == head + Size
      <3>1. q \in tail..(tail + Size - 1) /\ Idx(q) = Idx(head)
        BY <2>1, IdxLap
      <3>2. BeingPushed(q) \/ Published(q) \/ BeingPopped(q)
        BY <1>1, <2>1, <3>1 DEF RingInv, CellStates, Free
      <3>3. q - Size = head /\ q - Size + 1 = head + 1 /\ head <= head + 1
        BY <2>1
      <3> QED BY <2>1, <3>1, <3>2, <3>3 DEF BeingPushed, Published, BeingPopped
    <2>4. PushSeqLate(t) => tail > pos[t]
      <3> SUFFICES ASSUME PushSeqLate(t) PROVE tail > pos[t]
        OBVIOUS
      <3>1. pos[t] <= tail /\ seq[Idx(pos[t])] > pos[t]
        BY <1>1 DEF RingInv, PushPos, PushSeqLate, Goto
      <3>2. seq[Idx(pos[t])] \in Nat
        BY <1>1, <2>1, IdxType DEF RingInv, TypeOK
      <3> QED BY <2>1, <2>2, <3>1, <3>2
    <2>5. PopSeqLate(t) => head > pos[t]
      <3> SUFFICES ASSUME PopSeqLate(t) PROVE head > pos[t]
        OBVIOUS
      <3>1. pos[t] <= head /\ seq[Idx(pos[t])] > pos[t] + 1
        BY <1>1 DEF RingInv, PopPos, PopSeqLate, Goto
      <3>2. seq[Idx(pos[t])] \in Nat
        BY <1>1, <2>1, IdxType DEF RingInv, TypeOK
      <3>3. seq[Idx(head)] <= head + 1
        <4>1. seq[Idx(head)] \in Nat
          BY <1>1, <2>1, IdxType DEF RingInv, TypeOK
        <4> QED BY <2>1, <2>2, <2>3, <4>1
      <3> QED BY <2>1, <3>1, <3>2, <3>3
    <2> QED BY <2>4, <2>5
  <1>2. RingInv => [A]_vars
    BY <1>1
  <1> QED BY <1>2, RingInvariant, PTL DEF RetryMeansProgress

-----------------------------------------------------------------------------
\* Appending to the log appends to the abstract queue.
LEMMA QueueAppend ==
  ASSUME NEW s \in Seq(Data), NEW v \in Data, NEW h \in Nat, h <= Len(s)
  PROVE  SubSeq(Append(s, v), h + 1, Len(s) + 1)
           = Append(SubSeq(s, h + 1, Len(s)), v)
  <1> DEFINE l == SubSeq(Append(s, v), h + 1, Len(s) + 1)
             r == Append(SubSeq(s, h + 1, Len(s)), v)
  <1>1. Append(s, v) \in Seq(Data) /\ Len(Append(s, v)) = Len(s) + 1
    OBVIOUS
  <1>2. /\ l \in Seq(Data) /\ Len(l) = Len(s) + 1 - h
        /\ \A i \in 1..(Len(s) + 1 - h) : l[i] = Append(s, v)[h + i]
    BY <1>1
  <1>3. /\ r \in Seq(Data) /\ Len(r) = Len(s) + 1 - h
        /\ \A i \in 1..(Len(s) - h) : r[i] = s[h + i]
        /\ r[Len(s) + 1 - h] = v
    OBVIOUS
  <1>4. \A i \in 1..(Len(s) + 1 - h) : l[i] = r[i]
    BY <1>2, <1>3
  <1> QED BY <1>2, <1>3, <1>4, SeqEqual

\* Moving head drops the head of the abstract queue.
LEMMA QueueTail ==
  ASSUME NEW s \in Seq(Data), NEW h \in Nat, h < Len(s)
  PROVE  /\ SubSeq(s, h + 1, Len(s)) # <<>>
         /\ Head(SubSeq(s, h + 1, Len(s))) = s[h + 1]
         /\ Tail(SubSeq(s, h + 1, Len(s))) = SubSeq(s, h + 2, Len(s))
  <1>1. Len(s) \in Nat /\ h + 1 \in 1..Len(s) /\ Len(s) \in (h + 1)..Len(s)
    OBVIOUS
  <1>2. SubSeq(s, h + 1, Len(s)) # <<>>
    <2>1. Len(SubSeq(s, h + 1, Len(s))) = Len(s) - h
      BY <1>1
    <2>2. Len(<<>>) = 0
      BY EmptySeq
    <2>3. Len(s) - h # 0
      BY <1>1
    <2> QED BY <2>1, <2>2, <2>3
  <1>3. h + 1 + 1 = h + 2
    OBVIOUS
  <1>4. /\ Head(SubSeq(s, h + 1, Len(s))) = s[h + 1]
        /\ Tail(SubSeq(s, h + 1, Len(s))) = SubSeq(s, h + 1 + 1, Len(s))
    BY <1>1, HeadTailOfSubSeq
  <1> QED BY <1>2, <1>3, <1>4

\* The abstract operations are those of the mapped threads.
LEMMA OpBecomes ==
  ASSUME NEW t \in Threads, NEW o,
         \A u \in Threads \ {t} : OpOf(u)' = OpOf(u),
         OpOf(t)' = o
  PROVE  [u \in Threads |-> OpOf(u)'] = [[u \in Threads |-> OpOf(u)] EXCEPT ![t] = o]
  OBVIOUS

\* vgc_ringbuf_init maps to an empty FIFO with no operation in progress.
LEMMA MapInit == Init => Abstract!Init
  <1> SUFFICES ASSUME Init PROVE Abstract!Init
    OBVIOUS
  <1>1. SubSeq(log, head + 1, tail) = <<>>
    BY SubSeqEmpty DEF Init
  <1>2. \A t \in Threads : OpOf(t) = <<"idle">>
    BY DEF Init, OpOf, PushTrying, PushOwning, PopTrying, PopOwning
  <1> QED BY <1>1, <1>2 DEF Abstract!Init, Abstract!Idle

\* A cell whose position tail has passed was claimed by a push of that
\* position or of a later one: its sequence number is not behind.
LEMMA StaleCell ==
  ASSUME RingInv, NEW p \in Nat, p < tail
  PROVE  /\ seq[Idx(p)] \in Nat
         /\ seq[Idx(p)] >= p
         /\ p < head => seq[Idx(p)] >= p + 1
  <1>1. /\ head \in Nat /\ tail \in Nat /\ Size \in Nat /\ Size >= 2
        /\ head <= tail /\ tail <= head + Size
    BY SizeAssumption DEF RingInv, TypeOK, Counts
  <1>2. PICK q \in tail..(tail + Size - 1) : Idx(q) = Idx(p)
    BY <1>1, CellInWindow
  <1>3. q \in Nat /\ q >= p + Size
    BY <1>1, <1>2, IdxApart
  <1>4. seq[Idx(p)] \in Nat
    BY IdxType DEF RingInv, TypeOK
  <1>5. seq[Idx(p)] \in {q, q - Size, q - Size + 1}
    BY <1>2 DEF RingInv, CellStates, Free, BeingPushed, Published, BeingPopped
  <1>6. seq[Idx(p)] >= p
    BY <1>1, <1>3, <1>5
  <1>7. ASSUME p < head PROVE seq[Idx(p)] >= p + 1
    <2>1. CASE q = p + Size
      <3>1. ~BeingPushed(q)
        <4> SUFFICES ASSUME NEW u \in Threads, Pushing(u), pos[u] + Size = q
                     PROVE  FALSE
          BY DEF BeingPushed
        <4>1. head <= pos[u] /\ pos[u] \in Nat
          BY DEF RingInv, TypeOK, PushPos
        <4> QED BY <1>1, <1>7, <2>1, <4>1
      <3>2. seq[Idx(p)] \in {q, q - Size + 1}
        BY <1>2, <3>1 DEF RingInv, CellStates, Free, Published, BeingPopped
      <3> QED BY <1>1, <2>1, <3>2
    <2>2. CASE q # p + Size
      <3>1. Idx(p + Size) = Idx(q)
        BY <1>2, IdxLap
      <3>2. p + Size \in Nat /\ q >= p + Size + Size
        BY <1>1, <1>3, <2>2, <3>1, IdxApart
      <3> QED BY <1>1, <1>3, <1>5, <3>2
    <2> QED BY <2>1, <2>2
  <1> QED BY <1>4, <1>6, <1>7

\* Why a push that finds its cell taken may say "full".
LEMMA FullIsHonest ==
  ASSUME RingInv, NEW t \in Threads, PushSeqFull(t)
  PROVE  tail = head + Size \/ \E u \in Threads \ {t} : Popping(u)
  <1>1. /\ head \in Nat /\ tail \in Nat /\ Size \in Nat /\ Size >= 2
        /\ head <= tail /\ tail <= head + Size /\ pos[t] \in Nat
    BY SizeAssumption DEF RingInv, TypeOK, Counts
  <1>2. pc[t] = "push_seq" /\ pos[t] <= tail /\ seq[Idx(pos[t])] < pos[t]
    BY DEF RingInv, PushPos, PushSeqFull, Leave, Goto
  <1>3. pos[t] = tail
    BY <1>1, <1>2, StaleCell
  <1>4. tail \in tail..(tail + Size - 1)
    BY <1>1
  <1>5. BeingPushed(tail) \/ Published(tail) \/ BeingPopped(tail)
    BY <1>1, <1>2, <1>3, <1>4 DEF RingInv, CellStates, Free
  <1>6. CASE BeingPushed(tail)
    <2>1. PICK u \in Threads : Pushing(u) /\ pos[u] + Size = tail
      BY <1>6 DEF BeingPushed
    <2>2. head <= pos[u] /\ pos[u] \in Nat
      BY <2>1 DEF RingInv, TypeOK, PushPos
    <2> QED BY <1>1, <2>1, <2>2
  <1>7. CASE Published(tail)
    BY <1>1, <1>7 DEF Published
  <1>8. CASE BeingPopped(tail)
    BY <1>2, <1>8 DEF BeingPopped, Popping, PopOwning
  <1> QED BY <1>5, <1>6, <1>7, <1>8

\* Why a pop that finds its cell unpublished may say "empty".
LEMMA EmptyIsHonest ==
  ASSUME RingInv, NEW t \in Threads, PopSeqEmpty(t)
  PROVE  head = tail \/ \E u \in Threads \ {t} : Pushing(u)
  <1>1. /\ head \in Nat /\ tail \in Nat /\ Size \in Nat /\ Size >= 2
        /\ head <= tail /\ tail <= head + Size /\ pos[t] \in Nat
    BY SizeAssumption DEF RingInv, TypeOK, Counts
  <1>2. pc[t] = "pop_seq" /\ pos[t] <= head /\ seq[Idx(pos[t])] < pos[t] + 1
    BY DEF RingInv, PopPos, PopSeqEmpty, Leave, Goto
  <1>3. pos[t] = head
    BY <1>1, <1>2, StaleCell
  <1> SUFFICES ASSUME head < tail PROVE \E u \in Threads \ {t} : Pushing(u)
    BY <1>1
  <1> DEFINE q == head + Size
  <1>4. q \in tail..(tail + Size - 1) /\ Idx(q) = Idx(head)
    BY <1>1, IdxLap
  <1>5. ~Free(q)
    BY <1>1 DEF Free
  <1>6. q - Size + 1 = head + 1 /\ ~(head + 1 < head + 1)
    BY <1>1
  <1>7. ~Published(q) /\ ~BeingPopped(q)
    BY <1>2, <1>3, <1>4, <1>6 DEF Published, BeingPopped
  <1>8. BeingPushed(q)
    BY <1>4, <1>5, <1>7 DEF RingInv, CellStates
  <1> QED BY <1>2, <1>8 DEF BeingPushed, Pushing, PushOwning

\* Each atomic access is a step of the FIFO or leaves it unchanged.
LEMMA MapStep == RingInv /\ [Next]_vars => [Abstract!Next]_(Abstract!fifoVars)
  <1> SUFFICES ASSUME RingInv, [Next]_vars
               PROVE  Abstract!Next \/ UNCHANGED Abstract!fifoVars
    OBVIOUS
  <1> USE DEF PC, PushTrying, PushOwning, PopTrying, PopOwning
  <1>1. CASE UNCHANGED vars
    BY <1>1 DEF vars, Abstract!fifoVars, OpOf
  <1>2. CASE Next
    <2> PICK t \in Threads : PushStep(t) \/ PopStep(t)
      BY <1>2 DEF Next
    <2>types. /\ head \in Nat /\ tail \in Nat /\ Size \in Nat
              /\ log \in Seq(Data) /\ Len(log) = tail
              /\ head <= tail /\ tail <= head + Size
              /\ \A u \in Threads : pos[u] \in Nat
      BY SizeAssumption DEF RingInv, TypeOK, Counts
    <2>1. ASSUME NEW d \in Data, PushCall(t, d)
          PROVE  Abstract!CallPush(t, d)
      <3>1. OpOf(t) = <<"idle">> /\ OpOf(t)' = <<"push", d>>
        BY <2>1 DEF OpOf, PushCall, Goto, RingInv, TypeOK
      <3>2. \A u \in Threads \ {t} : OpOf(u)' = OpOf(u)
        BY <2>1 DEF OpOf, PushCall, Goto, RingInv, TypeOK
      <3> QED BY <2>1, <3>1, <3>2, OpBecomes
              DEF Abstract!CallPush, Abstract!Become, Abstract!Idle, Abstract!Push,
                  PushCall
    <2>2. CASE PopCall(t)
      <3>1. OpOf(t) = <<"idle">> /\ OpOf(t)' = <<"pop">>
        BY <2>2 DEF OpOf, PopCall, Goto, RingInv, TypeOK
      <3>2. \A u \in Threads \ {t} : OpOf(u)' = OpOf(u)
        BY <2>2 DEF OpOf, PopCall, Goto, RingInv, TypeOK
      <3>3. Abstract!CallPop(t)
        BY <2>2, <3>1, <3>2, OpBecomes
           DEF Abstract!CallPop, Abstract!Become, Abstract!Idle, Abstract!Pop, PopCall
      <3> QED BY <3>3 DEF Abstract!Next
    <2>3. CASE PushLoad(t) \/ PushSeqReady(t) \/ PushSeqLate(t) \/ PushLose(t)
               \/ PushWrite(t)
      <3>1. \A u \in Threads : OpOf(u)' = OpOf(u)
        BY <2>3 DEF OpOf, PushLoad, PushSeqReady, PushSeqLate, PushLose, PushWrite,
                    Goto, RingInv, TypeOK
      <3> QED BY <2>3, <3>1 DEF Abstract!fifoVars, PushLoad, PushSeqReady,
                                PushSeqLate, PushLose, PushWrite
    <2>4. CASE PopLoad(t) \/ PopSeqReady(t) \/ PopSeqLate(t) \/ PopLose(t)
      <3>1. \A u \in Threads : OpOf(u)' = OpOf(u)
        BY <2>4 DEF OpOf, PopLoad, PopSeqReady, PopSeqLate, PopLose,
                    Goto, RingInv, TypeOK
      <3> QED BY <2>4, <3>1 DEF Abstract!fifoVars, PopLoad, PopSeqReady,
                                PopSeqLate, PopLose
    <2>5. CASE PopRead(t)
      <3>1. data[Idx(pos[t])] = log[pos[t] + 1]
        BY <2>5 DEF RingInv, Values, PopRead, Goto
      <3>2. \A u \in Threads : OpOf(u)' = OpOf(u)
        BY <2>5, <3>1 DEF OpOf, PopRead, Goto, RingInv, TypeOK
      <3> QED BY <2>5, <3>2 DEF Abstract!fifoVars, PopRead
    <2>6. CASE PushSeqFull(t)
      <3>1. OpOf(t) = <<"push", val[t]>> /\ OpOf(t)' = <<"idle">>
        BY <2>6 DEF OpOf, PushSeqFull, Leave, Goto, RingInv, TypeOK
      <3>2. \A u \in Threads \ {t} : OpOf(u)' = OpOf(u)
        BY <2>6 DEF OpOf, PushSeqFull, Leave, Goto, RingInv, TypeOK
      <3>3. \/ Len(SubSeq(log, head + 1, tail)) = Size
            \/ Abstract!Unreturned(t, "popped")
        <4>1. CASE tail = head + Size
          BY <2>types, <4>1
        <4>2. CASE \E u \in Threads \ {t} : Popping(u)
          BY <4>2 DEF Popping, OpOf, Abstract!Unreturned, Abstract!Kind
        <4> QED BY <2>6, <4>1, <4>2, FullIsHonest
      <3>4. Abstract!Kind(t) = "push" /\ Abstract!Become(t, Abstract!Idle)
        BY <3>1, <3>2, OpBecomes
           DEF Abstract!Kind, Abstract!Become, Abstract!Idle
      <3>5. UNCHANGED SubSeq(log, head + 1, tail)
        BY <2>6 DEF PushSeqFull
      <3>6. Abstract!PushFull(t)
        BY <3>3, <3>4, <3>5 DEF Abstract!PushFull
      <3> QED BY <3>6 DEF Abstract!Next
    <2>7. CASE PopSeqEmpty(t)
      <3>1. OpOf(t) = <<"pop">> /\ OpOf(t)' = <<"idle">>
        BY <2>7 DEF OpOf, PopSeqEmpty, Leave, Goto, RingInv, TypeOK
      <3>2. \A u \in Threads \ {t} : OpOf(u)' = OpOf(u)
        BY <2>7 DEF OpOf, PopSeqEmpty, Leave, Goto, RingInv, TypeOK
      <3>3. \/ SubSeq(log, head + 1, tail) = <<>>
            \/ Abstract!Unreturned(t, "pushed")
        <4>1. CASE head = tail
          BY <2>types, <4>1, SubSeqEmpty
        <4>2. CASE \E u \in Threads \ {t} : Pushing(u)
          BY <4>2 DEF Pushing, OpOf, Abstract!Unreturned, Abstract!Kind
        <4> QED BY <2>7, <4>1, <4>2, EmptyIsHonest
      <3>4. Abstract!PopEmpty(t)
        BY <2>7, <3>1, <3>2, <3>3, OpBecomes
           DEF Abstract!PopEmpty, Abstract!Kind, Abstract!Become, Abstract!Idle,
               PopSeqEmpty
      <3> QED BY <3>4 DEF Abstract!Next
    <2>8. CASE PushClaim(t)
      <3>1. val[t] \in Data /\ tail' = tail + 1 /\ head' = head
            /\ log' = Append(log, val[t])
        BY <2>8 DEF PushClaim, Goto, RingInv, Values
      <3>2. OpOf(t) = <<"push", val[t]>> /\ OpOf(t)' = <<"pushed">>
        BY <2>8 DEF OpOf, PushClaim, Goto, RingInv, TypeOK
      <3>3. \A u \in Threads \ {t} : OpOf(u)' = OpOf(u)
        <4> SUFFICES ASSUME NEW u \in Threads \ {t} PROVE OpOf(u)' = OpOf(u)
          OBVIOUS
        <4>1. pc'[u] = pc[u] /\ pos' = pos /\ val' = val
          BY <2>8 DEF PushClaim, Goto, RingInv, TypeOK
        <4>2. pc[u] = "pop_read" => log'[pos[u] + 1] = log[pos[u] + 1]
          <5> SUFFICES ASSUME pc[u] = "pop_read" PROVE log'[pos[u] + 1] = log[pos[u] + 1]
            OBVIOUS
          <5>1. pos[u] < head
            BY DEF RingInv, PopPos, Popping
          <5>2. pos[u] + 1 \in 1..Len(log)
            BY <2>types, <5>1
          <5> QED BY <2>types, <3>1, <5>2
        <4> QED BY <4>1, <4>2 DEF OpOf
      <3>4. Len(SubSeq(log, head + 1, tail)) < Size
        <4>1. tail < head + Size
          BY <2>8, ClaimedCellFree
        <4>2. Len(SubSeq(log, head + 1, tail)) = tail - head
          BY <2>types
        <4> QED BY <2>types, <4>1, <4>2
      <3>5. SubSeq(log', head' + 1, tail') = Append(SubSeq(log, head + 1, tail), val[t])
        BY <2>types, <3>1, QueueAppend
      <3>6. Abstract!Kind(t) = "push" /\ Abstract!Become(t, Abstract!Pushed)
        BY <3>2, <3>3, OpBecomes
           DEF Abstract!Kind, Abstract!Become, Abstract!Pushed
      <3>7. [u \in Threads |-> OpOf(u)][t][2] = val[t]
        BY <3>2
      <3>8. Abstract!DoPush(t)
        BY <3>4, <3>5, <3>6, <3>7 DEF Abstract!DoPush
      <3> QED BY <3>8 DEF Abstract!Next
    <2>9. CASE PopClaim(t)
      <3>1. pos[t] = head /\ head' = head + 1 /\ UNCHANGED <<tail, log>>
        BY <2>9 DEF PopClaim
      <3>2. OpOf(t) = <<"pop">> /\ OpOf(t)' = <<"popped", log[head + 1]>>
        BY <2>9 DEF OpOf, PopClaim, Goto, RingInv, TypeOK
      <3>3. \A u \in Threads \ {t} : OpOf(u)' = OpOf(u)
        BY <2>9 DEF OpOf, PopClaim, Goto, RingInv, TypeOK
      <3>4. head < tail
        BY <2>9, PoppedCellPublished
      <3>5. /\ SubSeq(log, head + 1, tail) # <<>>
            /\ Head(SubSeq(log, head + 1, tail)) = log[head + 1]
            /\ Tail(SubSeq(log, head + 1, tail)) = SubSeq(log, head + 2, tail)
        BY <2>types, <3>4, QueueTail
      <3>6. SubSeq(log', head' + 1, tail') = Tail(SubSeq(log, head + 1, tail))
        <4>1. head' + 1 = head + 2
          BY <2>types, <3>1
        <4> QED BY <3>1, <3>5, <4>1
      <3>7. /\ Abstract!Kind(t) = "pop"
            /\ Abstract!Become(t, Abstract!Popped(log[head + 1]))
        BY <3>2, <3>3, OpBecomes
           DEF Abstract!Kind, Abstract!Become, Abstract!Popped
      <3>8. Abstract!DoPop(t)
        BY <3>5, <3>6, <3>7 DEF Abstract!DoPop
      <3> QED BY <3>8 DEF Abstract!Next
    <2>10. CASE PushPublish(t)
      <3>1. OpOf(t) = <<"pushed">> /\ OpOf(t)' = <<"idle">>
        BY <2>10 DEF OpOf, PushPublish, Leave, Goto, RingInv, TypeOK
      <3>2. \A u \in Threads \ {t} : OpOf(u)' = OpOf(u)
        BY <2>10 DEF OpOf, PushPublish, Leave, Goto, RingInv, TypeOK
      <3>3. Abstract!Return(t)
        BY <2>10, <3>1, <3>2, OpBecomes
           DEF Abstract!Return, Abstract!Kind, Abstract!Become, Abstract!Idle,
               PushPublish
      <3> QED BY <3>3 DEF Abstract!Next
    <2>11. CASE PopRelease(t)
      <3>1. OpOf(t) = <<"popped", val[t]>> /\ OpOf(t)' = <<"idle">>
        BY <2>11 DEF OpOf, PopRelease, Leave, Goto, RingInv, TypeOK
      <3>2. \A u \in Threads \ {t} : OpOf(u)' = OpOf(u)
        BY <2>11 DEF OpOf, PopRelease, Leave, Goto, RingInv, TypeOK
      <3>3. Abstract!Return(t)
        BY <2>11, <3>1, <3>2, OpBecomes
           DEF Abstract!Return, Abstract!Kind, Abstract!Become, Abstract!Idle,
               PopRelease
      <3> QED BY <3>3 DEF Abstract!Next
    <2>12. (\E d \in Data : PushCall(t, d)) => Abstract!Next
      BY <2>1 DEF Abstract!Next
    <2> QED BY <2>2, <2>3, <2>4, <2>5, <2>6, <2>7, <2>8, <2>9, <2>10, <2>11, <2>12
            DEF PushStep, PopStep
  <1> QED BY <1>1, <1>2

\* The ring implements the bounded FIFO queue of module Fifo: elements come
\* out once and in push order, "full" and "empty" are only reported when the
\* queue is full or empty up to operations that have not returned.
THEOREM RingImplementsFifo == Spec => ImplementsFifo
  <1>1. Init => Abstract!Init
    BY MapInit
  <1>2. RingInv /\ [Next]_vars => [Abstract!Next]_(Abstract!fifoVars)
    BY MapStep
  <1> QED BY <1>1, <1>2, RingInvariant, PTL DEF Spec, ImplementsFifo, Abstract!Spec
=============================================================================
