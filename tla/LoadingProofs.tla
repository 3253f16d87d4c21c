--------------------------- MODULE LoadingProofs ---------------------------
(***************************************************************************)
(* Proofs about module Loading: for all trees, however their dumps are cut *)
(* into appends, for every size of the chunks and of a fresh buffer, and   *)
(* wherever memory runs out or zlib and stdio fail.                        *)
(***************************************************************************)
EXTENDS Loading, SequenceTheorems, WellFoundedInduction, TLAPS

-----------------------------------------------------------------------------
(* The inductive invariant. *)

(* A buffer that has no memory, or has room for what was written to it.    *)
BufferOK(b) ==
  /\ b \in [data : {NULL} \cup Seq(Bytes) \cup Seq(PackedBytes), cap : Nat,
            at : Addresses \cup {NULL}]
  /\ IF b.data = NULL THEN b.at = NULL
     ELSE b.cap > 0 /\ Len(b.data) <= b.cap /\ b.at # NULL

(* A stream, or the beginning of one.                                      *)
IsStream(s) ==
  /\ s \in Seq(PackedBytes)
  /\ \A i \in 1..Len(s) : s[i] = s[1]
  /\ s # <<>> => Len(s) <= s[1][2]

(* As much of feed has been put into buf as pos says: these bytes.         *)
Holds(bytes) == IF pos = 0 THEN buf = BUFFER_INIT ELSE buf.data = bytes

(* The blocks in use are those of the two buffers.                         *)
Heap ==
  /\ BufferOK(buf) /\ BufferOK(held)
  /\ live = {buf.at, held.at} \ {NULL}
  /\ buf.at = held.at => buf.at = NULL

(* Where a caller has a buffer of its own, and where the callee's is gone. *)
Nested ==
  {"pack", "compression_error", "packed",
   "unpack", "end", "decompression_error", "unpacked", "parsed"}

Frames ==
  /\ op \notin Nested => held = BUFFER_INIT
  /\ op = "idle" => buf = BUFFER_INIT
  /\ op = "parsed" => buf.data = NULL

(* What a file holds is the beginning of the stream of the tree that was   *)
(* dumped last.                                                            *)
Disk ==
  /\ IsStream(file)
  /\ file # <<>> => tree \in Trees /\ Content(file) = Raw(tree)

Appending ==
  op \in {"dump", "text"} =>
    /\ tree \in Trees /\ feed = tree.parts /\ file = <<>>
    /\ pos \in 0..Len(feed)
    /\ Holds(Written(feed)[pos])
    /\ op = "dump" => pos # Len(feed)
    /\ last = op

(* A stream of the tree, or an error and no stream.                        *)
Failed == buf.data = NULL /\ errno # "NBT_OK"

IsSaved(s) == IsStream(s) /\ Complete(s) /\ Content(s) = Raw(tree)

Saving ==
  /\ op \in {"dumped", "pack", "compression_error", "packed", "write", "written"} =>
       tree \in Trees /\ last = "dump"
  /\ op = "dumped" => Failed \/ (buf.data = Raw(tree) /\ buf.data \in Seq(Bytes))
  /\ op = "pack" => IsSaved(feed)
  /\ op \in {"packed", "write"} => Failed \/ IsSaved(buf.data)

(* Something has failed, or the file cannot be read.                       *)
Amiss == faulty = TRUE \/ ~Readable(file)

LoadOps == {"read", "read_error", "inflate", "unpack", "end", "decompression_error", "unpacked"}

Reading ==
  /\ op \in LoadOps => last = "load" /\ result = NULL
  /\ op = "read" => feed = file
  /\ op = "read_error" => errno # "NBT_OK" /\ Amiss
  /\ op = "inflate" => (Failed /\ Amiss) \/ buf.data = file

Unpacking ==
  /\ op \in {"unpack", "end"} =>
       /\ held.data = file
       /\ feed \in Seq(Bytes)
       /\ Readable(file) => feed = Content(file)
  /\ op = "decompression_error" => Amiss
  /\ op = "unpacked" => (Failed /\ Amiss) \/ (Readable(file) /\ buf.data = Content(file))

(* The loops: a part of what there is, and all of it when they have ended. *)
Chunks ==
  /\ op \in DOMAIN After => pos \in 0..Len(feed) /\ Holds(SubSeq(feed, 1, pos))
  /\ op = "end" => buf.data = feed

(* What saving and loading have led to.                                    *)
Saved ==
  op = "written" \/ (op = "idle" /\ last = "dump") => (status = "NBT_OK" => Complete(file))

Loaded ==
  op = "parsed" \/ (op = "idle" /\ last = "load") =>
    /\ last = "load"
    /\ IF result = NULL THEN errno # "NBT_OK" /\ (Amiss \/ tree.fails)
       ELSE Readable(file) /\ result = tree

Ops ==
  LoadOps \cup {"idle", "dump", "dumped", "pack", "compression_error", "packed", "write",
                    "written", "parsed", "text", "crashed"}

LoadInv ==
  /\ op \in Ops
  /\ Heap /\ Frames /\ Disk /\ Appending /\ Saving /\ Reading /\ Unpacking /\ Chunks
  /\ Saved /\ Loaded

-----------------------------------------------------------------------------
(* The operators. *)

(* A set of natural numbers that is not empty has a least one: the form of *)
(* induction used below.                                                   *)
LEMMA Least ==
  ASSUME NEW T, T \subseteq Nat, T # {}
  PROVE  \E x \in T : \A y \in T : x <= y
<1>1. IsWellFoundedOn(OpToRel(<, Nat), Nat)
  BY NatLessThanWellFounded
<1>2. PICK x \in T : \A y \in T : ~(<<y, x>> \in OpToRel(<, Nat))
  BY <1>1, WFMin
<1>3. \A y \in T : ~(y < x)
  BY <1>2 DEF OpToRel
<1> QED  BY <1>3

(* c is doubled n times.                                                   *)
Doubles(c, cap, n) == c = [k \in 0..n |-> IF k = 0 THEN cap ELSE 2 * c[k - 1]]

LEMMA DoublesExist ==
  ASSUME NEW cap
  PROVE  \A n \in Nat : \E c : Doubles(c, cap, n)
<1> DEFINE T == {n \in Nat : ~\E c : Doubles(c, cap, n)}
<1> SUFFICES ASSUME T # {} PROVE FALSE
  OBVIOUS
<1>1. PICK n \in T : \A m \in T : n <= m
  <2>1. T \subseteq Nat
    OBVIOUS
  <2> HIDE DEF T
  <2> QED  BY <2>1, Least
<1>2. CASE n = 0
  <2>1. PICK c : c = [k \in 0..0 |-> cap]
    OBVIOUS
  <2>2. Doubles(c, cap, 0)
    BY <2>1 DEF Doubles
  <2> QED  BY <1>2, <2>2
<1>3. CASE n # 0
  <2>1. n - 1 \in Nat /\ n - 1 \notin T
    BY <1>1, <1>3
  <2>2. PICK c : Doubles(c, cap, n - 1)
    BY <2>1
  <2>3. PICK d : d = [k \in 0..n |-> IF k = 0 THEN cap ELSE 2 * c[k - 1]]
    OBVIOUS
  <2>4. \A k \in 0..(n - 1) : d[k] = c[k]
    BY <2>2, <2>3 DEF Doubles
  <2>5. \A k \in 0..n : k # 0 => k - 1 \in 0..(n - 1)
    OBVIOUS
  <2>6. Doubles(d, cap, n)
    BY <2>3, <2>4, <2>5 DEF Doubles
  <2> QED  BY <2>6
<1> QED  BY <1>2, <1>3

LEMMA DoublingsGrow ==
  ASSUME NEW cap \in Nat \ {0}, NEW n \in Nat, NEW k \in 0..n
  PROVE  Doublings(cap, n)[k] \in Nat /\ Doublings(cap, n)[k] > k
<1>1. PICK c : c = Doublings(cap, n)
  OBVIOUS
<1>2. Doubles(c, cap, n)
  <2>1. \E d : Doubles(d, cap, n)
    BY DoublesExist
  <2> QED  BY <1>1, <2>1 DEF Doublings, Doubles
<1> DEFINE T == {m \in 0..n : ~(c[m] \in Nat /\ c[m] > m)}
<1> SUFFICES ASSUME T # {} PROVE FALSE
  BY <1>1
<1>3. PICK m \in T : \A j \in T : m <= j
  <2>1. T \subseteq Nat
    OBVIOUS
  <2> HIDE DEF T
  <2> QED  BY <2>1, Least
<1>4. m # 0
  BY <1>2 DEF Doubles
<1>5. m - 1 \in 0..n /\ m - 1 \notin T
  BY <1>3, <1>4
<1>6. c[m] = 2 * c[m - 1] /\ c[m - 1] \in Nat /\ c[m - 1] > m - 1
  BY <1>2, <1>4, <1>5 DEF Doubles
<1> QED  BY <1>5, <1>6

(* The doubling comes to an end, with enough.                              *)
LEMMA DoubledIsEnough ==
  ASSUME NEW cap \in Nat \ {0}, NEW amount \in Nat
  PROVE  Doubled(cap, amount) \in Nat \ {0} /\ Doubled(cap, amount) >= amount
<1> DEFINE c == Doublings(cap, amount)
           K == {k \in 0..amount : c[k] >= amount}
<1>1. \A k \in 0..amount : c[k] \in Nat /\ c[k] > k
  BY DoublingsGrow
<1> HIDE DEF c
<1>2. amount \in K /\ K \subseteq Nat
  BY <1>1
<1>3. PICK x \in K : \A y \in K : x <= y
  <2> HIDE DEF K
  <2> QED  BY <1>2, Least
<1>4. Min(K) \in K
  <2> HIDE DEF K
  <2> QED  BY <1>3 DEF Min
<1>5. Doubled(cap, amount) = c[Min(K)]
  BY DEF Doubled, c
<1> QED  BY <1>1, <1>4, <1>5

(* w is what the first n parts add up to.                                  *)
Adds(w, parts, n) == w = [k \in 0..n |-> IF k = 0 THEN <<>> ELSE w[k - 1] \o parts[k]]

LEMMA AddsExist ==
  ASSUME NEW parts
  PROVE  \A n \in Nat : \E w : Adds(w, parts, n)
<1> DEFINE T == {n \in Nat : ~\E w : Adds(w, parts, n)}
<1> SUFFICES ASSUME T # {} PROVE FALSE
  OBVIOUS
<1>1. PICK n \in T : \A m \in T : n <= m
  <2>1. T \subseteq Nat
    OBVIOUS
  <2> HIDE DEF T
  <2> QED  BY <2>1, Least
<1>2. CASE n = 0
  <2>1. PICK w : w = [k \in 0..0 |-> <<>>]
    OBVIOUS
  <2>2. Adds(w, parts, 0)
    BY <2>1 DEF Adds
  <2> QED  BY <1>2, <2>2
<1>3. CASE n # 0
  <2>1. n - 1 \in Nat /\ n - 1 \notin T
    BY <1>1, <1>3
  <2>2. PICK w : Adds(w, parts, n - 1)
    BY <2>1
  <2>3. PICK d : d = [k \in 0..n |-> IF k = 0 THEN <<>> ELSE w[k - 1] \o parts[k]]
    OBVIOUS
  <2>4. ASSUME NEW k \in 0..(n - 1) PROVE d[k] = w[k]
    <3>1. w[k] = IF k = 0 THEN <<>> ELSE w[k - 1] \o parts[k]
      BY <2>2, Zenon DEF Adds
    <3>2. k \in 0..n
      OBVIOUS
    <3>3. d[k] = IF k = 0 THEN <<>> ELSE w[k - 1] \o parts[k]
      BY <2>3, <3>2, Zenon
    <3> QED  BY <3>1, <3>3
  <2>5. \A k \in 0..n : k # 0 => k - 1 \in 0..(n - 1)
    OBVIOUS
  <2>6. Adds(d, parts, n)
    BY <2>3, <2>4, <2>5 DEF Adds
  <2> QED  BY <2>6
<1> QED  BY <1>2, <1>3

LEMMA WrittenFacts ==
  ASSUME NEW parts \in Seq(Seq(Bytes))
  PROVE  /\ Written(parts)[0] = <<>>
         /\ \A k \in 1..Len(parts) :
              Written(parts)[k] = Written(parts)[k - 1] \o parts[k]
         /\ \A k \in 0..Len(parts) : Written(parts)[k] \in Seq(Bytes)
<1>1. Len(parts) \in Nat /\ \A k \in 1..Len(parts) : parts[k] \in Seq(Bytes)
  BY LenProperties, ElementOfSeq
<1>2. PICK w : w = Written(parts)
  OBVIOUS
<1>3. Adds(w, parts, Len(parts))
  <2>1. \E d : Adds(d, parts, Len(parts))
    BY <1>1, AddsExist
  <2> QED  BY <1>2, <2>1 DEF Written, Adds
<1>4. w[0] = <<>> /\ \A k \in 1..Len(parts) : w[k] = w[k - 1] \o parts[k]
  <2>1. \A k \in 0..Len(parts) : w[k] = IF k = 0 THEN <<>> ELSE w[k - 1] \o parts[k]
    BY <1>3, Zenon DEF Adds
  <2>2. 0 \in 0..Len(parts) /\ \A k \in 1..Len(parts) : k \in 0..Len(parts) /\ k # 0
    BY <1>1
  <2> QED  BY <2>1, <2>2, Zenon
<1>5. \A k \in 0..Len(parts) : w[k] \in Seq(Bytes)
  <2> DEFINE T == {k \in 0..Len(parts) : w[k] \notin Seq(Bytes)}
  <2> SUFFICES ASSUME T # {} PROVE FALSE
    OBVIOUS
  <2>1. PICK m \in T : \A j \in T : m <= j
    <3>1. T \subseteq Nat
      BY <1>1
    <3> HIDE DEF T
    <3> QED  BY <3>1, Least
  <2>2. m # 0
    BY <1>4, EmptySeq
  <2>3. m - 1 \in 0..Len(parts) /\ m - 1 \notin T /\ m \in 1..Len(parts)
    BY <1>1, <2>1, <2>2
  <2>4. w[m - 1] \in Seq(Bytes) /\ w[m] = w[m - 1] \o parts[m] /\ parts[m] \in Seq(Bytes)
    BY <1>1, <1>4, <2>3
  <2> QED  BY <2>4, ConcatProperties
<1> QED  BY <1>2, <1>4, <1>5

(* What is appended fits, because the amount that is reserved does.        *)
LEMMA AppendFits ==
  ASSUME NEW b, BufferOK(b), NEW S, S = Bytes \/ S = PackedBytes,
         NEW old \in Seq(S), NEW bytes \in Seq(S), NEW amount \in Nat, Len(bytes) <= amount,
         (b.data = NULL /\ old = <<>>) \/ (b.data # NULL /\ b.data = old), NEW a \in Addresses
  PROVE  /\ BufferOK(buffer_append(b, amount, bytes, a))
         /\ buffer_append(b, amount, bytes, a).data = old \o bytes
         /\ buffer_append(b, amount, bytes, a).at = a
<1>1. PICK l : l = lazy_init(b)
  OBVIOUS
<1>2. /\ l = [data |-> old, cap |-> l.cap, at |-> l.at] /\ l.cap \in Nat \ {0}
      /\ Used(b) = Len(old) /\ Len(old) \in Nat
  <2>1. Len(old) \in Nat /\ Len(<<>>) = 0
    BY LenProperties, EmptySeq
  <2>2. CASE b.data = NULL
    <3>1. l = [data |-> <<>>, cap |-> FirstCap, at |-> NULL]
      BY <1>1, <2>2 DEF lazy_init, BUFFER_INIT
    <3> QED  BY <2>1, <2>2, <3>1, LoadingAssumption DEF Used
  <2>3. CASE b.data # NULL
    BY <1>1, <2>1, <2>3 DEF lazy_init, Used, BufferOK
  <2> QED  BY <2>2, <2>3
<1>3. PICK c : c = Doubled(l.cap, Len(old) + amount)
  OBVIOUS
<1>4. c \in Nat \ {0} /\ c >= Len(old) + amount
  BY <1>2, <1>3, DoubledIsEnough
<1>5. buffer_append(b, amount, bytes, a) = [data |-> old \o bytes, cap |-> c, at |-> a]
  <2>1. buffer_reserve(b, Len(old) + amount, a) = [data |-> l.data, cap |-> c, at |-> a]
    BY <1>1, <1>3 DEF buffer_reserve
  <2>2. l.data = old
    BY <1>2
  <2>3. PICK r : r = buffer_reserve(b, Len(old) + amount, a)
    OBVIOUS
  <2>4. r = [data |-> old, cap |-> c, at |-> a]
    BY <2>1, <2>2, <2>3
  <2>5. buffer_append(b, amount, bytes, a) = [r EXCEPT !.data = r.data \o bytes]
    BY <1>2, <2>3 DEF buffer_append
  <2> QED  BY <2>4, <2>5
<1>6. old \o bytes \in Seq(S) /\ Len(old \o bytes) = Len(old) + Len(bytes) /\ Len(bytes) \in Nat
  BY ConcatProperties, LenProperties
<1>7. old \o bytes # NULL /\ a # NULL
  BY <1>6, LoadingAssumption
<1>8. Len(old \o bytes) <= c
  BY <1>2, <1>4, <1>6
<1>9. PICK d : d = old \o bytes
  OBVIOUS
<1>10. d \in {NULL} \cup Seq(Bytes) \cup Seq(PackedBytes) /\ d # NULL /\ Len(d) <= c
  BY <1>6, <1>7, <1>8, <1>9
<1>11. buffer_append(b, amount, bytes, a) = [data |-> d, cap |-> c, at |-> a]
  BY <1>5, <1>9
<1>12. PICK r : r = [data |-> d, cap |-> c, at |-> a]
  OBVIOUS
<1>13. r.data = d /\ r.cap = c /\ r.at = a
  BY <1>12
<1>14. r \in [data : {NULL} \cup Seq(Bytes) \cup Seq(PackedBytes), cap : Nat,
             at : Addresses \cup {NULL}]
  <2>1. PICK D : D = {NULL} \cup Seq(Bytes) \cup Seq(PackedBytes)
    OBVIOUS
  <2>2. d \in D
    BY <1>10, <2>1
  <2>3. r \in [data : D, cap : Nat, at : Addresses \cup {NULL}]
    BY <1>4, <1>12, <2>2
  <2> QED  BY <2>1, <2>3
<1>15. BufferOK(r)
  BY <1>4, <1>7, <1>10, <1>13, <1>14 DEF BufferOK
<1> QED  BY <1>9, <1>11, <1>12, <1>13, <1>15

LEMMA EmptyBuffer == BufferOK(BUFFER_INIT) /\ BUFFER_INIT.data = NULL /\ BUFFER_INIT.at = NULL
  BY DEF BufferOK, BUFFER_INIT

LEMMA StreamIsStream ==
  ASSUME NEW d \in Seq(Bytes), NEW n \in Nat \ {0}
  PROVE  IsStream(Stream(d, n)) /\ Complete(Stream(d, n)) /\ Content(Stream(d, n)) = d
<1>1. PICK s : s = Stream(d, n)
  OBVIOUS
<1>2. <<d, n>> \in PackedBytes
  BY DEF PackedBytes
<1>3. s \in [1..n -> PackedBytes] /\ \A i \in 1..n : s[i] = <<d, n>>
  BY <1>1, <1>2 DEF Stream
<1>4. s \in Seq(PackedBytes) /\ Len(s) = n
  <2> HIDE DEF PackedBytes
  <2> QED  BY <1>3, SeqDef
<1>5. s # <<>>
  BY <1>4
<1>6. s[1] = <<d, n>> /\ s[1][1] = d /\ s[1][2] = n
  BY <1>3
<1> QED  BY <1>1, <1>3, <1>4, <1>5, <1>6 DEF IsStream, Content, Complete

LEMMA StreamPrefix ==
  ASSUME NEW s, IsStream(s), NEW n \in 0..Len(s)
  PROVE  /\ IsStream(SubSeq(s, 1, n))
         /\ SubSeq(s, 1, n) # <<>> => s # <<>> /\ Content(SubSeq(s, 1, n)) = Content(s)
<1>1. /\ s \in Seq(PackedBytes) /\ Len(s) \in Nat
      /\ \A i \in 1..Len(s) : s[i] = s[1] /\ s[i] \in PackedBytes
  BY LenProperties, ElementOfSeq DEF IsStream
<1>2. PICK p : p = SubSeq(s, 1, n)
  OBVIOUS
<1>3. p \in Seq(PackedBytes) /\ Len(p) = n /\ \A i \in 1..n : p[i] = s[i]
  <2>1. \A i \in 1..n : s[i] \in PackedBytes
    BY <1>1
  <2>2. n \in Int /\ n - 1 + 1 = n /\ (IF 1 <= n THEN n - 1 + 1 ELSE 0) = n
    BY <1>1
  <2>3. \A i \in 1..n : 1 + i - 1 = i
    BY <1>1
  <2> HIDE DEF PackedBytes
  <2>4. /\ p \in Seq(PackedBytes)
        /\ Len(p) = IF 1 <= n THEN n - 1 + 1 ELSE 0
        /\ \A i \in 1..(n - 1 + 1) : p[i] = s[1 + i - 1]
    BY <1>2, <2>1, <2>2, SubSeqProperties
  <2> QED  BY <2>2, <2>3, <2>4
<1>4. CASE n = 0
  BY <1>2, <1>3, <1>4, EmptySeq DEF IsStream
<1>5. CASE n # 0
  <2>1. p # <<>> /\ s # <<>> /\ 1 \in 1..n /\ 1 \in 1..Len(s)
    BY <1>1, <1>3, <1>5, EmptySeq
  <2>2. s[1][2] \in Nat /\ Len(s) <= s[1][2]
    BY <1>1, <2>1 DEF IsStream, PackedBytes
  <2>3. p[1] = s[1] /\ \A i \in 1..n : p[i] = s[1]
    BY <1>1, <1>3, <2>1
  <2>4. Len(p) <= p[1][2]
    BY <1>1, <1>3, <2>2, <2>3
  <2> QED  BY <1>2, <1>3, <2>1, <2>3, <2>4 DEF IsStream, Content
<1> QED  BY <1>4, <1>5

LEMMA ContentType ==
  ASSUME NEW s, IsStream(s)
  PROVE  Content(s) \in Seq(Bytes)
<1>1. CASE s = <<>>
  BY <1>1, EmptySeq DEF Content
<1>2. CASE s # <<>>
  <2>1. 1 \in 1..Len(s)
    BY <1>2, EmptySeq DEF IsStream
  <2>2. s[1] \in PackedBytes
    BY <2>1, ElementOfSeq DEF IsStream
  <2> QED  BY <1>2, <2>2 DEF Content, PackedBytes
<1> QED  BY <1>1, <1>2

-----------------------------------------------------------------------------
(* The heap. *)

LEMMA HeapFreeBuf ==
  ASSUME Heap, FreeBuf, held' = held
  PROVE  Heap' /\ buf' = BUFFER_INIT
<1>1. live' = live \ {buf.at} /\ buf' = BUFFER_INIT
  BY DEF FreeBuf
<1>2. live' = {NULL, held.at} \ {NULL}
  BY <1>1 DEF Heap
<1> QED  BY <1>1, <1>2, EmptyBuffer DEF Heap

LEMMA HeapFreeHeld ==
  ASSUME Heap, FreeHeld, buf' = buf
  PROVE  Heap' /\ held' = BUFFER_INIT
<1>1. live' = live \ {held.at} /\ held' = BUFFER_INIT
  BY DEF FreeHeld
<1>2. live' = {buf.at, NULL} \ {NULL}
  BY <1>1 DEF Heap
<1> QED  BY <1>1, <1>2, EmptyBuffer DEF Heap

(* The caller's buffer is the only one.                                    *)
LEMMA HeapTurn ==
  ASSUME Heap, held = BUFFER_INIT, held' = buf, buf' = BUFFER_INIT, live' = live
  PROVE  Heap'
<1>1. live = {buf.at, NULL} \ {NULL}
  BY EmptyBuffer DEF Heap
<1>2. live' = {buf'.at, held'.at} \ {NULL}
  BY <1>1, EmptyBuffer
<1> QED  BY <1>2, EmptyBuffer DEF Heap

(* A failing buffer_reserve leaves a NULL buffer.                          *)
LEMMA HeapReserveFails ==
  ASSUME Heap, NEW amount, buffer_reserve_fails(amount), held' = held
  PROVE  Heap' /\ buf'.data = NULL
<1>1. CASE buf.data = NULL /\ buf' = [BUFFER_INIT EXCEPT !.cap = FirstCap] /\ live' = live
  <2>1. buf' = [data |-> NULL, cap |-> FirstCap, at |-> NULL]
    BY <1>1 DEF BUFFER_INIT
  <2>2. FirstCap \in Nat
    BY LoadingAssumption
  <2>3. buf'.at = NULL /\ buf.at = NULL /\ buf'.data = NULL
    BY <1>1, <2>1 DEF Heap, BufferOK
  <2>4. BufferOK(buf')
    <3>1. PICK D : D = {NULL} \cup Seq(Bytes) \cup Seq(PackedBytes)
      OBVIOUS
    <3>2. buf' \in [data : D, cap : Nat, at : Addresses \cup {NULL}]
      BY <2>1, <2>2, <3>1
    <3> QED  BY <2>3, <3>1, <3>2 DEF BufferOK
  <2> QED  BY <1>1, <2>3, <2>4 DEF Heap
<1>2. CASE live' = live \ {buf.at} /\ buf' = BUFFER_INIT
  BY <1>2, HeapFreeBuf, EmptyBuffer DEF FreeBuf
<1> QED  BY <1>1, <1>2 DEF buffer_reserve_fails

(* What the last buffer points to is all that is left.                     *)
LEMMA LastBlock ==
  ASSUME Heap
  PROVE  /\ held = BUFFER_INIT => live \ {buf.at} = {}
         /\ held = BUFFER_INIT /\ buf.data = NULL => live = {}
         /\ buf.data = NULL => live \ {held.at} = {}
<1>1. held = BUFFER_INIT => held.at = NULL
  BY EmptyBuffer
<1>2. buf.data = NULL => buf.at = NULL
  BY DEF Heap, BufferOK
<1> QED  BY <1>1, <1>2 DEF Heap

LEMMA HeapEmpty ==
  ASSUME buf' = BUFFER_INIT, held' = BUFFER_INIT, live' = {}
  PROVE  Heap'
<1>1. live' = {buf'.at, held'.at} \ {NULL}
  BY EmptyBuffer
<1> QED  BY <1>1, EmptyBuffer DEF Heap

(* The block of a buffer that grows is the old one or a fresh one.         *)
LEMMA HeapPut ==
  ASSUME Heap, NEW S, S = Bytes \/ S = PackedBytes, NEW old \in Seq(S), NEW bytes \in Seq(S),
         NEW amount \in Nat, Len(bytes) <= amount, NEW n, Put(amount, bytes, n),
         IF pos = 0 THEN buf = BUFFER_INIT /\ old = <<>> ELSE buf.data = old
  PROVE  Heap' /\ buf'.data = old \o bytes
<1>1. PICK a \in Places(buf, amount) :
        buf' = buffer_append(buf, amount, bytes, a) /\ live' = (live \ {buf.at}) \cup {a}
  BY DEF Put
<1>2. held' = held
  BY DEF Put
<1>3. BufferOK(buf) /\ live = {buf.at, held.at} \ {NULL} /\ (buf.at = held.at => buf.at = NULL)
  BY DEF Heap
<1>4. a \in Addresses /\ (a \notin live \/ a = buf.at)
  <2>1. CASE buf.data = NULL \/ buf.cap < Used(buf) + amount
    BY <1>1, <2>1 DEF Places
  <2>2. CASE ~(buf.data = NULL \/ buf.cap < Used(buf) + amount)
    BY <1>1, <1>3, <2>2 DEF Places, BufferOK
  <2> QED  BY <2>1, <2>2
<1>5. IF buf.data = NULL THEN old = <<>> ELSE buf.data = old
  <2>1. old # NULL
    BY LoadingAssumption
  <2> QED  BY <2>1 DEF BUFFER_INIT
<1>6. BufferOK(buf') /\ buf'.data = old \o bytes /\ buf'.at = a
  <2>1. PICK r : r = buffer_append(buf, amount, bytes, a)
    OBVIOUS
  <2>2. BufferOK(r) /\ r.data = old \o bytes /\ r.at = a
    <3>1. PICK b : b = buf
      OBVIOUS
    <3>2. BufferOK(b) /\ ((b.data = NULL /\ old = <<>>) \/ (b.data # NULL /\ b.data = old))
      BY <1>3, <1>5, <3>1
    <3>3. r = buffer_append(b, amount, bytes, a) /\ a \in Addresses
      BY <1>4, <2>1, <3>1
    <3> QED  BY <3>2, <3>3, AppendFits
  <2>3. buf' = r
    BY <1>1, <2>1
  <2> QED  BY <2>2, <2>3
<1>7. a # NULL
  BY <1>4, LoadingAssumption
<1>8. a # held.at
  BY <1>3, <1>4, <1>7
<1>9. live' = {a, held.at} \ {NULL}
  BY <1>1, <1>3, <1>7
<1> QED  BY <1>2, <1>6, <1>8, <1>9 DEF Heap

-----------------------------------------------------------------------------
(* The steps. *)

LEMMA InitLoad == Init => LoadInv
<1> SUFFICES ASSUME Init PROVE LoadInv
  OBVIOUS
<1>1. Heap
  <2>1. live = {buf.at, held.at} \ {NULL}
    BY EmptyBuffer DEF Init
  <2> QED  BY <2>1, EmptyBuffer DEF Init, Heap
<1>2. Disk
  <2>1. IsStream(<<>>)
    BY EmptySeq DEF IsStream
  <2> QED  BY <2>1 DEF Init, Disk
<1> QED
  BY <1>1, <1>2 DEF Init, LoadInv, Ops, LoadOps, Frames, Appending, Saving, Reading, Unpacking,
                    Chunks, Saved, Loaded, After

(* A call starts, with nothing in memory.                                  *)
LEMMA CallKeeps ==
  ASSUME LoadInv, NEW name, NEW first \in {"dump", "text", "read"}, NEW bytes,
         Call(name, first, bytes)
  PROVE  /\ op' = first /\ last' = name /\ feed' = bytes /\ pos' = 0 /\ result' = NULL
         /\ Heap' /\ Frames' /\ buf' = BUFFER_INIT /\ Saved' /\ Loaded'
<1>1. /\ op = "idle" /\ op' = first /\ last' = name /\ feed' = bytes /\ pos' = 0
      /\ result' = NULL /\ UNCHANGED <<buf, held, live>>
  BY DEF Call, memory
<1>2. buf = BUFFER_INIT /\ held = BUFFER_INIT
  BY <1>1 DEF LoadInv, Frames, Nested
<1> QED  BY <1>1, <1>2 DEF LoadInv, Heap, Frames, Saved, Loaded

(* A call returns.                                                         *)
LEMMA ReturnKeeps ==
  ASSUME LoadInv, Return, live' = {}, Saved', Loaded'
  PROVE  LoadInv'
<1>1. /\ op' = "idle" /\ buf' = BUFFER_INIT /\ held' = BUFFER_INIT
      /\ UNCHANGED <<last, tree, file, bad>>
  BY DEF Return, call, disk
<1>2. Heap'
  BY <1>1, HeapEmpty
<1>3. Disk'
  BY <1>1 DEF LoadInv, Disk
<1> QED
  BY <1>1, <1>2, <1>3 DEF LoadInv, Ops, LoadOps, Frames, Nested, Appending, Saving, Reading,
                          Unpacking, Chunks, After

(* The parts of the tree that is dumped, or printed.                       *)
LEMMA PartFacts ==
  ASSUME LoadInv, op \in {"dump", "text"}
  PROVE  /\ feed = tree.parts /\ feed \in Seq(Seq(Bytes)) /\ Len(feed) \in Nat \ {0}
         /\ pos \in 0..Len(feed) /\ tree \in Trees
         /\ Written(feed)[pos] \in Seq(Bytes)
<1>1. tree \in Trees /\ feed = tree.parts /\ pos \in 0..Len(feed)
  BY DEF LoadInv, Appending
<1>2. feed \in Seq(Seq(Bytes)) /\ feed # <<>>
  BY <1>1, LoadingAssumption
<1> QED  BY <1>1, <1>2, EmptySeq, WrittenFacts

LEMMA AppendKeeps ==
  ASSUME LoadInv, op \in {"dump", "text"}, More, NEW amount \in Nat,
         Len(feed[pos + 1]) <= amount, Put(amount, feed[pos + 1], 1),
         op' = IF op = "text" \/ pos + 1 < Len(feed) THEN op ELSE "dumped"
  PROVE  LoadInv'
<1>1. /\ feed = tree.parts /\ feed \in Seq(Seq(Bytes)) /\ Len(feed) \in Nat
      /\ pos \in 0..Len(feed) /\ tree \in Trees /\ Written(feed)[pos] \in Seq(Bytes)
  BY PartFacts
<1>2. pos + 1 \in 1..Len(feed) /\ (pos + 1) - 1 = pos /\ pos + 1 # 0
  BY <1>1 DEF More
<1>3. feed[pos + 1] \in Seq(Bytes)
  BY <1>1, <1>2, ElementOfSeq
<1>4. IF pos = 0 THEN buf = BUFFER_INIT /\ Written(feed)[pos] = <<>>
                 ELSE buf.data = Written(feed)[pos]
  BY <1>1, WrittenFacts DEF LoadInv, Appending, Holds
<1>5. Heap' /\ buf'.data = Written(feed)[pos] \o feed[pos + 1]
  BY <1>1, <1>3, <1>4, HeapPut DEF LoadInv
<1>6. /\ pos' = pos + 1 /\ UNCHANGED <<held, feed, last, tree, file, bad>>
  BY DEF Put, call, disk
<1>7. buf'.data = Written(feed)[pos + 1]
  BY <1>1, <1>2, <1>5, WrittenFacts
<1>8. Holds(Written(feed)[pos])'
  BY <1>2, <1>6, <1>7 DEF Holds
<1>9. Frames'
  BY <1>6 DEF LoadInv, Frames, Nested
<1>10. last = op /\ file = <<>>
  BY DEF LoadInv, Appending
<1>11. CASE op' = op
  <2>1. op = "dump" => pos + 1 # Len(feed)
    BY <1>1, <1>11
  <2>2. Appending'
    BY <1>1, <1>2, <1>6, <1>8, <1>10, <1>11, <2>1 DEF Appending
  <2> QED  BY <1>5, <1>6, <1>9, <1>11, <2>2
           DEF LoadInv, Ops, LoadOps, Disk, Saving, Reading, Unpacking, Chunks, After, Saved, Loaded
<1>12. CASE op' = "dumped" /\ op = "dump" /\ ~(pos + 1 < Len(feed))
  <2>1. pos + 1 = Len(feed)
    BY <1>1, <1>2, <1>12
  <2>2. buf'.data = Raw(tree')
    BY <1>1, <1>6, <1>7, <2>1 DEF Raw
  <2>3. buf'.data \in Seq(Bytes)
    <3>1. pos + 1 \in 0..Len(feed)
      BY <1>1, <1>2
    <3>2. Written(feed)[pos + 1] \in Seq(Bytes)
      BY <1>1, <3>1, WrittenFacts
    <3> QED  BY <1>7, <3>2
  <2>4. Saving'
    BY <1>1, <1>6, <1>10, <1>12, <2>2, <2>3 DEF Saving
  <2> QED  BY <1>5, <1>6, <1>9, <1>12, <2>4
           DEF LoadInv, Ops, LoadOps, Disk, Appending, Reading, Unpacking, Chunks, After, Saved, Loaded
<1> QED  BY <1>11, <1>12

(* What is to be put into buf in the loops.                                *)
LEMMA FeedType ==
  ASSUME LoadInv, op \in DOMAIN After
  PROVE  \E S : (S = Bytes \/ S = PackedBytes) /\ feed \in Seq(S)
<1>1. op \in {"pack", "read", "unpack"}
  BY DEF After
<1>2. CASE op = "pack"
  BY <1>2 DEF LoadInv, Saving, IsSaved, IsStream
<1>3. CASE op = "read"
  BY <1>3 DEF LoadInv, Reading, Disk, IsStream
<1>4. CASE op = "unpack"
  BY <1>4 DEF LoadInv, Unpacking
<1> QED  BY <1>1, <1>2, <1>3, <1>4

(* A chunk is filled, or it is the last one.                               *)
LEMMA PortionFacts ==
  ASSUME NEW S, feed \in Seq(S), pos \in 0..Len(feed)
  PROVE  /\ Portion \in Seq(S) /\ Len(Portion) \in Nat /\ Len(Portion) <= CHUNK_SIZE
         /\ pos + Len(Portion) \in 0..Len(feed)
         /\ SubSeq(feed, 1, pos) \in Seq(S)
         /\ SubSeq(feed, 1, pos) \o Portion = SubSeq(feed, 1, pos + Len(Portion))
         /\ Len(Portion) # CHUNK_SIZE => pos + Len(Portion) = Len(feed)
<1>1. Len(feed) \in Nat /\ CHUNK_SIZE \in Nat \ {0} /\ pos \in Nat
  BY LenProperties, LoadingAssumption
<1>2. PICK m : m = Min({Len(feed), pos + CHUNK_SIZE})
  OBVIOUS
<1>3. m = IF Len(feed) <= pos + CHUNK_SIZE THEN Len(feed) ELSE pos + CHUNK_SIZE
  <2> DEFINE K == {Len(feed), pos + CHUNK_SIZE}
  <2>1. PICK x \in K : \A y \in K : x <= y
    BY <1>1
  <2>2. Min(K) \in K /\ \A y \in K : Min(K) <= y
    <3> HIDE DEF K
    <3> QED  BY <2>1 DEF Min
  <2>3. m \in K /\ \A y \in K : m <= y
    BY <1>2, <2>2
  <2> QED  BY <1>1, <2>3
<1>4. m \in Nat /\ pos <= m /\ m <= Len(feed) /\ m - pos <= CHUNK_SIZE
  BY <1>1, <1>3
<1>5. Portion = SubSeq(feed, pos + 1, m)
  BY <1>2 DEF Portion
<1>6. \A i \in 1..Len(feed) : feed[i] \in S
  BY ElementOfSeq
<1>7. Portion \in Seq(S) /\ Len(Portion) = m - pos
  <2>1. \A i \in (pos + 1)..m : feed[i] \in S
    BY <1>1, <1>4, <1>6
  <2>2. pos + 1 \in Int /\ m \in Int
    BY <1>1, <1>4
  <2>3. /\ Portion \in Seq(S)
        /\ Len(Portion) = IF pos + 1 <= m THEN m - (pos + 1) + 1 ELSE 0
    BY <1>5, <2>1, <2>2, SubSeqProperties
  <2> QED  BY <1>1, <1>4, <2>3
<1>8. SubSeq(feed, 1, pos) \in Seq(S)
  <2>1. \A i \in 1..pos : feed[i] \in S
    BY <1>1, <1>6
  <2> QED  BY <1>1, <2>1, SubSeqProperties
<1>9. SubSeq(feed, 1, pos) \o Portion = SubSeq(feed, 1, m)
  <2>1. 1 \in 1..(Len(feed) + 1) /\ pos \in (1 - 1)..Len(feed) /\ m \in pos..Len(feed)
    BY <1>1, <1>4
  <2> QED  BY <1>5, <2>1, ConcatAdjacentSubSeq
<1>10. pos + Len(Portion) = m
  BY <1>1, <1>4, <1>7
<1> QED  BY <1>1, <1>3, <1>4, <1>7, <1>8, <1>9, <1>10

LEMMA ChunkKeeps ==
  ASSUME LoadInv, Chunk
  PROVE  LoadInv'
<1>1. /\ op \in {"pack", "read", "unpack"} /\ op \in DOMAIN After
      /\ Put(CHUNK_SIZE, Portion, Len(Portion))
      /\ op' = IF Len(Portion) = CHUNK_SIZE THEN op ELSE After[op]
  BY DEF Chunk, After
<1>2. PICK S : (S = Bytes \/ S = PackedBytes) /\ feed \in Seq(S)
  BY <1>1, FeedType
<1>3. pos \in 0..Len(feed) /\ Holds(SubSeq(feed, 1, pos))
  BY <1>1 DEF LoadInv, Chunks
<1>4. /\ Portion \in Seq(S) /\ Len(Portion) \in Nat /\ Len(Portion) <= CHUNK_SIZE
      /\ pos + Len(Portion) \in 0..Len(feed)
      /\ SubSeq(feed, 1, pos) \in Seq(S)
      /\ SubSeq(feed, 1, pos) \o Portion = SubSeq(feed, 1, pos + Len(Portion))
      /\ Len(Portion) # CHUNK_SIZE => pos + Len(Portion) = Len(feed)
  BY <1>2, <1>3, PortionFacts
<1>5. IF pos = 0 THEN buf = BUFFER_INIT /\ SubSeq(feed, 1, pos) = <<>>
                 ELSE buf.data = SubSeq(feed, 1, pos)
  BY <1>3, SubSeqEmpty DEF Holds
<1>6. CHUNK_SIZE \in Nat \ {0}
  BY LoadingAssumption
<1>7. Heap' /\ buf'.data = SubSeq(feed, 1, pos) \o Portion
  BY <1>1, <1>2, <1>4, <1>5, <1>6, HeapPut DEF LoadInv
<1>8. /\ pos' = pos + Len(Portion)
      /\ UNCHANGED <<held, feed, last, tree, errno, status, result, file, bad, faulty>>
  BY <1>1 DEF Put, call, outcome, disk
<1>9. buf'.data = SubSeq(feed, 1, pos') /\ pos' \in 0..Len(feed)
  BY <1>4, <1>7, <1>8
<1>10. CASE Len(Portion) = CHUNK_SIZE
  <2>1. op' = op
    BY <1>1, <1>10
  <2>2. pos' # 0
    BY <1>3, <1>6, <1>8, <1>10
  <2>3. Holds(SubSeq(feed, 1, pos))'
    BY <1>8, <1>9, <2>2 DEF Holds
  <2>4. Chunks'
    BY <1>1, <1>8, <1>9, <2>1, <2>3 DEF Chunks
  <2> QED  BY <1>1, <1>7, <1>8, <2>1, <2>4
           DEF LoadInv, Frames, Nested, Disk, Appending, Saving, IsSaved, Reading, Unpacking,
               Readable, Saved, Loaded, LoadOps
<1>11. CASE Len(Portion) # CHUNK_SIZE
  <2>1. buf'.data = feed
    BY <1>2, <1>4, <1>8, <1>9, <1>11, SubSeqFull
  <2>2. op' = After[op]
    BY <1>1, <1>11
  <2>3. CASE op = "pack"
    <3>1. op' = "packed"
      BY <2>2, <2>3 DEF After
    <3>2. Saving'
      BY <1>8, <2>1, <2>3, <3>1 DEF LoadInv, Saving, IsSaved
    <3> QED  BY <1>7, <1>8, <2>3, <3>1, <3>2
             DEF LoadInv, Ops, LoadOps, Frames, Nested, Disk, Appending, Reading, Unpacking,
                 Chunks, After, Saved, Loaded
  <2>4. CASE op = "read"
    <3>1. op' = "inflate"
      BY <2>2, <2>4 DEF After
    <3>2. Reading'
      BY <1>8, <2>1, <2>4, <3>1 DEF LoadInv, Reading, LoadOps
    <3> QED  BY <1>7, <1>8, <2>4, <3>1, <3>2
             DEF LoadInv, Ops, LoadOps, Frames, Nested, Disk, Appending, Saving, Unpacking,
                 Chunks, After, Saved, Loaded
  <2>5. CASE op = "unpack"
    <3>1. op' = "end"
      BY <2>2, <2>5 DEF After
    <3>2. Reading' /\ Unpacking'
      BY <1>8, <2>5, <3>1 DEF LoadInv, Reading, LoadOps, Unpacking, Readable
    <3> QED  BY <1>7, <1>8, <2>1, <2>5, <3>1, <3>2
             DEF LoadInv, Ops, LoadOps, Frames, Nested, Disk, Appending, Saving,
                 Chunks, After, Saved, Loaded
  <2> QED  BY <1>1, <2>3, <2>4, <2>5
<1> QED  BY <1>10, <1>11

(* A loop fails: the buffer is intact, or buffer_reserve has freed it.     *)
LEMMA FailKeeps ==
  ASSUME LoadInv, NoMemory \/ LibraryFails
  PROVE  LoadInv'
<1>1. /\ op \in {"dump", "pack", "read", "unpack"} /\ op' = OnError[op] /\ faulty' = TRUE
      /\ UNCHANGED <<held, last, tree, status, result, file, bad>>
  BY DEF NoMemory, LibraryFails, OnError, After, memory, call, disk
<1>2. Heap' /\ (NoMemory => buf'.data = NULL /\ errno' = "NBT_EMEM")
  <2>1. CASE NoMemory
    <3>1. PICK amount : buffer_reserve_fails(amount)
      BY <2>1 DEF NoMemory
    <3>2. Heap' /\ buf'.data = NULL
      BY <1>1, <3>1, HeapReserveFails DEF LoadInv
    <3> QED  BY <2>1, <3>2 DEF NoMemory
  <2>2. CASE LibraryFails /\ ~NoMemory
    BY <2>2 DEF LibraryFails, memory, LoadInv, Heap
  <2> QED  BY <2>1, <2>2
<1>3. CASE op = "dump"
  <2>1. NoMemory
    BY <1>3 DEF LibraryFails
  <2>2. op' = "dumped" /\ tree \in Trees /\ last = "dump"
    BY <1>1, <1>3 DEF OnError, LoadInv, Appending
  <2>3. Saving'
    BY <1>1, <1>2, <2>1, <2>2 DEF Saving, Failed
  <2> QED  BY <1>1, <1>2, <1>3, <2>2, <2>3
           DEF LoadInv, Ops, LoadOps, Frames, Nested, Disk, Appending, Reading, Unpacking,
               Chunks, After, Saved, Loaded
<1>4. CASE op = "pack"
  <2>1. op' = "compression_error"
    BY <1>1, <1>4 DEF OnError
  <2> QED  BY <1>1, <1>2, <1>4, <2>1
           DEF LoadInv, Ops, LoadOps, Frames, Nested, Disk, Appending, Saving, Reading, Unpacking,
               Chunks, After, Saved, Loaded
<1>5. CASE op = "read"
  <2>1. op' = "read_error" /\ errno' # "NBT_OK"
    BY <1>1, <1>2, <1>5 DEF OnError, LibraryFails
  <2> QED  BY <1>1, <1>2, <1>5, <2>1
           DEF LoadInv, Ops, LoadOps, Frames, Nested, Disk, Appending, Saving, Reading, Amiss,
               Unpacking, Chunks, After, Saved, Loaded
<1>6. CASE op = "unpack"
  <2>1. op' = "decompression_error"
    BY <1>1, <1>6 DEF OnError
  <2> QED  BY <1>1, <1>2, <1>6, <2>1
           DEF LoadInv, Ops, LoadOps, Frames, Nested, Disk, Appending, Saving, Reading, Amiss,
               Unpacking, Chunks, After, Saved, Loaded
<1> QED  BY <1>1, <1>3, <1>4, <1>5, <1>6

(* The error exit of a loop: its caller gets no buffer, and an error.      *)
LEMMA AbandonKeeps ==
  ASSUME LoadInv, Abandon
  PROVE  LoadInv'
<1>1. /\ op \in {"compression_error", "read_error", "decompression_error"} /\ op' = Caller[op]
      /\ errno' # "NBT_OK" /\ FreeBuf
      /\ UNCHANGED <<held, last, tree, status, result, file, bad, faulty>>
  BY DEF Abandon, Caller, call, disk
<1>2. Heap' /\ buf'.data = NULL
  BY <1>1, HeapFreeBuf, EmptyBuffer DEF LoadInv
<1>3. Failed'
  BY <1>1, <1>2 DEF Failed
<1>4. Amiss' = Amiss
  BY <1>1 DEF Amiss, Readable
<1>5. CASE op = "compression_error"
  <2>1. op' = "packed"
    BY <1>1, <1>5 DEF Caller
  <2> QED  BY <1>1, <1>2, <1>3, <1>5, <2>1
           DEF LoadInv, Ops, LoadOps, Frames, Nested, Disk, Appending, Saving, Reading, Unpacking,
               Chunks, After, Saved, Loaded
<1>6. CASE op = "read_error"
  <2>1. op' = "inflate"
    BY <1>1, <1>6 DEF Caller
  <2> QED  BY <1>1, <1>2, <1>3, <1>4, <1>6, <2>1
           DEF LoadInv, Ops, LoadOps, Frames, Nested, Disk, Appending, Saving, Reading, Unpacking,
               Chunks, After, Saved, Loaded
<1>7. CASE op = "decompression_error"
  <2>1. op' = "unpacked"
    BY <1>1, <1>7 DEF Caller
  <2> QED  BY <1>1, <1>2, <1>3, <1>4, <1>7, <2>1
           DEF LoadInv, Ops, LoadOps, Frames, Nested, Disk, Appending, Saving, Reading, Unpacking,
               Chunks, After, Saved, Loaded
<1> QED  BY <1>1, <1>5, <1>6, <1>7

(* The work goes on with what buf holds.                                   *)
LEMMA TurnKeeps ==
  ASSUME LoadInv, op \in {"dumped", "inflate"},
         NEW to \in {"pack", "packed", "unpack", "unpacked"}, NEW bytes, NEW error,
         Turn(to, bytes, error)
  PROVE  /\ Heap' /\ Frames' /\ Disk' /\ op' = to
         /\ held' = buf /\ buf' = BUFFER_INIT /\ buf'.data = NULL /\ feed' = bytes /\ pos' = 0
         /\ errno' = error /\ UNCHANGED <<last, tree, result, file, bad>>
         /\ Appending' /\ Saved' /\ Loaded'
<1>1. /\ op' = to /\ held' = buf /\ buf' = BUFFER_INIT /\ feed' = bytes /\ pos' = 0
      /\ errno' = error /\ UNCHANGED <<live, last, tree, result, file, bad>>
  BY DEF Turn, call, disk
<1>2. held = BUFFER_INIT
  BY DEF LoadInv, Frames, Nested
<1>3. Heap' /\ buf'.data = NULL
  BY <1>1, <1>2, HeapTurn, EmptyBuffer DEF LoadInv
<1> QED  BY <1>1, <1>3 DEF LoadInv, Frames, Nested, Disk, Appending, Saved, Loaded

LEMMA InitFailsKeeps ==
  ASSUME LoadInv, InitFails
  PROVE  LoadInv'
<1>1. CASE op = "dumped"
  <2>1. Turn("packed", <<>>, "NBT_EZ") /\ faulty' = TRUE
    BY <1>1 DEF InitFails
  <2>2. /\ Heap' /\ Frames' /\ Disk' /\ op' = "packed" /\ buf'.data = NULL /\ errno' = "NBT_EZ"
        /\ UNCHANGED <<last, tree>> /\ Appending' /\ Saved' /\ Loaded'
    BY <1>1, <2>1, TurnKeeps
  <2>3. Saving'
    BY <1>1, <2>2 DEF LoadInv, Saving, Failed
  <2> QED  BY <2>2, <2>3 DEF LoadInv, Ops, LoadOps, Reading, Unpacking, Chunks, After
<1>2. CASE op = "inflate"
  <2>1. Turn("unpacked", <<>>, "NBT_EZ") /\ faulty' = TRUE
    BY <1>2 DEF InitFails
  <2>2. /\ Heap' /\ Frames' /\ Disk' /\ op' = "unpacked" /\ buf'.data = NULL /\ errno' = "NBT_EZ"
        /\ UNCHANGED <<last, tree, result>> /\ Appending' /\ Saved' /\ Loaded'
    BY <1>2, <2>1, TurnKeeps
  <2>3. Reading' /\ Unpacking'
    BY <1>2, <2>1, <2>2 DEF LoadInv, Reading, LoadOps, Unpacking, Failed, Amiss
  <2> QED  BY <2>2, <2>3 DEF LoadInv, Ops, LoadOps, Saving, Chunks, After
<1> QED  BY <1>1, <1>2 DEF InitFails

(* All of the parts have been appended: what was dumped is complete.       *)
LEMMA CompressKeeps ==
  ASSUME LoadInv, NEW n \in Packed, Compress(n)
  PROVE  LoadInv'
<1>1. op = "dumped" /\ buf.data # NULL /\ Turn("pack", Stream(buf.data, n), "NBT_OK")
  BY DEF Compress
<1>2. buf.data = Raw(tree) /\ buf.data \in Seq(Bytes) /\ tree \in Trees /\ last = "dump"
  BY <1>1 DEF LoadInv, Saving, Failed
<1>3. n \in Nat \ {0}
  BY LoadingAssumption
<1>4. PICK s : s = Stream(buf.data, n)
  OBVIOUS
<1>5. IsSaved(s) /\ s \in Seq(PackedBytes)
  BY <1>2, <1>3, <1>4, StreamIsStream DEF IsSaved, IsStream
<1>6. /\ Heap' /\ Frames' /\ Disk' /\ op' = "pack" /\ buf' = BUFFER_INIT /\ feed' = s /\ pos' = 0
      /\ UNCHANGED <<last, tree>> /\ Appending' /\ Saved' /\ Loaded'
  BY <1>1, <1>4, TurnKeeps
<1>7. Saving'
  BY <1>2, <1>5, <1>6 DEF Saving, IsSaved
<1>8. Chunks'
  <2>1. Len(feed') \in Nat
    BY <1>5, <1>6, LenProperties
  <2>2. Holds(SubSeq(feed, 1, pos))'
    BY <1>6 DEF Holds
  <2>3. (pos \in 0..Len(feed))'
    BY <1>6, <2>1
  <2> QED  BY <1>6, <2>2, <2>3 DEF Chunks
<1> QED  BY <1>6, <1>7, <1>8 DEF LoadInv, Ops, LoadOps, Reading, Unpacking

(* nbt_dump_compressed returns: what was dumped is freed, or never was.    *)
LEMMA DumpedKeeps ==
  ASSUME LoadInv, NotDumped \/ DumpFreed
  PROVE  LoadInv'
<1>1. /\ op \in {"dumped", "packed"} /\ op' = "write"
      /\ UNCHANGED <<last, tree, errno, status, result, file, bad, faulty>>
  BY DEF NotDumped, DumpFreed, call, outcome, disk
<1>2. Heap' /\ held' = BUFFER_INIT /\ buf'.data = buf.data
  <2>1. CASE NotDumped
    <3>1. /\ op = "dumped" /\ buf.data = NULL /\ buf' = BUFFER_INIT /\ held' = held
          /\ live' = live
      BY <2>1 DEF NotDumped
    <3>2. held = BUFFER_INIT
      BY <3>1 DEF LoadInv, Frames, Nested
    <3>3. live = {}
      BY <3>1, <3>2, LastBlock DEF LoadInv
    <3> QED  BY <3>1, <3>2, <3>3, HeapEmpty, EmptyBuffer
  <2>2. CASE DumpFreed
    BY <2>2, HeapFreeHeld DEF DumpFreed, LoadInv
  <2> QED  BY <2>1, <2>2
<1>3. Saving'
  <2>1. op = "dumped" => buf.data = NULL
    BY DEF NotDumped, DumpFreed
  <2>2. Failed \/ IsSaved(buf.data)
    BY <1>1, <2>1, LoadingAssumption DEF LoadInv, Saving, Failed
  <2> QED  BY <1>1, <1>2, <2>2 DEF LoadInv, Saving, Failed, IsSaved
<1> QED  BY <1>1, <1>2, <1>3
         DEF LoadInv, Ops, LoadOps, Frames, Nested, Disk, Appending, Reading, Unpacking,
             Chunks, After, Saved, Loaded

(* What is left in the file is the beginning of what was compressed, also  *)
(* when writing fails.                                                     *)
LEMMA WriteKeeps ==
  ASSUME LoadInv, op = "write", buf.data # NULL, NEW n \in 0..Len(buf.data),
         op' = "written", file' = SubSeq(buf.data, 1, n), UNCHANGED <<memory, call>>,
         status' = "NBT_OK" => file' = buf.data
  PROVE  LoadInv'
<1>1. IsSaved(buf.data) /\ last = "dump" /\ tree \in Trees
  BY DEF LoadInv, Saving, Failed
<1>2. UNCHANGED <<buf, held, live, last, tree>>
  BY DEF memory, call
<1>3. IsStream(file') /\ (file' # <<>> => Content(file') = Raw(tree))
  BY <1>1, StreamPrefix DEF IsSaved
<1>4. Disk'
  BY <1>1, <1>2, <1>3 DEF Disk
<1>5. Saved'
  BY <1>1 DEF Saved, IsSaved
<1> QED  BY <1>1, <1>2, <1>4, <1>5
         DEF LoadInv, Ops, LoadOps, Heap, Frames, Nested, Appending, Saving, Reading, Unpacking,
             Chunks, After, Loaded

(* nbt_dump_file returns.                                                  *)
LEMMA SaveEndKeeps ==
  ASSUME LoadInv, NotPacked \/ SaveEnds
  PROVE  LoadInv'
<1>1. op \in {"write", "written"} /\ last = "dump" /\ held = BUFFER_INIT
  BY DEF NotPacked, SaveEnds, LoadInv, Saving, Frames, Nested
<1>2. Return /\ op' = "idle" /\ last' = "dump" /\ file' = file
  BY <1>1 DEF NotPacked, SaveEnds, Return, call, disk
<1>3. live' = {}
  BY <1>1, LastBlock DEF NotPacked, SaveEnds, LoadInv
<1>4. Saved'
  <2>1. CASE NotPacked
    <3>1. op = "write" /\ buf.data = NULL /\ status' = errno
      BY <2>1 DEF NotPacked
    <3>2. errno # "NBT_OK"
      <4>1. ~IsSaved(NULL)
        BY LoadingAssumption DEF IsSaved, IsStream
      <4> QED  BY <3>1, <4>1 DEF LoadInv, Saving, Failed
    <3> QED  BY <3>1, <3>2 DEF Saved
  <2>2. CASE SaveEnds
    BY <1>2, <2>2 DEF SaveEnds, outcome, LoadInv, Saved
  <2> QED  BY <2>1, <2>2
<1>5. Loaded'
  BY <1>2 DEF Loaded
<1> QED  BY <1>2, <1>3, <1>4, <1>5, ReturnKeeps

LEMMA DecompressKeeps ==
  ASSUME LoadInv, NEW n, Decompress(n)
  PROVE  LoadInv'
<1>1. /\ op = "inflate" /\ buf.data # NULL /\ n \in 0..Len(Content(file))
      /\ Readable(buf.data) => n = Len(Content(file))
      /\ Turn("unpack", SubSeq(Content(file), 1, n), "NBT_OK") /\ faulty' = faulty
  BY DEF Decompress
<1>2. buf.data = file /\ last = "load" /\ result = NULL
  BY <1>1 DEF LoadInv, Reading, LoadOps, Failed
<1>3. PICK c \in Seq(Bytes) : c = Content(file)
  BY ContentType DEF LoadInv, Disk
<1>4. PICK s : s = SubSeq(c, 1, n)
  OBVIOUS
<1>5. /\ Heap' /\ Frames' /\ Disk' /\ op' = "unpack"
      /\ held' = buf /\ buf' = BUFFER_INIT /\ feed' = s /\ pos' = 0
      /\ UNCHANGED <<last, tree, result, file, bad>> /\ Appending' /\ Saved' /\ Loaded'
  BY <1>1, <1>3, <1>4, TurnKeeps
<1>6. Len(c) \in Nat /\ \A i \in 1..Len(c) : c[i] \in Bytes
  BY <1>3, LenProperties, ElementOfSeq
<1>7. s \in Seq(Bytes)
  <2>1. \A i \in 1..n : c[i] \in Bytes
    BY <1>1, <1>3, <1>6
  <2> QED  BY <1>1, <1>3, <1>4, <1>6, <2>1, SubSeqProperties
<1>8. (Readable(file) => feed = Content(file))'
  <2>1. Readable(file)' => n = Len(c)
    BY <1>1, <1>2, <1>3, <1>5 DEF Readable
  <2>2. SubSeq(c, 1, Len(c)) = c
    BY SubSeqFull
  <2> QED  BY <1>3, <1>4, <1>5, <2>1, <2>2 DEF Readable
<1>9. Unpacking'
  BY <1>2, <1>5, <1>7, <1>8 DEF Unpacking
<1>10. Reading'
  BY <1>2, <1>5 DEF Reading, LoadOps
<1>11. Chunks'
  <2>1. (pos \in 0..Len(feed))'
    BY <1>5, <1>7, LenProperties
  <2>2. Holds(SubSeq(feed, 1, pos))'
    BY <1>5 DEF Holds
  <2> QED  BY <1>5, <2>1, <2>2 DEF Chunks
<1> QED  BY <1>5, <1>9, <1>10, <1>11 DEF LoadInv, Ops, LoadOps, Saving

LEMMA StreamEndKeeps ==
  ASSUME LoadInv, StreamEnd
  PROVE  LoadInv'
<1>1. /\ op = "end" /\ op' = IF Readable(held.data) THEN "unpacked" ELSE "decompression_error"
      /\ UNCHANGED <<buf, held, live, last, tree, errno, status, result, file, bad, faulty>>
  BY DEF StreamEnd, memory, call, outcome, disk
<1>2. /\ held.data = file /\ buf.data = feed /\ last = "load" /\ result = NULL
      /\ Readable(file) => feed = Content(file)
  BY <1>1 DEF LoadInv, Reading, LoadOps, Unpacking, Chunks
<1>3. Unpacking'
  <2>1. CASE Readable(file)
    BY <1>1, <1>2, <2>1 DEF Unpacking, Readable
  <2>2. CASE ~Readable(file)
    BY <1>1, <1>2, <2>2 DEF Unpacking, Amiss, Readable
  <2> QED  BY <2>1, <2>2
<1> QED  BY <1>1, <1>2, <1>3
         DEF LoadInv, Ops, LoadOps, Heap, Frames, Nested, Disk, Appending, Saving, Reading,
             Chunks, After, Saved, Loaded

(* nbt_parse_compressed returns.                                           *)
LEMMA ParseKeeps ==
  ASSUME LoadInv, NotUnpacked \/ Parse \/ ParseFails
  PROVE  LoadInv'
<1>1. /\ op = "unpacked" /\ op' = "parsed" /\ UNCHANGED <<held, last, tree, file, bad>>
  BY DEF NotUnpacked, Parse, ParseFails, Parsed, memory, call, disk
<1>2. last = "load" /\ result = NULL
  BY <1>1 DEF LoadInv, Reading, LoadOps
<1>3. Heap' /\ buf'.data = NULL /\ Loaded'
  <2>1. CASE NotUnpacked
    <3>1. /\ buf.data = NULL
          /\ UNCHANGED <<buf, held, live, last, tree, errno, result, file, bad, faulty>>
      BY <2>1 DEF NotUnpacked, memory, call, outcome, disk
    <3>2. Failed /\ Amiss
      <4>1. IsStream(file)
        BY DEF LoadInv, Disk
      <4>2. Content(file) # NULL
        BY <4>1, ContentType, LoadingAssumption
      <4> QED  BY <1>1, <3>1, <4>2 DEF LoadInv, Unpacking
    <3>3. Loaded'
      BY <1>1, <1>2, <3>1, <3>2 DEF Loaded, Failed, Amiss, Readable
    <3> QED  BY <3>1, <3>3 DEF LoadInv, Heap
  <2>2. CASE Parse \/ ParseFails
    <3>1. PICK e, r : Parsed(e, r) /\ IF Parse THEN /\ e = IF Whole THEN "NBT_OK" ELSE "NBT_ERR"
                                                    /\ r = IF Whole THEN tree ELSE NULL
                                      ELSE e = "NBT_EMEM" /\ r = NULL /\ faulty' = TRUE
      BY <2>2 DEF Parse, ParseFails
    <3>2. buf.data # NULL /\ errno' = e /\ result' = r /\ FreeBuf
      BY <3>1 DEF Parsed
    <3>3. Heap' /\ buf'.data = NULL
      BY <1>1, <3>2, HeapFreeBuf, EmptyBuffer DEF LoadInv
    <3>4. Readable(file) /\ buf.data = Content(file)
      BY <1>1, <3>2 DEF LoadInv, Unpacking, Failed
    <3>5. Content(file) = Raw(tree) /\ tree \in Trees
      BY <3>4 DEF LoadInv, Disk, Readable, Complete
    <3>6. tree # NULL /\ tree.fails \in BOOLEAN
      BY <3>5, LoadingAssumption
    <3>7. CASE Parse
      <4>1. CASE tree.fails
        <5>1. ~Whole
          BY <4>1 DEF Whole
        <5> QED  BY <1>1, <1>2, <3>1, <3>2, <3>3, <3>7, <4>1, <5>1 DEF Loaded
      <4>2. CASE ~tree.fails
        <5>1. Whole
          BY <3>4, <3>5, <4>2 DEF Whole
        <5>2. errno' = "NBT_OK" /\ result' = tree
          BY <3>1, <3>2, <3>7, <5>1
        <5> QED  BY <1>1, <1>2, <3>3, <3>4, <3>6, <5>2 DEF Loaded, Readable
      <4> QED  BY <3>3, <3>6, <4>1, <4>2
    <3>8. CASE ~Parse
      <4>1. errno' = "NBT_EMEM" /\ result' = NULL /\ faulty' = TRUE
        BY <3>1, <3>2, <3>8
      <4> QED  BY <1>1, <1>2, <3>3, <4>1 DEF Loaded, Amiss
    <3> QED  BY <3>3, <3>7, <3>8
  <2> QED  BY <2>1, <2>2
<1> QED  BY <1>1, <1>3
         DEF LoadInv, Ops, LoadOps, Frames, Nested, Disk, Appending, Saving, Reading, Unpacking,
             Chunks, After, Saved

(* nbt_parse_file returns.                                                 *)
LEMMA LoadEndKeeps ==
  ASSUME LoadInv, NotRead \/ LoadEnds
  PROVE  LoadInv'
<1>1. /\ Return /\ UNCHANGED <<errno, result, faulty, last, tree, file, bad>> /\ op' = "idle"
  BY DEF NotRead, LoadEnds, Return, call, outcome, disk
<1>2. CASE NotRead
  <2>1. op = "inflate" /\ buf.data = NULL /\ live' = live
    BY <1>2 DEF NotRead
  <2>2. held = BUFFER_INIT /\ last = "load" /\ result = NULL
    BY <2>1 DEF LoadInv, Frames, Nested, Reading, LoadOps
  <2>3. live' = {}
    BY <2>1, <2>2, LastBlock DEF LoadInv
  <2>4. Failed /\ Amiss
    <3>1. file # NULL
      BY LoadingAssumption DEF LoadInv, Disk, IsStream
    <3> QED  BY <2>1, <3>1 DEF LoadInv, Reading
  <2>5. Saved' /\ Loaded'
    BY <1>1, <2>2, <2>4 DEF Saved, Loaded, Failed, Amiss, Readable
  <2> QED  BY <1>1, <2>3, <2>5, ReturnKeeps
<1>3. CASE LoadEnds
  <2>1. op = "parsed" /\ buf.data = NULL /\ live' = live \ {held.at}
    BY <1>3 DEF LoadEnds, LoadInv, Frames
  <2>2. live' = {}
    BY <2>1, LastBlock DEF LoadInv
  <2>3. Saved' /\ Loaded'
    BY <1>1, <2>1 DEF LoadInv, Saved, Loaded, Amiss, Readable
  <2> QED  BY <1>1, <2>2, <2>3, ReturnKeeps
<1> QED  BY <1>2, <1>3

(* A tree starts to be dumped, or printed.                                 *)
LEMMA DumpKeeps ==
  ASSUME LoadInv, NEW t \in Trees, NEW name \in {"dump", "text"}, Call(name, name, t.parts),
         tree' = t, file' = <<>>
  PROVE  LoadInv'
<1>1. /\ op' = name /\ last' = name /\ feed' = t.parts /\ pos' = 0
      /\ Heap' /\ Frames' /\ buf' = BUFFER_INIT /\ Saved' /\ Loaded'
  BY CallKeeps
<1>2. Disk'
  <2>1. IsStream(<<>>)
    BY EmptySeq DEF IsStream
  <2> QED  BY <2>1 DEF Disk
<1>3. Appending'
  <2>1. t.parts \in Seq(Seq(Bytes)) /\ t.parts # <<>>
    BY LoadingAssumption
  <2>2. Len(t.parts) \in Nat \ {0}
    BY <2>1, EmptySeq, LenProperties
  <2>3. Holds(Written(feed)[pos])'
    BY <1>1 DEF Holds
  <2> QED  BY <1>1, <2>2, <2>3 DEF Appending
<1> QED
  BY <1>1, <1>2, <1>3 DEF LoadInv, Ops, LoadOps, Saving, Reading, Unpacking, Chunks, After

LEMMA OpenKeeps ==
  ASSUME LoadInv, nbt_parse_path
  PROVE  LoadInv'
<1>1. Call("load", "read", file) /\ UNCHANGED <<tree, file, bad>>
  BY DEF nbt_parse_path, disk
<1>2. /\ op' = "read" /\ last' = "load" /\ feed' = file /\ pos' = 0 /\ result' = NULL
      /\ Heap' /\ Frames' /\ buf' = BUFFER_INIT /\ Saved' /\ Loaded'
  BY <1>1, CallKeeps
<1>3. Disk'
  BY <1>1 DEF LoadInv, Disk
<1>4. Chunks'
  <2>1. (pos \in 0..Len(feed))'
    BY <1>2, LenProperties DEF LoadInv, Disk, IsStream
  <2>2. Holds(SubSeq(feed, 1, pos))'
    BY <1>2 DEF Holds
  <2> QED  BY <1>2, <2>1, <2>2 DEF Chunks
<1> QED  BY <1>1, <1>2, <1>3, <1>4
         DEF LoadInv, Ops, LoadOps, Appending, Saving, Reading, Unpacking

LEMMA BetweenCalls ==
  ASSUME LoadInv, OpenFails \/ \E n \in 0..Len(file) : Damage(n)
  PROVE  LoadInv'
<1>1. op = "idle" /\ op' = "idle" /\ UNCHANGED <<buf, held, live, tree>>
  BY DEF OpenFails, Damage, memory
<1>2. Heap' /\ Frames'
  BY <1>1 DEF LoadInv, Heap, Frames
<1>3. CASE OpenFails
  <2>1. /\ file' = file /\ last' = "load"
        /\ errno' = "NBT_EIO" /\ result' = NULL /\ faulty' = TRUE
    BY <1>3 DEF OpenFails, disk
  <2>2. Disk' /\ Saved' /\ Loaded'
    BY <1>1, <2>1 DEF LoadInv, Disk, Saved, Loaded, Amiss
  <2> QED  BY <1>1, <1>2, <2>2
           DEF LoadInv, Ops, LoadOps, Appending, Saving, Reading, Unpacking, Chunks, After
<1>4. ASSUME NEW n \in 0..Len(file), Damage(n) PROVE LoadInv'
  <2>1. last' = "damage" /\ (file' = SubSeq(file, 1, n) \/ file' = file)
    BY <1>4 DEF Damage
  <2>2. Disk'
    BY <1>1, <2>1, StreamPrefix DEF LoadInv, Disk
  <2>3. Saved' /\ Loaded'
    BY <1>1, <2>1 DEF Saved, Loaded
  <2> QED  BY <1>1, <1>2, <2>2, <2>3
           DEF LoadInv, Ops, LoadOps, Appending, Saving, Reading, Unpacking, Chunks, After
<1> QED  BY <1>3, <1>4

LEMMA CrashKeeps ==
  ASSUME LoadInv, BprintfFails
  PROVE  LoadInv'
<1>1. op = "text" /\ op' = "crashed" /\ UNCHANGED <<held, tree, file>>
  BY DEF BprintfFails, call, disk
<1>2. Heap'
  BY <1>1, HeapReserveFails DEF BprintfFails, LoadInv
<1>3. Disk' /\ Frames'
  BY <1>1 DEF LoadInv, Disk, Frames, Nested
<1> QED  BY <1>1, <1>2, <1>3
         DEF LoadInv, Ops, LoadOps, Appending, Saving, Reading, Unpacking, Chunks, After, Saved,
             Loaded

LEMMA TextKeeps ==
  ASSUME LoadInv, TextDone
  PROVE  LoadInv'
<1>1. op = "text" /\ live' = live \ {buf.at} /\ Return
  BY DEF TextDone
<1>2. last = "text" /\ held = BUFFER_INIT
  BY <1>1 DEF LoadInv, Appending, Frames, Nested
<1>3. live' = {}
  BY <1>1, <1>2, LastBlock DEF LoadInv
<1>4. Saved' /\ Loaded'
  BY <1>1, <1>2 DEF Return, call, Saved, Loaded
<1> QED  BY <1>1, <1>3, <1>4, ReturnKeeps

LEMMA LoadStep == LoadInv /\ [Next]_vars => LoadInv'
<1> SUFFICES ASSUME LoadInv, [Next]_vars PROVE LoadInv'
  OBVIOUS
<1>1. ASSUME NEW t \in Trees, nbt_dump_file(t) \/ nbt_dump_ascii(t) PROVE LoadInv'
  BY <1>1, DumpKeeps DEF nbt_dump_file, nbt_dump_ascii
<1>2. CASE nbt_parse_path
  BY <1>2, OpenKeeps
<1>3. CASE OpenFails \/ \E n \in 0..Len(file) : Damage(n)
  BY <1>3, BetweenCalls
<1>4. CASE DumpAppend \/ bprintf
  <2>1. /\ op \in {"dump", "text"}
        /\ op' = IF op = "text" \/ pos + 1 < Len(feed) THEN op ELSE "dumped"
    BY <1>4 DEF DumpAppend, bprintf
  <2>2. /\ feed \in Seq(Seq(Bytes)) /\ Len(feed) \in Nat /\ pos \in 0..Len(feed)
    BY <2>1, PartFacts
  <2>3. More
    BY <1>4, <2>2 DEF DumpAppend, bprintf, More, LoadInv, Appending
  <2>4. Len(feed[pos + 1]) \in Nat
    <3>1. pos + 1 \in 1..Len(feed)
      BY <2>2, <2>3 DEF More
    <3>2. feed[pos + 1] \in Seq(Bytes)
      BY <2>2, <3>1, ElementOfSeq
    <3> QED  BY <3>2, LenProperties
  <2>5. PICK amount \in Nat : Len(feed[pos + 1]) <= amount /\ Put(amount, feed[pos + 1], 1)
    BY <1>4, <2>4 DEF DumpAppend, bprintf
  <2> QED  BY <2>1, <2>3, <2>5, AppendKeeps
<1>5. ASSUME NEW n \in Packed, Compress(n) PROVE LoadInv'
  BY <1>5, CompressKeeps
<1>6. CASE NotDumped \/ DumpFreed
  BY <1>6, DumpedKeeps
<1>7. CASE write_file \/ \E n \in 0..Used(buf) : WriteFails(n)
  <2>1. op = "write" /\ buf.data # NULL /\ op' = "written" /\ UNCHANGED <<memory, call>>
    BY <1>7 DEF write_file, WriteFails
  <2>2. buf.data \in Seq(PackedBytes)
    BY <2>1 DEF LoadInv, Saving, Failed, IsSaved, IsStream
  <2>3. Len(buf.data) \in Nat /\ buf.data = SubSeq(buf.data, 1, Len(buf.data))
    BY <2>2, LenProperties, SubSeqFull
  <2>4. CASE write_file
    <3>1. file' = SubSeq(buf.data, 1, Len(buf.data)) /\ file' = buf.data
      BY <2>3, <2>4 DEF write_file
    <3>2. Len(buf.data) \in 0..Len(buf.data)
      BY <2>3
    <3> QED  BY <2>1, <3>1, <3>2, WriteKeeps
  <2>5. ASSUME NEW n \in 0..Used(buf), WriteFails(n) PROVE LoadInv'
    <3>1. n \in 0..Len(buf.data) /\ file' = SubSeq(buf.data, 1, n) /\ status' = "NBT_EIO"
      BY <2>1, <2>5 DEF WriteFails, Used
    <3>2. status' # "NBT_OK"
      BY <3>1
    <3> QED  BY <2>1, <3>1, <3>2, WriteKeeps
  <2> QED  BY <1>7, <2>4, <2>5
<1>8. CASE NotPacked \/ SaveEnds
  BY <1>8, SaveEndKeeps
<1>9. CASE Chunk
  BY <1>9, ChunkKeeps
<1>10. CASE NoMemory \/ LibraryFails
  BY <1>10, FailKeeps
<1>11. CASE Abandon
  BY <1>11, AbandonKeeps
<1>12. CASE InitFails
  BY <1>12, InitFailsKeeps
<1>13. ASSUME NEW n \in 0..Len(Content(file)), Decompress(n) PROVE LoadInv'
  BY <1>13, DecompressKeeps
<1>14. CASE StreamEnd
  BY <1>14, StreamEndKeeps
<1>15. CASE NotUnpacked \/ Parse \/ ParseFails
  BY <1>15, ParseKeeps
<1>16. CASE NotRead \/ LoadEnds
  BY <1>16, LoadEndKeeps
<1>17. CASE TextDone
  BY <1>17, TextKeeps
<1>18. CASE BprintfFails
  BY <1>18, CrashKeeps
<1>19. CASE UNCHANGED vars
  <2>1. /\ UNCHANGED <<op, buf, held, live, feed, pos, last, tree, errno, status, result>>
        /\ UNCHANGED <<file, bad, faulty>>
    BY <1>19 DEF vars, memory, input, call, outcome, disk
  <2>2. Heap' /\ Frames' /\ Disk' /\ Appending' /\ Saved'
    BY <2>1 DEF LoadInv, Heap, Frames, Nested, Disk, Appending, Holds, Saved
  <2>3. Saving' /\ Chunks'
    BY <2>1 DEF LoadInv, Saving, Failed, IsSaved, Chunks, Holds
  <2>4. Reading' /\ Unpacking' /\ Loaded'
    BY <2>1 DEF LoadInv, Reading, Unpacking, Loaded, Failed, Amiss, Readable
  <2> QED  BY <2>1, <2>2, <2>3, <2>4 DEF LoadInv
<1> QED
  BY <1>1, <1>2, <1>3, <1>4, <1>5, <1>6, <1>7, <1>8, <1>9, <1>10, <1>11, <1>12, <1>13, <1>14,
     <1>15, <1>16, <1>17, <1>18, <1>19
  DEF Next, Work, Fault

-----------------------------------------------------------------------------
(* The theorems. *)

LEMMA LoadInvHolds == Spec => []LoadInv
  BY InitLoad, LoadStep, PTL DEF Spec

(* However much is appended at a time, however large a chunk and a fresh   *)
(* buffer are: nothing is written past the end of a buffer, because        *)
(* buffer_reserve doubles until there is enough (buffer.c:65-66).          *)
THEOREM NothingOutOfBounds == Spec => []InBounds
<1>1. ASSUME NEW b, BufferOK(b) PROVE Used(b) <= b.cap
  BY <1>1 DEF BufferOK, Used
<1>2. LoadInv => InBounds
  BY <1>1 DEF LoadInv, Heap, InBounds
<1> QED  BY <1>2, LoadInvHolds, PTL

(* Wherever memory runs out or zlib and stdio fail, and by whichever of    *)
(* its exits a function is left: a block is freed once, by the buffer that *)
(* owns it, or by the buffer_reserve that could not make it larger         *)
(* (buffer.c:71, nbt_loading.c:44, 50, 143, 216, 235, 263, 280, 293), and  *)
(* none is left when the call has returned.                                *)
THEOREM EveryBlockOwned == Spec => []BlocksOwned
<1>1. ASSUME LoadInv, op = "idle" PROVE live = {}
  <2>1. buf = BUFFER_INIT /\ held = BUFFER_INIT
    BY <1>1 DEF LoadInv, Frames, Nested
  <2> QED  BY <1>1, <2>1, LastBlock, EmptyBuffer DEF LoadInv
<1>2. LoadInv => BlocksOwned
  BY <1>1 DEF LoadInv, Heap, BlocksOwned
<1> QED  BY <1>2, LoadInvHolds, PTL

(* Every failure reaches the client, although __compress and __decompress  *)
(* start with errno = NBT_OK (nbt_loading.c:86, 155) and nbt_dump_file     *)
(* returns what errno holds when it has got no buffer (276): NBT_OK is     *)
(* returned for complete files only, a file that is not complete is not    *)
(* loaded, and an error is set with every NULL.                            *)
THEOREM ErrorsAlwaysReported == Spec => []ErrorsReported
<1>1. LoadInv => ErrorsReported
  <2> SUFFICES ASSUME LoadInv, op = "idle"
               PROVE  /\ last = "dump" /\ status = "NBT_OK" => Complete(file)
                      /\ last = "load" /\ ~Complete(file) => result = NULL
                      /\ last = "load" /\ result = NULL => errno # "NBT_OK"
    BY DEF ErrorsReported
  <2> QED  BY DEF LoadInv, Saved, Loaded, Readable
<1> QED  BY <1>1, LoadInvHolds, PTL

(* A tree is loaded as it was dumped, whatever its length and that of its  *)
(* stream are in chunks (nbt_loading.c:38-52, 118-133, 174-199), unless a  *)
(* part of it could not be dumped: nbt_dump_file reports nothing then, and *)
(* the file holds a part of the tree (nbt_loading.c:284-295).              *)
THEOREM LoadsAsDumpedIfWhole == Spec => [](LoadsAsDumped \/ tree.fails)
<1>1. LoadInv => LoadsAsDumped \/ tree.fails
  BY DEF LoadInv, Loaded, Amiss, LoadsAsDumped
<1> QED  BY <1>1, LoadInvHolds, PTL
=============================================================================
