----------------------------- MODULE NetProofs -----------------------------
(***************************************************************************)
(* The read buffer is intact for every stream, every way of cutting it     *)
(* into reads and every size of the buffer.                                *)
(***************************************************************************)
EXTENDS Net, SequenceTheorems, WellFoundedInduction, TLAPS

(* sbnet_adv_bbuf with a distance that the buffer holds: the bytes that    *)
(* are left are still the next ones of the stream.                         *)
LEMMA AdvanceKeepsBytes ==
  ASSUME NetInv, NEW n \in Nat, n <= inUse, nread = 0,
         Advance(n), UNCHANGED <<got, nread>>
  PROVE  /\ len' \in Nat /\ cur' \in Nat /\ inUse' \in Nat /\ rem' \in Nat
         /\ mem' \in [0..(len' - 1) -> Nat]
         /\ cur' + inUse' + rem' = len'
         /\ nread' <= rem'
         /\ Used' >= 0
         /\ \A i \in 0..(inUse' + nread' - 1) : mem'[cur' + i] = Used' + 1 + i
<1>1. /\ cur' = cur + n
      /\ inUse' = inUse - n
      /\ mem' = mem /\ len' = len /\ rem' = rem
  BY DEF Advance, NetInv, TypeOK
<1>2. Used' = Used + n
  BY <1>1 DEF Used, NetInv, TypeOK
<1>3. ASSUME NEW i \in 0..(inUse' + nread' - 1)
      PROVE  mem'[cur' + i] = Used' + 1 + i
  <2>1. n + i \in 0..(inUse + nread - 1)
    BY <1>1 DEF NetInv, TypeOK
  <2>2. mem[cur + (n + i)] = Used + 1 + (n + i)
    BY <2>1 DEF NetInv, BufferIntact
  <2>3. cur' + i = cur + (n + i)
    BY <1>1 DEF NetInv, TypeOK
  <2>4. Used \in Int
    BY DEF Used, NetInv, TypeOK
  <2> QED  BY <1>1, <1>2, <2>2, <2>3, <2>4
<1> QED  BY <1>1, <1>2, <1>3 DEF NetInv, BufferIntact, BufferShape, TypeOK, Used

(* sbnet_bbuf_make_room: moved or grown, the buffer holds the same bytes,  *)
(* and has room for n more.                                                *)
LEMMA MakeRoomKeepsBytes ==
  ASSUME NetInv, NEW n \in Nat \ {0}, nread = 0,
         MakeRoom(n), UNCHANGED <<got, nread>>
  PROVE  /\ len' \in Nat /\ cur' \in Nat /\ inUse' \in Nat /\ rem' \in Nat
         /\ mem' \in [0..(len' - 1) -> Nat]
         /\ cur' + inUse' + rem' = len'
         /\ n <= rem'
         /\ Used' >= 0
         /\ \A i \in 0..(inUse' + nread' - 1) : mem'[cur' + i] = Used' + 1 + i
<1>1. CASE n <= rem
  BY <1>1 DEF MakeRoom, buf, NetInv, BufferIntact, BufferShape, TypeOK, Used
<1>2. CASE ~(n <= rem)
  <2>1. /\ len' = IF n <= len - inUse THEN len ELSE inUse + n
        /\ mem' = Moved(len')
        /\ cur' = 0
        /\ rem' = IF n <= len - inUse THEN len - inUse ELSE n
        /\ inUse' = inUse
    BY <1>2 DEF MakeRoom
  <2>2. /\ len' \in Nat /\ rem' \in Nat /\ len <= len'
        /\ inUse + rem' = len'
        /\ n <= rem'
    BY <2>1 DEF NetInv, TypeOK, BufferIntact, BufferShape
  <2>3. ASSUME NEW i \in 0..(len' - 1)
        PROVE  /\ i < inUse => cur + i \in 0..(len - 1)
               /\ i < len => i \in 0..(len - 1)
    BY <2>2 DEF NetInv, TypeOK, BufferIntact, BufferShape
  <2>4. mem' \in [0..(len' - 1) -> Nat]
    BY <2>1, <2>2, <2>3 DEF Moved, NetInv, TypeOK
  <2>5. Used' = Used
    BY <2>1 DEF Used
  <2>6. ASSUME NEW i \in 0..(inUse' + nread' - 1)
        PROVE  mem'[cur' + i] = Used' + 1 + i
    <3>1. i \in 0..(inUse + nread - 1) /\ i \in 0..(len' - 1) /\ i < inUse /\ cur' + i = i
      BY <2>1, <2>2 DEF NetInv, TypeOK
    <3>2. mem'[i] = mem[cur + i]
      BY <2>1, <3>1 DEF Moved
    <3>3. mem[cur + i] = Used + 1 + i
      BY <3>1 DEF NetInv, BufferIntact
    <3> QED  BY <2>5, <3>1, <3>2, <3>3
  <2> QED  BY <2>1, <2>2, <2>4, <2>5, <2>6 DEF NetInv, BufferIntact, TypeOK
<1> QED  BY <1>1, <1>2

(* What libuv writes for a read continues the bytes in use.                *)
LEMMA ReadKeepsBytes ==
  ASSUME NetInv, NEW n \in Nat, Read(n)
  PROVE  NetInv'
<1> USE DEF NetInv
<1>1. /\ pc = "read" /\ pc' = "lock" /\ nread = 0 /\ nread' = n /\ got' = got + n
      /\ UNCHANGED <<len, cur, inUse, rem, next, comp, proto, lock, jobs>>
      /\ n <= Suggested /\ Suggested \in Nat /\ Suggested <= rem
  BY BufferAssumption DEF Read, Goto, TypeOK, BufferIntact, BufferShape
<1>2. mem' = [i \in DOMAIN mem |-> IF i \in (cur + inUse)..(cur + inUse + n - 1)
                                     THEN got + 1 + (i - cur - inUse) ELSE mem[i]]
  BY DEF Read
<1>3. TypeOK'
  <2>1. mem' \in [0..(len' - 1) -> Nat]
    BY <1>1, <1>2 DEF TypeOK
  <2> QED  BY <1>1, <2>1 DEF TypeOK
<1>4. BufferShape'
  BY <1>1 DEF TypeOK, BufferIntact, BufferShape
<1>5. Used' = Used /\ Used \in Int /\ Used = got - inUse
  BY <1>1 DEF Used, TypeOK
<1>6. ASSUME NEW i \in 0..(inUse' + nread' - 1)
      PROVE  mem'[cur' + i] = Used' + 1 + i
  <2>1. cur + i \in DOMAIN mem
    BY <1>1 DEF TypeOK, BufferIntact, BufferShape
  <2>2. CASE i < inUse
    <3>1. mem[cur + i] = Used + 1 + i
      BY <1>1, <2>2 DEF TypeOK, BufferIntact
    <3> QED  BY <1>1, <1>2, <1>5, <2>1, <2>2, <3>1 DEF TypeOK
  <2>3. CASE i >= inUse
    <3>1. /\ cur + i \in (cur + inUse)..(cur + inUse + n - 1)
          /\ got + 1 + ((cur + i) - cur - inUse) = Used + 1 + i
      BY <1>1, <1>5, <2>3 DEF TypeOK
    <3> QED  BY <1>1, <1>2, <1>5, <2>1, <3>1
  <2> QED  BY <1>1, <2>2, <2>3 DEF TypeOK
<1> QED  BY <1>3, <1>4, <1>5, <1>6 DEF BufferIntact

(* However the server's stream is cut into reads, the bytes in use are the *)
(* next ones of the stream and every read fits in the buffer that          *)
(* sbnet_alloc_cb hands out.                                               *)
THEOREM BufferInvariant == Spec => []NetInv
<1>1. Init => NetInv
  <2> SUFFICES ASSUME Init PROVE NetInv
    OBVIOUS
  <2>1. mem \in [0..(len - 1) -> Nat]
    BY DEF Init
  <2>2. TypeOK
    BY <2>1, BufferAssumption DEF Init, TypeOK
  <2>3. BufferIntact
    BY BufferAssumption DEF Init, BufferIntact, BufferShape, Used
  <2> QED  BY <2>2, <2>3 DEF NetInv
<1>2. NetInv /\ [Next]_vars => NetInv'
  <2> SUFFICES ASSUME NetInv, [Next]_vars PROVE NetInv'
    OBVIOUS
  <2>1. ASSUME UNCHANGED buf, nread = 0, nread' = 0, got' = got, pc' # "read",
               next' \in Nat \cup {NoSize}, pc' = "frame" => next' # NoSize,
               comp' \in BOOLEAN, proto' \in {"handshaking", "login", "play"},
               lock' \in {"free", "held", "broken"}, jobs' \subseteq Handled,
               pc' \in {"connect", "poll", "read", "lock", "size", "frame", "unlock",
                        "emit", "wait", "hung", "exit"}
        PROVE  NetInv'
    BY <2>1 DEF NetInv, TypeOK, BufferIntact, BufferShape, Used, buf
  <2>2. CASE Connect
    BY <2>1, <2>2 DEF Connect, Goto, NetInv, TypeOK
  <2>3. CASE ConnectFails
    BY <2>1, <2>3 DEF ConnectFails, Goto, NetInv, TypeOK
  <2>4. CASE AllocCb
    <3>1. /\ pc = "poll" /\ pc' = "read" /\ nread = 0
          /\ UNCHANGED <<next, comp, proto, lock, nread, got, jobs>>
          /\ MakeRoom(Suggested)
          /\ Suggested \in Nat \ {0}
      BY <2>4, BufferAssumption DEF AllocCb, Goto, NetInv, TypeOK
    <3> QED  BY <3>1, MakeRoomKeepsBytes DEF NetInv, TypeOK, BufferIntact, BufferShape
  <2>5. CASE \E n \in 0..Suggested : Read(n)
    BY <2>5, ReadKeepsBytes, BufferAssumption
  <2>6. CASE ReadFails
    BY <2>1, <2>6 DEF ReadFails, Goto, NetInv, TypeOK
  <2>7. CASE LockNet
    BY <2>7 DEF LockNet, Goto, NetInv, TypeOK, BufferIntact, BufferShape, Used
  <2>8. CASE SizeOverrun
    BY <2>1, <2>8 DEF SizeOverrun, Goto, NetInv, TypeOK
  <2>9. CASE Size
    <3>1. PICK k \in PacketAt(mem[cur]) : /\ inUse >= Packets[k].hdr
                                          /\ next' = Packets[k].body
                                          /\ Advance(Packets[k].hdr)
      BY <2>9 DEF Size
    <3>2. Packets[k].hdr \in Nat /\ Packets[k].body \in Nat
      <4>1. k \in 1..Len(Packets)
        BY DEF PacketAt
      <4>2. Packets[k] \in [hdr : 1..5, body : Nat \ {0}, event : Handled \cup {Other}]
        BY <4>1, PacketAssumption, ElementOfSeq
      <4> QED  BY <4>2
    <3>3. /\ pc = "size" /\ pc' = "frame" /\ nread = 0
          /\ UNCHANGED <<comp, proto, lock, nread, got, jobs>>
      BY <2>9 DEF Size, Goto, NetInv, TypeOK
    <3>4. next' \in Nat /\ next' # NoSize
      BY <3>1, <3>2 DEF NoSize
    <3> HIDE DEF NoSize
    <3> QED  BY <3>1, <3>2, <3>3, <3>4, AdvanceKeepsBytes
             DEF NetInv, TypeOK, BufferIntact, BufferShape
  <2>10. CASE SizeKnown
    BY <2>1, <2>10 DEF SizeKnown, Goto, NetInv, TypeOK
  <2>11. CASE FrameShort
    BY <2>1, <2>11 DEF FrameShort, Goto, NetInv, TypeOK
  <2>12. CASE Decode
    <3>1. /\ pc = "frame" /\ pc' = "unlock" /\ nread = 0 /\ next <= inUse
          /\ next \in Nat /\ Advance(next) /\ next' = NoSize
          /\ UNCHANGED <<comp, proto, lock, nread, got, jobs>>
      BY <2>12 DEF Decode, Goto, NetInv, TypeOK
    <3> QED  BY <3>1, AdvanceKeepsBytes DEF NetInv, TypeOK, BufferIntact, BufferShape
  <2>13. CASE UnlockNet
    BY <2>1, <2>13 DEF UnlockNet, Goto, NetInv, TypeOK
  <2>14. CASE Emit
    BY <2>1, <2>14 DEF Emit, Goto, NetInv, TypeOK
  <2>15. CASE EmitNothing
    BY <2>1, <2>15 DEF EmitNothing, NetInv, TypeOK
  <2>16. CASE CompressCb \/ SuccessCb
    BY <2>16 DEF CompressCb, SuccessCb, NetInv, TypeOK, BufferIntact, BufferShape, Used, buf
  <2>17. CASE WaitOver
    BY <2>1, <2>17 DEF WaitOver, Goto, NetInv, TypeOK
  <2>18. CASE UNCHANGED vars
    BY <2>18 DEF vars, NetInv, TypeOK, BufferIntact, BufferShape, Used
  <2> QED
    BY <2>2, <2>3, <2>4, <2>5, <2>6, <2>7, <2>8, <2>9, <2>10, <2>11, <2>12, <2>13, <2>14,
       <2>15, <2>16, <2>17, <2>18 DEF Next, ReadCb
<1> QED  BY <1>1, <1>2, PTL DEF Spec

-----------------------------------------------------------------------------
(* The server's stream. *)

Count == Len(Packets)

(* A set of natural numbers that is not empty has a least one: the form of *)
(* induction used below.                                                   *)
LEMMA LeastNat ==
  ASSUME NEW T, T \subseteq Nat, T # {}
  PROVE  \E x \in T : \A y \in T : x <= y
<1>1. IsWellFoundedOn(OpToRel(<, Nat), Nat)
  BY NatLessThanWellFounded
<1>2. PICK x \in T : \A y \in T : ~(<<y, x>> \in OpToRel(<, Nat))
  BY <1>1, WFMin
<1>3. \A y \in T : ~(y < x)
  BY <1>2 DEF OpToRel
<1> QED  BY <1>3

LEMMA PacketFacts ==
  /\ Count \in Nat
  /\ \A k \in 1..Count : /\ Packets[k].hdr \in Nat \ {0} /\ Packets[k].body \in Nat \ {0}
                         /\ Packets[k].event \in Handled \cup {Other}
                         /\ Sizes(k) = Packets[k].hdr + Packets[k].body
<1>1. Count \in Nat
  BY PacketAssumption, LenProperties DEF Count
<1>2. ASSUME NEW k \in 1..Count
      PROVE  /\ Packets[k].hdr \in Nat \ {0} /\ Packets[k].body \in Nat \ {0}
             /\ Packets[k].event \in Handled \cup {Other}
  <2>1. Packets[k] \in [hdr : 1..5, body : Nat \ {0}, event : Handled \cup {Other}]
    BY PacketAssumption, ElementOfSeq DEF Count
  <2> QED  BY <2>1
<1> QED  BY <1>1, <1>2 DEF Sizes

(* f gives the first bytes of the first n packets.                         *)
Starts(f, n) == f = [k \in 1..n |-> IF k = 1 THEN 1 ELSE f[k - 1] + Sizes(k - 1)]

(* The recursion that defines First has a solution, packet by packet.      *)
LEMMA StartsExist == \A n \in 0..(Count + 1) : \E f : Starts(f, n)
<1> DEFINE T == {n \in 0..(Count + 1) : ~\E f : Starts(f, n)}
<1> SUFFICES ASSUME T # {} PROVE FALSE
  OBVIOUS
<1>1. PICK n \in T : \A m \in T : n <= m
  <2>1. T \subseteq Nat
    BY PacketFacts
  <2> HIDE DEF T
  <2> QED  BY <2>1, LeastNat
<1>2. CASE n = 0
  <2>1. PICK f : f = [k \in 1..0 |-> 0]
    OBVIOUS
  <2>2. Starts(f, 0)
    BY <2>1 DEF Starts
  <2> QED  BY <1>2, <2>2
<1>3. CASE n # 0
  <2>1. n - 1 \in 0..(Count + 1) /\ n - 1 \notin T
    BY <1>1, <1>3, PacketFacts
  <2>2. PICK f : Starts(f, n - 1)
    BY <2>1
  <2>3. PICK g : g = [k \in 1..n |-> IF k = 1 THEN 1 ELSE f[k - 1] + Sizes(k - 1)]
    OBVIOUS
  <2>4. \A k \in 1..(n - 1) : g[k] = f[k]
    BY <2>2, <2>3, PacketFacts DEF Starts
  <2>5. \A k \in 1..n : k # 1 => k - 1 \in 1..(n - 1)
    BY PacketFacts
  <2>6. Starts(g, n)
    BY <2>3, <2>4, <2>5 DEF Starts
  <2> QED  BY <2>6
<1> QED  BY <1>2, <1>3

LEMMA FirstFacts ==
  /\ First[1] = 1
  /\ \A k \in 1..Count : First[k + 1] = First[k] + Sizes(k)
<1>1. Starts(First, Count + 1)
  <2>1. \E f : Starts(f, Count + 1)
    BY StartsExist, PacketFacts
  <2> QED  BY <2>1 DEF First, Starts, Count
<1> QED  BY <1>1, PacketFacts DEF Starts

(* Packets start one after the other, and each later than the one before   *)
(* has ended.                                                              *)
LEMMA FirstIncreases ==
  \A j, k \in 1..(Count + 1) :
    /\ First[k] \in Nat
    /\ j < k => First[j] + Sizes(j) <= First[k]
<1>1. \A k \in 1..(Count + 1) : First[k] \in Nat
  <2> DEFINE T == {k \in 1..(Count + 1) : First[k] \notin Nat}
  <2> SUFFICES ASSUME T # {} PROVE FALSE
    OBVIOUS
  <2>1. PICK k \in T : \A m \in T : k <= m
    <3>1. T \subseteq Nat
      BY PacketFacts
    <3> HIDE DEF T
    <3> QED  BY <3>1, LeastNat
  <2>2. k # 1
    BY FirstFacts
  <2>3. k - 1 \in 1..Count /\ (k - 1) + 1 = k /\ k - 1 \notin T
    BY <2>1, <2>2, PacketFacts
  <2>4. First[k - 1] \in Nat /\ First[k] = First[k - 1] + Sizes(k - 1)
    BY <2>3, FirstFacts, PacketFacts
  <2> QED  BY <2>3, <2>4, PacketFacts
<1>2. ASSUME NEW j \in 1..(Count + 1), NEW k \in 1..(Count + 1), j < k
      PROVE  First[j] + Sizes(j) <= First[k]
  <2> DEFINE T == {m \in (j + 1)..(Count + 1) : ~(First[j] + Sizes(j) <= First[m])}
  <2> SUFFICES ASSUME T # {} PROVE FALSE
    BY <1>2, PacketFacts
  <2>1. PICK m \in T : \A i \in T : m <= i
    <3>1. T \subseteq Nat
      BY PacketFacts
    <3> HIDE DEF T
    <3> QED  BY <3>1, LeastNat
  <2>2. j \in 1..Count /\ Sizes(j) \in Nat /\ First[j] \in Nat
    BY <1>1, <1>2, PacketFacts
  <2>3. m # j + 1
    BY <1>1, <2>2, FirstFacts, PacketFacts
  <2>4. m - 1 \in (j + 1)..(Count + 1) /\ m - 1 \in 1..Count /\ (m - 1) + 1 = m /\ m - 1 \notin T
    BY <2>1, <2>2, <2>3, PacketFacts
  <2>5. First[j] + Sizes(j) <= First[m - 1]
    BY <2>4
  <2>6. /\ First[m] = First[m - 1] + Sizes(m - 1)
        /\ First[m - 1] \in Nat /\ Sizes(m - 1) \in Nat
    BY <1>1, <2>4, FirstFacts, PacketFacts
  <2> QED  BY <2>2, <2>5, <2>6
<1> QED  BY <1>1, <1>2

(* The first byte of a packet, and the first one behind its size, tell     *)
(* which packet it is.                                                     *)
LEMMA FirstApart ==
  /\ \A j, k \in 1..(Count + 1) : First[j] = First[k] => j = k
  /\ \A j, k \in 1..Count :
       First[j] + Packets[j].hdr = First[k] + Packets[k].hdr => j = k
<1>1. \A k \in 1..Count : /\ Sizes(k) \in Nat /\ Sizes(k) > Packets[k].hdr
                         /\ Packets[k].hdr \in Nat \ {0} /\ k \in 1..(Count + 1)
  BY PacketFacts
<1>2. ASSUME NEW j \in 1..(Count + 1), NEW k \in 1..(Count + 1), j < k
      PROVE  /\ j \in 1..Count /\ First[j] + Packets[j].hdr < First[k]
             /\ First[j] \in Nat /\ First[k] \in Nat
  <2>1. j \in 1..Count
    BY <1>2, PacketFacts
  <2>2. First[j] + Sizes(j) <= First[k] /\ First[j] \in Nat /\ First[k] \in Nat
    BY <1>2, FirstIncreases
  <2> QED  BY <1>1, <2>1, <2>2
<1>3. ASSUME NEW j \in 1..(Count + 1), NEW k \in 1..(Count + 1), First[j] = First[k], j # k
      PROVE  FALSE
  BY <1>1, <1>2, <1>3, PacketFacts
<1>4. ASSUME NEW j \in 1..Count, NEW k \in 1..Count, j # k,
             First[j] + Packets[j].hdr = First[k] + Packets[k].hdr
      PROVE  FALSE
  BY <1>1, <1>2, <1>4, PacketFacts
<1> QED  BY <1>3, <1>4

-----------------------------------------------------------------------------
(* What is decoded. *)

Done == Len(decoded)

(* The packets before k have taken effect, all of them.                    *)
InStateOf(k) == comp = EncodedAs(k).comp /\ proto = EncodedAs(k).proto

(* The packets decoded are the first ones, each as it was encoded.         *)
History ==
  /\ decoded \in Seq([packet : Nat, comp : BOOLEAN, proto : {"handshaking", "login", "play"}])
  /\ Done <= Count
  /\ \A i \in 1..Done : decoded[i] = EncodedAs(i)

(* The next byte is the first one of the next packet, or the first one     *)
(* behind its size when the size has been consumed.                        *)
Position ==
  /\ next = NoSize => Used + 1 = First[Done + 1]
  /\ next # NoSize => /\ Done < Count
                      /\ Used + 1 = First[Done + 1] + Packets[Done + 1].hdr
                      /\ next = Packets[Done + 1].body

(* The state is the one for the next packet, but from the decoding of a    *)
(* packet to the end of its handler.                                       *)
State ==
  /\ pc = "connect" => Done = 0 /\ comp = FALSE /\ jobs = {}
  /\ pc \in {"poll", "read", "lock", "size", "frame"} => jobs = {} /\ InStateOf(Done + 1)
  /\ pc \in {"unlock", "emit"} => Done > 0 /\ jobs = {} /\ InStateOf(Done)
  /\ pc = "wait" => /\ Done > 0 /\ Packets[Done].event \in Handled
                    /\ jobs = {} => InStateOf(Done + 1)
                    /\ jobs # {} => jobs = {Packets[Done].event} /\ InStateOf(Done)

DecodeInv == NetInv /\ History /\ Position /\ State

(* What packet k changes for the packets behind it.                        *)
LEMMA StateAfter ==
  ASSUME NEW k \in 1..Count
  PROVE  /\ EncodedAs(k + 1).comp = (EncodedAs(k).comp \/ Packets[k].event = "compress")
         /\ EncodedAs(k + 1).proto = IF Packets[k].event = "success" THEN "play"
                                     ELSE EncodedAs(k).proto
<1>1. ASSUME NEW e PROVE Sent(k + 1, e) <=> Sent(k, e) \/ Packets[k].event = e
  BY PacketFacts DEF Sent
<1>2. \A j : /\ EncodedAs(j).comp = Sent(j, "compress")
             /\ EncodedAs(j).proto = IF Sent(j, "success") THEN "play" ELSE "login"
  BY DEF EncodedAs
<1>3. Sent(k + 1, "compress") = (Sent(k, "compress") \/ Packets[k].event = "compress")
  BY <1>1, Zenon DEF Sent
<1>4. EncodedAs(k + 1).comp = (EncodedAs(k).comp \/ Packets[k].event = "compress")
  BY <1>2, <1>3, Zenon
<1>5. EncodedAs(k + 1).proto = IF Packets[k].event = "success" THEN "play"
                              ELSE EncodedAs(k).proto
  BY <1>1, <1>2
<1> QED  BY <1>4, <1>5

(* The byte under the cursor.                                              *)
LEMMA Cursor ==
  ASSUME NetInv, nread = 0, inUse > 0
  PROVE  mem[cur] = Used + 1
<1>1. 0 \in 0..(inUse + nread - 1) /\ cur + 0 = cur /\ Used \in Int
  BY DEF NetInv, TypeOK, Used
<1>2. mem[cur + 0] = Used + 1 + 0
  BY <1>1 DEF NetInv, BufferIntact
<1> QED  BY <1>1, <1>2

LEMMA InitDecode == Init => DecodeInv
<1> SUFFICES ASSUME Init PROVE DecodeInv
  OBVIOUS
<1>1. NetInv
  <2>1. mem \in [0..(len - 1) -> Nat]
    BY DEF Init
  <2>2. TypeOK
    BY <2>1, BufferAssumption DEF Init, TypeOK
  <2>3. BufferIntact
    BY BufferAssumption DEF Init, BufferIntact, BufferShape, Used
  <2> QED  BY <2>2, <2>3 DEF NetInv
<1>2. Done = 0 /\ decoded = <<>>
  BY DEF Init, Done
<1>3. History
  BY <1>2, PacketFacts DEF History
<1>4. Position /\ State
  BY <1>2, FirstFacts DEF Init, Position, State, Used
<1> QED  BY <1>1, <1>3, <1>4 DEF DecodeInv

(* Steps that neither consume nor decode.                                  *)
LEMMA DecodeKept ==
  ASSUME DecodeInv, NetInv', State', decoded' = decoded, next' = next, Used' = Used
  PROVE  DecodeInv'
  BY DEF DecodeInv, History, Position, Done

(* The varint under the cursor is the size of the next packet.             *)
LEMMA SizeDecodes ==
  ASSUME DecodeInv, Size, NetInv'
  PROVE  DecodeInv'
<1>1. PICK k \in 1..Count : /\ First[k] = mem[cur] /\ inUse >= Packets[k].hdr
                           /\ next' = Packets[k].body /\ Advance(Packets[k].hdr)
  BY DEF Size, PacketAt, Count
<1>2. /\ pc = "size" /\ pc' = "frame" /\ next = NoSize /\ inUse > 0 /\ nread = 0
      /\ UNCHANGED <<comp, proto, nread, got, jobs, decoded>>
  BY DEF Size, Goto, DecodeInv, NetInv, TypeOK
<1>3. Done \in Nat /\ Done <= Count /\ Count \in Nat /\ Done' = Done
  BY <1>2, PacketFacts, LenProperties DEF DecodeInv, History, Done
<1>4. First[k] = First[Done + 1]
  BY <1>1, <1>2, Cursor DEF DecodeInv, Position
<1>5. k = Done + 1
  BY <1>3, <1>4, FirstApart
<1>6. Packets[k].hdr \in Nat /\ Packets[k].body \in Nat
  BY PacketFacts
<1>7. Used' = Used + Packets[k].hdr /\ Used \in Int
  <2>1. inUse \in Nat /\ got \in Nat
    BY DEF DecodeInv, NetInv, TypeOK
  <2>2. inUse' = inUse - Packets[k].hdr
    BY <1>1, <1>6, <2>1 DEF Advance
  <2> QED  BY <1>2, <1>6, <2>1, <2>2 DEF Used
<1>8. next' # NoSize
  BY <1>1, <1>6 DEF NoSize
<1>9. First[Done + 1] \in Nat
  BY <1>3, FirstIncreases
<1>10. Position'
  <2>1. Used' + 1 = First[Done + 1] + Packets[Done + 1].hdr
    BY <1>2, <1>5, <1>6, <1>7, <1>9 DEF DecodeInv, Position
  <2> QED  BY <1>1, <1>3, <1>5, <1>8, <2>1 DEF Position
<1>11. State'
  BY <1>2, <1>3 DEF DecodeInv, State, InStateOf
<1>12. History'
  BY <1>2 DEF DecodeInv, History, Done
<1> QED  BY <1>10, <1>11, <1>12 DEF DecodeInv

(* What is taken from the buffer is the next packet, all of it, and the    *)
(* state is the one it was encoded in.                                     *)
LEMMA DecodeDecodes ==
  ASSUME DecodeInv, Decode, NetInv'
  PROVE  DecodeInv'
<1>1. PICK k \in 1..Count :
        /\ First[k] + Packets[k].hdr = mem[cur]
        /\ decoded' = Append(decoded, [packet |-> k, comp |-> comp, proto |-> proto])
  BY DEF Decode, Count
<1>2. /\ pc = "frame" /\ pc' = "unlock" /\ next # NoSize /\ next' = NoSize /\ nread = 0
      /\ next \in Nat /\ next <= inUse /\ Advance(next)
      /\ UNCHANGED <<comp, proto, nread, got, jobs>>
  BY DEF Decode, Goto, DecodeInv, NetInv, TypeOK
<1>3. Done \in Nat /\ Done < Count /\ Count \in Nat /\ Done + 1 \in 1..Count
  BY <1>2, PacketFacts, LenProperties DEF DecodeInv, History, Position, Done
<1>4. next = Packets[Done + 1].body /\ next > 0
  BY <1>2, <1>3, PacketFacts DEF DecodeInv, Position
<1>5. mem[cur] = Used + 1 /\ Used \in Int
  BY <1>2, <1>4, Cursor DEF DecodeInv, NetInv, TypeOK, Used
<1>6. k = Done + 1
  BY <1>1, <1>2, <1>3, <1>5, FirstApart DEF DecodeInv, Position
<1>7. Used' = Used + next
  <2>1. inUse \in Nat /\ got \in Nat
    BY DEF DecodeInv, NetInv, TypeOK
  <2>2. inUse' = inUse - next
    BY <1>2, <2>1 DEF Advance
  <2> QED  BY <1>2, <2>1, <2>2 DEF Used
<1>8. InStateOf(k)
  BY <1>2, <1>6 DEF DecodeInv, State
<1>9. [packet |-> k, comp |-> comp, proto |-> proto] = EncodedAs(k)
  BY <1>8 DEF InStateOf, EncodedAs
<1>10. History' /\ Done' = Done + 1
  <2> DEFINE S == [packet : Nat, comp : BOOLEAN, proto : {"handshaking", "login", "play"}]
             new == [packet |-> k, comp |-> comp, proto |-> proto]
  <2>1. new \in S
    BY <1>3 DEF DecodeInv, NetInv, TypeOK
  <2>2. decoded \in Seq(S)
    BY DEF DecodeInv, History
  <2> HIDE DEF S, new
  <2>3. /\ decoded' \in Seq(S) /\ Len(decoded') = Len(decoded) + 1
        /\ decoded'[Len(decoded) + 1] = new
        /\ \A i \in 1..Len(decoded) : decoded'[i] = decoded[i]
    BY <1>1, <2>1, <2>2, AppendProperties DEF new
  <2>4. \A i \in 1..(Done + 1) : decoded'[i] = EncodedAs(i)
    BY <1>3, <1>6, <1>9, <2>3 DEF DecodeInv, History, Done, new
  <2>5. \A i : EncodedAs(i)' = EncodedAs(i)
    BY DEF EncodedAs, Sent
  <2> QED  BY <1>3, <2>3, <2>4, <2>5 DEF History, Done, S
<1>11. Position'
  <2>1. First[Done + 1] \in Nat /\ First[(Done + 1) + 1] = First[Done + 1] + Sizes(Done + 1)
    BY <1>3, FirstFacts, FirstIncreases
  <2>2. Used' + 1 = First[(Done + 1) + 1]
    BY <1>2, <1>3, <1>4, <1>5, <1>7, <2>1, PacketFacts DEF DecodeInv, Position
  <2> QED  BY <1>2, <1>10, <2>2 DEF Position
<1>12. State'
  <2>1. jobs = {} /\ Done' = k
    BY <1>2, <1>6, <1>10 DEF DecodeInv, State
  <2>2. InStateOf(Done)'
    BY <1>2, <1>8, <2>1 DEF InStateOf
  <2> QED  BY <1>2, <1>3, <1>6, <1>10, <2>1, <2>2 DEF State
<1> QED  BY <1>10, <1>11, <1>12 DEF DecodeInv

(* sbnet_compress_cb and sbnet_success_cb do to the state what the packet  *)
(* that has emitted the event does to the encoding of those behind it.     *)
LEMMA HandlerCatchesUp ==
  ASSUME DecodeInv, CompressCb \/ SuccessCb, NetInv'
  PROVE  DecodeInv'
<1>1. /\ UNCHANGED <<mem, len, cur, inUse, rem, next, pc, nread, got, decoded>>
      /\ jobs # {} /\ jobs \subseteq Handled
  BY DEF CompressCb, SuccessCb, buf, DecodeInv, NetInv, TypeOK
<1>2. Done' = Done /\ Used' = Used
  BY <1>1 DEF Done, Used
<1>3. State'
  <2>1. CASE pc = "wait"
    <3>1. /\ Done > 0 /\ jobs = {Packets[Done].event} /\ InStateOf(Done)
          /\ Packets[Done].event \in Handled
      BY <1>1, <2>1 DEF DecodeInv, State
    <3>2. Done \in 1..Count
      BY <3>1, PacketFacts, LenProperties DEF DecodeInv, History, Done
    <3>3. PICK d : d = Done
      OBVIOUS
    <3>4. jobs' = {} /\ comp' = EncodedAs(d + 1).comp /\ proto' = EncodedAs(d + 1).proto
      <4>1. CASE CompressCb
        <5>1. Packets[d].event = "compress" /\ jobs' = {} /\ comp' = TRUE /\ proto' = proto
          BY <3>1, <3>3, <4>1 DEF CompressCb
        <5>2. EncodedAs(d + 1).comp = TRUE /\ EncodedAs(d + 1).proto = EncodedAs(d).proto
          BY <3>2, <3>3, <5>1, StateAfter
        <5> QED  BY <3>1, <3>3, <5>1, <5>2 DEF InStateOf
      <4>2. CASE SuccessCb
        <5>1. Packets[d].event = "success" /\ jobs' = {} /\ comp' = comp /\ proto' = "play"
          BY <3>1, <3>3, <4>2 DEF SuccessCb
        <5>2. EncodedAs(d + 1).comp = EncodedAs(d).comp /\ EncodedAs(d + 1).proto = "play"
          <6>1. EncodedAs(d).comp \in BOOLEAN
            BY <3>1, <3>3 DEF InStateOf, DecodeInv, NetInv, TypeOK
          <6>2. EncodedAs(d + 1).comp = (EncodedAs(d).comp \/ Packets[d].event = "compress")
            BY <3>2, <3>3, StateAfter
          <6>3. EncodedAs(d + 1).proto = "play"
            BY <3>2, <3>3, <5>1, StateAfter
          <6> QED  BY <5>1, <6>1, <6>2, <6>3
        <5> QED  BY <3>1, <3>3, <5>1, <5>2 DEF InStateOf
      <4> QED  BY <4>1, <4>2
    <3>5. InStateOf(Done + 1)'
      BY <1>2, <3>3, <3>4 DEF InStateOf
    <3> QED  BY <1>1, <1>2, <2>1, <3>1, <3>4, <3>5 DEF State
  <2>2. CASE pc # "wait"
    <3>1. pc \in {"hung", "exit"}
      BY <1>1, <2>2 DEF DecodeInv, State, NetInv, TypeOK
    <3> QED  BY <1>1, <3>1 DEF State
  <2> QED  BY <2>1, <2>2
<1> QED  BY <1>1, <1>2, <1>3, DecodeKept DEF DecodeInv

(* The packet decoded last.                                                *)
LEMMA LastIsDone ==
  ASSUME DecodeInv, Done > 0
  PROVE  Last = Done /\ Done \in 1..Count
<1>1. Done \in Nat
  BY LenProperties DEF DecodeInv, History, Done
<1>2. Done <= Count /\ \A i \in 1..Done : decoded[i] = EncodedAs(i)
  BY DEF DecodeInv, History
<1>3. PICK d : d = Done
  OBVIOUS
<1>4. d \in 1..Done /\ d \in 1..Count
  BY <1>1, <1>2, <1>3, PacketFacts
<1>5. decoded[d] = EncodedAs(d)
  BY <1>2, <1>4
<1>6. EncodedAs(d).packet = d
  BY DEF EncodedAs
<1> QED  BY <1>3, <1>4, <1>5, <1>6 DEF Last, Done

LEMMA DecodeStep == DecodeInv /\ NetInv' /\ [Next]_vars => DecodeInv'
<1> SUFFICES ASSUME DecodeInv, NetInv', [Next]_vars PROVE DecodeInv'
  OBVIOUS
(* A step that leaves what State is about alone, and stays on its side of  *)
(* a decoding.                                                             *)
<1>1. ASSUME UNCHANGED <<next, comp, proto, jobs, decoded>>, Used' = Used,
             \/ /\ pc \in {"poll", "read", "lock", "size", "frame"}
                /\ pc' \in {"poll", "read", "lock", "size", "frame", "exit"}
             \/ pc = "unlock" /\ pc' = "emit"
             \/ pc' = "exit" \/ pc' = pc
      PROVE  DecodeInv'
  <2>1. Done' = Done
    BY <1>1 DEF Done
  <2>2. State'
    BY <1>1, <2>1 DEF DecodeInv, State, InStateOf
  <2> QED  BY <1>1, <2>2, DecodeKept DEF DecodeInv
<1>2. CASE Connect
  <2>1. /\ pc = "connect" /\ pc' = "poll" /\ proto' = "login"
        /\ UNCHANGED <<next, comp, jobs, decoded, inUse, nread, got>>
    BY <1>2 DEF Connect, Goto, buf
  <2>2. Done' = Done /\ Used' = Used /\ Done = 0 /\ comp = FALSE /\ jobs = {}
    BY <2>1 DEF Done, Used, DecodeInv, State
  <2>3. PICK d : d = Done
    OBVIOUS
  <2>4. InStateOf(Done + 1)'
    <3>1. EncodedAs(d + 1).comp = FALSE /\ EncodedAs(d + 1).proto = "login"
      BY <2>2, <2>3 DEF EncodedAs, Sent
    <3>2. comp' = FALSE /\ Done' = d
      BY <2>1, <2>2, <2>3
    <3> QED  BY <2>1, <3>1, <3>2 DEF InStateOf
  <2>5. State'
    BY <2>1, <2>2, <2>4 DEF State
  <2> QED  BY <2>1, <2>2, <2>5, DecodeKept DEF DecodeInv
<1>3. CASE ConnectFails \/ ReadFails \/ SizeOverrun \/ SizeKnown \/ FrameShort \/ UnlockNet
  BY <1>1, <1>3 DEF ConnectFails, ReadFails, SizeOverrun, SizeKnown, FrameShort, UnlockNet,
                    Goto, buf, Used
<1>4. CASE AllocCb
  <2>1. inUse' = inUse
    BY <1>4 DEF AllocCb, MakeRoom, buf
  <2> QED  BY <1>1, <1>4, <2>1 DEF AllocCb, Goto, Used
<1>5. ASSUME NEW n \in 0..Suggested, Read(n) PROVE DecodeInv'
  <2>1. inUse \in Nat /\ got \in Nat /\ nread = 0
    BY <1>5 DEF Read, Goto, DecodeInv, NetInv, TypeOK
  <2>2. n \in Int /\ nread' = n /\ got' = got + n /\ inUse' = inUse
    BY <1>5, BufferAssumption DEF Read
  <2>3. Used' = Used
    BY <2>1, <2>2 DEF Used
  <2> QED  BY <1>1, <1>5, <2>3 DEF Read, Goto
<1>6. CASE LockNet
  <2>1. inUse \in Nat /\ got \in Nat /\ nread \in Nat
    BY DEF DecodeInv, NetInv, TypeOK
  <2>2. nread' = 0 /\ got' = got /\ inUse' = inUse + nread
    BY <1>6 DEF LockNet
  <2>3. Used' = Used
    BY <2>1, <2>2 DEF Used
  <2> QED  BY <1>1, <1>6, <2>3 DEF LockNet, Goto
<1>7. CASE Size
  BY <1>7, SizeDecodes
<1>8. CASE Decode
  BY <1>8, DecodeDecodes
<1>9. CASE Emit
  <2>1. /\ pc = "emit" /\ pc' = "wait" /\ UNCHANGED <<next, comp, proto, decoded, inUse, nread, got>>
        /\ Packets[Last].event \in Handled /\ jobs' = jobs \cup {Packets[Last].event}
    BY <1>9 DEF Emit, Goto, buf
  <2>2. Done' = Done /\ Used' = Used /\ Done > 0 /\ jobs = {} /\ InStateOf(Done)
    BY <2>1 DEF Done, Used, DecodeInv, State
  <2>3. Last = Done
    BY <2>2, LastIsDone
  <2>4. State'
    BY <2>1, <2>2, <2>3 DEF State, InStateOf
  <2> QED  BY <2>1, <2>2, <2>4, DecodeKept DEF DecodeInv
<1>10. CASE EmitNothing
  <2>1. /\ pc = "emit" /\ pc' \in {"size", "hung"}
        /\ UNCHANGED <<next, comp, proto, jobs, decoded, inUse, nread, got>>
        /\ Packets[Last].event \notin Handled
    BY <1>10 DEF EmitNothing, buf
  <2>2. Done' = Done /\ Used' = Used /\ Done > 0 /\ jobs = {} /\ InStateOf(Done)
    BY <2>1 DEF Done, Used, DecodeInv, State
  <2>3. Last = Done /\ Done \in 1..Count
    BY <2>2, LastIsDone
  <2>4. PICK d \in 1..Count : d = Done
    BY <2>3
  <2>5. EncodedAs(d + 1).comp = EncodedAs(d).comp /\ EncodedAs(d + 1).proto = EncodedAs(d).proto
    <3>1. Packets[d].event # "compress" /\ Packets[d].event # "success"
      BY <2>1, <2>3, <2>4 DEF Handled
    <3>2. EncodedAs(d).comp \in BOOLEAN
      BY <2>2, <2>4 DEF InStateOf, DecodeInv, NetInv, TypeOK
    <3>3. EncodedAs(d + 1).comp = (EncodedAs(d).comp \/ Packets[d].event = "compress")
      BY StateAfter
    <3>4. EncodedAs(d + 1).proto = EncodedAs(d).proto
      BY <3>1, StateAfter
    <3> QED  BY <3>1, <3>2, <3>3, <3>4
  <2>6. InStateOf(Done + 1)'
    BY <2>1, <2>2, <2>4, <2>5 DEF InStateOf
  <2>7. State'
    BY <2>1, <2>2, <2>6 DEF State
  <2> QED  BY <2>1, <2>2, <2>7, DecodeKept DEF DecodeInv
<1>11. CASE CompressCb \/ SuccessCb
  BY <1>11, HandlerCatchesUp
<1>12. CASE WaitOver
  <2>1. /\ pc = "wait" /\ pc' = "size" /\ jobs = {}
        /\ UNCHANGED <<next, comp, proto, jobs, decoded, inUse, nread, got>>
    BY <1>12 DEF WaitOver, Goto, buf
  <2>2. Done' = Done /\ Used' = Used /\ InStateOf(Done + 1)
    BY <2>1 DEF Done, Used, DecodeInv, State
  <2>3. State'
    BY <2>1, <2>2 DEF State, InStateOf
  <2> QED  BY <2>1, <2>2, <2>3, DecodeKept DEF DecodeInv
<1>13. CASE UNCHANGED vars
  BY <1>1, <1>13 DEF vars, Used
<1> QED  BY <1>2, <1>3, <1>4, <1>5, <1>6, <1>7, <1>8, <1>9, <1>10, <1>11, <1>12, <1>13
         DEF Next, ReadCb

(* For every sequence of packets and every way of cutting it into reads:   *)
(* each packet is decoded once, in order, and in the state in which the    *)
(* server encoded it, although the handlers that change this state run in  *)
(* other fibers (sb_net.c:102-204).                                        *)
THEOREM DecodedAsEncodedAlways == Spec => []DecodedAsEncoded
<1>1. DecodeInv => DecodedAsEncoded
  <2> SUFFICES ASSUME DecodeInv PROVE DecodedAsEncoded
    OBVIOUS
  <2>1. DOMAIN decoded = 1..Done
    BY LenProperties DEF DecodeInv, History, Done
  <2> QED  BY <2>1 DEF DecodeInv, History, DecodedAsEncoded
<1>2. Spec => []NetInv
  BY BufferInvariant
<1> QED  BY <1>1, <1>2, InitDecode, DecodeStep, PTL DEF Spec
=============================================================================
