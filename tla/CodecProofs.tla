----------------------------- MODULE CodecProofs -----------------------------
(***************************************************************************)
(* What the codecs of datautils.c do with numbers and strings, for every   *)
(* value and not only for those of the runs: first each function by        *)
(* itself, then Codec, the life of a value from size_ to free_.            *)
(***************************************************************************)
EXTENDS Codec, TLAPS

-----------------------------------------------------------------------------
(* Fixed widths. *)

LEMMA DivMod ==
  ASSUME NEW i \in Nat
  PROVE  /\ i \div 8 \in Nat /\ i % 8 \in 0..7
         /\ 8 * (i \div 8) + (i % 8) = i
BY SMT

LEMMA DivBound ==
  ASSUME NEW n \in Nat, NEW i \in 0..(8 * n - 1)
  PROVE  i \div 8 \in 0..(n - 1)
BY SMT

\* dec_be reads back the low 8n bits of what enc_be wrote, whatever comes
\* after it in memory.
THEOREM BigEndianRoundTrip ==
  ASSUME NEW n \in Nat, NEW v, NEW tail \in Seq(Byte)
  PROVE  dec_be(enc_be(v, n) \o tail, n) = Low(v, 8 * n)
<1> DEFINE s == enc_be(v, n)
<1>1. s \in Seq(Byte) /\ Len(s) = n /\ \A k \in 1..n : s[k] = {j \in 0..7 : 8 * (n - k) + j \in v}
  BY DEF enc_be, Byte
<1>2. \A k \in 1..n : (s \o tail)[k] = s[k]
  BY <1>1
<1>3. ASSUME NEW i \in 0..(8 * n - 1)
      PROVE  (i % 8 \in (s \o tail)[n - (i \div 8)]) <=> i \in v
  <2>1. n - (i \div 8) \in 1..n
    BY DivBound
  <2>2. (s \o tail)[n - (i \div 8)] = {j \in 0..7 : 8 * (n - (n - (i \div 8))) + j \in v}
    BY <1>1, <1>2, <2>1
  <2>3. 8 * (n - (n - (i \div 8))) + (i % 8) = i /\ i % 8 \in 0..7
    BY DivMod, DivBound
  <2> QED BY <2>2, <2>3
<1> HIDE DEF s
<1> QED BY <1>3 DEF dec_be, Low, s

\* The same for the little-endian codecs.
THEOREM LittleEndianRoundTrip ==
  ASSUME NEW n \in Nat, NEW v, NEW tail \in Seq(Byte)
  PROVE  dec_le(enc_le(v, n) \o tail, n) = Low(v, 8 * n)
<1> DEFINE s == enc_le(v, n)
<1>1. s \in Seq(Byte) /\ Len(s) = n /\ \A k \in 1..n : s[k] = {j \in 0..7 : 8 * (k - 1) + j \in v}
  BY DEF enc_le, Byte
<1>2. \A k \in 1..n : (s \o tail)[k] = s[k]
  BY <1>1
<1>3. ASSUME NEW i \in 0..(8 * n - 1)
      PROVE  (i % 8 \in (s \o tail)[1 + (i \div 8)]) <=> i \in v
  <2>1. 1 + (i \div 8) \in 1..n
    BY DivBound
  <2>2. (s \o tail)[1 + (i \div 8)] = {j \in 0..7 : 8 * (1 + (i \div 8) - 1) + j \in v}
    BY <1>1, <1>2, <2>1
  <2>3. 8 * (1 + (i \div 8) - 1) + (i % 8) = i /\ i % 8 \in 0..7
    BY DivMod, DivBound
  <2> QED BY <2>2, <2>3
<1> HIDE DEF s
<1> QED BY <1>3 DEF dec_le, Low, s

-----------------------------------------------------------------------------
(* Variable-length integers. *)

\* Least gives the least element of a set of numbers that has one in sight.
LEMMA LeastFact ==
  ASSUME NEW S, NEW k \in S, \A m \in S : k <= m, S \subseteq Int
  PROVE  Least(S) = k
<1>1. \E l \in S : \A m \in S : l <= m
  OBVIOUS
<1>2. Least(S) \in S /\ \A m \in S : Least(S) <= m
  BY <1>1, Zenon DEF Least
<1>3. Least(S) <= k /\ k <= Least(S) /\ Least(S) \in Int /\ k \in Int
  BY <1>2
<1> HIDE DEF Least
<1> QED BY <1>3

\* The least of some of the numbers up to n.
LEMMA LeastUpTo ==
  ASSUME NEW n \in Nat, n <= 10, NEW S \in SUBSET (1..n), S # {}
  PROVE  Least(S) \in S /\ \A m \in S : Least(S) <= m
<1>1. \E k \in S : \A m \in S : k <= m
  <2>1. S \subseteq 1..10
    OBVIOUS
  <2>2. CASE 1 \in S BY <2>1, <2>2
  <2>3. CASE 1 \notin S /\ 2 \in S BY <2>1, <2>3
  <2>4. CASE 1 \notin S /\ 2 \notin S /\ 3 \in S BY <2>1, <2>4
  <2>5. CASE 1 \notin S /\ 2 \notin S /\ 3 \notin S /\ 4 \in S BY <2>1, <2>5
  <2>6. CASE 1 \notin S /\ 2 \notin S /\ 3 \notin S /\ 4 \notin S /\ 5 \in S BY <2>1, <2>6
  <2>7. CASE S \subseteq 6..10
    <3>1. CASE 6 \in S BY <2>7, <3>1
    <3>2. CASE 6 \notin S /\ 7 \in S BY <2>7, <3>2
    <3>3. CASE 6 \notin S /\ 7 \notin S /\ 8 \in S BY <2>7, <3>3
    <3>4. CASE 6 \notin S /\ 7 \notin S /\ 8 \notin S /\ 9 \in S BY <2>7, <3>4
    <3>5. CASE S \subseteq {10}
      <4>1. 10 \in S BY <3>5
      <4> QED BY <3>5, <4>1
    <3> QED BY <2>7, <3>1, <3>2, <3>3, <3>4, <3>5
  <2> QED BY <2>1, <2>2, <2>3, <2>4, <2>5, <2>6, <2>7
<1> QED BY <1>1, Zenon DEF Least

\* The groups of seven bits of a value: as few as hold it.
LEMMA GroupsFact ==
  ASSUME NEW v \in Word(64)
  PROVE  /\ Groups(v) \in 1..10 /\ Less(v, 7 * Groups(v))
         /\ \A n \in 1..10 : Less(v, 7 * n) => Groups(v) <= n
<1> DEFINE S == {n \in 1..10 : Less(v, 7 * n)}
<1>1. 10 \in S
  BY DEF Word, Less
<1>2. S \in SUBSET (1..10)
  OBVIOUS
<1>3. Groups(v) \in S /\ \A m \in S : Groups(v) <= m
  <2>1. Groups(v) = Least(S)
    BY DEF Groups
  <2> HIDE DEF S
  <2>2. S # {} /\ 10 \in Nat /\ 10 <= 10
    BY <1>1
  <2>3. Least(S) \in S /\ \A m \in S : Least(S) <= m
    BY <1>2, <2>2, LeastUpTo, Zenon
  <2> QED BY <2>1, <2>3, Zenon
<1> QED BY <1>3

\* Those of a 32-bit value are at most five.
LEMMA ShortFact ==
  ASSUME NEW v \in Word(32)
  PROVE  v \in Word(64) /\ Groups(v) \in 1..5
<1>1. v \in Word(64) /\ Less(v, 7 * 5)
  BY DEF Word, Less
<1> QED BY <1>1, GroupsFact

\* What enc_varint and enc_varlong write.
LEMMA EncVarnum ==
  ASSUME NEW v \in Word(64), NEW tail \in Seq(Byte)
  PROVE  /\ enc_varnum(v) \in Seq(Byte) /\ Len(enc_varnum(v)) = Groups(v)
         /\ enc_varnum(v) \o tail \in Seq(Byte)
         /\ Len(enc_varnum(v) \o tail) = Groups(v) + Len(tail)
         /\ \A k \in 1..Groups(v) : 7 \in (enc_varnum(v) \o tail)[k] <=> k < Groups(v)
         /\ \A k \in 1..Groups(v) : \A j \in 0..6 :
              j \in (enc_varnum(v) \o tail)[k] <=> 7 * (k - 1) + j \in v
<1> DEFINE e == enc_varnum(v)
           s == e \o tail
           byte(k) == {j \in 0..6 : 7 * (k - 1) + j \in v} \cup (IF k < Groups(v) THEN {7} ELSE {})
<1>1. Groups(v) \in 1..10
  BY GroupsFact
<1>2. e = [k \in 1..Groups(v) |-> byte(k)]
  BY DEF enc_varnum
<1>3. \A k \in 1..Groups(v) : byte(k) \in Byte /\ (7 \in byte(k) <=> k < Groups(v))
  BY DEF Byte
<1>7. ASSUME NEW k \in 1..Groups(v), NEW j \in 0..6 PROVE j \in byte(k) <=> 7 * (k - 1) + j \in v
  <2>1. j \notin (IF k < Groups(v) THEN {7} ELSE {})
    OBVIOUS
  <2> QED BY <2>1
<1> HIDE DEF byte
<1>4. e \in Seq(Byte) /\ Len(e) = Groups(v) /\ \A k \in 1..Groups(v) : e[k] = byte(k)
  BY <1>1, <1>2, <1>3
<1> HIDE DEF e
<1>5. s \in Seq(Byte) /\ Len(s) = Groups(v) + Len(tail) /\ \A k \in 1..Groups(v) : s[k] = e[k]
  BY <1>1, <1>4
<1>6. \A k \in 1..Groups(v) : s[k] = byte(k) /\ (7 \in s[k] <=> k < Groups(v))
  BY <1>3, <1>4, <1>5
<1>8. ASSUME NEW k \in 1..Groups(v), NEW j \in 0..6 PROVE j \in s[k] <=> 7 * (k - 1) + j \in v
  BY <1>6, <1>7
<1> QED BY <1>4, <1>5, <1>6, <1>8 DEF e

\* Its length.
LEMMA EncLen ==
  ASSUME NEW v \in Word(64)
  PROVE  enc_varnum(v) \in Seq(Byte) /\ Len(enc_varnum(v)) = Groups(v)
<1>1. <<>> \in Seq(Byte)
  OBVIOUS
<1> QED BY <1>1, EncVarnum

\* The dec_ functions move past all of it.
LEMMA VarLenFact ==
  ASSUME NEW v \in Word(64), NEW tail \in Seq(Byte)
  PROVE  VarLen(enc_varnum(v) \o tail) = Groups(v)
<1> DEFINE s == enc_varnum(v) \o tail
           S == {k \in 1..Len(s) : 7 \notin s[k]}
<1>1. Groups(v) \in 1..10
  BY GroupsFact
<1>2. /\ s \in Seq(Byte) /\ Len(s) = Groups(v) + Len(tail) /\ Len(tail) \in Nat
      /\ \A k \in 1..Groups(v) : 7 \in s[k] <=> k < Groups(v)
  BY EncVarnum
<1> HIDE DEF s
<1>3. Groups(v) \in S /\ \A m \in S : Groups(v) <= m
  <2>1. Groups(v) \in S
    <3>1. Groups(v) \in 1..Groups(v) /\ Groups(v) \in 1..Len(s)
      BY <1>1, <1>2
    <3>2. 7 \notin s[Groups(v)]
      BY <1>1, <1>2, <3>1
    <3> QED BY <3>1, <3>2
  <2>2. ASSUME NEW m \in S, m < Groups(v) PROVE FALSE
    BY <1>1, <1>2, <2>2
  <2> QED BY <1>1, <2>1, <2>2
<1>4. Least(S) = Groups(v)
  <2>1. S \subseteq Int
    OBVIOUS
  <2> HIDE DEF S
  <2> QED BY <1>3, <2>1, LeastFact, Zenon
<1> QED BY <1>4 DEF VarLen, s

LEMMA SevenDivMod ==
  ASSUME NEW i \in Nat
  PROVE  /\ i \div 7 \in Nat /\ i % 7 \in 0..6
         /\ 7 * (i \div 7) + (i % 7) = i
BY SMT

\* dec_varint reads back every 32-bit value that enc_varint wrote, whatever
\* comes after it in memory, and moves past all of its bytes.
THEOREM VarintRoundTrip ==
  ASSUME NEW v \in Word(32), NEW tail \in Seq(Byte)
  PROVE  /\ dec_varint(enc_varint(v) \o tail) = v
         /\ VarLen(enc_varint(v) \o tail) = Len(enc_varint(v))
<1> DEFINE s == enc_varnum(v) \o tail
           g == Groups(v)
<1>1. v \in Word(64) /\ g \in 1..5 /\ Less(v, 7 * g)
  BY ShortFact, GroupsFact
<1>2. VarLen(s) = g /\ Len(enc_varnum(v)) = g
  BY <1>1, VarLenFact, EncVarnum
<1>3. \A k \in 1..g : \A j \in 0..6 : j \in s[k] <=> 7 * (k - 1) + j \in v
  BY <1>1, EncVarnum
<1> HIDE DEF s, g
<1>4. ASSUME NEW i \in 0..31, i \div 7 < g
      PROVE  i % 7 \in s[1 + i \div 7] <=> i \in v
  <2>1. 1 + i \div 7 \in 1..g /\ i % 7 \in 0..6
        /\ 7 * (1 + (i \div 7) - 1) + (i % 7) = i
    BY <1>1, <1>4, SevenDivMod
  <2> DEFINE k == 1 + i \div 7
             j == i % 7
  <2>2. k \in 1..g /\ j \in 0..6 /\ 7 * (k - 1) + j = i
    BY <2>1
  <2>3. j \in s[k] <=> i \in v
    <3> HIDE DEF k, j
    <3>1. j \in s[k] <=> 7 * (k - 1) + j \in v
      BY <1>3, <2>2, Zenon
    <3> QED BY <2>2, <3>1
  <2> QED BY <2>3
<1>5. ASSUME NEW i \in v PROVE i \in 0..31 /\ i \div 7 < g
  <2>1. i \in 0..31 /\ i \in 0..(7 * g - 1)
    BY <1>1, <1>5 DEF Word, Less
  <2> QED BY <1>1, <2>1, SevenDivMod
<1>6. dec_varint(s) = {i \in 0..31 : i \div 7 < g /\ i % 7 \in s[1 + i \div 7]}
  BY <1>2 DEF dec_varint
<1>7. dec_varint(s) = v
  BY <1>4, <1>5, <1>6 DEF Word
<1> QED BY <1>2, <1>7 DEF s, g, enc_varint

\* What walk_varint and walk_varlong make of a value of g bytes of which the
\* first max_len are there, whatever comes after them: its length when those
\* are all and no more than they look at.
LEMMA WalkFact ==
  ASSUME NEW s, NEW g \in 1..10, NEW len \in Nat, NEW longest \in 1..10,
         \A k \in 1..g : k <= len => (7 \in s[k] <=> k < g)
  PROVE  walk_varnum(s, len, longest)
           = IF g <= longest
               THEN IF len < g THEN varnum_overrun ELSE g
               ELSE IF len < longest THEN varnum_overrun ELSE varnum_invalid
<1> DEFINE S == {k \in 1..longest : (len >= 0 /\ k >= len) \/ k = longest \/ 7 \notin s[k]}
<1>1. S \subseteq Int
  OBVIOUS
<1>2. walk_varnum(s, len, longest)
        = CASE len = 0 -> varnum_overrun
            [] len # 0 /\ 7 \notin s[Least(S)] -> Least(S)
            [] len # 0 /\ 7 \in s[Least(S)] /\ Least(S) = longest -> varnum_invalid
            [] OTHER -> varnum_overrun
  BY DEF walk_varnum
<1>3. CASE len = 0
  BY <1>2, <1>3
<1>4. CASE g <= longest /\ len >= g
  <2>1. g \in S /\ \A m \in S : g <= m
    BY <1>4
  <2>2. Least(S) = g
    <3> HIDE DEF S
    <3> QED BY <1>1, <2>1, LeastFact, Zenon
  <2>3. 7 \notin s[Least(S)] /\ len # 0
    BY <1>4, <2>2
  <2> HIDE DEF S
  <2>4. walk_varnum(s, len, longest) = g
    BY <1>2, <2>2, <2>3
  <2> QED BY <1>4, <2>4
<1>5. CASE len # 0 /\ len < g /\ len < longest
  <2>1. len \in S /\ \A m \in S : len <= m
    BY <1>5
  <2>2. Least(S) = len
    <3> HIDE DEF S
    <3> QED BY <1>1, <2>1, LeastFact, Zenon
  <2>3. 7 \in s[Least(S)] /\ Least(S) # longest
    BY <1>5, <2>2
  <2> HIDE DEF S
  <2>4. walk_varnum(s, len, longest) = varnum_overrun
    BY <1>2, <1>5, <2>2, <2>3
  <2> QED BY <1>5, <2>4
<1>6. CASE longest < g /\ len >= longest
  <2>1. longest \in S /\ \A m \in S : longest <= m
    BY <1>6
  <2>2. Least(S) = longest
    <3> HIDE DEF S
    <3> QED BY <1>1, <2>1, LeastFact, Zenon
  <2>3. 7 \in s[Least(S)] /\ len # 0
    BY <1>6, <2>2
  <2> HIDE DEF S
  <2>4. walk_varnum(s, len, longest) = varnum_invalid
    BY <1>2, <2>2, <2>3
  <2> QED BY <1>6, <2>4
<1> QED BY <1>3, <1>4, <1>5, <1>6

\* Of an encoded value.
LEMMA VarnumWalk ==
  ASSUME NEW v \in Word(64), NEW tail \in Seq(Byte), NEW len \in Nat, NEW longest \in 1..10
  PROVE  walk_varnum(enc_varnum(v) \o tail, len, longest)
           = IF Groups(v) <= longest
               THEN IF len < Groups(v) THEN varnum_overrun ELSE Groups(v)
               ELSE IF len < longest THEN varnum_overrun ELSE varnum_invalid
<1>1. Groups(v) \in 1..10
  BY GroupsFact
<1>2. \A k \in 1..Groups(v) : 7 \in (enc_varnum(v) \o tail)[k] <=> k < Groups(v)
  BY EncVarnum
<1> QED BY <1>1, <1>2, WalkFact

\* walk_varint of an encoded value is its length when max_len covers all of
\* it, and varnum_overrun when it covers only a part, whatever memory holds
\* after the value.
THEOREM VarintWalk ==
  ASSUME NEW v \in Word(32), NEW tail \in Seq(Byte), NEW len \in Nat
  PROVE  walk_varint(enc_varint(v) \o tail, len)
           = IF len < Len(enc_varint(v)) THEN varnum_overrun ELSE Len(enc_varint(v))
<1>1. v \in Word(64) /\ Groups(v) <= 5 /\ Len(enc_varnum(v)) = Groups(v)
  BY ShortFact, EncLen
<1> QED BY <1>1, VarnumWalk DEF walk_varint, enc_varint

\* walk_varlong does the same for values below 2^63.  Those from 2^63 on, the
\* negative numbers, take ten bytes and it looks at nine: it calls them
\* invalid although they are all there (datautils.c:230).
THEOREM VarlongWalk ==
  ASSUME NEW v \in Word(64), NEW tail \in Seq(Byte), NEW len \in Nat
  PROVE  walk_varlong(enc_varlong(v) \o tail, len)
           = IF Less(v, 63)
               THEN IF len < Len(enc_varlong(v)) THEN varnum_overrun ELSE Len(enc_varlong(v))
               ELSE IF len < 9 THEN varnum_overrun ELSE varnum_invalid
<1>1. Len(enc_varnum(v)) = Groups(v)
  BY EncLen
<1>2. Less(v, 63) <=> Groups(v) <= 9
  <2>1. Less(v, 7 * 9) => Groups(v) <= 9
    BY GroupsFact
  <2>2. Groups(v) <= 9 => Less(v, 63)
    <3>1. Groups(v) \in 1..10 /\ v \subseteq 0..(7 * Groups(v) - 1)
      BY GroupsFact DEF Less
    <3>2. ASSUME Groups(v) <= 9, NEW i \in v PROVE i \in 0..62
      <4>1. i \in 0..(7 * Groups(v) - 1) /\ 7 * Groups(v) <= 63
        BY <3>1, <3>2
      <4> QED BY <3>1, <4>1
    <3>3. Groups(v) <= 9 => v \subseteq 0..62
      BY <3>2
    <3> QED BY <3>3 DEF Less
  <2> QED BY <2>1, <2>2
<1> QED BY <1>1, <1>2, VarnumWalk DEF walk_varlong, enc_varlong

\* The size_ functions.
LEMMA VarnumSize ==
  ASSUME NEW v \in Word(64), NEW longest \in 1..10, Groups(v) <= longest, longest > 1
  PROVE  size_varnum(v, longest) = Groups(v) - IF Less(v, 8) /\ ~Less(v, 7) THEN 1 ELSE 0
<1> DEFINE g == Groups(v)
           S == {n \in 1..longest : n = longest \/ Less(v, SizeBound[n])}
<1>1. g \in 1..10 /\ Less(v, 7 * g) /\ \A n \in 1..10 : Less(v, 7 * n) => g <= n
  BY GroupsFact
<1>2. SizeBound[1] = 8 /\ \A n \in 2..9 : SizeBound[n] = 7 * n
  BY DEF SizeBound
<1>3. \A m, n \in Int : m <= n /\ Less(v, m) => Less(v, n)
  BY DEF Less
<1>4. S \subseteq Int /\ size_varnum(v, longest) = Least(S)
  BY DEF size_varnum
<1> HIDE DEF g
<1>5. CASE Less(v, 8)
  <2>1. 1 \in S /\ \A m \in S : 1 <= m
    BY <1>2, <1>5
  <2>2. Least(S) = 1
    <3> HIDE DEF S
    <3> QED BY <1>4, <2>1, LeastFact, Zenon
  <2>3. g = IF Less(v, 7) THEN 1 ELSE 2
    <3>1. Less(v, 7 * 2)
      BY <1>3, <1>5
    <3>2. g <= 2
      BY <1>1, <3>1
    <3>3. Less(v, 7) <=> Less(v, 7 * 1)
      OBVIOUS
    <3>4. Less(v, 7) => g <= 1
      BY <1>1, <3>3
    <3>5. g = 1 => Less(v, 7)
      BY <1>1, <3>3
    <3> QED BY <1>1, <3>2, <3>4, <3>5
  <2> QED BY <1>4, <1>5, <2>2, <2>3 DEF g
<1>6. CASE ~Less(v, 8)
  <2>1. g # 1
    BY <1>1, <1>3, <1>6
  <2>2. g \in S
    <3>1. CASE g = longest
      BY <3>1
    <3>2. CASE g < longest
      BY <1>1, <1>2, <2>1, <3>2
    <3> QED BY <1>1, <3>1, <3>2 DEF g
  <2>3. ASSUME NEW m \in S, m < g PROVE FALSE
    <3>1. m \in 1..9 /\ Less(v, SizeBound[m])
      BY <1>1, <2>3 DEF g
    <3>2. m # 1
      BY <1>2, <1>6, <3>1
    <3>3. Less(v, 7 * m)
      BY <1>2, <3>1, <3>2
    <3> QED BY <1>1, <2>3, <3>1, <3>3
  <2>4. \A m \in S : g <= m
    BY <1>1, <2>3
  <2>5. Least(S) = g
    <3> HIDE DEF S
    <3> QED BY <1>4, <2>2, <2>4, LeastFact, Zenon
  <2>6. size_varnum(v, longest) = g
    BY <1>4, <2>5
  <2> QED BY <1>1, <1>6, <2>6 DEF g
<1> QED BY <1>5, <1>6

\* size_varint is the length of the encoding for every value but those from
\* 128 to 255, for which it is one byte short (datautils.c:159).
THEOREM VarintSize ==
  ASSUME NEW v \in Word(32)
  PROVE  size_varint(v) = Len(enc_varint(v)) - IF Less(v, 8) /\ ~Less(v, 7) THEN 1 ELSE 0
<1>1. v \in Word(64) /\ Groups(v) <= 5 /\ Len(enc_varnum(v)) = Groups(v)
  BY ShortFact, EncLen
<1> QED BY <1>1, VarnumSize DEF size_varint, enc_varint

\* So is size_varlong (datautils.c:204).
THEOREM VarlongSize ==
  ASSUME NEW v \in Word(64)
  PROVE  size_varlong(v) = Len(enc_varlong(v)) - IF Less(v, 8) /\ ~Less(v, 7) THEN 1 ELSE 0
<1>1. Groups(v) <= 10 /\ Len(enc_varnum(v)) = Groups(v)
  BY GroupsFact, EncLen
<1> QED BY <1>1, VarnumSize DEF size_varlong, enc_varlong

\* One byte of a varlong as dec_varlong makes an int of it: bit i of the value
\* comes to be bit i modulo 32, and is lost between 32 and 34.
LEMMA IntShiftFact ==
  ASSUME NEW v \in Word(64), NEW k \in 1..10, NEW b,
         \A j \in 0..6 : j \in b <=> 7 * (k - 1) + j \in v
  PROVE  Low(Shl(Low(b, 7), (7 * (k - 1)) % 32), 32)
           = {i % 32 : i \in {x \in v \ (32..34) : x \in 7 * (k - 1)..7 * (k - 1) + 6}}
<1> DEFINE a == 7 * (k - 1)
           L == Low(Shl(Low(b, 7), a % 32), 32)
           R == {i % 32 : i \in {x \in v \ (32..34) : x \in a..a + 6}}
<1>1. \A x \in 0..63 : x \in a..a + 6 =>
        /\ (a % 32) + (x - a) = IF x \in 32..34 THEN x ELSE x % 32
        /\ x % 32 \in 0..31
  <2>1. k \in {1, 2, 3, 4, 5, 6, 7, 8, 9, 10}
    OBVIOUS
  <2> QED BY <2>1
<1>2. ASSUME NEW y \in L PROVE y \in R
  <2>1. PICK j \in b \cap (0..6) : y = j + (a % 32) /\ y \in 0..31
    BY <1>2 DEF Low, Shl
  <2>2. PICK x \in v : x = a + j
    BY <2>1
  <2>5. x \in 0..63 /\ x \in a..a + 6 /\ x - a = j /\ a \in Int
    <3>1. x \in 0..63
      BY DEF Word
    <3>2. j \in 0..6 /\ a \in Int
      BY <2>1
    <3> HIDE DEF a
    <3> QED BY <2>2, <3>1, <3>2
  <2>3. y = IF x \in 32..34 THEN x ELSE x % 32
    <3>1. (a % 32) + (x - a) = IF x \in 32..34 THEN x ELSE x % 32
      BY <1>1, <2>5
    <3>2. a % 32 \in Int /\ j \in Int
      BY <2>1, <2>5
    <3> HIDE DEF a
    <3> QED BY <2>1, <2>5, <3>1, <3>2
  <2>4. x \notin 32..34 /\ y = x % 32
    BY <2>1, <2>3
  <2> QED BY <2>4, <2>5
<1>3. ASSUME NEW y \in R PROVE y \in L
  <2>1. PICK x \in v : x \notin 32..34 /\ x \in a..a + 6 /\ y = x % 32
    BY <1>3
  <2>2. x \in 0..63 /\ x - a \in 0..6 /\ a + (x - a) = x
    BY <2>1 DEF Word
  <2>3. x - a \in b
    BY <2>1, <2>2
  <2>4. y = (x - a) + (a % 32) /\ y \in 0..31
    BY <1>1, <2>1, <2>2
  <2>5. y \in Shl(Low(b, 7), a % 32)
    BY <2>2, <2>3, <2>4 DEF Low, Shl
  <2> QED BY <2>4, <2>5 DEF Low
<1> QED BY <1>2, <1>3

\* What dec_varlong makes of any 64-bit value that enc_varlong wrote: the bits
\* of the upper half fall on those of the lower, three are lost, and bit 31 is
\* extended as a sign, for the shift is that of an int (datautils.c:250).
THEOREM VarlongDecoded ==
  ASSUME NEW v \in Word(64), NEW tail \in Seq(Byte)
  PROVE  /\ dec_varlong(enc_varlong(v) \o tail)
              = Extend({i % 32 : i \in v \ (32..34)}, 32, 64)
         /\ VarLen(enc_varlong(v) \o tail) = Len(enc_varlong(v))
<1> DEFINE s == enc_varnum(v) \o tail
           g == Groups(v)
           part(k) == {i % 32 : i \in {x \in v \ (32..34) : x \in 7 * (k - 1)..7 * (k - 1) + 6}}
           all == {i % 32 : i \in v \ (32..34)}
<1>1. g \in 1..10 /\ VarLen(s) = g /\ Len(enc_varnum(v)) = g /\ Less(v, 7 * g)
  BY GroupsFact, VarLenFact, EncLen
<1>2. \A k \in 1..g : \A j \in 0..6 : j \in s[k] <=> 7 * (k - 1) + j \in v
  BY EncVarnum
<1> HIDE DEF s, g
<1>3. ASSUME NEW k \in 1..g
      PROVE  IntShift(Low(s[k], 7), 7 * (k - 1)) = Extend(part(k), 32, 64)
  <2>1. k \in 1..10 /\ \A j \in 0..6 : j \in s[k] <=> 7 * (k - 1) + j \in v
    <3>1. k \in 1..10
      BY <1>1
    <3> QED BY <1>2, <3>1
  <2>2. Low(Shl(Low(s[k], 7), (7 * (k - 1)) % 32), 32) = part(k)
    BY <2>1, IntShiftFact
  <2> QED BY <2>2 DEF IntShift
<1>4. \A x \in v : x \in Nat /\ \E k \in 1..g : x \in 7 * (k - 1)..7 * (k - 1) + 6
  <2> SUFFICES ASSUME NEW x \in v PROVE x \in Nat /\ \E k \in 1..g : x \in 7 * (k - 1)..7 * (k - 1) + 6
    OBVIOUS
  <2>1. x \in 0..(7 * g - 1)
    BY <1>1 DEF Less
  <2>2. 1 + x \div 7 \in 1..g /\ x \in 7 * ((1 + x \div 7) - 1)..7 * ((1 + x \div 7) - 1) + 6
    BY <1>1, <2>1, SevenDivMod
  <2> QED BY <2>1, <2>2
<1>5. \A y : y \in all <=> \E k \in 1..g : y \in part(k)
  BY <1>4
<1>6. dec_varlong(s) = UNION {IntShift(Low(s[k], 7), 7 * (k - 1)) : k \in 1..g}
  BY <1>1 DEF dec_varlong
<1> HIDE DEF part, all
<1>7. dec_varlong(s) = UNION {Extend(part(k), 32, 64) : k \in 1..g}
  BY <1>3, <1>6
<1>8. dec_varlong(s) = Extend(all, 32, 64)
  <2>1. \A y : y \in dec_varlong(s) <=> \E k \in 1..g : y \in Extend(part(k), 32, 64)
    BY <1>7
  <2>2. \A k : \A y : y \in Extend(part(k), 32, 64) <=>
                        y \in part(k) \/ (31 \in part(k) /\ y \in 32..63)
    BY DEF Extend
  <2>3. \A y : y \in Extend(all, 32, 64) <=> y \in all \/ (31 \in all /\ y \in 32..63)
    BY DEF Extend
  <2>4. \A y : y \in dec_varlong(s) <=> y \in Extend(all, 32, 64)
    BY <1>5, <2>1, <2>2, <2>3, Zenon
  <2> QED BY <2>4
<1> QED BY <1>1, <1>8 DEF s, all, enc_varlong

\* So it reads back every value below 2^31.
THEOREM VarlongRoundTrip ==
  ASSUME NEW v \in Word(31), NEW tail \in Seq(Byte)
  PROVE  dec_varlong(enc_varlong(v) \o tail) = v
<1>1. v \in Word(64) /\ 31 \notin v /\ \A i \in v : i \in 0..30 /\ i \notin 32..34 /\ i % 32 = i
  BY DEF Word
<1>2. {i % 32 : i \in v \ (32..34)} = v
  BY <1>1
<1>3. Extend(v, 32, 64) = v
  BY <1>1 DEF Extend
<1>4. dec_varlong(enc_varlong(v) \o tail) = Extend({i % 32 : i \in v \ (32..34)}, 32, 64)
  BY <1>1, VarlongDecoded
<1> QED BY <1>2, <1>3, <1>4

-----------------------------------------------------------------------------
(* Pairs and triples of numbers. *)

\* What is n bytes further on, after n bytes.
LEMMA SkipFact ==
  ASSUME NEW s \in Seq(Byte), NEW t \in Seq(Byte), NEW n, n = Len(s)
  PROVE  Skip(s \o t, n) = t
<1>1. /\ Len(s) \in Nat /\ Len(t) \in Nat /\ Len(s \o t) = Len(s) + Len(t)
      /\ \A i \in 1..Len(t) : (s \o t)[Len(s) + i] = t[i]
  OBVIOUS
<1>2. /\ Skip(s \o t, n) \in Seq(Byte) /\ Len(Skip(s \o t, n)) = Len(t)
      /\ \A i \in 1..Len(t) : Skip(s \o t, n)[i] = (s \o t)[n + i]
  BY <1>1 DEF Skip
<1>3. \A i \in 1..Len(t) : Skip(s \o t, n)[i] = t[i]
  BY <1>1, <1>2
<1> HIDE DEF Skip
<1> QED BY <1>2, <1>3

LEMMA LowAll ==
  ASSUME NEW w \in Nat, NEW v \in Word(w)
  PROVE  Low(v, w) = v
BY DEF Low, Word

\* Two 64-bit halves.
LEMMA Halves ==
  ASSUME NEW a \in Word(64), NEW b \in Word(64), NEW tail \in Seq(Byte)
  PROVE  LET s == (enc_be(a, 8) \o enc_be(b, 8)) \o tail
         IN dec_be(s, 8) = a /\ dec_be(Skip(s, 8), 8) = b
<1> DEFINE m == enc_be(a, 8)
           l == enc_be(b, 8)
<1>1. 8 * 8 = 64 /\ 64 \in Nat /\ 8 \in Nat
  OBVIOUS
<1>2. m \in Seq(Byte) /\ Len(m) = 8 /\ l \in Seq(Byte)
  BY DEF enc_be, Byte
<1>3. \A t \in Seq(Byte) : dec_be(m \o t, 8) = a /\ dec_be(l \o t, 8) = b
  BY <1>1, BigEndianRoundTrip, LowAll
<1> HIDE DEF m, l
<1>4. l \o tail \in Seq(Byte) /\ (m \o l) \o tail = m \o (l \o tail)
  BY <1>2
<1>5. Skip(m \o (l \o tail), 8) = l \o tail
  BY <1>2, <1>4, SkipFact
<1> QED BY <1>3, <1>4, <1>5 DEF m, l

\* dec_uuid reads back what enc_uuid wrote: the halves keep their places.
THEOREM UuidRoundTrip ==
  ASSUME NEW u \in [msb : Word(64), lsb : Word(64)], NEW tail \in Seq(Byte)
  PROVE  dec_uuid(enc_uuid(u) \o tail) = u
<1>1. u.msb \in Word(64) /\ u.lsb \in Word(64) /\ u = [msb |-> u.msb, lsb |-> u.lsb]
  OBVIOUS
<1>2. dec_uuid(enc_uuid(u) \o tail) = [msb |-> u.msb, lsb |-> u.lsb]
  BY <1>1, Halves DEF enc_uuid, dec_uuid
<1> QED BY <1>1, <1>2

\* The int32_t numbers of w bits.
Signed(w) == {v \in Word(32) : v = Extend(Low(v, w), w, 32)}

\* dec_position reads back every position that fits its 26, 12 and 26 bits, the
\* negative coordinates too: the three do not run into each other.
THEOREM PositionRoundTrip ==
  ASSUME NEW p \in [x : Signed(26), y : Signed(12), z : Signed(26)], NEW tail \in Seq(Byte)
  PROVE  dec_position(enc_position(p) \o tail) = p
<1> DEFINE x == Low(p.x, 26)
           y == Low(p.y, 12)
           z == Low(p.z, 26)
           i == Shl(x, 38) \cup Shl(y, 26) \cup z
<1>1. x \subseteq 0..25 /\ y \subseteq 0..11 /\ z \subseteq 0..25
  BY DEF Low
<1>2. p.x = Extend(x, 26, 32) /\ p.y = Extend(y, 12, 32) /\ p.z = Extend(z, 26, 32)
  BY DEF Signed
<1> HIDE DEF x, y, z
<1>3. /\ \A n : n \in Shl(x, 38) <=> \E k \in x : n = k + 38
      /\ \A n : n \in Shl(y, 26) <=> \E k \in y : n = k + 26
  BY DEF Shl
<1>4. \A n \in Int : n \in Shl(x, 38) <=> n - 38 \in x
  BY <1>1, <1>3
<1>5. \A n \in Int : n \in Shl(y, 26) <=> n - 26 \in y
  BY <1>1, <1>3
<1>6. i \in Word(64)
  <2>1. ASSUME NEW n \in Shl(x, 38) PROVE n \in 0..63
    <3>1. PICK k \in x : n = k + 38
      BY <1>3
    <3>2. k \in 0..25
      BY <1>1
    <3> QED BY <3>1, <3>2
  <2>2. ASSUME NEW n \in Shl(y, 26) PROVE n \in 0..63
    <3>1. PICK k \in y : n = k + 26
      BY <1>3
    <3>2. k \in 0..11
      BY <1>1
    <3> QED BY <3>1, <3>2
  <2>3. ASSUME NEW n \in z PROVE n \in 0..63
    <3>1. n \in 0..25
      BY <1>1
    <3> QED BY <3>1
  <2>4. \A n \in i : n \in 0..63
    BY <2>1, <2>2, <2>3
  <2>5. 64 - 1 = 63
    OBVIOUS
  <2> HIDE DEF i
  <2> QED BY <2>4, <2>5 DEF Word
<1>7. dec_be(enc_be(i, 8) \o tail, 8) = i
  <2>1. 8 * 8 = 64 /\ 64 \in Nat /\ 8 \in Nat
    OBVIOUS
  <2> HIDE DEF i
  <2> QED BY <1>6, <2>1, BigEndianRoundTrip, LowAll
<1>8. \A n \in Int : n \in i <=> n - 38 \in x \/ n - 26 \in y \/ n \in z
  BY <1>4, <1>5
<1> HIDE DEF i
<1>9. ASSUME NEW w \in Nat PROVE \A n : n \in Shr(i, w) <=> n \in Nat /\ n + w \in i
  <2>1. \A n : n \in Shr(i, w) <=> \E m \in i : m >= w /\ n = m - w
    BY DEF Shr
  <2> QED BY <1>6, <2>1 DEF Word
<1>10. Shr(i, 38) = x
  <2>1. \A n \in Nat : n + 38 \in i <=> n \in x
    BY <1>1, <1>8
  <2>2. \A n : n \in Shr(i, 38) <=> n \in x
    <3>1. \A n : n \in Shr(i, 38) <=> n \in Nat /\ n + 38 \in i
      BY <1>9
    <3>2. \A n : n \in x => n \in Nat
      <4>1. \A n : n \in 0..25 => n \in Nat
        OBVIOUS
      <4> QED BY <1>1, <4>1, Zenon
    <3> QED BY <2>1, <3>1, <3>2, Zenon
  <2> QED BY <2>2
<1>11. Low(Shr(i, 26), 12) = y
  <2>1. \A n \in 0..11 : n + 26 \in i <=> n \in y
    BY <1>1, <1>8
  <2>2. \A n : n \in Low(Shr(i, 26), 12) <=> n \in y
    <3>1. \A n : n \in Shr(i, 26) <=> n \in Nat /\ n + 26 \in i
      BY <1>9
    <3>2. \A n : n \in Low(Shr(i, 26), 12) <=> n \in Shr(i, 26) /\ n \in 0..11
      BY DEF Low
    <3>3. \A n : n \in 0..11 => n \in Nat
      OBVIOUS
    <3>4. \A n : n \in y => n \in 0..11
      BY <1>1, Zenon
    <3> QED BY <2>1, <3>1, <3>2, <3>3, <3>4, Zenon
  <2> QED BY <2>2
<1>12. Low(i, 26) = z
  <2>1. \A n \in 0..25 : n \in i <=> n \in z
    BY <1>1, <1>8
  <2>2. \A n : n \in Low(i, 26) <=> n \in z
    <3>1. \A n : n \in Low(i, 26) <=> n \in i /\ n \in 0..25
      BY DEF Low
    <3>2. \A n : n \in z => n \in 0..25
      BY <1>1, Zenon
    <3> QED BY <2>1, <3>1, <3>2, Zenon
  <2> QED BY <2>2
<1> QED BY <1>2, <1>7, <1>10, <1>11, <1>12 DEF enc_position, dec_position, i, x, y, z

-----------------------------------------------------------------------------
(* Lengths. *)

\* The halves of n, as Bits takes them.
HalfOf(n, m, f) == f = [i \in 0..m |-> IF i = 0 THEN n ELSE f[i - 1] \div 2]

\* They exist: one more can be added to any number of them.
LEMMA HalfStep ==
  ASSUME NEW n, NEW m \in Nat, NEW f, HalfOf(n, m, f)
  PROVE  \E h : HalfOf(n, m + 1, h)
<1> DEFINE h == [i \in 0..(m + 1) |-> IF i <= m THEN f[i] ELSE f[m] \div 2]
<1>1. ASSUME NEW i \in 0..(m + 1)
      PROVE  h[i] = IF i = 0 THEN n ELSE h[i - 1] \div 2
  <2>1. CASE i <= m
    <3>1. h[i] = f[i] /\ (i # 0 => h[i - 1] = f[i - 1])
      BY <2>1
    <3>2. i \in 0..m /\ f[i] = IF i = 0 THEN n ELSE f[i - 1] \div 2
      BY <2>1 DEF HalfOf
    <3> HIDE DEF h
    <3> QED BY <3>1, <3>2
  <2>2. CASE i = m + 1
    BY <2>2
  <2> QED BY <2>1, <2>2
<1>2. h = [i \in 0..(m + 1) |-> IF i = 0 THEN n ELSE h[i - 1] \div 2]
  <2>1. h = [i \in 0..(m + 1) |-> h[i]]
    OBVIOUS
  <2> HIDE DEF h
  <2> QED BY <1>1, <2>1
<1> QED BY <1>2 DEF HalfOf

\* So there are twenty.
LEMMA HalfExists ==
  ASSUME NEW n
  PROVE  \E f : HalfOf(n, 19, f)
<1> DEFINE P(m) == \E f : HalfOf(n, m, f)
<1>1. P(0)
  <2>1. HalfOf(n, 0, [i \in 0..0 |-> n])
    BY DEF HalfOf
  <2> QED BY <2>1
<1>2. \A m \in Nat : P(m) => P(m + 1)
  BY HalfStep
<1> HIDE DEF P
<1>3. P(1) /\ P(2) /\ P(3) /\ P(4) /\ P(5) 
  BY <1>1, <1>2
<1>4. P(6) /\ P(7) /\ P(8) /\ P(9) /\ P(10)
  BY <1>3, <1>2
<1>5. P(11) /\ P(12) /\ P(13) /\ P(14) /\ P(15)
  BY <1>4, <1>2
<1>6. P(16) /\ P(17) /\ P(18) /\ P(19)
  BY <1>5, <1>2
<1> QED BY <1>6 DEF P

\* Bits of n: the parities of its halves.
LEMMA BitsFact ==
  ASSUME NEW n \in Nat
  PROVE  \E half \in [0..19 -> Nat] :
           /\ half[0] = n /\ \A i \in 0..18 : half[i + 1] = half[i] \div 2
           /\ Bits(n) = {i \in 0..19 : half[i] % 2 = 1}
<1> DEFINE f == CHOOSE h : h = [i \in 0..19 |-> IF i = 0 THEN n ELSE h[i - 1] \div 2]
<1>1. Bits(n) = {i \in 0..19 : f[i] % 2 = 1}
  BY DEF Bits
<1>2. HalfOf(n, 19, f)
  BY HalfExists DEF HalfOf
<1> HIDE DEF f
<1>3. f[0] = n /\ \A i \in 0..18 : f[i + 1] = f[i] \div 2
  <2>1. \A i \in 0..19 : f[i] = IF i = 0 THEN n ELSE f[i - 1] \div 2
    BY <1>2 DEF HalfOf
  <2>2. f[0] = n
    BY <2>1
  <2>3. ASSUME NEW i \in 0..18 PROVE f[i + 1] = f[i] \div 2
    <3>1. i + 1 \in 0..19 /\ (i + 1) - 1 = i /\ i + 1 # 0
      OBVIOUS
    <3> QED BY <2>1, <3>1
  <2> QED BY <2>2, <2>3
<1>4. f \in [0..19 -> Nat]
  <2> DEFINE Q(i) == f[i] \in Nat
  <2>1. \A x \in Nat : x \div 2 \in Nat
    OBVIOUS
  <2>2. Q(0) /\ \A i \in 0..18 : Q(i) => Q(i + 1)
    BY <1>3, <2>1
  <2>3. f = [i \in 0..19 |-> f[i]]
    BY <1>2 DEF HalfOf
  <2> HIDE DEF Q
  <2>4. Q(1) /\ Q(2) /\ Q(3) /\ Q(4) /\ Q(5)
    BY <2>2
  <2>5. Q(6) /\ Q(7) /\ Q(8) /\ Q(9) /\ Q(10)
    BY <2>2, <2>4
  <2>6. Q(11) /\ Q(12) /\ Q(13) /\ Q(14) /\ Q(15)
    BY <2>2, <2>5
  <2>7. Q(16) /\ Q(17) /\ Q(18) /\ Q(19)
    BY <2>2, <2>6
  <2>8. \A i \in 0..19 : Q(i)
    BY <2>2, <2>4, <2>5, <2>6, <2>7
  <2> QED BY <2>3, <2>8 DEF Q
<1> QED BY <1>1, <1>3, <1>4

\* The numbers Num builds.
FromOf(v, m, f) ==
  f = [i \in m..20 |-> IF i = 20 THEN (IF Less(v, 20) THEN 0 ELSE 1)
                                 ELSE 2 * f[i + 1] + (IF i \in v THEN 1 ELSE 0)]

\* One more can be added below any number of them.
LEMMA FromStep ==
  ASSUME NEW v, NEW m \in 0..19, NEW f, FromOf(v, m + 1, f)
  PROVE  \E h : FromOf(v, m, h)
<1> DEFINE end == IF Less(v, 20) THEN 0 ELSE 1
           bit(i) == IF i \in v THEN 1 ELSE 0
           h == [i \in m..20 |-> IF i = m THEN 2 * f[m + 1] + bit(m) ELSE f[i]]
<1>0. \A i \in (m + 1)..20 : f[i] = IF i = 20 THEN end ELSE 2 * f[i + 1] + bit(i)
  BY DEF FromOf
<1> HIDE DEF end, bit
<1>1. ASSUME NEW i \in m..20
      PROVE  h[i] = IF i = 20 THEN end ELSE 2 * h[i + 1] + bit(i)
  <2>1. CASE i # m
    <3>1. h[i] = f[i] /\ (i # 20 => h[i + 1] = f[i + 1])
      BY <2>1
    <3>2. i \in (m + 1)..20
      BY <2>1
    <3> HIDE DEF h
    <3> QED BY <1>0, <3>1, <3>2
  <2>2. CASE i = m
    BY <2>2
  <2> QED BY <2>1, <2>2
<1>2. h = [i \in m..20 |-> IF i = 20 THEN end ELSE 2 * h[i + 1] + bit(i)]
  <2>1. h = [i \in m..20 |-> h[i]]
    OBVIOUS
  <2> HIDE DEF h
  <2> QED BY <1>1, <2>1
<1> HIDE DEF h
<1> QED BY <1>2 DEF FromOf, end, bit

\* So there are twenty-one.
LEMMA FromExists ==
  ASSUME NEW v
  PROVE  \E f : FromOf(v, 0, f)
<1> DEFINE P(m) == \E f : FromOf(v, 20 - m, f)
<1>1. P(0)
  <2>1. FromOf(v, 20, [i \in 20..20 |-> IF Less(v, 20) THEN 0 ELSE 1])
    BY DEF FromOf
  <2>2. 20 - 0 = 20
    OBVIOUS
  <2> QED BY <2>1, <2>2
<1>2. \A m \in 0..19 : P(m) => P(m + 1)
  <2> SUFFICES ASSUME NEW m \in 0..19, NEW f, FromOf(v, 20 - m, f) PROVE P(m + 1)
    OBVIOUS
  <2>1. PICK k \in 0..19 : k = 20 - (m + 1) /\ k + 1 = 20 - m
    OBVIOUS
  <2>2. FromOf(v, k + 1, f)
    BY <2>1
  <2>3. \E h : FromOf(v, k, h)
    BY <2>2, FromStep
  <2> QED BY <2>1, <2>3
<1>3. 20 - 20 = 0
  OBVIOUS
<1> HIDE DEF P
<1>4. P(1) /\ P(2) /\ P(3) /\ P(4) /\ P(5)
  BY <1>1, <1>2
<1>5. P(6) /\ P(7) /\ P(8) /\ P(9) /\ P(10)
  BY <1>2, <1>4
<1>6. P(11) /\ P(12) /\ P(13) /\ P(14) /\ P(15)
  BY <1>2, <1>5
<1>7. P(16) /\ P(17) /\ P(18) /\ P(19) /\ P(20)
  BY <1>2, <1>6
<1> QED BY <1>3, <1>7 DEF P

\* Num of the bits of a length is the length.
LEMMA NumBits ==
  ASSUME NEW n \in Nat, n < Huge
  PROVE  Bits(n) \in Word(20) /\ Num(Bits(n)) = n
<1>1. PICK half \in [0..19 -> Nat] :
           /\ half[0] = n /\ \A i \in 0..18 : half[i + 1] = half[i] \div 2
           /\ Bits(n) = {i \in 0..19 : half[i] % 2 = 1}
  BY BitsFact
<1> DEFINE v == Bits(n)
           f == CHOOSE g : g = [i \in 0..20 |->
                  IF i = 20 THEN (IF Less(v, 20) THEN 0 ELSE 1)
                            ELSE 2 * g[i + 1] + (IF i \in v THEN 1 ELSE 0)]
<1>2. Num(v) = f[0]
  BY DEF Num
<1>3. FromOf(v, 0, f)
  BY FromExists DEF FromOf
<1> HIDE DEF f
<1>4. Less(v, 20) /\ v \in Word(20)
  BY <1>1 DEF Less, Word
<1>5. f[20] = 0 /\ \A i \in 0..19 : f[i] = 2 * f[i + 1] + (IF i \in v THEN 1 ELSE 0)
  BY <1>3, <1>4 DEF FromOf
<1>6. half[19] < 2
  <2>1. half[0] \in Nat /\ half[0] < 1048576
    BY <1>1, SMT DEF Huge
  <2>2. \A i \in 0..18 : half[i] \in Nat /\ half[i + 1] = half[i] \div 2
    BY <1>1
  <2>3. half[3] \in Nat /\ half[3] < 131072
    <3>1. half[1] = half[0] \div 2 /\ half[2] = half[1] \div 2 /\ half[3] = half[2] \div 2
      BY <2>2
    <3> QED BY <2>1, <3>1, SMT
  <2>4. half[6] \in Nat /\ half[6] < 16384
    <3>1. half[4] = half[3] \div 2 /\ half[5] = half[4] \div 2 /\ half[6] = half[5] \div 2
      BY <2>2
    <3> QED BY <2>3, <3>1, SMT
  <2>5. half[9] \in Nat /\ half[9] < 2048
    <3>1. half[7] = half[6] \div 2 /\ half[8] = half[7] \div 2 /\ half[9] = half[8] \div 2
      BY <2>2
    <3> QED BY <2>4, <3>1, SMT
  <2>6. half[12] \in Nat /\ half[12] < 256
    <3>1. half[10] = half[9] \div 2 /\ half[11] = half[10] \div 2 /\ half[12] = half[11] \div 2
      BY <2>2
    <3> QED BY <2>5, <3>1, SMT
  <2>7. half[15] \in Nat /\ half[15] < 32
    <3>1. half[13] = half[12] \div 2 /\ half[14] = half[13] \div 2 /\ half[15] = half[14] \div 2
      BY <2>2
    <3> QED BY <2>6, <3>1, SMT
  <2>8. half[17] \in Nat /\ half[17] < 8
    <3>1. half[16] = half[15] \div 2 /\ half[17] = half[16] \div 2
      BY <2>2
    <3> QED BY <2>7, <3>1, SMT
  <2>9. half[19] \in Nat /\ half[19] < 2
    <3>1. half[18] = half[17] \div 2 /\ half[19] = half[18] \div 2
      BY <2>2
    <3> QED BY <2>8, <3>1, SMT
  <2> QED BY <2>9
<1> DEFINE P(m) == f[19 - m] = half[19 - m]
<1>7. P(0)
  <2>1. f[19] = 2 * 0 + (IF 19 \in v THEN 1 ELSE 0)
    BY <1>5
  <2>2. 19 \in v <=> half[19] % 2 = 1
    BY <1>1
  <2>3. half[19] = 0 \/ half[19] = 1
    BY <1>1, <1>6
  <2>4. f[19] = half[19] /\ 19 - 0 = 19
    BY <2>1, <2>2, <2>3
  <2> QED BY <2>4
<1>8. \A m \in 0..18 : P(m) => P(m + 1)
  <2> SUFFICES ASSUME NEW m \in 0..18, f[19 - m] = half[19 - m]
               PROVE  f[19 - (m + 1)] = half[19 - (m + 1)]
    OBVIOUS
  <2>1. PICK i \in 0..18 : i = 19 - (m + 1) /\ i + 1 = 19 - m
    OBVIOUS
  <2>2. f[i] = 2 * half[i + 1] + (IF i \in v THEN 1 ELSE 0)
    BY <1>5, <2>1
  <2>3. (i \in v <=> half[i] % 2 = 1) /\ half[i] \in Nat /\ half[i + 1] = half[i] \div 2
    BY <1>1
  <2>4. \A x \in Nat : 2 * (x \div 2) + (x % 2) = x /\ x % 2 \in {0, 1}
    OBVIOUS
  <2> QED BY <2>1, <2>2, <2>3, <2>4
<1>9. 19 - 19 = 0
  OBVIOUS
<1> HIDE DEF P
<1>10. P(1) /\ P(2) /\ P(3) /\ P(4) /\ P(5)
  BY <1>7, <1>8
<1>11. P(6) /\ P(7) /\ P(8) /\ P(9) /\ P(10)
  BY <1>8, <1>10
<1>12. P(11) /\ P(12) /\ P(13) /\ P(14) /\ P(15)
  BY <1>8, <1>11
<1>13. P(16) /\ P(17) /\ P(18) /\ P(19)
  BY <1>8, <1>12
<1>14. f[0] = half[0]
  BY <1>9, <1>13 DEF P
<1> QED BY <1>1, <1>2, <1>4, <1>14

-----------------------------------------------------------------------------
(* What a receiver has of an encoded value. *)

\* The first n bytes of e, and what memory holds after them.
Seen(e, n, tail) == SubSeq(e, 1, n) \o tail

\* They are those of e.
LEMMA SeenFact ==
  ASSUME NEW e \in Seq(Byte), NEW n \in 0..Len(e), NEW tail \in Seq(Byte)
  PROVE  /\ Seen(e, n, tail) \in Seq(Byte)
         /\ SubSeq(e, 1, n) \in Seq(Byte) /\ Len(SubSeq(e, 1, n)) = n
         /\ \A k \in 1..n : Seen(e, n, tail)[k] = e[k]
<1>1. SubSeq(e, 1, n) \in Seq(Byte) /\ Len(SubSeq(e, 1, n)) = n /\ \A k \in 1..n : SubSeq(e, 1, n)[k] = e[k]
  OBVIOUS
<1> DEFINE a == SubSeq(e, 1, n)
<1> HIDE DEF a
<1>2. a \in Seq(Byte) /\ Len(a) = n /\ \A k \in 1..n : a[k] = e[k]
  BY <1>1 DEF a
<1>3. a \o tail \in Seq(Byte) /\ \A k \in 1..n : (a \o tail)[k] = a[k]
  BY <1>2
<1> QED BY <1>1, <1>2, <1>3 DEF a, Seen

\* When all of e is there.
LEMMA SeenAll ==
  ASSUME NEW e \in Seq(Byte), NEW tail \in Seq(Byte)
  PROVE  Seen(e, Len(e), tail) = e \o tail
<1>1. SubSeq(e, 1, Len(e)) = e
  OBVIOUS
<1> QED BY <1>1 DEF Seen

\* When all of the first part is there.
LEMMA SeenMore ==
  ASSUME NEW e \in Seq(Byte), NEW r \in Seq(Byte), NEW n \in Len(e)..Len(e \o r), NEW tail \in Seq(Byte)
  PROVE  /\ Seen(r, n - Len(e), tail) \in Seq(Byte)
         /\ Seen(e \o r, n, tail) = e \o Seen(r, n - Len(e), tail)
<1>1. Len(e) \in Nat /\ Len(r) \in Nat /\ Len(e \o r) = Len(e) + Len(r) /\ e \o r \in Seq(Byte)
      /\ \A k \in 1..Len(e) + Len(r) : (e \o r)[k] = IF k <= Len(e) THEN e[k] ELSE r[k - Len(e)]
  OBVIOUS
<1> DEFINE a == SubSeq(e \o r, 1, n)
           b == SubSeq(r, 1, n - Len(e))
<1>2. n - Len(e) \in 0..Len(r)
  BY <1>1
<1>3. b \in Seq(Byte) /\ Len(b) = n - Len(e) /\ \A k \in 1..(n - Len(e)) : b[k] = r[k]
  BY <1>2
<1>4. a \in Seq(Byte) /\ Len(a) = n /\ \A k \in 1..n : a[k] = (e \o r)[k]
  BY <1>1
<1> HIDE DEF a, b
<1>5. e \o b \in Seq(Byte) /\ Len(e \o b) = n
      /\ \A k \in 1..n : (e \o b)[k] = IF k <= Len(e) THEN e[k] ELSE b[k - Len(e)]
  BY <1>1, <1>2, <1>3
<1>6. ASSUME NEW k \in 1..n PROVE a[k] = (e \o b)[k]
  <2>1. k \in 1..Len(e) + Len(r)
    BY <1>1
  <2>2. k > Len(e) => k - Len(e) \in 1..(n - Len(e))
    BY <1>1
  <2>3. a[k] = IF k <= Len(e) THEN e[k] ELSE r[k - Len(e)]
    BY <1>1, <1>4, <2>1
  <2>4. k > Len(e) => b[k - Len(e)] = r[k - Len(e)]
    BY <1>3, <2>2
  <2>5. (e \o b)[k] = IF k <= Len(e) THEN e[k] ELSE b[k - Len(e)]
    BY <1>5
  <2>6. k \in Int /\ Len(e) \in Int
    BY <1>1
  <2>7. (e \o b)[k] = IF k <= Len(e) THEN e[k] ELSE r[k - Len(e)]
    BY <2>4, <2>5, <2>6
  <2> QED BY <2>3, <2>7
<1>7. a = e \o b
  BY <1>4, <1>5, <1>6
<1>8. b \o tail \in Seq(Byte) /\ (e \o b) \o tail = e \o (b \o tail)
  BY <1>3
<1> QED BY <1>7, <1>8 DEF Seen, a, b

\* The walks of a number of which n bytes are there.
LEMMA SeenWalk ==
  ASSUME NEW v \in Word(64), NEW r \in Seq(Byte), NEW tail \in Seq(Byte),
         NEW n \in 0..Len(enc_varnum(v) \o r), NEW longest \in 1..10, Groups(v) <= longest
  PROVE  walk_varnum(Seen(enc_varnum(v) \o r, n, tail), n, longest)
           = IF n < Groups(v) THEN varnum_overrun ELSE Groups(v)
<1> DEFINE e == enc_varnum(v) \o r
           s == Seen(e, n, tail)
           g == Groups(v)
<1>1. g \in 1..10 /\ n \in Nat
  BY GroupsFact
<1>2. e \in Seq(Byte) /\ \A k \in 1..g : 7 \in e[k] <=> k < g
  BY EncVarnum
<1>3. \A k \in 1..n : s[k] = e[k]
  BY <1>2, SeenFact
<1> HIDE DEF e, s, g
<1>4. \A k \in 1..g : k <= n => (7 \in s[k] <=> k < g)
  BY <1>1, <1>2, <1>3
<1>5. walk_varnum(s, n, longest) = IF n < g THEN varnum_overrun ELSE g
  <2>1. g <= longest
    BY DEF g
  <2> QED BY <1>1, <1>4, <2>1, WalkFact
<1> QED BY <1>5 DEF e, s, g

-----------------------------------------------------------------------------

\* Strings whose length the model's int32_t holds.
Strings == {str \in Seq(Byte) : Len(str) < Huge}

\* What enc_string writes: the length, as a varint, and the bytes.
LEMMA Prefix ==
  ASSUME NEW str \in Strings
  PROVE  LET v == Bits(Len(str))
         IN /\ v \in Word(32) /\ v \in Word(64) /\ SNum(v) = Len(str) /\ Groups(v) \in 1..5
            /\ str \in Seq(Byte) /\ Len(str) \in Nat
            /\ enc_varnum(v) \in Seq(Byte) /\ Len(enc_varnum(v)) = Groups(v)
            /\ enc_string(str) = enc_varnum(v) \o str /\ enc_string(str) \in Seq(Byte)
            /\ Len(enc_string(str)) = Groups(v) + Len(str)
<1> DEFINE v == Bits(Len(str))
<1>1. str \in Seq(Byte) /\ Len(str) \in Nat /\ Len(str) < Huge
  BY DEF Strings
<1>2. v \in Word(20) /\ Num(v) = Len(str)
  BY <1>1, NumBits
<1>3. enc_string(str) = enc_varnum(v) \o str
  BY DEF enc_string, enc_varint
<1> HIDE DEF v
<1>4. v \in Word(32) /\ 31 \notin v
  BY <1>2 DEF Word
<1>5. SNum(v) = Len(str)
  BY <1>2, <1>4 DEF SNum
<1>6. v \in Word(64) /\ Groups(v) \in 1..5
  BY <1>4, ShortFact
<1>7. enc_varnum(v) \in Seq(Byte) /\ Len(enc_varnum(v)) = Groups(v)
  BY <1>6, EncLen
<1>8. enc_varnum(v) \o str \in Seq(Byte) /\ Len(enc_varnum(v) \o str) = Groups(v) + Len(str)
  BY <1>1, <1>7
<1> QED BY <1>1, <1>3, <1>4, <1>5, <1>6, <1>7, <1>8 DEF v

\* walk_string of a string of which n bytes are there.
LEMMA StringWalk ==
  ASSUME NEW str \in Strings, NEW n \in 0..Len(enc_string(str)), NEW tail \in Seq(Byte)
  PROVE  LET ret == walk_string(Seen(enc_string(str), n, tail), n)
         IN IF n < Len(enc_string(str)) THEN ret \in Int /\ ret < 0 ELSE ret = n
<1> DEFINE v == Bits(Len(str))
           g == Groups(v)
           p == enc_varnum(v)
           s == Seen(p \o str, n, tail)
<1>1. /\ v \in Word(32) /\ v \in Word(64) /\ SNum(v) = Len(str) /\ g \in 1..5
      /\ str \in Seq(Byte) /\ Len(str) \in Nat
      /\ p \in Seq(Byte) /\ Len(p) = g
      /\ enc_string(str) = p \o str /\ p \o str \in Seq(Byte)
      /\ Len(p \o str) = g + Len(str)
  BY Prefix
<1>2. n \in 0..(g + Len(str))
  BY <1>1
<1>3. walk_varint(s, n) = IF n < g THEN varnum_overrun ELSE g
  <2>1. n \in 0..Len(p \o str) /\ g <= 5 /\ 5 \in 1..10
    BY <1>1
  <2> HIDE DEF v
  <2> QED BY <1>1, <2>1, SeenWalk DEF walk_varint
<1>4. n >= g => dec_varint(s) = v
  <2> SUFFICES ASSUME n >= g PROVE dec_varint(s) = v
    OBVIOUS
  <2>1. n \in Len(p)..Len(p \o str)
    BY <1>1, <1>2
  <2>2. Seen(str, n - Len(p), tail) \in Seq(Byte) /\ s = p \o Seen(str, n - Len(p), tail)
    BY <1>1, <2>1, SeenMore
  <2> HIDE DEF v, s
  <2> QED BY <1>1, <2>2, VarintRoundTrip DEF enc_varint
<1>5. walk_string(s, n) =
        IF walk_varint(s, n) < 0 THEN walk_varint(s, n)
        ELSE IF Below(n, walk_varint(s, n) + SNum(dec_varint(s))) THEN -1
        ELSE walk_varint(s, n) + SNum(dec_varint(s))
  BY DEF walk_string
<1> HIDE DEF s, g, v, p
<1>6. CASE n < g
  BY <1>1, <1>2, <1>3, <1>5, <1>6 DEF varnum_overrun, s
<1>7. CASE n >= g
  <2>1. walk_varint(s, n) = g /\ SNum(dec_varint(s)) = Len(str)
    BY <1>1, <1>2, <1>3, <1>4, <1>7
  <2>2. walk_string(s, n) = IF n < g + Len(str) THEN -1 ELSE g + Len(str)
    BY <1>1, <1>2, <1>5, <2>1 DEF Below
  <2> QED BY <1>1, <1>2, <2>2 DEF s
<1> QED BY <1>1, <1>2, <1>6, <1>7

\* dec_string of a whole string.
LEMMA StringDec ==
  ASSUME NEW str \in Strings, NEW tail \in Seq(Byte)
  PROVE  dec_string(enc_string(str) \o tail) = Decoded(str, tail, 1)
<1> DEFINE v == Bits(Len(str))
           g == Groups(v)
           p == enc_varnum(v)
           s == p \o (str \o tail)
<1>1. /\ v \in Word(32) /\ v \in Word(64) /\ SNum(v) = Len(str) /\ g \in 1..5
      /\ str \in Seq(Byte) /\ Len(str) \in Nat
      /\ p \in Seq(Byte) /\ Len(p) = g
      /\ enc_string(str) = p \o str /\ p \o str \in Seq(Byte)
      /\ Len(p \o str) = g + Len(str)
  BY Prefix
<1> HIDE DEF v, g, p
<1>2. str \o tail \in Seq(Byte) /\ (p \o str) \o tail = s
  BY <1>1
<1>3. dec_varint(s) = v /\ VarLen(s) = g
  BY <1>1, <1>2, VarintRoundTrip DEF enc_varint, p
<1>4. Skip(s, VarLen(s)) = str \o tail
  <2> HIDE DEF s
  <2>1. Skip(p \o (str \o tail), g) = str \o tail
    BY <1>1, <1>2, SkipFact
  <2> QED BY <1>3, <2>1 DEF s
<1>5. SubSeq(str \o tail, 1, Len(str)) = str /\ Skip(str \o tail, Len(str)) = tail
  <2>1. Skip(str \o tail, Len(str)) = tail
    BY <1>1, SkipFact
  <2>2. SubSeq(str \o tail, 1, Len(str)) = str
    <3>1. Len(str) \in 0..Len(str \o tail) /\ str \o tail \in Seq(Byte)
          /\ \A k \in 1..Len(str) : (str \o tail)[k] = str[k]
      BY <1>1
    <3> DEFINE t == str \o tail
               a == SubSeq(t, 1, Len(str))
    <3> HIDE DEF t
    <3>2. a \in Seq(Byte) /\ Len(a) = Len(str) /\ \A k \in 1..Len(str) : a[k] = t[k]
      BY <1>1, <3>1 DEF t
    <3> HIDE DEF a
    <3>3. a = str
      <4>1. \A k \in 1..Len(str) : a[k] = str[k]
        BY <3>1, <3>2 DEF t
      <4> QED BY <1>1, <3>2, <4>1
    <3> QED BY <3>3 DEF a, t
  <2> QED BY <2>1, <2>2
<1>6. dec_string(s) = Decoded(SubSeq(Skip(s, VarLen(s)), 1, SNum(dec_varint(s))),
                              Skip(Skip(s, VarLen(s)), SNum(dec_varint(s))), 1)
  BY DEF dec_string
<1> HIDE DEF s, v, g, p
<1>7. dec_string(s) = Decoded(str, tail, 1)
  BY <1>1, <1>3, <1>4, <1>5, <1>6
<1> QED BY <1>1, <1>2, <1>7

-----------------------------------------------------------------------------
(* Codec, for numbers and strings: the kinds whose functions are not       *)
(* recursive.                                                              *)

\* The values that are walked to their end: of the varlongs those of at most
\* nine bytes.
Plain(k, v) ==
  \/ k = "varint" /\ v \in Word(32)
  \/ k = "varlong" /\ v \in Word(63)
  \/ k = "string" /\ v \in Strings
PlainSamples ==
  /\ \A sample \in Samples : Plain(sample[1], sample[2])
  /\ Tails \subseteq Seq(Byte)

\* Of these, the ones whose size_ is right: all but the values, and the
\* lengths of strings, from 128 to 255.
Missized(v) == Less(v, 8) /\ ~Less(v, 7)
SizedSamples ==
  \A sample \in Samples :
    ~Missized(IF sample[1] = "string" THEN Bits(Len(sample[2])) ELSE sample[2])

\* And the ones that dec_ reads back: of the varlongs those below 2^31.
ShortSamples == \A sample \in Samples : sample[1] = "varlong" => sample[2] \in Word(31)

\* The groups of a value below 2^63.
LEMMA LongFact ==
  ASSUME NEW v \in Word(63)
  PROVE  v \in Word(64) /\ Groups(v) \in 1..9
<1>1. v \in Word(64) /\ Less(v, 7 * 9)
  BY DEF Word, Less
<1> QED BY <1>1, GroupsFact

\* What enc_ writes are bytes.
LEMMA PlainEnc ==
  ASSUME NEW k, NEW v, Plain(k, v)
  PROVE  Enc(k, v) \in Seq(Byte) /\ Len(Enc(k, v)) \in Nat
<1>1. CASE k = "varint" /\ v \in Word(32)
  BY <1>1, ShortFact, EncLen DEF Enc, enc_varint
<1>2. CASE k = "varlong" /\ v \in Word(63)
  BY <1>2, LongFact, EncLen DEF Enc, enc_varlong
<1>3. CASE k = "string" /\ v \in Strings
  BY <1>3, Prefix DEF Enc
<1> QED BY <1>1, <1>2, <1>3 DEF Plain

\* size_ is its length.
LEMMA PlainSize ==
  ASSUME NEW k, NEW v, Plain(k, v),
         ~Missized(IF k = "string" THEN Bits(Len(v)) ELSE v)
  PROVE  Size(k, v) = Len(Enc(k, v))
<1>1. CASE k = "varint" /\ v \in Word(32)
  <2>1. size_varint(v) = Len(enc_varint(v)) - 0 /\ Len(enc_varint(v)) \in Nat
    BY <1>1, VarintSize, ShortFact, EncLen DEF Missized, enc_varint
  <2> QED BY <1>1, <2>1 DEF Size, Enc
<1>2. CASE k = "varlong" /\ v \in Word(63)
  <2>1. size_varlong(v) = Len(enc_varlong(v)) - 0 /\ Len(enc_varlong(v)) \in Nat
    BY <1>2, VarlongSize, LongFact, EncLen DEF Missized, enc_varlong
  <2> QED BY <1>2, <2>1 DEF Size, Enc
<1>3. CASE k = "string" /\ v \in Strings
  <2> DEFINE b == Bits(Len(v))
  <2>1. b \in Word(32) /\ Groups(b) \in 1..5 /\ Len(v) \in Nat /\ Len(enc_string(v)) = Groups(b) + Len(v)
        /\ Len(enc_varnum(b)) = Groups(b) /\ ~Missized(b)
    BY <1>3, Prefix
  <2> HIDE DEF b
  <2>2. size_varint(b) = Groups(b) - 0
    BY <2>1, VarintSize DEF Missized, enc_varint
  <2>3. size_string(v) = Groups(b) + Len(v)
    BY <2>1, <2>2 DEF size_string, b
  <2> QED BY <1>3, <2>1, <2>3 DEF Size, Enc
<1> QED BY <1>1, <1>2, <1>3 DEF Plain

\* walk_ of the first n bytes: n if they are all, an error if they are not.
LEMMA PlainWalk ==
  ASSUME NEW k, NEW v, Plain(k, v), NEW n \in 0..Len(Enc(k, v)), NEW tail \in Seq(Byte)
  PROVE  LET ret == Walk(k, Seen(Enc(k, v), n, tail), n)
         IN IF n < Len(Enc(k, v)) THEN ret \in Int /\ ret < 0 ELSE ret = n
<1>1. ASSUME v \in Word(64), NEW longest \in 1..10, Groups(v) <= longest, n \in 0..Len(enc_varnum(v))
      PROVE  LET ret == walk_varnum(Seen(enc_varnum(v), n, tail), n, longest)
             IN IF n < Len(enc_varnum(v)) THEN ret \in Int /\ ret < 0 ELSE ret = n
  <2>1. enc_varnum(v) \in Seq(Byte) /\ Len(enc_varnum(v)) = Groups(v) /\ Groups(v) \in 1..10
    BY <1>1, EncLen, GroupsFact
  <2>2. enc_varnum(v) \o <<>> = enc_varnum(v) /\ <<>> \in Seq(Byte)
    BY <2>1
  <2>3. walk_varnum(Seen(enc_varnum(v), n, tail), n, longest)
          = IF n < Groups(v) THEN varnum_overrun ELSE Groups(v)
    <3>1. n \in 0..Len(enc_varnum(v) \o <<>>)
      BY <1>1, <2>2
    <3>2. walk_varnum(Seen(enc_varnum(v) \o <<>>, n, tail), n, longest)
            = IF n < Groups(v) THEN varnum_overrun ELSE Groups(v)
      BY <1>1, <2>2, <3>1, SeenWalk
    <3> QED BY <2>2, <3>2
  <2> QED BY <1>1, <2>1, <2>3 DEF varnum_overrun
<1>2. CASE k = "varint" /\ v \in Word(32)
  <2>1. v \in Word(64) /\ Groups(v) <= 5 /\ 5 \in 1..10
    BY <1>2, ShortFact
  <2> QED BY <1>1, <1>2, <2>1 DEF Enc, Walk, enc_varint, walk_varint
<1>3. CASE k = "varlong" /\ v \in Word(63)
  <2>1. v \in Word(64) /\ Groups(v) <= 9 /\ 9 \in 1..10
    BY <1>3, LongFact
  <2> QED BY <1>1, <1>3, <2>1 DEF Enc, Walk, enc_varlong, walk_varlong
<1>4. CASE k = "string" /\ v \in Strings
  BY <1>4, StringWalk DEF Enc, Walk
<1> QED BY <1>2, <1>3, <1>4 DEF Plain

\* dec_ of all of them: the value, and the memory after it.
LEMMA PlainDec ==
  ASSUME NEW k, NEW v, Plain(k, v), k = "varlong" => v \in Word(31), NEW tail \in Seq(Byte)
  PROVE  LET d == Dec(k, Enc(k, v) \o tail) IN d.v = v /\ d.rest = tail
<1>1. CASE k = "varint" /\ v \in Word(32)
  <2> DEFINE e == enc_varint(v)
  <2>1. e \in Seq(Byte)
    BY <1>1, ShortFact, EncLen DEF enc_varint
  <2>2. dec_varint(e \o tail) = v /\ Skip(e \o tail, VarLen(e \o tail)) = tail
    BY <1>1, <2>1, VarintRoundTrip, SkipFact
  <2> HIDE DEF e
  <2>3. DecVarint(e \o tail).v = v /\ DecVarint(e \o tail).rest = tail
    BY <2>2 DEF DecVarint, Decoded
  <2> QED BY <1>1, <2>3 DEF Dec, Enc, e
<1>2. CASE k = "varlong" /\ v \in Word(31)
  <2> DEFINE e == enc_varlong(v)
  <2>0. v \in Word(63) /\ v \in Word(64)
    BY <1>2 DEF Word
  <2>1. e \in Seq(Byte)
    BY <2>0, EncLen DEF enc_varlong
  <2>2. dec_varlong(e \o tail) = v /\ Skip(e \o tail, VarLen(e \o tail)) = tail
    BY <1>2, <2>0, <2>1, VarlongRoundTrip, VarlongDecoded, SkipFact
  <2> HIDE DEF e
  <2> QED BY <1>2, <2>2 DEF Dec, Enc, e, Decoded
<1>3. CASE k = "string" /\ v \in Strings
  <2>1. dec_string(enc_string(v) \o tail) = Decoded(v, tail, 1)
    BY <1>3, StringDec
  <2> QED BY <1>3, <2>1 DEF Dec, Enc, Decoded
<1> QED BY <1>1, <1>2, <1>3 DEF Plain

\* A string holds one heap block and a number none, when dec_ and when free_ is asked.
LEMMA PlainBlocks ==
  ASSUME NEW k, NEW v, Plain(k, v), NEW s, NEW w
  PROVE  Dec(k, s).blocks = FreeValue(k, w) /\ FreeValue(k, w) \in {0, 1} /\ k # "metadata"
<1>1. k \in {"varint", "varlong", "string"}
  BY DEF Plain
<1>2. DecVarint(s).blocks = 0 /\ dec_string(s).blocks = 1
  BY DEF DecVarint, dec_string, Decoded
<1> QED BY <1>1, <1>2 DEF Dec, FreeValue, Decoded

-----------------------------------------------------------------------------

\* Who holds what at each stage.
CodecInv ==
  /\ stage \in {"idle", "encoded", "received", "walked", "decoded"}
  /\ stage # "idle" =>
       /\ \E sample \in Samples : kind = sample[1] /\ val = sample[2]
       /\ size = Size(kind, val) /\ bytes = Enc(kind, val)
  /\ stage \in {"received", "walked", "decoded"} =>
       max_len \in 0..Len(bytes) /\ \E tail \in Tails : memory = Seen(bytes, max_len, tail)
  /\ stage \in {"walked", "decoded"} => walked = Walk(kind, memory, max_len)
  /\ stage = "decoded" => walked >= 0 /\ out = Dec(kind, memory)
  /\ live = IF stage = "decoded" THEN out.blocks ELSE 0

\* A value that is under way is plain, and both sides write the same bytes.
LEMMA CodecSample ==
  ASSUME PlainSamples, CodecInv, stage # "idle"
  PROVE  Plain(kind, val) /\ Wire = bytes /\ bytes \in Seq(Byte) /\ Len(bytes) \in Nat
<1>1. Plain(kind, val)
  BY DEF PlainSamples, CodecInv
<1>2. kind # "metadata"
  BY <1>1 DEF Plain
<1>3. bytes \in Seq(Byte) /\ Len(bytes) \in Nat
  BY <1>1, PlainEnc DEF CodecInv
<1> QED BY <1>1, <1>2, <1>3 DEF Wire

\* CodecInv holds at first, and every step keeps it.
LEMMA CodecInvInit ==
  ASSUME Init
  PROVE  CodecInv
BY DEF Init, CodecInv

LEMMA CodecInvNext ==
  ASSUME PlainSamples, CodecInv, [Next]_vars
  PROVE  CodecInv'
<1>1. ASSUME NEW sample \in Samples, Encode(sample[1], sample[2]) PROVE CodecInv'
  BY <1>1 DEF Encode, CodecInv, got
<1>2. ASSUME NEW n \in 0..Len(bytes), NEW tail \in Tails, Receive(n, tail) PROVE CodecInv'
  <2>1. Wire = bytes
    BY <1>2, CodecSample DEF Receive
  <2> QED BY <1>2, <2>1 DEF Receive, CodecInv, sent, Seen
<1>3. CASE WalkIt
  BY <1>3 DEF WalkIt, CodecInv, sent, got
<1>4. CASE GiveUp
  BY <1>4 DEF GiveUp, CodecInv, sent
<1>5. CASE Decode
  <2>1. Plain(kind, val)
    BY <1>5, CodecSample DEF Decode
  <2>2. Dec(kind, memory).blocks \in {0, 1}
    BY <2>1, PlainBlocks
  <2>3. live' = out'.blocks
    BY <1>5, <2>2 DEF Decode, CodecInv
  <2> QED BY <1>5, <2>3 DEF Decode, CodecInv, sent, got
<1>6. CASE Release
  <2>1. Plain(kind, val)
    BY <1>6, CodecSample DEF Release
  <2>2. Dec(kind, memory).blocks = FreeValue(kind, out.v) /\ FreeValue(kind, out.v) \in {0, 1}
    BY <2>1, PlainBlocks
  <2>3. live' = 0
    BY <1>6, <2>2 DEF Release, CodecInv
  <2> QED BY <1>6, <2>3 DEF Release, CodecInv
<1>7. CASE UNCHANGED vars
  BY <1>7 DEF vars, sent, got, CodecInv
<1> QED BY <1>1, <1>2, <1>3, <1>4, <1>5, <1>6, <1>7 DEF Next

\* Codec keeps CodecInv: at every stage the receiver holds a beginning of the
\* sender's bytes, what the walk and the decoding say is what they say of those
\* bytes, and there is no heap block outside the stage that frees it.
THEOREM CodecInvariant ==
  ASSUME PlainSamples
  PROVE  Spec => []CodecInv
<1>1. Init => CodecInv
  BY CodecInvInit
<1>2. CodecInv /\ [Next]_vars => CodecInv'
  BY CodecInvNext
<1> QED BY <1>1, <1>2, PTL DEF Spec

\* A sender that allocates what size_varint, size_varlong or size_string says
\* writes exactly that much, for every value and every string but those whose
\* number or length is from 128 to 255.
THEOREM CodecSizeExact ==
  ASSUME PlainSamples, SizedSamples
  PROVE  Spec => []SizeExact
<1>1. CodecInv => SizeExact
  <2> SUFFICES ASSUME CodecInv, stage # "idle" PROVE size = Len(bytes)
    BY DEF SizeExact
  <2>1. PICK sample \in Samples : kind = sample[1] /\ val = sample[2]
    BY DEF CodecInv
  <2>2. Plain(kind, val) /\ ~Missized(IF kind = "string" THEN Bits(Len(val)) ELSE val)
    BY <2>1 DEF PlainSamples, SizedSamples
  <2> QED BY <2>2, PlainSize DEF CodecInv
<1> QED BY <1>1, CodecInvariant, PTL

\* What a walk has said.
LEMMA CodecWalked ==
  ASSUME PlainSamples, CodecInv, stage \in {"walked", "decoded"}
  PROVE  /\ Wire = bytes /\ Len(bytes) \in Nat /\ max_len \in 0..Len(bytes)
         /\ IF max_len < Len(bytes) THEN walked \in Int /\ walked < 0 ELSE walked = max_len
<1>1. Plain(kind, val) /\ Wire = bytes /\ bytes \in Seq(Byte) /\ Len(bytes) \in Nat
  BY CodecSample
<1>2. PICK tail \in Tails : memory = Seen(bytes, max_len, tail)
  BY DEF CodecInv
<1>3. /\ tail \in Seq(Byte) /\ bytes = Enc(kind, val)
      /\ max_len \in 0..Len(bytes) /\ walked = Walk(kind, memory, max_len)
  BY DEF PlainSamples, CodecInv
<1>4. IF max_len < Len(bytes) THEN walked \in Int /\ walked < 0 ELSE walked = max_len
  BY <1>1, <1>2, <1>3, PlainWalk
<1> QED BY <1>1, <1>3, <1>4

\* The walks of a varint, of a varlong below 2^63 and of a string end where the
\* value ends, whatever comes after it.
THEOREM CodecWalkExact ==
  ASSUME PlainSamples
  PROVE  Spec => []WalkExact
<1>1. CodecInv => WalkExact
  BY CodecWalked DEF WalkExact
<1> QED BY <1>1, CodecInvariant, PTL

\* None of them takes the beginning of a value for the whole of it, wherever
\* it was cut and whatever memory holds from there on.
THEOREM CodecWalkRefusesPart ==
  ASSUME PlainSamples
  PROVE  Spec => []WalkRefusesPart
<1>1. CodecInv => WalkRefusesPart
  BY CodecWalked DEF WalkRefusesPart
<1> QED BY <1>1, CodecInvariant, PTL

\* What is decoded is what was encoded, and the memory after it is what comes
\* after the bytes that were walked: for every varint and string, and for the
\* varlongs below 2^31.
THEOREM CodecRoundTrip ==
  ASSUME PlainSamples, ShortSamples
  PROVE  Spec => []RoundTrip
<1>1. CodecInv => RoundTrip
  <2> SUFFICES ASSUME CodecInv, stage = "decoded"
               PROVE  out.v = val /\ out.rest = Skip(memory, walked)
    BY DEF RoundTrip
  <2>1. walked = Len(bytes) /\ max_len = Len(bytes)
    <3>1. walked >= 0
      BY DEF CodecInv
    <3>2. Len(bytes) \in Nat /\ max_len \in 0..Len(bytes)
          /\ IF max_len < Len(bytes) THEN walked \in Int /\ walked < 0 ELSE walked = max_len
      BY CodecWalked
    <3>3. ~(max_len < Len(bytes))
      BY <3>1, <3>2
    <3> QED BY <3>2, <3>3
  <2>2. PICK tail \in Tails : memory = Seen(bytes, max_len, tail)
    BY DEF CodecInv
  <2>3. /\ Plain(kind, val) /\ bytes \in Seq(Byte) /\ bytes = Enc(kind, val)
        /\ out = Dec(kind, memory) /\ tail \in Seq(Byte)
    BY CodecSample DEF CodecInv, PlainSamples
  <2>4. kind = "varlong" => val \in Word(31)
    BY DEF CodecInv, ShortSamples
  <2>5. memory = bytes \o tail
    BY <2>1, <2>2, <2>3, SeenAll
  <2>6. out.v = val /\ out.rest = tail
    BY <2>3, <2>4, <2>5, PlainDec
  <2>7. Skip(memory, walked) = tail
    BY <2>1, <2>3, <2>5, SkipFact
  <2> QED BY <2>6, <2>7
<1> QED BY <1>1, CodecInvariant, PTL

\* Freeing a decoded number or string gives back all the heap blocks the
\* receiver holds.
THEOREM CodecReleaseExact ==
  ASSUME PlainSamples
  PROVE  Spec => []ReleaseExact
<1>1. CodecInv => ReleaseExact
  <2> SUFFICES ASSUME CodecInv, stage = "decoded"
               PROVE  live = FreeValue(kind, out.v) + (IF kind = "metadata" THEN 1 ELSE 0)
    BY DEF ReleaseExact
  <2>1. Plain(kind, val) /\ out = Dec(kind, memory) /\ live = out.blocks
    BY CodecSample DEF CodecInv
  <2>2. live = FreeValue(kind, out.v) /\ FreeValue(kind, out.v) \in {0, 1} /\ kind # "metadata"
    BY <2>1, PlainBlocks
  <2> QED BY <2>2
<1> QED BY <1>1, CodecInvariant, PTL
=============================================================================
