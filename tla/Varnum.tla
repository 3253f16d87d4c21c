------------------------------- MODULE Varnum -------------------------------
(***************************************************************************)
(* The numbers and strings of the protocol, src/src/datautils.c: fixed-    *)
(* width integers and floats, variable-length integers, UUIDs, block       *)
(* positions, and strings with their length before them.                   *)
(*                                                                         *)
(* A machine number of any width is the set of the positions of its one    *)
(* bits, and a byte is such a set below 8.  A shift, a mask or an `or' is  *)
(* then an operation on sets, v < 2^k is v \subseteq 0..(k-1), and 64-bit  *)
(* values need no arithmetic that TLC lacks.  Memory at a pointer is a     *)
(* sequence of bytes.  An enc_ operator gives the bytes written, a dec_    *)
(* operator the value read; Skip moves the pointer past it.                *)
(***************************************************************************)
EXTENDS Integers, Sequences

Byte    == SUBSET (0..7)
Word(w) == SUBSET (0..(w - 1))              \* the values of a w-bit integer

Low(v, w)  == v \cap (0..(w - 1))           \* v & ((1 << w) - 1)
Shl(v, k)  == {i + k : i \in v}             \* v << k
Shr(v, k)  == {i - k : i \in {j \in v : j >= k}}
Less(v, k) == v \subseteq 0..(k - 1)        \* v < (1 << k)

\* Sign extension of the two's complement number of w bits v to `to' bits.
Extend(v, w, to) == v \cup (IF w - 1 \in v THEN w..(to - 1) ELSE {})

Skip(s, n) == SubSeq(s, n + 1, Len(s))      \* the memory n bytes further on
Least(S)   == CHOOSE k \in S : \A m \in S : k <= m

-----------------------------------------------------------------------------
(* Fixed widths: n bytes, most significant first (be) or last (le).  A     *)
(* float is its bit pattern, which enc_bef32 and its like copy.            *)

enc_be(v, n) == [k \in 1..n |-> {j \in 0..7 : 8 * (n - k) + j \in v}]
enc_le(v, n) == [k \in 1..n |-> {j \in 0..7 : 8 * (k - 1) + j \in v}]

dec_be(s, n) == {i \in 0..(8 * n - 1) : i % 8 \in s[n - (i \div 8)]}
dec_le(s, n) == {i \in 0..(8 * n - 1) : i % 8 \in s[1 + (i \div 8)]}

\* Two 64-bit halves, the most significant first.
enc_uuid(u) == enc_be(u.msb, 8) \o enc_be(u.lsb, 8)
dec_uuid(s) == [msb |-> dec_be(s, 8), lsb |-> dec_be(Skip(s, 8), 8)]

\* From the top, x in 26 bits, y in 12 and z in 26, each two's complement.
enc_position(p) ==
  enc_be(Shl(Low(p.x, 26), 38) \cup Shl(Low(p.y, 12), 26) \cup Low(p.z, 26), 8)

\* Mutant: the coordinates are not sign-extended.
dec_position_Unsigned(s) ==
  LET i == dec_be(s, 8)
  IN [x |-> Shr(i, 38), y |-> Low(Shr(i, 26), 12), z |-> Low(i, 26)]
dec_position(s) ==
  LET i == dec_be(s, 8)
  IN [x |-> Extend(Shr(i, 38), 26, 32),
      y |-> Extend(Low(Shr(i, 26), 12), 12, 32),
      z |-> Extend(Low(i, 26), 26, 32)]

-----------------------------------------------------------------------------
(* Variable-length integers: seven bits to a byte, the least significant   *)
(* first, bit 7 set in every byte but the last.                            *)

varnum_invalid == -1
varnum_overrun == -2

\* The size_ functions compare the value with one power of two after another.
SizeBound == <<8, 14, 21, 28, 35, 42, 49, 56, 63>>
size_varnum(v, longest) ==
  Least({n \in 1..longest : n = longest \/ Less(v, SizeBound[n])})
size_varint(v)  == size_varnum(v, 5)
size_varlong(v) == size_varnum(v, 10)

\* The enc_ loops go on while what is left is 0x80 or more: until it fits
\* seven bits.
Groups(v) == Least({n \in 1..10 : Less(v, 7 * n)})
enc_varnum(v) ==
  [k \in 1..Groups(v) |->
     {j \in 0..6 : 7 * (k - 1) + j \in v} \cup (IF k < Groups(v) THEN {7} ELSE {})]
enc_varint(v)  == enc_varnum(v)
enc_varlong(v) == enc_varnum(v)

\* The bytes up to the first one without bit 7.  max_len is a size_t: a
\* negative one has wrapped, and no length reaches it.
walk_varnum(s, max_len, longest) ==
  LET full(k) == max_len >= 0 /\ k >= max_len
      stop    == Least({k \in 1..longest : full(k) \/ k = longest \/ 7 \notin s[k]})
  IN CASE max_len = 0 -> varnum_overrun
       [] max_len # 0 /\ 7 \notin s[stop] -> stop
       [] max_len # 0 /\ 7 \in s[stop] /\ stop = longest -> varnum_invalid
       [] OTHER -> varnum_overrun
walk_varint(s, max_len)  == walk_varnum(s, max_len, 5)
walk_varlong(s, max_len) == walk_varnum(s, max_len, 9)

\* How far the dec_ functions move the pointer.
VarLen(s) == Least({k \in 1..Len(s) : 7 \notin s[k]})

dec_varint(s) == {i \in 0..31 : i \div 7 < VarLen(s) /\ i % 7 \in s[1 + i \div 7]}

\* Each seven bits are an int when they are shifted: the shift count is taken
\* modulo 32 (x86, the only target; undefined in C), bits above 31 are lost,
\* and bit 31 is the sign when the int becomes 64 bits wide.
IntShift(v, k) == Extend(Low(Shl(v, k % 32), 32), 32, 64)
dec_varlong(s) == UNION {IntShift(Low(s[k], 7), 7 * (k - 1)) : k \in 1..VarLen(s)}

-----------------------------------------------------------------------------
(* Lengths, between their bits and their value, by halving and doubling.   *)
(* From Huge on they are more than any memory of the model holds.          *)

Huge == 1048576

Bits(n) ==
  LET half[i \in 0..19] == IF i = 0 THEN n ELSE half[i - 1] \div 2
  IN {i \in 0..19 : half[i] % 2 = 1}
Num(v) ==
  LET from[i \in 0..20] ==
        IF i = 20 THEN (IF Less(v, 20) THEN 0 ELSE 1)
                  ELSE 2 * from[i + 1] + (IF i \in v THEN 1 ELSE 0)
  IN from[0]

\* An int32_t.
SNum(v) == IF 31 \in v THEN -1 - Num((0..30) \ v) ELSE Num(v)

\* max_len < n, where either may have wrapped.
Below(max_len, n) == IF (max_len < 0) = (n < 0) THEN max_len < n ELSE n < 0

\* What a dec_ function returns: the value, the memory after it and the heap
\* blocks the value holds.
Decoded(v, rest, blocks) == [v |-> v, rest |-> rest, blocks |-> blocks]
DecVarint(s) == Decoded(dec_varint(s), Skip(s, VarLen(s)), 0)

-----------------------------------------------------------------------------
(* Strings: a varint and that many bytes. *)

size_string(str) == size_varint(Bits(Len(str))) + Len(str)

\* Mutant: the length of the prefix is left out.
walk_string_NoPrefix(s, max_len) ==
  LET ret == walk_varint(s, max_len)
      n   == SNum(dec_varint(s))
  IN IF ret < 0 THEN ret ELSE IF Below(max_len, ret + n) THEN -1 ELSE n
walk_string(s, max_len) ==
  LET ret   == walk_varint(s, max_len)
      total == ret + SNum(dec_varint(s))
  IN IF ret < 0 THEN ret ELSE IF Below(max_len, total) THEN -1 ELSE total

enc_string(str) == enc_varint(Bits(Len(str))) \o str

dec_string(s) ==
  LET rest == Skip(s, VarLen(s))
      n    == SNum(dec_varint(s))
  IN Decoded(SubSeq(rest, 1, n), Skip(rest, n), 1)
=============================================================================
