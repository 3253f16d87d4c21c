------------------------------- MODULE Codec -------------------------------
(***************************************************************************)
(* The life of a protocol value: the sender asks for its size, allocates   *)
(* that much and encodes into it; the receiver gets all of the bytes or,   *)
(* so far, only the first of them, with whatever memory holds after them;  *)
(* it walks them, decodes them if the walk says they are all there, and    *)
(* frees what it got.  This is the use the comments of datautils.c ask     *)
(* for; the packet code that follows it is generated from templates that   *)
(* are not in the repository.                                              *)
(***************************************************************************)
EXTENDS Varnum

CONSTANTS
  Samples,   \* the values sent: pairs of a kind and a value
  Tails,     \* what memory may hold after the bytes received
  Server,    \* whether the values come from a server
  MaxLive,   \* bound: heap blocks lost before the last value is sent
  NoValue,   \* a variable that holds none
  SizeMore(_, _), WalkMore(_, _, _), EncMore(_, _), DecMore(_, _), FreeMore(_, _)
             \* the functions of the structured kinds: those of DataUtils

VARIABLES
  stage,     \* "idle", "encoded", "received", "walked" or "decoded"
  kind, val, \* the value sent
  size,      \* what size_ said
  bytes,     \* its encoding
  memory,    \* what is at the receiver's pointer
  max_len,   \* how much of it has been received
  walked,    \* what walk_ said
  out,       \* what dec_ returned
  live       \* heap blocks the receiver holds

sent == <<kind, val, size, bytes>>
got  == <<memory, max_len>>
vars == <<stage, sent, got, walked, out, live>>

\* The functions of each kind.
Size(k, v) ==
  CASE k = "varint" -> size_varint(v) [] k = "varlong" -> size_varlong(v)
    [] k = "string" -> size_string(v) [] OTHER -> SizeMore(k, v)
Walk(k, s, n) ==
  CASE k = "varint" -> walk_varint(s, n) [] k = "varlong" -> walk_varlong(s, n)
    [] k = "string" -> walk_string(s, n) [] OTHER -> WalkMore(k, s, n)
Enc(k, v) ==
  CASE k = "varint" -> enc_varint(v) [] k = "varlong" -> enc_varlong(v)
    [] k = "string" -> enc_string(v) [] OTHER -> EncMore(k, v)
Dec(k, s) ==
  CASE k = "varint"  -> DecVarint(s)
    [] k = "varlong" -> Decoded(dec_varlong(s), Skip(s, VarLen(s)), 0)
    [] k = "string"  -> dec_string(s)
    [] OTHER -> DecMore(k, s)
FreeValue(k, v) ==
  CASE k \in {"varint", "varlong"} -> 0 [] k = "string" -> 1 [] OTHER -> FreeMore(k, v)

\* A server writes the same bytes, and closes metadata with 0xFF, which is
\* what walk_metadata, count_metatags and dec_metadata look for.
Wire ==
  IF Server /\ kind = "metadata" THEN SubSeq(bytes, 1, Len(bytes) - 1) \o <<0..7>> ELSE bytes

-----------------------------------------------------------------------------

Init ==
  /\ stage = "idle"
  /\ kind = NoValue /\ val = NoValue /\ size = 0 /\ bytes = <<>>
  /\ memory = <<>> /\ max_len = 0
  /\ walked = 0 /\ out = NoValue /\ live = 0

Encode(k, v) ==
  /\ stage = "idle" /\ live <= MaxLive
  /\ stage' = "encoded"
  /\ kind' = k /\ val' = v
  /\ size' = Size(k, v)
  /\ bytes' = Enc(k, v)
  /\ UNCHANGED <<got, walked, out, live>>

Receive(n, tail) ==
  /\ stage = "encoded"
  /\ stage' = "received"
  /\ memory' = SubSeq(Wire, 1, n) \o tail
  /\ max_len' = n
  /\ UNCHANGED <<sent, walked, out, live>>

WalkIt ==
  /\ stage = "received"
  /\ stage' = "walked"
  /\ walked' = Walk(kind, memory, max_len)
  /\ UNCHANGED <<sent, got, out, live>>

\* The walk failed: the receiver waits for more.
GiveUp ==
  /\ stage = "walked" /\ walked < 0
  /\ max_len < Len(Wire)
  /\ stage' = "encoded"
  /\ memory' = <<>> /\ max_len' = 0 /\ walked' = 0
  /\ UNCHANGED <<sent, out, live>>

Decode ==
  /\ stage = "walked" /\ walked >= 0
  /\ stage' = "decoded"
  /\ out' = Dec(kind, memory)
  /\ live' = live + out'.blocks
  /\ UNCHANGED <<sent, got, walked>>

\* The value is freed, and both sides forget it.
Release ==
  /\ stage = "decoded"
  /\ live' = live - FreeValue(kind, out.v)
  /\ stage' = "idle"
  /\ kind' = NoValue /\ val' = NoValue /\ size' = 0 /\ bytes' = <<>>
  /\ memory' = <<>> /\ max_len' = 0
  /\ walked' = 0 /\ out' = NoValue

Next ==
  \/ \E sample \in Samples : Encode(sample[1], sample[2])
  \/ \E n \in 0..Len(bytes), tail \in Tails : Receive(n, tail)
  \/ WalkIt
  \/ GiveUp
  \/ Decode
  \/ Release

Spec == Init /\ [][Next]_vars

-----------------------------------------------------------------------------
(* Properties. *)

\* size_ is the length of what enc_ writes: a sender that allocates size_
\* bytes is neither overrun nor sends bytes it did not write.
SizeExact == stage # "idle" => size = Len(bytes)

\* A value that is all there is walked to its end.
WalkExact == (stage = "walked" /\ max_len = Len(Wire)) => walked = max_len

\* A value of which the end is missing is not taken for a whole one, whatever
\* memory holds where the end should be.
WalkRefusesPart == (stage = "walked" /\ max_len < Len(Wire)) => walked < 0

\* What has been walked is decoded to what was encoded, from the bytes that
\* were walked and no others.
RoundTrip ==
  stage = "decoded" => out.v = val /\ out.rest = Skip(memory, walked)

\* Freeing a value frees what decoding it allocated; of metadata all but the
\* array of its tags (free_metadata).
ReleaseExact ==
  stage = "decoded" => live = FreeValue(kind, out.v) + (IF kind = "metadata" THEN 1 ELSE 0)
=============================================================================
