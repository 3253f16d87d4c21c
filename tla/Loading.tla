------------------------------ MODULE Loading ------------------------------
(***************************************************************************)
(* NBT files: src/src/cNBT/nbt_loading.c, with the growing buffer it and   *)
(* the dumps write to, src/src/cNBT/buffer.c.                              *)
(*                                                                         *)
(* A client dumps a tree to a file and loads the file again, which in the  *)
(* meantime may have lost its end or been damaged; or it asks for the text *)
(* of a tree.  A dump is a sequence of CHECKED_APPENDs.  The loops that    *)
(* compress, read and decompress all do the same: make room for a chunk,   *)
(* let someone else (zlib or stdio: `feed' is what it has to give) write   *)
(* at most a chunk, and go on for as long as it fills the chunk.  Memory   *)
(* runs out where FailIn says, zlib and stdio fail anywhere.               *)
(*                                                                         *)
(* A call is a few nested functions, each with a struct buffer of its own  *)
(* that it frees, or returns, on its ways out: `op' says where the call    *)
(* is, and every such way is an action.  The heap is the set of addresses  *)
(* in use; a struct buffer that goes out of scope frees nothing.           *)
(*                                                                         *)
(* A byte of a compressed stream is its content and the length of the      *)
(* stream.  zlib is taken to notice a stream that is not complete,         *)
(* and a change to a byte that it checks: most are, by the checksum of the *)
(* content or as a part of the format.  It does not look at some bytes of  *)
(* the header that STRAT_GZIP writes (the time, the flags of the           *)
(* compressor, the system), and reads such a file as if nothing happened.  *)
(* What parsing does is module Nbt's: it gives the tree back from a        *)
(* complete dump and nothing from a part of one.                           *)
(***************************************************************************)
EXTENDS Integers, Sequences, FiniteSetsExt

CONSTANTS
  NULL,
  Bytes,      \* the values of a byte of a dump
  Trees,      \* the trees: the parts of their dumps, whether one part cannot be dumped
  Packed,     \* the lengths a compressed stream may have
  Addresses,  \* where malloc and realloc may put a block
  FirstCap,   \* the capacity of a fresh buffer (1024)
  CHUNK_SIZE, \* the bytes processed at a time (4096)
  FailIn      \* the loops in which memory may run out

\* The bytes of a compressed stream.
PackedBytes == Seq(Bytes) \X Nat

\* A dump is at least a type, and a stream at least its header.
ASSUME LoadingAssumption ==
  /\ Trees \subseteq [parts : Seq(Seq(Bytes)) \ {<<>>}, fails : BOOLEAN]
  /\ Packed \subseteq Nat \ {0}
  /\ FirstCap \in Nat \ {0} /\ CHUNK_SIZE \in Nat \ {0}
  /\ NULL \notin Trees \cup Seq(Bytes) \cup Seq(PackedBytes) \cup Addresses

VARIABLES
  op,         \* where the call is, or "idle"
  last,       \* the call last made
  tree,       \* the tree last dumped
  buf,        \* the struct buffer of the function that is running
  held,       \* that of its caller, whose contents are being worked on
  live,       \* the addresses of the heap blocks in use
  feed, pos,  \* what is to be put into buf, and how much of it has been
  errno,
  status,     \* what nbt_dump_file returned
  result,     \* the tree that was loaded or printed, or NULL
  file, bad,  \* the file, and which byte of it has changed: "none", an "unchecked"
              \* or a "checked" one
  faulty      \* something failed in the last call

memory  == <<buf, held, live>>
input   == <<feed, pos>>
call    == <<last, tree>>
outcome == <<errno, status, result>>
disk    == <<file, bad>>
vars    == <<op, memory, input, call, outcome, disk, faulty>>

-----------------------------------------------------------------------------
(* The buffer: the bytes written (NULL without memory), the capacity, and  *)
(* the address of its block.                                               *)

BUFFER_INIT == [data |-> NULL, cap |-> 0, at |-> NULL]
Used(b)     == IF b.data = NULL THEN 0 ELSE Len(b.data)

lazy_init(b) == IF b.data = NULL THEN [BUFFER_INIT EXCEPT !.data = <<>>, !.cap = FirstCap] ELSE b

\* The capacity, doubled until it is enough: after amount times at the latest.
Doublings(cap, n) == LET c[k \in 0..n] == IF k = 0 THEN cap ELSE 2 * c[k - 1] IN c

Doubled(cap, amount) ==
  LET c == Doublings(cap, amount) IN c[Min({k \in 0..amount : c[k] >= amount})]

\* Mutant: doubled once at most.
buffer_reserve_Once(b, amount, a) ==
  LET l == lazy_init(b)
  IN [data |-> l.data, cap |-> IF l.cap >= amount THEN l.cap ELSE 2 * l.cap, at |-> a]

\* The block is at a when buffer_reserve returns.
buffer_reserve(b, amount, a) ==
  LET l == lazy_init(b)
  IN [data |-> l.data, cap |-> Doubled(l.cap, amount), at |-> a]

\* buffer_append, where all of amount is written; the loops reserve a chunk.
buffer_append(b, amount, bytes, a) ==
  [buffer_reserve(b, Used(b) + amount, a) EXCEPT !.data = @ \o bytes]

\* malloc finds a place, realloc may leave the block where it is.
Places(b, amount) ==
  IF b.data = NULL \/ b.cap < Used(b) + amount
  THEN {a \in Addresses : a \notin live \/ a = b.at}
  ELSE {b.at}

\* Mutant: the block is freed and the pointer to it kept.
buffer_reserve_fails_Dangling(amount) ==
  \/ /\ buf.data = NULL
     /\ buf' = [BUFFER_INIT EXCEPT !.cap = FirstCap]
     /\ UNCHANGED live
  \/ /\ lazy_init(buf).cap < Used(buf) + amount
     /\ live' = live \ {buf.at}
     /\ UNCHANGED buf

\* Memory runs out in buffer_reserve: in lazy_init, or in realloc, and then
\* the block, which may be that of lazy_init, is freed.
buffer_reserve_fails(amount) ==
  \/ /\ buf.data = NULL
     /\ buf' = [BUFFER_INIT EXCEPT !.cap = FirstCap]
     /\ UNCHANGED live
  \/ /\ lazy_init(buf).cap < Used(buf) + amount
     /\ live' = live \ {buf.at}
     /\ buf' = BUFFER_INIT

\* buffer_free, which is given a buffer without a block, too.
FreeBuf  == live' = live \ {buf.at}  /\ buf'  = BUFFER_INIT
FreeHeld == live' = live \ {held.at} /\ held' = BUFFER_INIT

-----------------------------------------------------------------------------
(* Calls. *)

\* What the first n appends of a dump have written, and all of them.
Written(parts) ==
  LET w[n \in 0..Len(parts)] == IF n = 0 THEN <<>> ELSE w[n - 1] \o parts[n] IN w

Raw(t) == Written(t.parts)[Len(t.parts)]

\* The stream of n bytes that zlib makes of some, and what it is made of.
Stream(bytes, n) == [i \in 1..n |-> <<bytes, n>>]
Content(s)  == IF s = <<>> THEN <<>> ELSE s[1][1]
Complete(s) == s # <<>> /\ Len(s) = s[1][2]

\* Whether zlib can read all of it, and comes to its end.
Readable(s) == Complete(s) /\ bad # "checked"

Init ==
  /\ op = "idle" /\ last = "none"
  /\ tree = NULL
  /\ buf = BUFFER_INIT /\ held = BUFFER_INIT /\ live = {}
  /\ feed = <<>> /\ pos = 0
  /\ errno = "NBT_OK" /\ status = "NBT_OK" /\ result = NULL
  /\ file = <<>> /\ bad = "none"
  /\ faulty = FALSE

Call(name, first, bytes) ==
  /\ op = "idle"
  /\ op' = first /\ last' = name
  /\ feed' = bytes /\ pos' = 0
  /\ errno' = "NBT_OK" /\ result' = NULL /\ faulty' = FALSE
  /\ UNCHANGED <<memory, status>>

nbt_dump_file(t) ==
  /\ Call("dump", "dump", t.parts)
  /\ tree' = t
  /\ file' = <<>> /\ bad' = "none"

nbt_parse_path ==
  /\ last \in {"dump", "damage"}
  /\ Call("load", "read", file)
  /\ UNCHANGED <<tree, disk>>

nbt_dump_ascii(t) ==
  /\ Call("text", "text", t.parts)
  /\ tree' = t
  /\ file' = <<>> /\ bad' = "none"

\* nbt_parse_path cannot open the file.
OpenFails ==
  /\ op = "idle" /\ last \in {"dump", "damage"}
  /\ last' = "load"
  /\ errno' = "NBT_EIO" /\ result' = NULL /\ faulty' = TRUE
  /\ UNCHANGED <<op, tree, memory, input, status, disk>>

\* Between calls: the file is left with its first n bytes, or with a wrong one.
Damage(n) ==
  /\ op = "idle" /\ last = "dump" /\ file # <<>>
  /\ \/ n < Len(file) /\ file' = SubSeq(file, 1, n) /\ bad' = bad
     \/ n = Len(file) /\ bad' \in {"unchecked", "checked"} /\ file' = file
  /\ last' = "damage"
  /\ UNCHANGED <<op, tree, memory, input, outcome, faulty>>

\* The call ends.  Its struct buffers are gone; what they point to is not.
Return ==
  /\ op' = "idle"
  /\ buf' = BUFFER_INIT /\ held' = BUFFER_INIT /\ feed' = <<>> /\ pos' = 0
  /\ UNCHANGED <<call, disk>>

-----------------------------------------------------------------------------
(* The loops. *)

\* amount bytes are reserved in buf and the first of them written, n parts
\* of what is to be put there.
Put(amount, bytes, n) ==
  /\ \E a \in Places(buf, amount) :
       /\ buf' = buffer_append(buf, amount, bytes, a)
       /\ live' = (live \ {buf.at}) \cup {a}
  /\ pos' = pos + n
  /\ UNCHANGED <<held, feed, call, outcome, disk, faulty>>

\* The next CHECKED_APPEND of __dump_binary; parts are never none.
DumpAppend ==
  /\ op = "dump"
  /\ Put(Len(feed[pos + 1]), feed[pos + 1], 1)
  /\ op' = IF pos + 1 < Len(feed) THEN op ELSE "dumped"

\* Where the loops go when they have ended, and when they fail.
After   == [pack |-> "packed", read |-> "inflate", unpack |-> "end"]
OnError == [dump |-> "dumped", pack |-> "compression_error", read |-> "read_error",
            unpack |-> "decompression_error"]

\* What zlib or stdio writes into a chunk: as much as fits.
Portion == SubSeq(feed, pos + 1, Min({Len(feed), pos + CHUNK_SIZE}))

\* Mutant: the loop of __decompress also ends with a chunk that is filled.
Chunk_Once ==
  /\ op \in DOMAIN After
  /\ Put(CHUNK_SIZE, Portion, Len(Portion))
  /\ op' = IF Len(Portion) = CHUNK_SIZE /\ op # "unpack" THEN op ELSE After[op]

\* Mutant: the loop does not end with a chunk that is left empty.
Chunk_Forever ==
  /\ op \in DOMAIN After
  /\ Put(CHUNK_SIZE, Portion, Len(Portion))
  /\ op' = IF Len(Portion) \in {0, CHUNK_SIZE} THEN op ELSE After[op]

\* One round of the loop of __compress, read_file or __decompress.
Chunk ==
  /\ op \in DOMAIN After
  /\ Put(CHUNK_SIZE, Portion, Len(Portion))
  /\ op' = IF Len(Portion) = CHUNK_SIZE THEN op ELSE After[op]

\* malloc or realloc fails where memory is needed.
NoMemory ==
  /\ op \in FailIn
  /\ \/ op = "dump" /\ buffer_reserve_fails(Len(feed[pos + 1]))
     \/ op \in DOMAIN After /\ buffer_reserve_fails(CHUNK_SIZE)
  /\ op' = OnError[op]
  /\ errno' = "NBT_EMEM" /\ faulty' = TRUE
  /\ UNCHANGED <<held, input, call, status, result, disk>>

\* zlib or stdio fails in a round.  Z_STREAM_ERROR and Z_DATA_ERROR leave errno
\* to the label.
LibraryFails ==
  /\ \/ op = "pack" /\ UNCHANGED errno
     \/ op = "read" /\ errno' = "NBT_EIO"
     \/ op = "unpack" /\ errno' = "NBT_EMEM"
     \/ op = "unpack" /\ bad = "checked" /\ UNCHANGED errno
  /\ op' = OnError[op] /\ faulty' = TRUE
  /\ UNCHANGED <<memory, input, call, status, result, disk>>

Caller == [compression_error |-> "packed", read_error |-> "inflate",
           decompression_error |-> "unpacked"]

\* Mutant: an error that has not been named is not.
Abandon_Silent ==
  /\ op \in DOMAIN Caller
  /\ op' = Caller[op]
  /\ FreeBuf
  /\ UNCHANGED <<held, input, call, outcome, disk, faulty>>

\* The error exits of the three loops: the caller gets a NULL buffer.
Abandon ==
  /\ op \in DOMAIN Caller
  /\ op' = Caller[op]
  /\ errno' = IF errno = "NBT_OK" THEN "NBT_EZ" ELSE errno
  /\ FreeBuf
  /\ UNCHANGED <<held, input, call, status, result, disk, faulty>>

-----------------------------------------------------------------------------
(* Saving: nbt_dump_file calls nbt_dump_compressed, which calls            *)
(* nbt_dump_binary and __compress.                                         *)

\* Work starts on the contents of buf, with a buffer of its own.
Turn(to, bytes, error) ==
  /\ op' = to
  /\ held' = buf /\ buf' = BUFFER_INIT
  /\ feed' = bytes /\ pos' = 0
  /\ errno' = error
  /\ UNCHANGED <<live, call, status, result, disk>>

\* deflateInit2 or inflateInit2 fails: the caller gets a NULL buffer.
InitFails ==
  /\ op \in {"dumped", "inflate"} /\ buf.data # NULL
  /\ Turn(IF op = "dumped" THEN "packed" ELSE "unpacked", <<>>, "NBT_EZ")
  /\ faulty' = TRUE

\* nbt_dump_compressed has got nothing, and returns a NULL buffer.
NotDumped ==
  /\ op = "dumped" /\ buf.data = NULL
  /\ op' = "write"
  /\ buf' = BUFFER_INIT
  /\ UNCHANGED <<held, live, input, call, outcome, disk, faulty>>

\* It goes on with what was dumped, whether or not the dump came to its end:
\* __compress starts with errno = NBT_OK.
Compress(n) ==
  /\ op = "dumped" /\ buf.data # NULL
  /\ Turn("pack", Stream(buf.data, n), "NBT_OK")
  /\ UNCHANGED faulty

\* nbt_dump_compressed frees what was dumped, whatever __compress returned.
DumpFreed ==
  /\ op = "packed"
  /\ op' = "write"
  /\ FreeHeld
  /\ UNCHANGED <<buf, input, call, outcome, disk, faulty>>

\* nbt_dump_file returns the error of those it called.
NotPacked ==
  /\ op = "write" /\ buf.data = NULL
  /\ status' = errno
  /\ Return
  /\ UNCHANGED <<live, errno, result, faulty>>

write_file ==
  /\ op = "write" /\ buf.data # NULL
  /\ op' = "written"
  /\ file' = buf.data /\ status' = "NBT_OK"
  /\ UNCHANGED <<memory, input, call, errno, result, bad, faulty>>

WriteFails(n) ==
  /\ op = "write" /\ buf.data # NULL /\ n < Len(buf.data)
  /\ op' = "written"
  /\ file' = SubSeq(buf.data, 1, n) /\ status' = "NBT_EIO"
  /\ faulty' = TRUE
  /\ UNCHANGED <<memory, input, call, errno, result, bad>>

SaveEnds ==
  /\ op = "written"
  /\ live' = live \ {buf.at}
  /\ Return
  /\ UNCHANGED <<outcome, faulty>>

-----------------------------------------------------------------------------
(* Loading: nbt_parse_file calls read_file and nbt_parse_compressed, which *)
(* calls __decompress and nbt_parse.                                       *)

\* nbt_parse_file has got nothing.
NotRead ==
  /\ op = "inflate" /\ buf.data = NULL
  /\ Return
  /\ UNCHANGED <<live, outcome, faulty>>

\* The stream is decompressed: all of it, or what can be told of a part.
Decompress(n) ==
  /\ op = "inflate" /\ buf.data # NULL
  /\ n \in 0..Len(Content(file))
  /\ Readable(buf.data) => n = Len(Content(file))
  /\ Turn("unpack", SubSeq(Content(file), 1, n), "NBT_OK")
  /\ UNCHANGED faulty

\* Whether zlib_ret is Z_STREAM_END after the last round.
StreamEnd ==
  /\ op = "end"
  /\ op' = IF Readable(held.data) THEN "unpacked" ELSE "decompression_error"
  /\ UNCHANGED <<memory, input, call, outcome, disk, faulty>>

\* nbt_parse_compressed has got nothing.
NotUnpacked ==
  /\ op = "unpacked" /\ buf.data = NULL
  /\ op' = "parsed"
  /\ UNCHANGED <<memory, input, call, outcome, disk, faulty>>

\* nbt_parse_compressed has parsed, and frees what it was parsed from.
Parsed(error, res) ==
  /\ op = "unpacked" /\ buf.data # NULL
  /\ op' = "parsed"
  /\ errno' = error /\ result' = res
  /\ FreeBuf
  /\ UNCHANGED <<held, input, call, status, disk>>

\* Whether what was decompressed is a complete dump, from which nbt_parse makes
\* the tree.
Whole == buf.data = Raw(tree) /\ ~tree.fails

Parse ==
  /\ Parsed(IF Whole THEN "NBT_OK" ELSE "NBT_ERR", IF Whole THEN tree ELSE NULL)
  /\ UNCHANGED faulty

\* Memory runs out in nbt_parse.
ParseFails ==
  /\ Parsed("NBT_EMEM", NULL)
  /\ faulty' = TRUE

\* nbt_parse_file frees what was read.
LoadEnds ==
  /\ op = "parsed"
  /\ live' = live \ {held.at}
  /\ Return
  /\ UNCHANGED <<outcome, faulty>>

-----------------------------------------------------------------------------
(* The text of a tree. *)

More == pos < Len(feed)

\* bprintf reserves a byte more than it counts.
bprintf ==
  /\ op = "text" /\ More
  /\ Put(Len(feed[pos + 1]) + 1, feed[pos + 1], 1)
  /\ UNCHANGED op

\* It does not look at what buffer_reserve returns, and writes to NULL.
BprintfFails ==
  /\ op = "text" /\ More /\ "text" \in FailIn
  /\ buffer_reserve_fails(Len(feed[pos + 1]) + 1)
  /\ op' = "crashed"
  /\ UNCHANGED <<held, input, call, outcome, disk, faulty>>

\* The byte that ends the string needs no memory: bprintf has reserved it.
\* The block is freed if there is an error, and the client's otherwise.
TextDone ==
  /\ op = "text" /\ ~More
  /\ errno' = IF tree.fails THEN "NBT_EMEM" ELSE "NBT_OK"
  /\ result' = IF tree.fails THEN NULL ELSE tree
  /\ live' = live \ {buf.at}
  /\ Return
  /\ UNCHANGED <<status, faulty>>

-----------------------------------------------------------------------------

Work ==
  \/ DumpAppend \/ NotDumped \/ (\E n \in Packed : Compress(n))
  \/ DumpFreed \/ NotPacked \/ write_file \/ SaveEnds
  \/ NotRead \/ (\E n \in 0..Len(Content(file)) : Decompress(n))
  \/ StreamEnd \/ NotUnpacked \/ Parse \/ LoadEnds
  \/ Chunk \/ Abandon
  \/ bprintf \/ TextDone

Fault ==
  \/ NoMemory \/ ParseFails \/ BprintfFails
  \/ LibraryFails \/ InitFails \/ (\E n \in 0..Used(buf) : WriteFails(n))

Next ==
  \/ \E t \in Trees : nbt_dump_file(t) \/ nbt_dump_ascii(t)
  \/ nbt_parse_path
  \/ OpenFails
  \/ \E n \in 0..Len(file) : Damage(n)
  \/ Work
  \/ Fault

Spec == Init /\ [][Next]_vars

\* The calls are sequential code: they go on until they return.  Nothing has
\* to fail.
LiveSpec == Spec /\ WF_vars(Work)

-----------------------------------------------------------------------------
(* Properties. *)

\* Nothing is written past the end of a buffer, whatever the sizes of the
\* parts, the chunks and the first buffer (buffer_reserve).
InBounds == Used(buf) <= buf.cap /\ Used(held) <= held.cap

\* Every block in use belongs to one buffer that is still to be freed, and
\* no buffer points to anything else: a block that a failing buffer_reserve
\* has freed (buffer.c:71) is not freed or read again by the error exits
\* (nbt_loading.c:44, 143, 216) or the callers, and none is left by any way
\* out of a call (230, 235, 258, 263, 275, 280, 288, 293).
BlocksOwned ==
  /\ live = {buf.at, held.at} \ {NULL}
  /\ buf.at = held.at => buf.at = NULL
  /\ op = "idle" => live = {}

\* A file that nbt_dump_file has reported NBT_OK for loads as the tree that
\* was dumped, whatever its length is in chunks (nbt.h).
LoadsAsDumped ==
  (op = "idle" /\ last = "load" /\ status = "NBT_OK" /\ Readable(file) /\ ~faulty) =>
    result = tree

\* No failure is lost on its way to the client, though errno is reset twice
\* on that way (nbt_loading.c:86, 155) and is also what nbt_dump_file
\* returns (276): a file that is not complete is reported when it is saved
\* and when it is loaded, and NULL never comes with NBT_OK (nbt.h).
ErrorsReported ==
  op = "idle" =>
    /\ last = "dump" /\ status = "NBT_OK" => Complete(file)
    /\ last = "load" /\ ~Complete(file) => result = NULL
    /\ last = "load" /\ result = NULL => errno # "NBT_OK"

\* A text that cannot be made is reported (nbt.h: "If an error occurs, NULL
\* will be returned and errno will be set").
TextReported ==
  /\ op # "crashed"
  /\ (op = "idle" /\ last = "text" /\ result = NULL) => errno # "NBT_OK"

\* Every call returns, or ends the process: no loop waits for a chunk that
\* never comes.
CallEnds == op # "idle" ~> op \in {"idle", "crashed"}
=============================================================================
