-------------------------------- MODULE Net --------------------------------
(***************************************************************************)
(* The network core, src/src/net/sb_net.c: the read buffer, the framing of *)
(* packets, the write lock around it, and the events each packet emits.    *)
(*                                                                         *)
(* The server's stream is a sequence of packets.  A byte of it is known by *)
(* its number, and the buffer's memory is modelled byte by byte, so that   *)
(* moving, growing and consuming the buffer are what the code does.  What  *)
(* a packet holds besides its length is reduced to the event it emits: a   *)
(* "compress" or "success" packet has a handler, which changes how the     *)
(* packets after it are encoded, other packets have none.                  *)
(*                                                                         *)
(* All of this runs in the fiber of the tick callback, inside uv_run; only *)
(* the handlers run elsewhere, and the fiber waits for them as module      *)
(* Scheduler describes.                                                    *)
(***************************************************************************)
EXTENDS Integers, Sequences

CONSTANTS
  Packets,     \* the server's packets: records hdr (bytes of the size varint),
               \* body (bytes of the rest) and event
  InitLen,     \* the first length of the read buffer (4096)
  Suggested    \* the size libuv asks alloc_cb for (65536)

Handled == {"compress", "success"}   \* the events sbnet_init_net registers for
Other   == "other"

ASSUME PacketAssumption ==
  Packets \in Seq([hdr : 1..5, body : Nat \ {0}, event : Handled \cup {Other}])

ASSUME BufferAssumption == InitLen \in Nat /\ Suggested \in Nat \ {0}

VARIABLES
  mem,      \* the bytes at read_buf.base: numbers of stream bytes, 0 for garbage
  len,      \* read_buf.len
  cur,      \* read_buf.cur - read_buf.base
  inUse,    \* read_buf.in_use
  rem,      \* read_buf.rem
  next,     \* next_packet_size
  comp,     \* compression
  proto,    \* proto_state
  lock,     \* the plugin's rwlock: "free", "held", or "broken"
  pc,       \* where the tick fiber is
  nread,    \* the argument of read_cb
  got,      \* bytes of the stream received so far
  jobs,     \* events whose handlers have yet to run
  decoded   \* history: per packet, its number and the state it was decoded in

buf  == <<mem, len, cur, inUse, rem>>
vars == <<mem, len, cur, inUse, rem, next, comp, proto, lock, pc, nread, got, jobs, decoded>>

NoSize == -1

-----------------------------------------------------------------------------
(* The server's stream. *)

Sizes(k) == Packets[k].hdr + Packets[k].body

\* The number of the first byte of packet k, or of the byte behind the last.
First[k \in 1..(Len(Packets) + 1)] == IF k = 1 THEN 1 ELSE First[k - 1] + Sizes(k - 1)

Total == First[Len(Packets) + 1] - 1

\* The packets whose first byte is stream byte b: one, or none.
PacketAt(b) == {k \in 1..Len(Packets) : First[k] = b}

\* How the server encodes packet k.
Sent(k, event) == \E j \in 1..(k - 1) : Packets[j].event = event

EncodedAs(k) ==
  [packet |-> k,
   comp   |-> Sent(k, "compress"),
   proto  |-> IF Sent(k, "success") THEN "play" ELSE "login"]

-----------------------------------------------------------------------------
(* The read buffer. *)

\* sbnet_adv_bbuf, sbnet_recv_bbuf: n bytes are consumed, if there are as many.
Advance(n) ==
  IF inUse < n
    THEN UNCHANGED buf
    ELSE cur' = cur + n /\ inUse' = inUse - n /\ UNCHANGED <<mem, len, rem>>

\* memmove(base, cur, in_use), in a buffer of n bytes.
Moved(n) ==
  [i \in 0..(n - 1) |-> IF i < inUse THEN mem[cur + i]
                        ELSE IF i < len THEN mem[i] ELSE 0]

\* Mutant: a buffer that is long enough is moved without updating rem.
MakeRoom_OldRem(n) ==
  IF n <= rem THEN UNCHANGED buf
  ELSE LET room == len - inUse IN
       /\ len' = IF n <= room THEN len ELSE inUse + n
       /\ mem' = Moved(len')
       /\ cur' = 0
       /\ rem' = IF n <= room THEN rem ELSE n
       /\ UNCHANGED inUse

(* sbnet_bbuf_make_room: there is room, or there is after moving the bytes *)
(* to the front, or the buffer grows.                                      *)
MakeRoom(n) ==
  IF n <= rem THEN UNCHANGED buf
  ELSE LET room == len - inUse IN
       /\ len' = IF n <= room THEN len ELSE inUse + n
       /\ mem' = Moved(len')
       /\ cur' = 0
       /\ rem' = IF n <= room THEN room ELSE n
       /\ UNCHANGED inUse

-----------------------------------------------------------------------------
\* sbnet_init_net
Init ==
  /\ mem = [i \in 0..(InitLen - 1) |-> 0]
  /\ len = InitLen
  /\ cur = 0
  /\ inUse = 0
  /\ rem = InitLen
  /\ next = NoSize
  /\ comp = FALSE
  /\ proto = "handshaking"
  /\ lock = "free"
  /\ pc = "connect"
  /\ nread = 0
  /\ got = 0
  /\ jobs = {}
  /\ decoded = <<>>

Goto(from, to) == pc = from /\ pc' = to

\* sbnet_connect_cb: the handshake is written and reading starts ...
Connect ==
  /\ Goto("connect", "poll")
  /\ proto' = "login"
  /\ UNCHANGED <<buf, next, comp, lock, nread, got, jobs, decoded>>

\* ... or the connection fails and the process exits.
ConnectFails ==
  /\ Goto("connect", "exit")
  /\ UNCHANGED <<buf, next, comp, proto, lock, nread, got, jobs, decoded>>

\* sbnet_alloc_cb, when the socket is readable.
AllocCb ==
  /\ Goto("poll", "read")
  /\ MakeRoom(Suggested)
  /\ UNCHANGED <<next, comp, proto, lock, nread, got, jobs, decoded>>

\* libuv reads n bytes, or finds none, behind the ones in use and calls read_cb.
Read(n) ==
  /\ Goto("read", "lock")
  /\ n <= Suggested
  /\ got + n <= Total
  /\ mem' = [i \in DOMAIN mem |-> IF i \in (cur + inUse)..(cur + inUse + n - 1)
                                    THEN got + 1 + (i - cur - inUse) ELSE mem[i]]
  /\ nread' = n
  /\ got' = got + n
  /\ UNCHANGED <<len, cur, inUse, rem, next, comp, proto, lock, jobs, decoded>>

\* The read fails or the server closes: UV_EOF is negative too, and the process exits.
ReadFails ==
  /\ Goto("read", "exit")
  /\ UNCHANGED <<buf, next, comp, proto, lock, nread, got, jobs, decoded>>

\* csb_wrlock_plugin; the bytes read are in use.
LockNet ==
  /\ Goto("lock", "size")
  /\ lock = "free"
  /\ lock' = "held"
  /\ inUse' = inUse + nread
  /\ rem' = rem - nread
  /\ nread' = 0
  /\ UNCHANGED <<mem, len, cur, next, comp, proto, got, jobs, decoded>>

\* walk_varint overruns: read_cb returns, as it is, and uv_run with it.
SizeOverrun ==
  /\ Goto("size", "poll")
  /\ next = NoSize
  /\ inUse > 0 => \E k \in PacketAt(mem[cur]) : inUse < Packets[k].hdr
  /\ UNCHANGED <<buf, next, comp, proto, lock, nread, got, jobs, decoded>>

\* The size varint is decoded and consumed.
Size ==
  /\ Goto("size", "frame")
  /\ next = NoSize
  /\ inUse > 0
  /\ \E k \in PacketAt(mem[cur]) :
       /\ inUse >= Packets[k].hdr
       /\ next' = Packets[k].body
       /\ Advance(Packets[k].hdr)
  /\ UNCHANGED <<comp, proto, lock, nread, got, jobs, decoded>>

\* The size is known from an earlier call.
SizeKnown ==
  /\ Goto("size", "frame")
  /\ next # NoSize
  /\ UNCHANGED <<buf, next, comp, proto, lock, nread, got, jobs, decoded>>

\* The packet is not complete: read_cb returns, as it is.
FrameShort ==
  /\ Goto("frame", "poll")
  /\ next > inUse
  /\ UNCHANGED <<buf, next, comp, proto, lock, nread, got, jobs, decoded>>

(* The packet is taken from the buffer, inflated if need be, and decoded   *)
(* with the current compression and protocol state.                        *)
Decode ==
  /\ Goto("frame", "unlock")
  /\ next <= inUse
  /\ Advance(next)
  /\ next' = NoSize
  /\ \E k \in {j \in 1..Len(Packets) : First[j] + Packets[j].hdr = mem[cur]} :
       decoded' = Append(decoded, [packet |-> k, comp |-> comp, proto |-> proto])
  /\ UNCHANGED <<comp, proto, lock, nread, got, jobs>>

(* csb_wrunlock_plugin.  Only the first packet of a call finds the lock    *)
(* held: unlocking a free rwlock is undefined, and may leave it unusable.  *)
UnlockNet ==
  /\ Goto("unlock", "emit")
  /\ \/ lock = "held" /\ lock' = "free"
     \/ lock = "free" /\ lock' \in {"free", "broken"}
     \/ lock = "broken" /\ lock' = "broken"
  /\ UNCHANGED <<buf, next, comp, proto, nread, got, jobs, decoded>>

Last == decoded[Len(decoded)].packet

\* sbev_emit_event schedules the handlers ...
Emit ==
  /\ Goto("emit", "wait")
  /\ Packets[Last].event \in Handled
  /\ jobs' = jobs \cup {Packets[Last].event}
  /\ UNCHANGED <<buf, next, comp, proto, lock, nread, got, decoded>>

(* ... or returns early when there are none, with the counter, a local     *)
(* variable of read_cb, not initialised: the wait that follows goes on, or *)
(* spins or parks for good.                                                *)
EmitNothing ==
  /\ pc = "emit"
  /\ Packets[Last].event \notin Handled
  /\ pc' \in {"size", "hung"}
  /\ UNCHANGED <<buf, next, comp, proto, lock, nread, got, jobs, decoded>>

\* sbnet_compress_cb, in a fiber of its own.
CompressCb ==
  /\ "compress" \in jobs
  /\ comp' = TRUE
  /\ jobs' = jobs \ {"compress"}
  /\ UNCHANGED <<buf, next, proto, lock, pc, nread, got, decoded>>

\* sbnet_success_cb
SuccessCb ==
  /\ "success" \in jobs
  /\ proto' = "play"
  /\ jobs' = jobs \ {"success"}
  /\ UNCHANGED <<buf, next, comp, lock, pc, nread, got, decoded>>

\* Mutant: the next packet is decoded without waiting.
WaitOver_NoWait ==
  /\ Goto("wait", "size")
  /\ UNCHANGED <<buf, next, comp, proto, lock, nread, got, jobs, decoded>>

\* vgc_wait_for_counter returns when the handlers have run.
WaitOver ==
  /\ Goto("wait", "size")
  /\ jobs = {}
  /\ UNCHANGED <<buf, next, comp, proto, lock, nread, got, jobs, decoded>>

ReadCb ==
  \/ LockNet
  \/ SizeOverrun \/ Size \/ SizeKnown \/ FrameShort \/ Decode
  \/ UnlockNet \/ Emit \/ EmitNothing \/ WaitOver

Next ==
  \/ Connect \/ ConnectFails \/ AllocCb
  \/ \E n \in 0..Suggested : Read(n)
  \/ ReadFails \/ ReadCb
  \/ CompressCb \/ SuccessCb

Spec == Init /\ [][Next]_vars

(* The event loop keeps running, the server sends what it has to send and  *)
(* the handlers are scheduled.                                             *)
FairSpec ==
  /\ Spec
  /\ WF_vars(Next)
  /\ WF_vars(CompressCb)
  /\ WF_vars(SuccessCb)

-----------------------------------------------------------------------------
(* Sizes and offsets are natural numbers, the memory is as long as len     *)
(* says, a read is in progress only until read_cb has counted it, and      *)
(* next_packet_size is a size where it is used as one.                     *)
TypeOK ==
  /\ len \in Nat /\ cur \in Nat /\ inUse \in Nat /\ rem \in Nat
  /\ mem \in [0..(len - 1) -> Nat]
  /\ next \in Nat \cup {NoSize}
  /\ comp \in BOOLEAN
  /\ proto \in {"handshaking", "login", "play"}
  /\ lock \in {"free", "held", "broken"}
  /\ pc \in {"connect", "poll", "read", "lock", "size", "frame", "unlock", "emit", "wait",
             "hung", "exit"}
  /\ nread \in Nat
  /\ nread # 0 => pc = "lock"
  /\ pc = "frame" => next # NoSize
  /\ got \in Nat
  /\ jobs \subseteq Handled

\* Bytes of the stream that have been consumed.
Used == got - inUse - nread

(* The buffer of sb_net.h's picture: cur, in_use and rem add up to len, so *)
(* what libuv is told to write fits in the allocation (sb_net.c:77-78).    *)
BufferShape ==
  /\ cur + inUse + rem = len
  /\ pc = "read" => Suggested <= rem
  /\ nread <= rem

(* However the stream is cut into reads, and whenever the buffer is moved  *)
(* or grown between a size and its packet (sb_net.c:49-60), the bytes in   *)
(* use are the next bytes of the stream, in order and without a gap.       *)
BufferIntact ==
  /\ BufferShape
  /\ Used >= 0
  /\ \A i \in 0..(inUse + nread - 1) : mem[cur + i] = Used + 1 + i

NetInv == TypeOK /\ BufferIntact

(* Every packet is decoded once, in order, and with the compression and    *)
(* protocol state in which the server sent it, although handlers in other  *)
(* fibers change that state (sb_net.c:198-203).                            *)
DecodedAsEncoded ==
  \A i \in DOMAIN decoded : decoded[i] = EncodedAs(i)

(* "before moving on to the next packet" (sb_net.c:198): the client goes   *)
(* on until it has decoded all the server sent, or has seen an error and   *)
(* exits.                                                                  *)
EveryPacketDecoded == <>(pc = "exit" \/ Len(decoded) = Len(Packets))

(* "We wait for events to resolve" (sb_net.c:198): the fiber of read_cb    *)
(* comes to a halt in its wait only while a handler has yet to run.        *)
WaitsForHandlers == pc = "hung" => jobs # {}
=============================================================================
