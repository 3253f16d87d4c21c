# cSpockBot: specification, model checking and proofs

cSpockBot is a Minecraft client: a fiber scheduler on worker threads, an event
core on top of it, a network core that turns the server's bytes into events, and
codecs for the protocol's data types, NBT trees among them. This directory holds
TLA+ models of it, the TLC configurations that check them, and TLAPS proofs of their main
invariants. Paths below are relative to the repository's `src/` and `include/`.

## 1. Inventory

| component | state | operations | interacts with |
|---|---|---|---|
| ring buffer, `fibers/queue.c` | `head`, `tail`, per cell `seq` and `data` | `vgc_push`, `vgc_pop` | holds the three priority queues and the pool of free fibers |
| idle workers, `fibers/queue.c`, `scheduler.c:162-184` | `is_waiter`, `waiter_mux`, `waiter_cond` | `vgc_enqueue`, the sleeping half of `vgc_scheduler_run` | every worker and every push |
| scheduler, `fibers/scheduler.c`, `fiber.c` | per fiber `fiber_data`, per round a `vgc_counter` on a fiber's stack | `vgc_schedule_jobs`, `vgc_wait_for_counter`, `vgc_fiber_finish`, the rest of `vgc_scheduler_run` | fibers jump into it; it parks and wakes them |
| context switch, `fibers/asm/` | saved registers | `vgc_make`, `vgc_jump` | scheduler |
| event core, `event/sb_event.c` | names, handles, per event a list of callbacks, rwlocks | register, unregister, emit, run once or for ever, kill | schedules one job per callback, waits for their counter |
| network core, `net/sb_net.c` | read buffer, size of the next packet, compression, protocol state, plugin lock | the callbacks of libuv and of four events | runs in the fiber of the `tick` event; emits one event per packet |
| codecs, `datautils.c` | none | `size_`, `walk_`, `enc_`, `dec_` of each type | network core and generated protocol code |
| `cNBT/` | a tree of tags; a growing buffer | parse, dump, print, clone, filter, search, compare, free; save to and load from compressed files | codecs |
| plugin base, `base/base.c` | an rwlock | lock and unlock | event and network core |
| entry, `main.c` | threads | starts the workers and the root job | all |

`sds`, `uthash`, `log.c` and `list.h` are vendored; `gen_proto.py` generates C
that is not in the repository. `test.c` prints one encoded varint.

**What is hard.** The ring buffer is lock-free. Sleeping relies on a handshake of
relaxed atomics. A fiber that waits is parked by its worker *after* it has
stopped running and woken by another worker, on a counter that lives on its own
stack and is initialised again each round. The network core reads a stream that
is cut anywhere, in a fiber that may change threads in the middle of a callback,
while handlers in other fibers change the state it decodes with. The codecs have
three functions per type that must agree on a number of bytes, and are used on
values of which only a part may have been received. The NBT library allocates as
it recurses and has to undo half-built trees.

**What makes each component correct.**

- *Ring*: a linearizable bounded FIFO; a cell is touched by one thread at a time;
  nobody spins on a stalled thread.
- *Idle workers*: no fiber stays queued while all workers sleep.
- *Scheduler*: a stack has one runner; no fiber is lost; a waiter goes on after
  its jobs, not before, and does go on.
- *Event core*: a name has one handle; emit runs the callbacks that are
  registered and only those; waiting for an emit ends.
- *Network*: the buffer keeps the stream intact; packets are decoded once, in
  order and in the state the server sent them in; reading goes on.
- *Codecs*: `walk` accepts what `enc` writes and nothing less, `size` says how
  long it is, `dec` gives it back, `free_` frees what `dec` allocated.
- *cNBT*: parsing undoes dumping, a clone is the original, a search finds the
  first match, and no failure leaks or loses a block; a file is loaded as it was
  saved or refused.

The hazards behind these properties are listed, each at its line, under
"hazards" in `PROJECT.json`.

## 2. Modules

| module | models | role |
|---|---|---|
| `Fifo` | what `vgc_push` and `vgc_pop` promise | abstract specification |
| `ForkJoin` | what `vgc_schedule_jobs` and `vgc_wait_for_counter` promise | abstract specification |
| `RingBuf`, `MCRingBuf`, `RingBufProofs` | `queue.c:7-78`, one action per atomic access | implements `Fifo` |
| `IdleWait`, `IdleWaitProofs` | `queue.c:80-95`, `scheduler.c:162-184` with store buffers | |
| `Scheduler`, `MCScheduler`, `SchedulerProofs` | `scheduler.c`, `fiber.c`, used as `sb_event.c` and `main.c` use them | implements `ForkJoin`; uses queues with `Fifo`'s behaviour |
| `Counter`, `CounterProofs` | `vgc_counter` with several waiters, `vgc_wait_for_counter2` | one counter of `Scheduler`, in one round |
| `Event`, `EventProofs` | `sb_event.c`: registry, emit, loop, kill; the locks of `base.c` | uses the wait that `Scheduler` and `Counter` model |
| `Net`, `MCNet`, `NetProofs` | `sb_net.c` with the emit of `sb_event.c` | uses the wait that `Scheduler` models |
| `Varnum` | `datautils.c:20-311`: numbers of fixed and of variable length, strings | operators |
| `Nbt` | `nbt_parsing.c`, `nbt_treeops.c`, `nbt_util.c` | operators on `Varnum`'s bytes |
| `DataUtils` | `datautils.c:313-1325` | operators on `Nbt` and `Varnum` |
| `Codec`, `MCCodec`, `CodecProofs` | a value that is sized, encoded, received, walked, decoded and freed | a client of `Varnum` and, in `MCCodec`, of `DataUtils` |
| `NbtTree`, `MCNbtTree` | the calls of a client of `Nbt`, with its heap | a client of `Nbt` |
| `Loading`, `MCLoading`, `LoadingProofs` | `nbt_loading.c`, `buffer.c`, `bprintf` | takes parsing as `NbtTree` shows it to be |

Definitions named `X_Something` directly before `X`, marked *Mutant*, are
deliberately wrong versions of `X`. No specification uses them: they record that
the property they are paired with in `PROJECT.json` is violated once the code has
that mistake.

### RingBuf and Fifo

`head`, `tail`, `seq`, `data` are the fields of `vgc_ringbuf`; `pc`, `pos`, `val`
the locals of each thread's call. Every load, compare-and-exchange and store of
`vgc_push` and `vgc_pop` is an action, both ways out of the compare-and-exchange
and all three outcomes of the sequence number included. `log`, a history
variable, holds the pointer pushed at each position. In `Fifo` an operation is
called, takes effect and returns. Its guarantee on failure is what the ring
really gives: "full" (or "empty") may also be reported while another thread's pop
(push) has taken effect and not returned. The refinement mapping takes the queue
to be the logged pointers between `head` and `tail`.

Accesses are sequentially consistent: `data` is handed over by a release store
and acquire load of `seq`, a stale relaxed load of `head` or `tail` equals an
early one, and on x86-64, the only target, the weak compare-and-exchange does
not fail spuriously. Positions are unbounded naturals in place of `size_t`.

### IdleWait

Workers look at the three queues, then again under `waiter_mux` after setting
`is_waiter`, then sleep; `vgc_enqueue` pushes, loads `is_waiter` and broadcasts.
Both accesses to `is_waiter` are relaxed, so the model has x86-64 store buffers:
a publication (`q[p][i] = w`) and the store `is_waiter = 1` (`sbuf = w`) may be
invisible to others until the owner's next locked instruction, and drain at any
time. Condition variables wake spuriously. What a fiber does is reduced to
pushing fibers and coming back.

What this shows of the design: wakeups *can* be missed (line 181 clears the flag
while others sleep, and each side may look before the other is visible), so a
push does not always bring another worker. What cannot happen is that the work
is forgotten: the pusher itself looks at the queues before it sleeps.

### Scheduler

Workers run `vgc_scheduler_run` without the sleeping; `body[f]` is where fiber
`f` is in the code that `sb_event.c` makes it run: rounds of `vgc_schedule_jobs`
and `vgc_wait_for_counter` on one counter, then `vgc_fiber_finish` or, in the
root fiber, exit. `cnt[f]` is the counter on its stack. The counter's spin lock
is taken and released where the code does so, and `counter--` is a load and a
store. Pushes to queues and pool take their place in one step and are published
in the next, as in `RingBuf`, so a pop can miss what is behind a slow push.

`ForkJoin` says what all this is for, without queues, workers, counters or locks:
a fiber announces jobs, each is given to a fiber that nobody uses, and the wait
returns when they have finished, each after the jobs it has announced itself. The
refinement mapping at the end of `Scheduler` takes a fiber's unfinished jobs to be
the fibers with it as parent that are neither in the pool nor counted off
(`Out`), what it has still to hand out to be `Left`, and its wait to last from
the return of `vgc_schedule_jobs` to that of `vgc_wait_for_counter` (`Waits`).

Not modelled here: pushes that fail (each ring has a cell for every fiber, so
one needs a thread that stalls inside `vgc_pop` for a whole lap, 128 operations;
the results at `scheduler.c:201-207` and the error path at 64 are listed as
hazards) and `vgc_schedule_job`, which nothing calls. Several waiters on one
counter are `Counter`'s.

### Counter

One round of one counter: `Jobs` are the jobs it was initialised with, `Plain`
the fibers that wait with `vgc_wait_for_counter`, `Checked` those that wait with
`vgc_wait_for_counter2`, which refuses when there is no room. The spin lock is
taken by a fiber and given up by the worker that parks it, `Park`, which ignores
whether there was room (`scheduler.c:191`). The assumption `CounterAssumption`
is what callers have to see to: as soon as one waiter is unchecked there must be
places for all of them. The fiber that waits is not itself reused in a next
round: that case is `Scheduler`'s.

### Event

Handles count from 1. The array of events is `entries`, its memory the number
`block`, which changes when `realloc` moves it; a pointer into it is a block and
a handle, and `stale` records the use of one whose block is gone. What runs under
the plugin's write lock is one step; what runs under its read lock is several,
with the actor in one of the states `Reading`. In an entry `cbs` is the part of
the array below `cur` and `free` the part of `free_handles` below `free_cur`. A
callback is its client and number, a cleared one `NULL`, a slot taken but not
written `JUNK`. `sbev_reg_event` looks a name up in one step and adds it in
another (`RegEventFind`, `RegEventAdd`), with the name in `want` between them.
The loop is `sbev_start_event`: start, ticks until the flag is
set, kill. Each emit makes a job per slot; a job that finds `NULL` ends the
process. `count = -1` is a counter that has not been initialised, on which a wait
may return or not.

### Varnum, DataUtils, Codec

A number of w bits is the set of its one bits, a byte a set of bits 0 to 7, and
memory a sequence of bytes: 32- and 64-bit numbers, their signs and the shifts
of the code are exact and TLC can use them without counting to 2^64. Shifts of an
`int` by 32 or more (`dec_varlong`) have the outcome of x86-64. `DataUtils` has
the functions of each type under their own names. A length is changed into its
bits and back by recursive functions (`Bits`, `Num`), so that they can be proved
about. `Codec` uses `Varnum` for numbers and strings and takes the functions of
all other kinds as parameters (`SizeMore` and its like), which `Codec.cfg` gives
the functions of `DataUtils`: the proofs about `Codec` are then free of the
recursive trees. In `Codec` the receiver has
the first n bytes of an encoding, for every n, and after them memory that holds
zeroes or ones; it decodes only what the walk accepts, as the comment at
`datautils.c:153-157` asks. `Server` says that metadata ends with 0xFF, as a
server sends it and as every reader here expects it; `enc_metadata` ends it with
0.

### Nbt, NbtTree

A tree is a record of type, name and payload; a list has its sentinel (`data`)
and its items. Parsing and cloning thread an `Env` through the recursion: the
bytes left, the number of allocations until one fails, the blocks in use, `errno`
and whether a pointer was followed that nobody had set. `NbtTree` keeps the
client's two trees and the number of blocks in use, so that a leak anywhere in
any sequence of calls shows. `ShortMax` stands for 2^15 - 1, the longest string.
`nbt_map` and `nbt_find` are modelled for the visitors and predicates that the
searches use.

### Loading

A dump is a sequence of appends; the loops that compress, read and decompress are
one action, `Chunk`, since they do the same with `feed`, which is what zlib or
stdio has to give. A call is two functions deep: `buf` is the `struct buffer` of
the function that is running, `held` that of its caller, and `op` says where the
call is. The heap is a set of addresses. Every way out of a function is an action
with the `buffer_free` that stands there: `Abandon` (`nbt_loading.c:44`, `50`,
`138-144`, `210-217`), `InitFails` (104, 167), `NotDumped` (288), `DumpFreed`
(293), `NotPacked` (275), `SaveEnds` (280), `NotRead` (230), `NotUnpacked` (258),
`Parsed` (263), `LoadEnds` (235), and `buffer_reserve_fails`, which frees the block
that realloc could not make larger (`buffer.c:71`). `Return` frees nothing, so a
free that is missing on one path leaves an address in `live`, and a pointer kept
to a block that is gone does not match it.

Between calls the file may lose its end, or one byte of it may change. zlib is
external: a byte of a stream stands for the stream's content and length,
and decompressing a part gives a part. **Assumption:** zlib notices a stream that
is not complete and a change to a byte that it checks (`bad = "checked"`: the
data, under the checksum, and what has to be well formed). It does not check all:
the time, flags and system bytes of the gzip header that `STRAT_GZIP` writes
(`nbt_loading.c:101`) may change, and the file is loaded with `NBT_OK`
(`bad = "unchecked"`). The properties ask for nothing that is false for such a
file: it loads as the tree, which `LoadsAsDumped` checks.

A tree with `fails` has a string that is too long to be dumped: its parts are what
is written before it. `Doublings` (the capacities that `buffer_reserve` tries) and
`Written` (the bytes of the first appends) are recursive functions, so that they
can be proved about.

### Net

The server's stream is a constant sequence of packets; a byte is known by its
number, so that `mem`, `cur`, `in_use`, `rem` and `len` can be exactly those of
`sbnet_bbuf`, with `memmove` and `realloc` done on them. `First`, the number of a
packet's first byte, is a recursive function. `sbnet_read_cb` is one
action per step: lock, size, frame, decode, unlock, emit, wait. A packet is its
length and its event; only the two login packets with handlers change state, in
fibers of their own. libuv may deliver any number of bytes, none included, or
fail. Two kinds of undefined behaviour are choices: unlocking an rwlock that is
free may leave it usable or not, and waiting on an uninitialised counter may
return or never do so. A negative `nread` exits the process; that includes
`UV_EOF`, so the branch at `sb_net.c:86` that calls `sbev_kill` is never taken.

Left out: streams that are not well formed (the code exits on most of them), the
contents of packets, zlib, and the two packets that are sent.

## 3. Runs

Passing runs:

| run | instance | shows |
|---|---|---|
| `ringbuf` | 3 threads, 2 cells, 2 pointers, positions to 3 | `ImplementsFifo`, `NoSlotRace`, `RetryMeansProgress`, and the inductive `RingInv` |
| `idle_wait` | 2 workers, 3 pushes after the root's | `NeverAllAsleepWithWork`, and `WorkIsTaken`: whatever is queued is taken |
| `sched_nested` | 2 workers, 4 fibers, 1 round, jobs in jobs in jobs | `ImplementsForkJoin`, `OneStackOneRunner`, `NoFiberLost`, `ResumesAfterJobs`, `AddWaiterHoldsLock`, and `RootFinishes`: no wakeup is lost and nobody spins for ever |
| `counter` | 4 checked fibers, 2 jobs, room for 2 | `ReturnsWhenDone`, `NoneForgotten`, `EveryWaitEnds`, and the inductive `CounterInv` |
| `event` | 2 clients of 2 operations, one of whom registers events, arrays of 1 callback and 3 events | `SlotsIntact`, `NoStaleEntry`, `NoWildCall`, `KillEnds`, `TickReaches` |
| `net` | 5 packets of 17 bytes, buffer 5, reads of 0 to 4 | `NetInv`, `DecodedAsEncoded` |
| `codec` | varints around the powers of 2^7, strings, trees, absent slots, item tags, metadata of every type whose parts are sound; cut anywhere | `SizeExact`, `WalkExact`, `WalkRefusesPart`, `RoundTrip`, `ReleaseExact` |
| `nbt_tree` | trees of all types but int and long arrays, three deep, members of compounds named; memory fails anywhere in a clone; dumps cut anywhere after the root's name | `NothingLeaked`, `CloneIdentical`, `DumpRegenerates`, `TruncatedRefused`, `FiltersAgree`, `SearchesFirst` |
| `loading` | trees of 1 to 5 bytes, streams of 1 to 5, chunks of 2, buffers from 1, 3 addresses | `InBounds`, `BlocksOwned`, `LoadsAsDumped`, `ErrorsReported`, `CallEnds` |

Runs that find a disagreement of the code with what it says of itself:

| run | what happens |
|---|---|
| `sched_out_of_order` | a worker queues the waiters of a counter and releases the counter only afterwards (`scheduler.c:201`, `212`). The waiter may by then have started its next round on the same counter and taken its lock; the late release frees it, and a round later a fiber goes on while one of its jobs is still unfinished |
| `net_lock` | the write lock is taken once per read and released once per packet: a read without a complete packet leaves it held and the next one blocks for ever; a second packet unlocks a free lock |
| `event_null` | a callback that was given back stays in the array as a null pointer, and the next emit calls it |

**Other cases that the code gets wrong.** The models have them; the passing runs
choose instances without them, since the properties do not hold there. Each shows
when the configuration on the left is changed as said and checks the property
named (as an invariant of `Spec`; `KillEnds` under `LiveSpec`).

| configuration | change | property | what happens |
|---|---|---|---|
| `SchedNested` | `Rounds = 2`, `MaxDepth = 1` | `AddWaiterHoldsLock` | the first step of `sched_out_of_order`: a waiter is added without the lock that `scheduler.c:31` requires |
| `SchedNested` | two fibers | `WaitsForScheduledJobs` | `vgc_schedule_jobs` returns the index of the job that failed, 0 for the first: the caller takes it for success and waits for jobs that were never scheduled |
| `Net` | none | `WaitsForHandlers` | emitting an event without callbacks leaves the counter uninitialised, and `sbnet_read_cb` waits on it; only two packets have callbacks |
| `Event` | two `Registrars` | `OneHandlePerName` | two registrations of a name at once both miss it and both add it |
| `Event` | two `Registrars` | `NoStaleEntry` | `sbev_reg_event` reads `find->handle` after the unlock (`sb_event.c:50`), when another registration may have moved the array |
| `Event` | `KillEnds` without `ticked` | `KillEnds` | killed before the first tick, the loop emits `kill`, which has no callbacks, and waits on a counter that no tick has initialised |
| `Codec` | `Samples` is `Sevens`, `Lists`, `Slots` | `SizeExact` | `size_` is less than `enc_` writes: varints from 128 to 255, the header of a list, the byte of a slot without NBT |
| `Codec` | `Samples` is `Longs`, `Slots`, `Recipes`, `Particles`, `Tagged` | `WalkExact` | `walk_` refuses, or misjudges the length of, a value that is all there |
| `Codec` | `Samples` is `Metas`, `Server = FALSE` | `WalkExact` | the walk does not find the end of metadata that `enc_metadata` wrote |
| `Codec` | `Samples` is `Ingredients` | `RoundTrip` | slots are decoded into an array that is never allocated |
| `NbtTree` | `Trees` is `IntArrays`, `Junk` is `SomeJunk` | `CloneIdentical` | int arrays are copied and compared for a quarter of their length |
| `NbtTree` | `Trees` is `Unnamed` | `DumpRegenerates` | a member of a compound without a name is dumped in a form that does not parse |
| `NbtTree` | `CopyLists = TRUE` | `SentinelsTyped` | filtered lists have no type |
| `NbtTree` | `Trees` is `LongNames` | `FailedDumpEmpty` | a failed dump returns its first bytes |
| `Loading` | `Trees` is `Part` | `LoadsAsDumped` | those bytes are compressed and saved with success |
| `NbtTree` | `Failing = {"parse"}` | `NoWildPointer` | the links of a list are followed before they are set |
| `NbtTree` | `CutName = TRUE`, or `Failing = {"filter"}` | `NothingLeaked` | blocks are leaked on two error paths |
| `Loading` | none | `TextReported` | text is printed through a null pointer when memory runs out |

What one defect hides is not claimed: smelting recipes, particles and present
slots are modelled, and only the defects have been shown of them.

**Bounds.** `MaxPos` 3 on a ring of two cells takes pushes and pops into the
second lap, where a sequence number can be mistaken; three threads give a
pusher, a popper and one that is late (the proofs cover all sizes). Two workers
and three pushes let one clear the flag while the other sleeps or pushes; the
proofs cover any number of workers. `sched_nested` is kept to one round because
the stale release needs two. Within one round nesting two deep on a pool of three
free fibers makes the pool run out at the first and at later jobs; `RootFinishes`
leaves out the behaviours in which it is empty at the first. All jobs have
priority `mid`, as in `sbev_emit_event`; the root is `hi`. In `counter` two of
the four fibers may find no room. In `net` the buffer is smaller than the stream
and barely larger than a read, so that it is moved and grown with a partial
packet in it; the packets come after each change of state and one has a size of
two bytes. In `event` every array starts at its smallest, so that the first
growth of each happens with others inside; one registrar, since two get two
handles; `KillEnds` is from the first tick on, and both liveness properties end
with the process that calls a null pointer. In `codec` the varints are the
numbers on both sides of each change of length and the ends of the type; junk of
24 bytes is longer than any value looks ahead. `free_metadata` does not free the
array it is given, which `ReleaseExact` allows for; `MaxLive` 0 ends the run of a
client after it. In `loading` streams and trees are shorter than, equal to and
longer than one and two chunks. In `nbt_tree` `CopyLists = FALSE` keeps trees
with lists out of `nbt_filter`, and `MaxLive` bounds the blocks a client holds,
which without a leak no more than two trees need. `Net.cfg` does not check
deadlock: the process exits on errors, and hangs in the ways reported above; nor
do the runs of clients that may stop (`Event`, `NbtTree`, `Loading`, `Counter`,
`Codec`). Symmetry is used only in runs without liveness properties.

**Fairness.** Worker threads are preemptively scheduled (`WF` of a worker's
step); store buffers drain (`WF`); a mutex or spin lock that keeps being free is
obtained (`SF` on `waiter_mux` in `IdleWait`; in `Scheduler` weak fairness
suffices). `WorkIsTaken` and `RootFinishes` assume that a running fiber comes
back to the scheduler: with `uv_run(UV_RUN_ONCE)` (`sb_net.c:72`) it does so only
when the network has something to say, and a worker is blocked until then; that is
not modelled. In `Net` the event loop keeps running,
the server goes on sending, and the handlers are scheduled. In `Event` a client
finishes the operation it is in (but begins none), the loop runs, and workers run
the jobs; read-write locks are held for a bounded number of steps. In `Counter`
fibers and workers go on; weak fairness suffices for the spin lock since each
actor takes it once. In `Loading` a call that has begun goes on; faults are never
owed.

## 4. Proofs

Each holds for every value of the constants that satisfies the named assumptions.

| theorem | statement | argument |
|---|---|---|
| `RingInvariant` | `Spec => []RingInv` | see below; assumes a ring size that is a power of two >= 2, as `queue.c:8` asks |
| `SlotsExclusive`, `TypeCorrect` | `Spec => []NoSlotRace`, `[]TypeOK` | parts of `RingInv`: positions of owners differ and lie within one lap, so their cells differ |
| `LockFreedom` | `Spec => RetryMeansProgress` | a sequence number later than expected means that the position was taken |
| `RingImplementsFifo` | `Spec => ImplementsFifo` | step simulation: the two compare-and-exchanges are the effects, the rest calls, returns and stutters |
| `IdleInvariant` | `Spec => []IdleInv` | see below; any number of workers, at least one |
| `NoLostWakeup`, `MutexHolds` | `Spec => []NeverAllAsleepWithWork`, `[]CriticalUnderMutex` | from `IdleInv`; the mutex by an induction of its own on top of it |
| `CounterInvariant` | `Spec => []CounterInv` | see below; any finite sets of fibers and jobs, any `WAIT_FIBER_LEN` that has room for the unchecked waiters |
| `WaitsForAllJobs`, `NoWaiterForgotten` | `Spec => []ReturnsWhenDone`, `[]NoneForgotten` | parts of `CounterInv` |
| `BigEndianRoundTrip`, `LittleEndianRoundTrip` | `dec` of `enc` is the number | for every width and number; bits are moved to a byte and back |
| `VarintRoundTrip` | `dec_varint` of `enc_varint` is the number, with anything behind | every 32-bit number |
| `VarintWalk` | `walk_varint` is the length of the encoding, or `varnum_overrun` if `max_len` is less | every 32-bit number and `max_len`, with anything behind it |
| `VarintSize` | `size_varint` is that length, less one for the numbers from 128 to 255 | every 32-bit number: the exact extent of the defect that `Sevens` shows |
| `VarlongWalk`, `VarlongSize` | the same of `walk_varlong`, which calls the numbers from 2^63 on invalid, and of `size_varlong` | every 64-bit number: the extent of the defect that `Longs` shows |
| `VarlongDecoded`, `VarlongRoundTrip` | `dec_varlong` gives back the numbers below 2^31, and this is what it makes of the others | every 64-bit number: bit i lands on bit i modulo 32, three bits are lost, bit 31 is a sign (`datautils.c:250`) |
| `UuidRoundTrip`, `PositionRoundTrip` | `dec` of `enc` is the value, with anything behind | every UUID; every position that fits 26, 12 and 26 bits, negative coordinates included |
| `CodecInvariant` | `PlainSamples` implies `Spec => []CodecInv` | see below; varints, varlongs below 2^63, strings shorter than 2^20 |
| `CodecWalkExact`, `CodecWalkRefusesPart`, `CodecReleaseExact` | `PlainSamples` implies `Spec => []WalkExact`, `[]WalkRefusesPart`, `[]ReleaseExact` | from `CodecInv` and what the functions do with a beginning of an encoding |
| `CodecSizeExact` | and `SizedSamples`: `Spec => []SizeExact` | no number or length from 128 to 255 |
| `CodecRoundTrip` | and `ShortSamples`: `Spec => []RoundTrip` | no varlong from 2^31 on |
| `BufferInvariant` | `Spec => []NetInv` | every stream, buffer size and way of reading |
| `DecodedAsEncodedAlways` | `Spec => []DecodedAsEncoded` | see below; every sequence of packets, however it is cut into reads |
| `SlotInvHolds` | `Spec => []SlotInv` | see below; any clients, names and callbacks, without the bound `MaxOps` |
| `SlotsStayIntact`, `NoWildCallEver` | `Spec => []SlotsIntact`, `[]NoWildCall` | parts of `SlotInv` |
| `NoStaleEntryEver` | `OneRegistrar` implies `Spec => []NoStaleEntry` | from `SlotInv` and `Registering` |
| `NothingOutOfBounds`, `EveryBlockOwned`, `ErrorsAlwaysReported` | `Spec => []InBounds`, `[]BlocksOwned`, `[]ErrorsReported` | from `LoadInv`; every tree, way of appending, size of chunks and of buffers, and fault |
| `LoadsAsDumpedIfWhole` | `Spec => [](LoadsAsDumped \/ tree.fails)` | from `LoadInv`; `tree.fails` is the defect that `Part` shows, and the only one |
| `StacksNeverShared`, `FibersNeverLost`, `JobsFinishFirst`, `WaitersAddedUnderLock` | `Spec /\ [][InTurn]_vars =>` `[]OneStackOneRunner`, `[]NoFiberLost`, `[]ResumesAfterJobs`, `[]AddWaiterHoldsLock` | see below; any workers, fibers, rounds, jobs and nestings |
| `SchedulerImplementsForkJoin` | `Spec /\ [][InTurn]_vars => ImplementsForkJoin` | step simulation on top of `SchedInv`; see below |

**RingInv.** That two threads never own one cell is not inductive: a thread may
hold a sequence number that it read long ago. The invariant says for each of the
`Size` positions from `tail` on, which name the cells by their next push, that
the cell is free, being pushed, published or being popped, and gives the sequence
number and owner for each. A thread about to compare-and-exchange knows the
sequence number of its cell only *if* the position is still current; that
conditional is what the exchange tests.

**IdleInv.** "Not all asleep" is not inductive. `Covered` says that every
non-empty queue has a worker that will look at it again before it sleeps. A
worker that misses at a non-empty queue saw a cell published in someone else's
store buffer; `BufferedEarly` says that this someone has executed no locked
instruction since its push, so it has yet to take the mutex and look: it is the
one that covers the queue.

**NetInv.** `cur + in_use + rem = len`, and the bytes in use are the next bytes of
the stream. The lemmas `AdvanceKeepsBytes`, `MakeRoomKeepsBytes` and
`ReadKeepsBytes` say this of the operations on the buffer. It is what makes the
pointer and length handed to libuv (`sb_net.c:78`) lie within the allocation.

**CounterInv.** That nobody is forgotten is not inductive. A fiber tests the
counter and is added to the waiters in two steps of two actors, with the lock
held between them: `InsideHoldsLock` says that whoever is between acquire and
release, a fiber that has jumped included, is the one who holds the lock.
`JumpedHasRoom` carries what the fiber tested, jobs to wait for and room, to the
parking. For unchecked waiters the room is a matter of counting: the waiters are
different fibers (`Counted`), none of them the one that is on its way
(`NotYetWaiter`), so fewer than there are places.

**Varints.** The number of 7-bit groups of a number is a minimum over 1..10, not a
recursion; `GroupsFact` gives what it means, `EncVarnum` each byte of the
encoding, `VarLenFact` that a reader which looks for the first byte without its
high bit stops at the same length, `WalkFact` what a walk says when only the first
bytes are there. `IntShiftFact` follows one byte through the `int` shift of
`dec_varlong`.

**CodecInv.** The receiver holds a beginning of the sender's bytes with anything
behind it (`Seen`), and what walk and decoding said is what they say of that
memory; blocks are held in the last stage only. The rest is about the functions.
A number that is cut is overrun, since every byte before the cut says that there
are more. A string that is cut in its length is refused for that reason, and one
cut later because its length is read correctly, which needs `NumBits`: `Num` of
the `Bits` of a length is the length. The hypotheses on `Samples` are the defects
of section 3, and each theorem has only the one that concerns it. Trees, slots,
metadata and the like are not among these samples: their functions are recursive.

**SchedInv and InTurn.** The four properties of `Scheduler` do not follow from
`Spec`: `sched_out_of_order` violates one of them. `InTurn` is a condition on
steps: no fiber initialises its counter while a worker that has counted off the
last job of its previous round has yet to release that counter. The theorems
say that this late release (`scheduler.c:212`) is the only way in which the
properties fail: a repair of that line gives all of them. Every behaviour of the
instance of `sched_nested` satisfies `InTurn`, and so do many with more rounds
(TLC has checked `SchedInv` with two rounds and with three workers, nested two
deep, in the behaviours that do). None of the properties is inductive.
`Apart`, `Exclusive` and `Popped` say that a fiber is in one place, `States` what
its state tells of that place. `Counting` is the core: a counter is the number
of its jobs under way (`Out`) plus those still to be scheduled (`Left`), so it
reaches zero once, when the last job is counted off. `Locks` gives each lock one
holder, the fiber and the worker that parks it being one; `Tested` keeps what was
read under it. `Listed`, `Somewhere`, `Sleeping` and `Woken` say that a fiber
that is nowhere else sleeps, is a waiter of its own counter, and has either jobs
to wait for or a worker on the way to wake it. Only `ScheduleJobs` needs
`InTurn`, for `Locks`: it writes 0 to the lock.

**Scheduler implements ForkJoin.** Initialising the counter is `Announce`, popping
a fiber from the pool for a job is `Fork`, and the return of
`vgc_schedule_jobs` is `Wait`. `Return` is either the test that finds the counter
at zero or the worker's switch to a fiber that had been parked, and `Finish` is the store of
the decremented counter. All other steps of workers and fibers (queueing,
publishing, parking, locking, waking, returning fibers to the pool) are
stutters: for each it is shown that no fiber becomes or ceases to be active
(`SameActive`, `Unseen`). `SchedInv` supplies what the abstract guards ask for:
that a popped fiber has no parent's job left in it (`Popped`, `Exclusive`), and
that a counter at zero, or a woken waiter, has no jobs out (`Counting`, `Woken`).

**SlotInv.** That a registered callback stays in its slot is not inductive: the
slot number is chosen under the entry's lock and written in a later step. Each
slot is on the stack of free slots or one client's, who holds it or is about to
write it or to give it back (`ClaimsApart`, `BusyTaken`); a slot never written
has an owner that holds the lock (`JunkOwned`). `OneRegistrar` is how the
program is used, plugins are initialised one after another by `main.c`. All
pointers into the array of events are used under the read lock but one,
`find->handle` at `sb_event.c:50`: with two registrars `NoStaleEntry` is false
(section 3), with one `Registering` says that what it has found has not moved.

**DecodeInv.** `NetInv` and three parts: what was decoded is the beginning of the
stream (`History`), the cursor is at the first byte of the next packet or just
behind its size (`Position`), and the client's state is the one that the packets before it
lead to, as soon as the handlers the callback waits for have finished
(`State`). That the next packet is waiting for them is what makes it inductive.

**LoadInv.** Says of each phase of a call which bytes the buffers hold: the first
parts of the dump, the first chunks of the stream, or all of it when a loop has
ended, and what the file holds in between: a beginning of the stream of the last
tree. `Heap` says that the blocks in use are those of the two buffers, and
`Frames` which functions may hold one: it is needed because a call that returns
frees only the buffer it knows of. That no error is lost is not inductive, since
`errno` says nothing where it has just been reset; a phase that has been given no
buffer has an error with it (`Failed`), and on the way to a NULL result something
has failed or the file cannot be read (`Amiss`).

**Recursive functions.** `First`, `Doublings` and `Written` are defined by
recursion over natural numbers. So are `Bits` and `Num`, over 0 to 20, where a
function on one number more is put together step by step (`HalfStep`,
`FromStep`). That one of the others exists and satisfies its
equation is proved without an induction rule: the set of numbers at which it
fails would have a least element (`LeastNat`, `Least`, from well-foundedness of
`<`), which the equation excludes.

Only model-checked: liveness (`WorkIsTaken`, `RootFinishes`, `EveryWaitEnds`,
`KillEnds`, `TickReaches`, `CallEnds`), which needs ENABLED; the properties of
`NbtTree`; and those of `Codec` for the kinds of `DataUtils`. The last two are
built on the RECURSIVE operators of `Nbt` and `DataUtils`, which the prover's SMT
backend cannot take (trees need induction over data in any case).

## 5. Plan

1. Done: `Fifo`, `RingBuf`, `IdleWait`, `ForkJoin`, `Scheduler`, `Net`, `Counter`,
   `Event`, `Loading`, `Varnum` and, for numbers and strings, `Codec`, with their
   proofs; `Nbt`, `DataUtils` and `NbtTree`, which are model-checked.
2. Proofs: that a scheduler which releases a counter before it wakes the waiters
   satisfies `InTurn` without a hypothesis; the waits that `Event` and `Net`
   assume, from `SchedulerImplementsForkJoin`.
3. `Client`: `Net` on `Event` on `ForkJoin`, with several handlers of one event
   and the fiber changing threads; refines the wait that `Net` assumes.
4. Queues that report full, composed with `Scheduler`.

## 6. Not modelled

The context switch (assembly; taken as an atomic transfer), sockets, DNS and the
inside of zlib (I/O), logging, vendored libraries (`sds`, `uthash`, `log.c`,
`list.h`), the generator and its output, which is not in the repository. Of the
codecs `enc_buffer`, `dec_buffer` and `free_buffer`, a length and a `memcpy`
without a walk, and memory that runs out in `dec_` functions. Of `cNBT` the names
of types and errors, `nbt_list_item` (an index), the byte order tests and the layout of printed text. Of
the event core `sbev_run_event_once` and of the scheduler `vgc_schedule_job`,
which nothing calls, and a full ring's error path. Memory that runs out in the
event and network core ends the process (`CHK_ALLOC`).
