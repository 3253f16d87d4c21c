------------------------------- MODULE Event -------------------------------
(***************************************************************************)
(* The event core: src/src/event/sb_event.c.                               *)
(*                                                                         *)
(* Events are entries of an array that grows by realloc and of a hash map  *)
(* from names to pointers into the array.  An entry has an array of        *)
(* callbacks and a stack of the slots that were given back.  Clients (the  *)
(* plugins, in their fibers) register events and callbacks, give callbacks *)
(* back and ask for the end; the loop of sbev_start_event emits the events *)
(* "start", "tick" and "kill" and waits for the callbacks of each.         *)
(*                                                                         *)
(* Two read-write locks protect this: the plugin's, and one per entry.     *)
(* What runs under the write lock of the plugin is one step here, since    *)
(* nobody else is inside; what runs under its read lock is several, and an *)
(* actor holds the lock while `pc' is one of Reading.  The fresh slot of a *)
(* callback is taken in one step and written in the next, under the write  *)
(* lock of the entry.  Waiting is module Scheduler's: here the loop goes   *)
(* on when its counter is zero, and a counter nobody has initialised lets  *)
(* it go on or keeps it for ever.                                          *)
(***************************************************************************)
EXTENDS Integers, Sequences, FiniteSets

CONSTANTS
  Clients,      \* the fibers that use the event core
  Registrars,   \* those that register events
  Names,        \* the names of the events they register
  Watched,      \* the handles of the events clients have callbacks for
  Loop,         \* the fiber in sbev_start_event
  NULL,         \* no callback
  JUNK,         \* what realloc'ed memory holds
  EvMax,        \* the initial max of the array of events (20)
  CbMax,        \* the initial max and free_max of an entry (20)
  MaxOps,       \* bound: operations of a client
  Unregister,   \* whether clients give callbacks back
  EarlyKill     \* whether sbev_kill may be called before the first tick

ASSUME EventAssumption ==
  /\ Registrars \subseteq Clients
  /\ Loop \notin Clients
  /\ EvMax \in Nat /\ EvMax >= 3
  /\ CbMax \in Nat \ {0}
  /\ MaxOps \in Nat
  /\ {Unregister, EarlyKill} \subseteq BOOLEAN
  /\ JUNK # NULL /\ JUNK \notin (Clients \cup {Loop}) \X Nat

Start == 1
Tick  == 2
Kill  == 3
Events == <<"start", "tick", "kill">>

VARIABLES
  entries,    \* the events, in the order of their handles
  block,      \* which block of memory the array is in
  evmax,      \* its max
  map,        \* entries_map: the name, block and handle of each pointer
  kill_flag,
  pc,         \* per actor: where it is
  ent,        \* per actor: the pointer to an entry it works with
  slot,       \* per client: the slot it has taken in that entry
  held,       \* per client: its callbacks, with their events and slots
  ops,        \* per client: operations begun
  want,       \* per client: the name of the event it registers
  phase,      \* the event the loop emits
  count,      \* the counter the loop waits for; -1 if not initialised
  ticked,     \* a tick has been emitted
  jobs,       \* the callbacks scheduled for the event and not yet run
  called,     \* those that have been called for it
  stale       \* an entry was read through a pointer to freed memory

core    == <<entries, block, evmax, map, kill_flag>>
clients == <<slot, held, ops, want>>
loop    == <<phase, count, ticked, jobs, called>>
vars    == <<core, pc, ent, clients, loop, stale>>

Pointer(h) == [block |-> block, handle |-> h]
Nowhere    == [block |-> 0, handle |-> 0]
Callback(c) == <<c, ops[c]>>

\* sbev_init_event_entry
Entry(nomen, cbs) ==
  [nomen |-> nomen, cbs |-> cbs, max |-> CbMax, free |-> <<>>, free_max |-> CbMax]

\* sbev_init_event, then sbnet_init_net's callbacks for start and tick.
Init ==
  /\ entries = [h \in 1..3 |-> Entry(Events[h], IF h = Kill THEN <<>> ELSE <<<<Loop, h>>>>)]
  /\ block = 1 /\ evmax = EvMax
  /\ map = {[nomen |-> Events[h], at |-> [block |-> 1, handle |-> h]] : h \in 1..3}
  /\ kill_flag = FALSE
  /\ pc    = [a \in Clients \cup {Loop} |-> IF a = Loop THEN "emit" ELSE "idle"]
  /\ ent   = [a \in Clients \cup {Loop} |-> Nowhere]
  /\ slot  = [c \in Clients |-> 0]
  /\ held  = [c \in Clients |-> {}]
  /\ ops   = [c \in Clients |-> 0]
  /\ want  = [c \in Clients |-> ""]
  /\ phase = Start /\ count = -1 /\ ticked = FALSE
  /\ jobs = {} /\ called = {}
  /\ stale = FALSE

-----------------------------------------------------------------------------
(* The locks. *)

Reading == {"reg", "store", "unreg", "copy"}

Goto(a, from, to) ==
  /\ pc[a] = from
  /\ pc' = [pc EXCEPT ![a] = to]

\* csb_wrlock_plugin succeeds.
NoReaders == \A a \in DOMAIN pc : pc[a] \notin Reading

\* uv_rwlock_wrlock and uv_rwlock_rdlock of the entry of actor a succeed: no
\* client is between taking a slot of it and writing to it.
EntryFree(a) == \A c \in Clients : pc[c] = "store" => ent[c].handle # ent[a].handle

\* The access of actor a to its entry.
Access(a) == stale' = (stale \/ ent[a].block # block)

Begin(c) ==
  /\ ops[c] < MaxOps
  /\ ops' = [ops EXCEPT ![c] = @ + 1]

-----------------------------------------------------------------------------
(* Registering events. *)

\* HASH_FIND_STR under the read lock.
RegEventFind(c, nomen) ==
  /\ Begin(c)
  /\ LET hits == {m \in map : m.nomen = nomen}
     IN \/ /\ \E m \in hits : Goto(c, "idle", "found") /\ ent' = [ent EXCEPT ![c] = m.at]
           /\ UNCHANGED want
        \/ /\ hits = {}
           /\ Goto(c, "idle", "add")
           /\ want' = [want EXCEPT ![c] = nomen]
           /\ UNCHANGED ent
  /\ UNCHANGED <<core, slot, held, loop, stale>>

\* `return find->handle', after the lock has been given up.
RegEventFound(c) ==
  /\ Goto(c, "found", "idle")
  /\ Access(c)
  /\ UNCHANGED <<core, ent, clients, loop>>

\* Mutant: the array grows under the read lock.
RegEventAdd_ReadLock(c) ==
  /\ Goto(c, "add", "idle")
  /\ entries' = Append(entries, Entry(want[c], <<>>))
  /\ IF Len(entries) = evmax
     THEN /\ evmax' = 2 * evmax
          /\ block' = block + 1
          /\ map' = {[nomen |-> entries'[h].nomen, at |-> [block |-> block', handle |-> h]] :
                       h \in DOMAIN entries'}
     ELSE /\ map' = map \cup {[nomen |-> want[c], at |-> Pointer(Len(entries'))]}
          /\ UNCHANGED <<evmax, block>>
  /\ UNCHANGED <<kill_flag, ent, clients, loop, stale>>

\* Under the write lock; the name is not looked up again.
RegEventAdd(c) ==
  /\ NoReaders
  /\ Goto(c, "add", "idle")
  /\ entries' = Append(entries, Entry(want[c], <<>>))
  /\ IF Len(entries) = evmax
     THEN /\ evmax' = 2 * evmax
          /\ block' = block + 1
          /\ map' = {[nomen |-> entries'[h].nomen, at |-> [block |-> block', handle |-> h]] :
                       h \in DOMAIN entries'}
     ELSE /\ map' = map \cup {[nomen |-> want[c], at |-> Pointer(Len(entries'))]}
          /\ UNCHANGED <<evmax, block>>
  /\ UNCHANGED <<kill_flag, ent, clients, loop, stale>>

-----------------------------------------------------------------------------
(* Registering callbacks and giving them back. *)

\* The read lock of the plugin, and the pointer to the entry.
RegCbLock(c, h) ==
  /\ Begin(c)
  /\ Goto(c, "idle", "reg")
  /\ ent' = [ent EXCEPT ![c] = Pointer(h)]
  /\ UNCHANGED <<core, slot, held, want, loop, stale>>

\* Mutant: a slot stays on the stack of free ones.
RegCbSlot_KeepsFree(c) ==
  LET h == ent[c].handle
      e == entries[h]
  IN /\ EntryFree(c)
     /\ Goto(c, "reg", "store")
     /\ Access(c)
     /\ IF e.free # <<>>
        THEN /\ slot' = [slot EXCEPT ![c] = e.free[Len(e.free)]]
             /\ UNCHANGED entries
        ELSE /\ slot' = [slot EXCEPT ![c] = Len(e.cbs) + 1]
             /\ entries' = [entries EXCEPT
                  ![h].max = IF Len(e.cbs) = @ THEN 2 * @ ELSE @,
                  ![h].cbs = Append(@, JUNK)]
     /\ UNCHANGED <<block, evmax, map, kill_flag, ent, held, ops, want, loop>>

\* The write lock of the entry, and a slot: the last one given back, or a
\* fresh one at the end of the array, which grows when it is full.
RegCbSlot(c) ==
  LET h == ent[c].handle
      e == entries[h]
  IN /\ EntryFree(c)
     /\ Goto(c, "reg", "store")
     /\ Access(c)
     /\ IF e.free # <<>>
        THEN /\ slot' = [slot EXCEPT ![c] = e.free[Len(e.free)]]
             /\ entries' = [entries EXCEPT ![h].free = SubSeq(@, 1, Len(@) - 1)]
        ELSE /\ slot' = [slot EXCEPT ![c] = Len(e.cbs) + 1]
             /\ entries' = [entries EXCEPT
                  ![h].max = IF Len(e.cbs) = @ THEN 2 * @ ELSE @,
                  ![h].cbs = Append(@, JUNK)]
     /\ UNCHANGED <<block, evmax, map, kill_flag, ent, held, ops, want, loop>>

\* The slot is written and the locks are given up.
RegCbStore(c) ==
  LET h == ent[c].handle
  IN /\ Goto(c, "store", "idle")
     /\ entries' = [entries EXCEPT ![h].cbs[slot[c]] = Callback(c)]
     /\ held' = [held EXCEPT ![c] = @ \cup {[handle |-> h, slot |-> slot[c], cb |-> Callback(c)]}]
     /\ Access(c)
     /\ UNCHANGED <<block, evmax, map, kill_flag, ent, slot, ops, want, loop>>

UnregCbLock(c, mine) ==
  /\ Unregister
  /\ Begin(c)
  /\ Goto(c, "idle", "unreg")
  /\ ent'  = [ent EXCEPT ![c] = Pointer(mine.handle)]
  /\ slot' = [slot EXCEPT ![c] = mine.slot]
  /\ held' = [held EXCEPT ![c] = @ \ {mine}]
  /\ UNCHANGED <<core, want, loop, stale>>

\* The slot is cleared and put on the stack, which grows when it is full.
UnregCb(c) ==
  LET h == ent[c].handle
      e == entries[h]
  IN /\ EntryFree(c)
     /\ Goto(c, "unreg", "idle")
     /\ Access(c)
     /\ entries' = [entries EXCEPT
          ![h].free_max = IF Len(e.free) = @ THEN 2 * @ ELSE @,
          ![h].cbs[slot[c]] = NULL,
          ![h].free = Append(@, slot[c])]
     /\ UNCHANGED <<block, evmax, map, kill_flag, ent, clients, loop>>

\* sbev_kill
KillCall(c) ==
  /\ EarlyKill \/ ticked
  /\ NoReaders
  /\ pc[c] = "idle"
  /\ kill_flag' = TRUE
  /\ UNCHANGED <<entries, block, evmax, map, pc, ent, clients, loop, stale>>

-----------------------------------------------------------------------------
(* The loop: sbev_start_event and sbev_run_event_continous. *)

EmitLock ==
  /\ Goto(Loop, "emit", "copy")
  /\ ent' = [ent EXCEPT ![Loop] = Pointer(phase)]
  /\ ticked' = (ticked \/ phase = Tick)
  /\ called' = {}
  /\ UNCHANGED <<core, clients, phase, count, jobs, stale>>

\* Mutant: the entry is not locked.
EmitCopy_Unlocked ==
  LET cbs == entries[ent[Loop].handle].cbs
  IN /\ Goto(Loop, "copy", "wait")
     /\ Access(Loop)
     /\ IF cbs = <<>>
        THEN UNCHANGED <<count, jobs>>
        ELSE /\ count' = Len(cbs)
             /\ jobs' = {<<i, cbs[i]>> : i \in DOMAIN cbs}
     /\ UNCHANGED <<core, ent, clients, phase, ticked, called>>

\* Mutant: the last callback is left out.
EmitCopy_OneShort ==
  LET cbs == entries[ent[Loop].handle].cbs
  IN /\ EntryFree(Loop)
     /\ Goto(Loop, "copy", "wait")
     /\ Access(Loop)
     /\ count' = IF Len(cbs) < 2 THEN 0 ELSE Len(cbs) - 1
     /\ jobs' = {<<i, cbs[i]>> : i \in 1..(Len(cbs) - 1)}
     /\ UNCHANGED <<core, ent, clients, phase, ticked, called>>

\* A copy of the slots below cur, NULL ones too, becomes the jobs; without
\* any, the counter is left as it is.
EmitCopy ==
  LET cbs == entries[ent[Loop].handle].cbs
  IN /\ EntryFree(Loop)
     /\ Goto(Loop, "copy", "wait")
     /\ Access(Loop)
     /\ IF cbs = <<>>
        THEN UNCHANGED <<count, jobs>>
        ELSE /\ count' = Len(cbs)
             /\ jobs' = {<<i, cbs[i]>> : i \in DOMAIN cbs}
     /\ UNCHANGED <<core, ent, clients, phase, ticked, called>>

\* sbev_trampoline
RunJob(job) ==
  /\ called' = called \cup {job[2]}
  /\ jobs' = jobs \ {job}
  /\ count' = count - 1
  /\ UNCHANGED <<core, pc, ent, clients, phase, ticked, stale>>

\* The wait is over.  The loop has a counter of its own, not that of start.
WaitOver ==
  /\ count \in {0, -1}
  /\ Goto(Loop, "wait", IF phase = Kill THEN "exited" ELSE "test")
  /\ count' = IF phase = Start THEN -1 ELSE count
  /\ UNCHANGED <<core, ent, clients, phase, ticked, jobs, called, stale>>

\* The counter holds garbage: its lock is taken, or it never comes to zero.
WaitForGarbage ==
  /\ count = -1
  /\ Goto(Loop, "wait", "hung")
  /\ UNCHANGED <<core, ent, clients, loop, stale>>

\* Mutant: the flag is not looked at.
TestKill_Ignores ==
  /\ Goto(Loop, "test", "emit")
  /\ phase' = Tick
  /\ UNCHANGED <<core, ent, clients, count, ticked, jobs, called, stale>>

\* The lock is taken for reading, in which nothing else happens.
TestKill ==
  /\ Goto(Loop, "test", "emit")
  /\ phase' = IF kill_flag THEN Kill ELSE Tick
  /\ UNCHANGED <<core, ent, clients, count, ticked, jobs, called, stale>>

LoopStep == EmitLock \/ EmitCopy \/ WaitOver \/ WaitForGarbage \/ TestKill

ClientStep(c) ==
  \/ RegEventFound(c)
  \/ RegEventAdd(c)
  \/ RegCbSlot(c)
  \/ RegCbStore(c)
  \/ UnregCb(c)

\* The process ends with the call of a null pointer.
Next ==
  /\ NULL \notin called
  /\ \/ \E c \in Registrars, n \in Names : RegEventFind(c, n)
     \/ \E c \in Clients, h \in Watched \cap DOMAIN entries : RegCbLock(c, h)
     \/ \E c \in Clients : \E mine \in held[c] : UnregCbLock(c, mine)
     \/ \E c \in Clients : ClientStep(c) \/ KillCall(c)
     \/ LoopStep
     \/ \E job \in jobs : RunJob(job)

Spec == Init /\ [][Next]_vars

\* A thread goes on with what it has begun, and so do the workers.
Fairness ==
  /\ \A c \in Clients : WF_vars(ClientStep(c))
  /\ WF_vars(LoopStep)
  /\ WF_vars(\E job \in jobs : RunJob(job))

LiveSpec == Spec /\ Fairness

-----------------------------------------------------------------------------
(* Properties. *)

Elems(s) == {s[i] : i \in DOMAIN s}

\* A client's callback stays in its slot, and in no other client's, for as
\* long as the client has not given it back: free slots are nobody's, none is
\* free twice, and arrays are never written past their max (sbev_reg_cb,
\* sbev_unreg_cb).
SlotsIntact ==
  /\ \A c \in Clients : \A mine \in held[c] :
       /\ entries[mine.handle].cbs[mine.slot] = mine.cb
       /\ mine.slot \notin Elems(entries[mine.handle].free)
  /\ \A h \in DOMAIN entries : LET e == entries[h] IN
       /\ Len(e.cbs) <= e.max /\ Len(e.free) <= e.free_max
       /\ Elems(e.free) \subseteq DOMAIN e.cbs
       /\ \A i, j \in DOMAIN e.free : e.free[i] = e.free[j] => i = j

\* No entry is read where the array used to be: the array moves under the
\* write lock (sb_event.c:56), the map is built again with its new place
\* (55-60), and pointers are used under the read lock.  One is not: find is
\* read at line 50 after the unlock at 49, which only goes well as long as
\* nobody else registers events.
NoStaleEntry ==
  /\ ~stale
  /\ \A m \in map : m.at.block = block /\ entries[m.at.handle].nomen = m.nomen

\* What is emitted is what was registered: no job for a slot that has been
\* taken and not written yet (sbev_emit_event's read lock of the entry).
NoWildCall == \A job \in jobs : job[2] # JUNK

\* A name has one event, and all who register it get the same handle.  False
\* with two registrars: both may miss the name (sb_event.c:48) before either
\* has added it (52).
OneHandlePerName ==
  \A i, j \in DOMAIN entries : entries[i].nomen = entries[j].nomen => i = j

\* Every job has a callback to call (sbev_trampoline).
NoNullCall == NULL \notin called

\* The process has ended: sbev_trampoline called a null pointer.
Crashed == NULL \in called

\* Once sbev_kill has been called, and a tick has initialised the counter on
\* which the loop waits for the callbacks of kill, the loop comes to its end.
KillEnds == kill_flag /\ ticked ~> pc[Loop] = "exited" \/ Crashed

\* A callback registered for the tick is called, unless the end comes first
\* or it is given back.
TickReaches ==
  \A c \in Clients : \A k \in 1..MaxOps :
    LET mine == \E m \in held[c] : m.handle = Tick /\ m.cb = <<c, k>>
    IN mine ~> (<<c, k>> \in called \/ kill_flag \/ ~mine \/ Crashed)
=============================================================================
