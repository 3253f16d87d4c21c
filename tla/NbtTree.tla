------------------------------ MODULE NbtTree ------------------------------
(***************************************************************************)
(* A client of the NBT library and its heap: it has a tree and at most one *)
(* more, the copy, which it got by cloning, filtering or parsing a dump of *)
(* the tree.  Each action is one call of the library; any call of malloc   *)
(* in it may fail.                                                         *)
(***************************************************************************)
EXTENDS Nbt

CONSTANTS
  Trees,       \* the trees a client may build
  Keeps,       \* the predicates it filters in place with: sets of types
  CopyKeeps,   \* those it filters into a copy with
  CopyLists,   \* whether it filters trees with lists into a copy
  Names,       \* the names it searches for, NULL among them
  Paths,       \* the paths it searches for
  Junk,        \* what fresh memory may hold
  FailAt,      \* which call of malloc may fail, counted from 0; -1 is none
  Failing,     \* the library calls in which it may fail
  CutName,     \* whether a dump may be cut before the end of the root's name
  MaxLive      \* bound: blocks in use when a call that makes a tree is made

VARIABLES
  tree, copy,  \* the client's trees, or NULL
  dump,        \* what nbt_dump_binary last returned, or NULL
  live,        \* heap blocks in use
  last,        \* the last call: its name, arguments and results
  wild         \* an uninitialised pointer was followed

vars == <<tree, copy, dump, live, last, wild>>

Fuel(call) == IF call \in Failing THEN FailAt ELSE {-1}

Init ==
  /\ tree = NULL /\ copy = NULL /\ dump = NULL
  /\ live = 0
  /\ last = [call |-> "none"]
  /\ wild = FALSE

\* The client builds a tree with the library's types.
Build(t) ==
  /\ tree = NULL /\ copy = NULL
  /\ tree' = t
  /\ live' = live + nbt_free(t)
  /\ last' = [call |-> "build"]
  /\ UNCHANGED <<copy, dump, wild>>

Dump ==
  /\ tree # NULL
  /\ dump' = nbt_dump_binary(tree)
  /\ last' = [call |-> "dump", arg |-> tree]
  /\ UNCHANGED <<tree, copy, live, wild>>

\* A call that makes a new tree, with its result r.
Make(r, call) ==
  /\ copy = NULL /\ live <= MaxLive
  /\ copy' = r.v
  /\ live' = live + r.env.live
  /\ wild' = (wild \/ r.env.wild)
  /\ last' = call @@ [res |-> r.v, errno |-> r.env.errno]
  /\ UNCHANGED tree

\* The nodes of a tree, by the way that leads to them.
RECURSIVE Positions(_)
Positions(t) ==
  {<<>>} \cup UNION {{<<i>> \o p : p \in Positions(Items(t)[i])} : i \in DOMAIN Items(t)}

RECURSIVE At(_, _)
At(t, p) == IF p = <<>> THEN t ELSE At(Items(t)[Head(p)], Tail(p))

\* How much of the dump the client may have got back.
Cuts ==
  IF dump = NULL \/ tree = NULL
  THEN {}
  ELSE (IF CutName THEN 0 ELSE 3 + Len(tree.name))..Len(dump.bytes)

Parse(n, fuel) ==
  /\ dump # NULL /\ last.call = "dump"
  /\ Make(nbt_parse(Env(SubSeq(dump.bytes, 1, n), fuel, {})),
          [call |-> "parse", arg |-> last.arg, whole |-> n = Len(dump.bytes),
           starved |-> fuel >= 0])
  /\ dump' = NULL

Clone(fuel, junk) ==
  /\ tree # NULL
  /\ Make(nbt_clone(tree, Env(<<>>, fuel, junk)), [call |-> "clone", arg |-> tree])
  /\ UNCHANGED dump

Filter(keep, fuel, junk) ==
  /\ tree # NULL
  /\ CopyLists \/ \A p \in Positions(tree) : At(tree, p).type # TAG_LIST
  /\ Make(nbt_filter(tree, keep, Env(<<>>, fuel, junk)),
          [call |-> "filter", arg |-> tree, keep |-> keep])
  /\ UNCHANGED dump

FilterInplace(keep) ==
  /\ tree # NULL
  /\ LET r == nbt_filter_inplace(tree, keep, Env(<<>>, -1, {}))
     IN /\ tree' = r.v
        /\ live' = live + r.env.live
  /\ last' = [call |-> "filter_inplace"]
  /\ UNCHANGED <<copy, dump, wild>>

FreeTree ==
  /\ tree # NULL
  /\ tree' = NULL
  /\ live' = live - nbt_free(tree)
  /\ last' = [call |-> "free"]
  /\ UNCHANGED <<copy, dump, wild>>

\* The client goes on with the copy.
Adopt ==
  /\ tree = NULL /\ copy # NULL
  /\ tree' = copy /\ copy' = NULL
  /\ last' = [call |-> "adopt"]
  /\ UNCHANGED <<dump, live, wild>>

Next ==
  \/ \E t \in Trees : Build(t)
  \/ Dump
  \/ \E fuel \in Fuel("parse"), n \in Cuts : Parse(n, fuel)
  \/ \E fuel \in Fuel("clone"), junk \in Junk : Clone(fuel, junk)
  \/ \E keep \in CopyKeeps, fuel \in Fuel("filter"), junk \in Junk : Filter(keep, fuel, junk)
  \/ \E keep \in Keeps : FilterInplace(keep)
  \/ FreeTree
  \/ Adopt

Spec == Init /\ [][Next]_vars

-----------------------------------------------------------------------------
(* Properties. *)

\* The heap holds the blocks of the client's trees and no others: a call that
\* fails half-way has freed what it built, and one that succeeds has built
\* what nbt_free will free (nbt_treeops.c, nbt_parsing.c).
NothingLeaked == live = nbt_free(tree) + nbt_free(copy)

\* A clone that succeeds is the tree it was made of (nbt_clone), and nbt_eq
\* tells trees apart exactly when they differ, whatever has been done to the
\* copy since (nbt.h: "Returns true if the trees are identical").
CloneIdentical ==
  /\ (last.call = "clone" /\ last.res # NULL) => last.res = last.arg
  /\ (tree # NULL /\ copy # NULL) => (nbt_eq(tree, copy) <=> tree = copy)

\* A whole dump parses to the tree it was made of (nbt.h on nbt_dump_binary),
\* and what can be dumped can be printed, a line for each node
\* (nbt_dump_ascii).
DumpRegenerates ==
  /\ (last.call = "parse" /\ last.whole /\ ~last.starved) => last.res = last.arg
  /\ (tree # NULL /\ nbt_dump_binary(tree).status = NBT_OK) =>
       /\ nbt_dump_ascii(tree).status = NBT_OK
       /\ Len(nbt_dump_ascii(tree).bytes) = nbt_size(tree)

\* A dump cut short anywhere is refused with an error, never taken for a
\* smaller tree (READ_GENERIC in every reader).
TruncatedRefused ==
  (last.call = "parse" /\ ~last.whole) => last.res = NULL /\ last.errno # NBT_OK

\* Filtering into a new tree and in place keep the same nodes (nbt.h: "The
\* exact same as nbt_filter").
FiltersAgree ==
  (last.call = "filter" /\ last.errno = NBT_OK) =>
    last.res = nbt_filter_inplace(last.arg, last.keep, Env(<<>>, -1, {})).v

\* Position p comes before q when the tree is read from its text form.
Before(p, q) ==
  \/ IsStrictPrefix(p, q)
  \/ \E k \in DOMAIN p \cap DOMAIN q : SubSeq(p, 1, k - 1) = SubSeq(q, 1, k - 1) /\ p[k] < q[k]

\* The result of a search for the positions that satisfy a test.
IsFirst(result, hits) ==
  IF hits = {} THEN result = NULL
  ELSE result \in hits /\ \A p \in hits : p = result \/ Before(result, p)

\* Searches by name and by path give the first node there is, however deep,
\* and never miss one; a traversal that stops at it has visited the nodes up
\* to it, and one that does not stop all of them (nbt_find, nbt_find_by_path,
\* nbt_map, nbt_size).
SearchesFirst ==
  tree # NULL =>
    LET all == Positions(tree)
        named(p, name) == At(tree, p).name = name
        called(p, name) == named(p, name) \/ (name = <<>> /\ named(p, NULL))
        hits(path) == {p \in all : /\ Len(p) + 1 = Len(path)
                                   /\ \A k \in 0..Len(p) : called(SubSeq(p, 1, k), path[k + 1])}
        upTo(q) == {p \in all : p = q \/ Before(p, q)}
    IN /\ nbt_size(tree) = Cardinality(all)
       /\ \A path \in Paths : IsFirst(nbt_find_by_path(tree, path), hits(path))
       /\ \A name \in Names :
            LET found == nbt_find_by_name(tree, name)
            IN /\ IsFirst(found, {p \in all : named(p, name)})
               /\ nbt_map(tree, name) =
                    [result |-> found = NULL,
                     visited |-> Cardinality(IF found = NULL THEN all ELSE upTo(found))]

\* Every list can be printed and dumped: its sentinel has a type (nbt.h, "the
\* sentinel node contains a valid data pointer").
SentinelsTyped ==
  \A t \in {tree, copy} \ {NULL} :
    \A p \in Positions(t) : At(t, p).type = TAG_LIST => At(t, p).payload.data # NULL

\* The library follows no pointer it has not set (read_list).
NoWildPointer == ~wild

\* A dump that fails leaves no data behind (nbt.h: "If an error occurs, a
\* buffer with a NULL `data' pointer will be returned").
FailedDumpEmpty == (dump # NULL /\ dump.status # NBT_OK) => dump.bytes = <<>>
=============================================================================
