-------------------------------- MODULE Nbt --------------------------------
(***************************************************************************)
(* NBT trees as src/src/cNBT handles them: parsing and dumping the binary  *)
(* form (nbt_parsing.c), copying, filtering, searching and freeing         *)
(* (nbt_treeops.c), and comparing (nbt_util.c).                            *)
(*                                                                         *)
(* A node is a record of its type, its name (NULL when it has none) and    *)
(* its payload: a number (the set of its one bits, see Varnum), a sequence *)
(* of numbers for arrays, a sequence of bytes for strings, and for lists   *)
(* and compounds the type in the sentinel (NULL when its data pointer is)  *)
(* and the sequence of elements.  Nodes are values; a node that the code   *)
(* returns by pointer is named by its position, the sequence of indices    *)
(* that leads to it from the root.                                         *)
(*                                                                         *)
(* What the callers share is the record `env': errno, the number of live   *)
(* heap blocks, how many more calls of malloc succeed before one fails     *)
(* (negative: none fails), the contents of fresh memory, whether the code  *)
(* has followed an uninitialised pointer, and the input left to parse.     *)
(***************************************************************************)
EXTENDS Varnum, SequencesExt, FiniteSetsExt

CONSTANTS
  NULL,       \* the null pointer
  ShortMax    \* the longest string that can be dumped (32767)

NBT_OK   == "NBT_OK"
NBT_ERR  == "NBT_ERR"
NBT_EMEM == "NBT_EMEM"

TAG_INVALID    == 0
TAG_BYTE       == 1
TAG_SHORT      == 2
TAG_INT        == 3
TAG_LONG       == 4
TAG_FLOAT      == 5
TAG_DOUBLE     == 6
TAG_BYTE_ARRAY == 7
TAG_STRING     == 8
TAG_LIST       == 9
TAG_COMPOUND   == 10
TAG_INT_ARRAY  == 11
TAG_LONG_ARRAY == 12

\* The bytes of a number's payload.
Width == TAG_BYTE :> 1 @@ TAG_SHORT :> 2 @@ TAG_INT :> 4 @@ TAG_LONG :> 8
           @@ TAG_FLOAT :> 4 @@ TAG_DOUBLE :> 8

IsNumber(type) == type \in DOMAIN Width
IsTree(type)   == type \in {TAG_LIST, TAG_COMPOUND}

Node(type, name, payload) == [type |-> type, name |-> name, payload |-> payload]
List(data, items)         == [data |-> data, items |-> items]

\* A C string ends at its first zero byte.
CString(s) == LET zeros == {i \in 1..Len(s) : s[i] = {}}
              IN IF zeros = {} THEN s ELSE SubSeq(s, 1, Least(zeros) - 1)

-----------------------------------------------------------------------------
(* The environment. *)

Env(input, fuel, junk) ==
  [in |-> input, errno |-> NBT_OK, fuel |-> fuel, live |-> 0, junk |-> junk, wild |-> FALSE]

NoMemory(env) == env.fuel = 0

\* malloc without and with CHECKED_MALLOC's errno.
Malloc(env) ==
  [env EXCEPT !.fuel = @ - 1, !.live = @ + IF NoMemory(env) THEN 0 ELSE 1]
CheckedMalloc(env) ==
  [Malloc(env) EXCEPT !.errno = IF NoMemory(env) THEN NBT_EMEM ELSE @]

Free(env, blocks)  == [env EXCEPT !.live = @ - blocks]
Raise(env, status) == [env EXCEPT !.errno = IF @ = NBT_OK THEN status ELSE @]
Short(env, n)      == Len(env.in) < n
Advance(env, n)    == [env EXCEPT !.in = Skip(@, n)]

Result(v, env) == [v |-> v, env |-> env]
Failure(env)   == Result(NULL, env)

-----------------------------------------------------------------------------
(* Freeing: the number of blocks that nbt_free and nbt_free_list release.  *)

RECURSIVE nbt_free(_)
\* Mutant: the data of the sentinel is not freed.
nbt_free_list_KeepsSentinel(list) ==
  MapThenSumSet(LAMBDA i : 1 + nbt_free(list.items[i]), DOMAIN list.items) + 1
nbt_free_list(list) ==
  MapThenSumSet(LAMBDA i : 1 + nbt_free(list.items[i]), DOMAIN list.items)
    + IF list.data = NULL THEN 1 ELSE 2
nbt_free(tree) ==
  IF tree = NULL
  THEN 0
  ELSE (IF tree.name = NULL THEN 1 ELSE 2)
       + CASE IsTree(tree.type) -> nbt_free_list(tree.payload)
           [] tree.type \in {TAG_BYTE_ARRAY, TAG_INT_ARRAY, TAG_STRING} -> 1
           [] OTHER -> 0

-----------------------------------------------------------------------------
(* Parsing.  Each reader takes the environment and gives back what it read *)
(* and the environment after it.                                           *)

read_string(env) ==
  LET length == dec_be(env.in, 2)
      rest   == Advance(env, 2)
  IN CASE Short(env, 2) -> Failure(Raise(env, NBT_ERR))
       [] ~Short(env, 2) /\ (15 \in length \/ Short(rest, Num(length))) ->
            Failure(Raise(rest, NBT_ERR))
       [] OTHER ->
            IF NoMemory(rest)
            THEN Failure(CheckedMalloc(rest))
            ELSE Result(CString(SubSeq(rest.in, 1, Num(length))),
                        Advance(CheckedMalloc(rest), Num(length)))

\* read_byte_array (width 1) and read_int_array (width 4).
read_array(env, width) ==
  LET length == dec_be(env.in, 4)
      rest   == CheckedMalloc(Advance(env, 4))
      n      == Num(length)
  IN CASE Short(env, 4) -> Failure(Raise(env, NBT_ERR))
       [] ~Short(env, 4) /\ 31 \in length -> Failure(Raise(Advance(env, 4), NBT_ERR))
       [] ~Short(env, 4) /\ 31 \notin length /\ NoMemory(env) -> Failure(rest)
       [] OTHER ->
            IF Short(rest, n * width)
            THEN Failure(Free(Raise(rest, NBT_ERR), 1))
            ELSE Result([k \in 1..n |-> dec_be(Skip(rest.in, (k - 1) * width), width)],
                        Advance(rest, n * width))

RECURSIVE parse_unnamed_tag(_, _, _)

\* The loop of read_list: elems more elements for the list read so far.
RECURSIVE ListLoop(_, _, _, _)
ListLoop(type, elems, list, env) ==
  LET goOn(elem) ==
        IF elem.v = NULL
        THEN Failure(Free(elem.env, 1 + nbt_free_list(list)))
        ELSE ListLoop(type, elems - 1, [list EXCEPT !.items = Append(@, elem.v)], elem.env)
  IN IF elems = 0
     THEN Result(list, env)
     ELSE IF NoMemory(env)
     THEN Failure(Free(CheckedMalloc(env), nbt_free_list(list)))
     ELSE goOn(parse_unnamed_tag(type, NULL, CheckedMalloc(env)))

\* When the sentinel's data cannot be allocated, nbt_free_list is called on a
\* list whose links are not initialised yet.
read_list(env) ==
  LET head  == CheckedMalloc(env)
      both  == CheckedMalloc(head)
      body  == Advance(both, 5)
      type  == Num(both.in[1])
      elems == dec_be(Skip(both.in, 1), 4)
  IN IF NoMemory(env)
     THEN Failure(head)
     ELSE IF NoMemory(head)
     THEN Failure([both EXCEPT !.wild = TRUE])
     ELSE IF Short(both, 5)
     THEN Failure(Free(Raise(both, NBT_ERR), 2))
     ELSE ListLoop(type, IF 31 \in elems THEN 0 ELSE Num(elems),
                   List(IF type = TAG_INVALID THEN TAG_COMPOUND ELSE type, <<>>), body)

\* The loop of read_compound: the members that follow those of the list.
RECURSIVE CompoundLoop(_, _)
\* Mutant: the end of the input ends the compound.
CompoundLoop_EofEnds(list, env) ==
  LET name   == read_string(Advance(env, 1))
      member == parse_unnamed_tag(Num(env.in[1]), name.v, CheckedMalloc(name.env))
  IN IF Short(env, 1)
     THEN Result(list, env)
     ELSE IF env.in[1] = {}
     THEN Result(list, Advance(env, 1))
     ELSE IF name.v = NULL \/ member.v = NULL
     THEN Failure(Raise(name.env, NBT_ERR))
     ELSE CompoundLoop([list EXCEPT !.items = Append(@, member.v)], member.env)
CompoundLoop(list, env) ==
  LET giveUp(e, blocks) == Failure(Free(Raise(e, NBT_ERR), blocks + nbt_free_list(list)))
      type == Num(env.in[1])
      withMember(member) ==
        IF member.v = NULL
        THEN giveUp(member.env, 2)
        ELSE CompoundLoop([list EXCEPT !.items = Append(@, member.v)], member.env)
      withName(name) ==
        IF name.v = NULL
        THEN giveUp(name.env, 0)
        ELSE IF NoMemory(name.env)
        THEN giveUp(CheckedMalloc(name.env), 1)
        ELSE withMember(parse_unnamed_tag(type, name.v, CheckedMalloc(name.env)))
  IN IF Short(env, 1)
     THEN giveUp(env, 0)
     ELSE IF type = TAG_INVALID
     THEN Result(list, Advance(env, 1))
     ELSE withName(read_string(Advance(env, 1)))

read_compound(env) ==
  IF NoMemory(env)
  THEN Failure(CheckedMalloc(env))
  ELSE CompoundLoop(List(NULL, <<>>), CheckedMalloc(env))

\* On an error only the node itself is freed, not what was read into it.
parse_unnamed_tag(type, name, env) ==
  LET node == CheckedMalloc(env)
      withPayload(payload) ==
        IF payload.env.errno # NBT_OK
        THEN Failure(Free(payload.env, 1))
        ELSE Result(Node(type, name, payload.v), payload.env)
  IN IF NoMemory(env)
     THEN Failure(node)
     ELSE withPayload(
            CASE IsNumber(type) ->
                   IF Short(node, Width[type])
                   THEN Failure(Raise(node, NBT_ERR))
                   ELSE Result(dec_be(node.in, Width[type]), Advance(node, Width[type]))
              [] type = TAG_BYTE_ARRAY -> read_array(node, 1)
              [] type = TAG_INT_ARRAY  -> read_array(node, 4)
              [] type = TAG_STRING     -> read_string(node)
              [] type = TAG_LIST       -> read_list(node)
              [] type = TAG_COMPOUND   -> read_compound(node)
              [] OTHER                 -> Failure(Raise(node, NBT_ERR)))

\* A name that could not be read does not stop the root from being parsed.
parse_named_tag(env) ==
  LET withRoot(name, root) ==
        IF root.v = NULL
        THEN Failure(Free(root.env, IF name = NULL THEN 0 ELSE 1))
        ELSE root
      withName(name) ==
        withRoot(name.v, parse_unnamed_tag(Num(env.in[1]), name.v, name.env))
  IN IF Short(env, 1)
     THEN Failure(Raise(env, NBT_ERR))
     ELSE withName(read_string(Advance(env, 1)))

nbt_parse(env) == parse_named_tag([env EXCEPT !.errno = NBT_OK])

-----------------------------------------------------------------------------
(* Dumping: a status and the bytes appended to the buffer so far.  (The    *)
(* buffer itself, and running out of memory for it, is module Loading.)    *)

Dumped(status, bytes) == [status |-> status, bytes |-> bytes]

\* One part after another, up to the first that fails.
Sequentially(parts) ==
  FoldLeft(LAMBDA done, part : IF done.status = NBT_OK
                               THEN Dumped(part.status, done.bytes \o part.bytes)
                               ELSE done,
           Dumped(NBT_OK, <<>>), parts)

dump_string_binary(s) ==
  IF Len(s) > ShortMax
  THEN Dumped(NBT_ERR, <<>>)
  ELSE Dumped(NBT_OK, enc_be(Bits(Len(s)), 2) \o s)

dump_array_binary(array, width) ==
  Dumped(NBT_OK, enc_be(Bits(Len(array)), 4)
                   \o FlattenSeq([k \in DOMAIN array |-> enc_be(array[k], width)]))

list_is_homogenous(list) ==
  LET types == {list.items[i].type : i \in DOMAIN list.items}
  IN CASE types = {} /\ list.data # NULL -> list.data
       [] Cardinality(types) = 1 -> CHOOSE type \in types : TRUE
       [] OTHER -> TAG_INVALID

RECURSIVE dump_binary(_, _)

\* A build with assertions aborts where this one returns NBT_ERR.
dump_list_binary(list) ==
  LET type == list_is_homogenous(list)
  IN IF type = TAG_INVALID
     THEN Dumped(NBT_ERR, <<>>)
     ELSE Sequentially(<<Dumped(NBT_OK, <<Bits(type)>> \o enc_be(Bits(Len(list.items)), 4))>>
                         \o [i \in DOMAIN list.items |-> dump_binary(list.items[i], FALSE)])

\* Mutant: the end tag is forgotten.
dump_compound_binary_NoEnd(list) ==
  Sequentially([i \in DOMAIN list.items |-> dump_binary(list.items[i], TRUE)])
dump_compound_binary(list) ==
  Sequentially([i \in DOMAIN list.items |-> dump_binary(list.items[i], TRUE)]
                 \o <<Dumped(NBT_OK, <<{}>>)>>)

\* The name is written whenever there is one, and only then.
dump_binary(tree, dump_type) ==
  Sequentially(
    << Dumped(NBT_OK, IF dump_type THEN <<Bits(tree.type)>> ELSE <<>>),
       IF tree.name = NULL THEN Dumped(NBT_OK, <<>>) ELSE dump_string_binary(tree.name),
       CASE IsNumber(tree.type) -> Dumped(NBT_OK, enc_be(tree.payload, Width[tree.type]))
         [] tree.type = TAG_BYTE_ARRAY -> dump_array_binary(tree.payload, 1)
         [] tree.type = TAG_INT_ARRAY  -> dump_array_binary(tree.payload, 4)
         [] tree.type = TAG_STRING     -> dump_string_binary(tree.payload)
         [] tree.type = TAG_LIST       -> dump_list_binary(tree.payload)
         [] tree.type = TAG_COMPOUND   -> dump_compound_binary(tree.payload)
         [] OTHER                      -> Dumped(NBT_ERR, <<>>) >>)

nbt_dump_binary(tree) ==
  IF tree = NULL THEN Dumped(NBT_OK, <<>>) ELSE dump_binary(tree, TRUE)

\* The text form, as its lines: depth, type and name of each node.  The type
\* of a list is read through the sentinel's data pointer without a check.
RECURSIVE dump_ascii(_, _)
dump_ascii(tree, ident) ==
  LET line     == Dumped(NBT_OK, <<<<ident, tree.type, tree.name>>>>)
      contents == [i \in DOMAIN tree.payload.items |->
                     dump_ascii(tree.payload.items[i], ident + 1)]
  IN CASE tree.type = TAG_LIST /\ tree.payload.data = NULL -> Dumped("null pointer", <<>>)
       [] IsTree(tree.type) /\ ~(tree.type = TAG_LIST /\ tree.payload.data = NULL) ->
            Sequentially(<<line>> \o contents)
       [] tree.type \in TAG_BYTE..TAG_STRING \cup {TAG_INT_ARRAY} -> line
       [] OTHER -> Dumped(NBT_ERR, <<>>)

\* Every error is reported as one of memory.
nbt_dump_ascii(tree) ==
  LET text == dump_ascii(tree, 0)
  IN [text EXCEPT !.status = IF @ = NBT_ERR THEN NBT_EMEM ELSE @]

-----------------------------------------------------------------------------
(* Copying and filtering. *)

\* What memcpy of `length' bytes leaves in an array of `length' 32-bit
\* elements: the bytes past the first `length' are those of fresh memory.
CopyIntArray(array, junk) ==
  [k \in DOMAIN array |->
     LET bits == 8 * (Len(array) - 4 * (k - 1))
     IN Low(array[k], bits) \cup {i \in junk : i >= bits}]

RECURSIVE nbt_clone(_, _)

\* The loop of clone_list: the elements after the first i of the list.
RECURSIVE CloneLoop(_, _, _, _)
CloneLoop(list, i, copy, env) ==
  LET elem == nbt_clone(list.items[i + 1], CheckedMalloc(env))
  IN IF i = Len(list.items)
     THEN Result(copy, env)
     ELSE IF NoMemory(env)
     THEN Failure(Free(CheckedMalloc(env), nbt_free_list(copy)))
     ELSE IF elem.v = NULL
     THEN Failure(Free(elem.env, 1 + nbt_free_list(copy)))
     ELSE CloneLoop(list, i + 1, [copy EXCEPT !.items = Append(@, elem.v)], elem.env)

\* Mutant: the data of the sentinel is not copied.
clone_list_NoSentinel(list, env) ==
  IF NoMemory(env)
  THEN Failure(CheckedMalloc(env))
  ELSE CloneLoop(list, 0, List(NULL, <<>>), CheckedMalloc(env))
clone_list(list, env) ==
  LET head == CheckedMalloc(env)
      both == IF list.data = NULL THEN head ELSE CheckedMalloc(head)
  IN IF NoMemory(env)
     THEN Failure(head)
     ELSE IF list.data # NULL /\ NoMemory(head)
     THEN Failure(Free(both, 1))
     ELSE CloneLoop(list, 0, List(list.data, <<>>), both)

\* The copy of a name or of a payload other than a list: nbt_clone and
\* nbt_filter have the same code for it.
safe_strdup(s, env) == IF s = NULL THEN env ELSE Malloc(env)

CopyPayload(tree, env) ==
  CASE tree.type = TAG_STRING ->
         Result(IF NoMemory(env) THEN NULL ELSE tree.payload, Malloc(env))
    [] tree.type = TAG_BYTE_ARRAY ->
         Result(IF NoMemory(env) THEN NULL ELSE tree.payload, CheckedMalloc(env))
    [] tree.type = TAG_INT_ARRAY ->
         Result(IF NoMemory(env) THEN NULL ELSE CopyIntArray(tree.payload, env.junk),
                CheckedMalloc(env))
    [] OTHER -> Result(tree.payload, env)

nbt_clone(tree, env) ==
  LET node    == CheckedMalloc(env)
      named   == safe_strdup(tree.name, node)
      payload == IF IsTree(tree.type)
                 THEN clone_list(tree.payload, named)
                 ELSE CopyPayload(tree, named)
  IN IF NoMemory(env)
     THEN Failure(node)
     ELSE IF tree.name # NULL /\ NoMemory(node)
     THEN Failure(Free(named, 1))
     ELSE IF payload.v = NULL
     THEN Failure(Free(payload.env, IF tree.name = NULL THEN 1 ELSE 2))
     ELSE Result(Node(tree.type, tree.name, payload.v), payload.env)

\* A predicate of the client is the set of types it keeps.
RECURSIVE nbt_filter(_, _, _)

\* The loop of filter_list.  The entry for a node that was kept is allocated
\* after the node; when that fails the node is not freed.
RECURSIVE FilterLoop(_, _, _, _, _)
FilterLoop(list, i, keep, copy, env) ==
  LET elem == nbt_filter(list.items[i + 1], keep, env)
  IN IF i = Len(list.items)
     THEN Result(copy, env)
     ELSE IF elem.env.errno # NBT_OK
     THEN Failure(Free(elem.env, nbt_free_list(copy)))
     ELSE IF elem.v = NULL
     THEN FilterLoop(list, i + 1, keep, copy, elem.env)
     ELSE IF NoMemory(elem.env)
     THEN Failure(Free(CheckedMalloc(elem.env), nbt_free_list(copy)))
     ELSE FilterLoop(list, i + 1, keep, [copy EXCEPT !.items = Append(@, elem.v)],
                     CheckedMalloc(elem.env))

\* The new list's sentinel has no data, whatever the old one's has.
filter_list(list, keep, env) ==
  IF NoMemory(env)
  THEN Failure(CheckedMalloc(env))
  ELSE FilterLoop(list, 0, keep, List(NULL, <<>>), CheckedMalloc(env))

nbt_filter(tree, keep, env0) ==
  LET env     == [env0 EXCEPT !.errno = NBT_OK]
      node    == CheckedMalloc(env)
      named   == safe_strdup(tree.name, node)
      payload == IF IsTree(tree.type)
                 THEN filter_list(tree.payload, keep, named)
                 ELSE CopyPayload(tree, named)
  IN IF tree.type \notin keep
     THEN Failure(env)
     ELSE IF NoMemory(env)
     THEN Failure(node)
     ELSE IF tree.name # NULL /\ NoMemory(node)
     THEN Failure(Free(Raise(named, NBT_EMEM), 1))
     ELSE IF payload.v = NULL
     THEN Failure(Free(Raise(payload.env, NBT_EMEM), IF tree.name = NULL THEN 1 ELSE 2))
     ELSE Result(Node(tree.type, tree.name, payload.v), payload.env)

\* In place: what is dropped is freed, and an entry with it.
RECURSIVE nbt_filter_inplace(_, _, _)
\* Mutant: only the node itself is looked at.
nbt_filter_inplace_TopOnly(tree, keep, env) ==
  IF tree.type \notin keep THEN Failure(Free(env, nbt_free(tree))) ELSE Result(tree, env)
nbt_filter_inplace(tree, keep, env) ==
  CASE tree.type \notin keep -> Failure(Free(env, nbt_free(tree)))
    [] tree.type \in keep /\ ~IsTree(tree.type) -> Result(tree, env)
    [] OTHER ->
         LET kept == FoldLeft(
               LAMBDA done, elem :
                 LET r == nbt_filter_inplace(elem, keep, done.env)
                 IN IF r.v = NULL
                    THEN Result(done.v, Free(r.env, 1))
                    ELSE Result(Append(done.v, r.v), r.env),
               Result(<<>>, env), tree.payload.items)
         IN Result([tree EXCEPT !.payload.items = kept.v], kept.env)

-----------------------------------------------------------------------------
(* Searching.  A node found is named by its position. *)

Items(tree) == IF IsTree(tree.type) THEN tree.payload.items ELSE <<>>

names_are_equal(node, name) == node.name = name

RECURSIVE nbt_find_by_name(_, _)
nbt_find_by_name(tree, name) ==
  LET hits == {i \in DOMAIN Items(tree) : nbt_find_by_name(Items(tree)[i], name) # NULL}
  IN CASE names_are_equal(tree, name) -> <<>>
       [] ~names_are_equal(tree, name) /\ hits # {} ->
            <<Least(hits)>> \o nbt_find_by_name(Items(tree)[Least(hits)], name)
       [] OTHER -> NULL

\* A path is the sequence of the names between its dots; the empty name is
\* also that of a node without one.
partial_strcmp(name, node) == IF node.name = NULL THEN name = <<>> ELSE name = node.name

RECURSIVE nbt_find_by_path(_, _)
\* Mutant: the first child of the name is the only one tried.
nbt_find_by_path_NoBacktrack(tree, path) ==
  LET hits  == {i \in DOMAIN Items(tree) : partial_strcmp(path[2], Items(tree)[i])}
      below == nbt_find_by_path(Items(tree)[Least(hits)], Tail(path))
  IN IF ~partial_strcmp(Head(path), tree) THEN NULL
     ELSE IF Len(path) = 1 THEN <<>>
     ELSE IF hits = {} \/ below = NULL THEN NULL
     ELSE <<Least(hits)>> \o below
nbt_find_by_path(tree, path) ==
  LET hits == {i \in DOMAIN Items(tree) : nbt_find_by_path(Items(tree)[i], Tail(path)) # NULL}
  IN CASE ~partial_strcmp(Head(path), tree) -> NULL
       [] partial_strcmp(Head(path), tree) /\ Len(path) = 1 -> <<>>
       [] partial_strcmp(Head(path), tree) /\ Len(path) > 1 /\ hits # {} ->
            <<Least(hits)>> \o nbt_find_by_path(Items(tree)[Least(hits)], Tail(path))
       [] OTHER -> NULL

RECURSIVE nbt_size(_)
nbt_size(tree) ==
  1 + MapThenSumSet(LAMBDA i : nbt_size(Items(tree)[i]), DOMAIN Items(tree))

\* A visitor that says stop at the first node with the name: whether the
\* traversal went to the end, and the nodes it visited.
RECURSIVE nbt_map(_, _)
nbt_map(tree, name) ==
  IF names_are_equal(tree, name)
  THEN [result |-> FALSE, visited |-> 1]
  ELSE FoldLeft(LAMBDA done, elem :
                  IF ~done.result
                  THEN done
                  ELSE LET r == nbt_map(elem, name)
                       IN [result |-> r.result, visited |-> done.visited + r.visited],
                [result |-> TRUE, visited |-> 1], Items(tree))

-----------------------------------------------------------------------------
(* Comparing.  Two floats are close when they differ in their last bit at  *)
(* most, which is less than the code's 1e-6 for values below eight.  Only  *)
(* `length' bytes of int arrays are compared.                              *)

floats_are_close(a, b) == a \ {0} = b \ {0}

RECURSIVE nbt_eq(_, _)
nbt_eq(a, b) ==
  /\ a.type = b.type
  /\ a.name = b.name
  /\ CASE a.type \in {TAG_FLOAT, TAG_DOUBLE} -> floats_are_close(a.payload, b.payload)
       [] a.type \in {TAG_BYTE, TAG_SHORT, TAG_INT, TAG_LONG, TAG_BYTE_ARRAY, TAG_STRING} ->
            a.payload = b.payload
       [] a.type = TAG_INT_ARRAY ->
            /\ Len(a.payload) = Len(b.payload)
            /\ CopyIntArray(a.payload, {}) = CopyIntArray(b.payload, {})
       [] IsTree(a.type) ->
            /\ Len(Items(a)) = Len(Items(b))
            /\ \A i \in DOMAIN Items(a) : nbt_eq(Items(a)[i], Items(b)[i])
       [] OTHER -> FALSE
=============================================================================
