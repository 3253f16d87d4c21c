----------------------------- MODULE DataUtils -----------------------------
(***************************************************************************)
(* The structured types of the protocol, src/src/datautils.c.  Each type   *)
(* has four functions: size_ (the bytes its encoding takes), enc_ (the     *)
(* encoding), walk_ (the length of the value encoded at a pointer, or a    *)
(* negative number if it is not all within max_len bytes) and dec_ (the    *)
(* value).  Numbers, strings and memory are those of Varnum, trees those   *)
(* of Nbt.  max_len is a size_t that the code may take below zero: a       *)
(* negative one stands for the huge value it wraps to.                     *)
(***************************************************************************)
EXTENDS Nbt

\* walk_ functions that go on: `next' takes the length of what comes first.
Then(ret, next(_)) == IF ret < 0 THEN ret ELSE next(ret)

\* dec_ functions that go on: `next' takes what has been decoded first.
After(first, next(_)) == next(first)

-----------------------------------------------------------------------------
(* NBT. *)

RECURSIVE size_unnamed_nbt(_)
size_name(node) == 3 + IF node.name = NULL THEN 0 ELSE Len(node.name)

\* The type and count that start a list are not counted.
size_nbt_list(node) ==
  MapThenSumSet(LAMBDA i : size_unnamed_nbt(Items(node)[i]), DOMAIN Items(node))
size_nbt_compound(node) ==
  1 + MapThenSumSet(LAMBDA i : size_name(Items(node)[i]) + size_unnamed_nbt(Items(node)[i]),
                    DOMAIN Items(node))
size_unnamed_nbt(node) ==
  CASE IsNumber(node.type)         -> Width[node.type]
    [] node.type = TAG_BYTE_ARRAY  -> 4 + Len(node.payload)
    [] node.type = TAG_INT_ARRAY   -> 4 + 4 * Len(node.payload)
    [] node.type = TAG_LONG_ARRAY  -> 4 + 8 * Len(node.payload)
    [] node.type = TAG_STRING      -> 2 + Len(node.payload)
    [] node.type = TAG_LIST        -> size_nbt_list(node)
    [] node.type = TAG_COMPOUND    -> size_nbt_compound(node)
    [] OTHER -> 0
size_nbt(node) == size_name(node) + size_unnamed_nbt(node)

\* A length in n bytes and that many elements of a width.
WalkCounted(s, max_len, n, width) ==
  IF Below(max_len, n) \/ Below(max_len, n + Num(dec_be(s, n)) * width)
  THEN -1
  ELSE n + Num(dec_be(s, n)) * width
walk_nbt_string(s, max_len)       == WalkCounted(s, max_len, 2, 1)
walk_nbt_array(s, max_len, width) == WalkCounted(s, max_len, 4, width)

RECURSIVE walk_unnamed_nbt(_, _, _)

\* The loops of walk_nbt_list and walk_nbt_compound.  The first starts with
\* all of max_len although the list's header has already been read.
RECURSIVE WalkList(_, _, _, _, _)
WalkList(s, type, count, max_len, size) ==
  IF count <= 0 THEN size
  ELSE Then(walk_unnamed_nbt(s, type, max_len), LAMBDA step :
         WalkList(Skip(s, step), type, count - 1, max_len - step, size + step))
walk_nbt_list(s, max_len) ==
  IF Below(max_len, 5) THEN -1
  ELSE WalkList(Skip(s, 5), Num(s[1]), SNum(dec_be(Skip(s, 1), 4)), max_len, 5)

RECURSIVE WalkCompound(_, _, _)
WalkCompound(s, max_len, total) ==
  IF max_len = 0 THEN -1
  ELSE IF s[1] = {} THEN total + 1
  ELSE Then(walk_nbt_string(Skip(s, 1), max_len - 1), LAMBDA name :
         Then(walk_unnamed_nbt(Skip(s, 1 + name), Num(s[1]), max_len - 1 - name), LAMBDA tag :
           WalkCompound(Skip(s, 1 + name + tag), max_len - 1 - name - tag,
                        total + 1 + name + tag)))
walk_nbt_compound(s, max_len) == WalkCompound(s, max_len, 0)

walk_unnamed_nbt(s, type, max_len) ==
  Then(CASE IsNumber(type)        -> Width[type]
         [] type = TAG_BYTE_ARRAY -> walk_nbt_array(s, max_len, 1)
         [] type = TAG_INT_ARRAY  -> walk_nbt_array(s, max_len, 4)
         [] type = TAG_LONG_ARRAY -> walk_nbt_array(s, max_len, 8)
         [] type = TAG_STRING     -> walk_nbt_string(s, max_len)
         [] type = TAG_LIST       -> walk_nbt_list(s, max_len)
         [] type = TAG_COMPOUND   -> walk_nbt_compound(s, max_len)
         [] OTHER -> -1,
       LAMBDA size : IF Below(max_len, size) THEN -1 ELSE size)

walk_nbt(s, max_len) ==
  IF max_len = 0 THEN -1
  ELSE Then(walk_nbt_string(Skip(s, 1), max_len - 1), LAMBDA name :
         Then(walk_unnamed_nbt(Skip(s, 1 + name), Num(s[1]), max_len - 1 - name),
              LAMBDA body : 1 + name + body))

enc_nbt(node) == nbt_dump_binary(node).bytes

dec_nbt(s) ==
  After(nbt_parse(Env(s, -1, {})), LAMBDA r :
    Decoded(r.v, IF r.v = NULL THEN NULL ELSE r.env.in, r.env.live))

\* An optional tree: anything that does not start a compound is its absence.
IsCompoundAt(s) == s[1] = Bits(TAG_COMPOUND)

walk_optnbt(s, max_len) ==
  IF max_len = 0 THEN -1
  ELSE IF IsCompoundAt(s) THEN walk_nbt(s, max_len) ELSE 1
size_optnbt(node) == IF node = NULL THEN 1 ELSE size_nbt(node)
enc_optnbt(node)  == IF node = NULL THEN <<{}>> ELSE enc_nbt(node)
dec_optnbt(s)     == IF IsCompoundAt(s) THEN dec_nbt(s) ELSE Decoded(NULL, Skip(s, 1), 0)

-----------------------------------------------------------------------------
(* Slots: a record of present, id, count and nbt; or of present alone.     *)

Absent == [present |-> FALSE]

size_slot(slot) ==
  IF ~slot.present THEN 1
  ELSE 2 + size_varint(slot.id) + IF slot.nbt = NULL THEN 0 ELSE size_nbt(slot.nbt)

\* `max_len -= ret < sizeof(slot.count)' takes the comparison, 0 or 1, from
\* max_len, and the function fails unless nothing is left.
walk_slot(s, max_len) ==
  LET afterId(ret) ==
        LET left == max_len - 1 - (IF ret < 1 THEN 1 ELSE 0)
            rest == Skip(s, 2 + ret)
        IN IF ret < 0 \/ left # 0 THEN -1
           ELSE IF ~IsCompoundAt(rest) THEN 3 + ret
           ELSE Then(walk_nbt(rest, left - 1), LAMBDA nbt : 2 + ret + nbt)
  IN IF Below(max_len, 1) THEN -1
     ELSE IF s[1] = {} THEN 1
     ELSE afterId(walk_varint(Skip(s, 1), max_len - 1))

enc_slot(slot) ==
  IF ~slot.present THEN <<{}>>
  ELSE <<{0}>> \o enc_varint(slot.id) \o <<slot.count>> \o enc_optnbt(slot.nbt)

dec_slot(s) ==
  IF s[1] = {}
  THEN Decoded(Absent, Skip(s, 1), 0)
  ELSE After(DecVarint(Skip(s, 1)), LAMBDA id :
         After(dec_optnbt(Skip(id.rest, 1)), LAMBDA nbt :
           Decoded([present |-> TRUE, id |-> id.v, count |-> id.rest[1], nbt |-> nbt.v],
                   nbt.rest, nbt.blocks)))

\* dec_slot leaves the pointer of an absent slot unset; a caller that clears
\* its memory frees nothing.
free_slot(slot) == IF slot.present THEN nbt_free(slot.nbt) ELSE 0

-----------------------------------------------------------------------------
(* Sequences of values: the sizes, encodings and values of their elements  *)
(* one after another.                                                      *)

SumOf(f) == MapThenSumSet(LAMBDA i : f[i], DOMAIN f)

\* An ingredient: a varint and that many slots.  The walk looks at the first
\* slot each time; the decoder writes to an array nobody has allocated, and
\* what becomes of the slots is not known.
size_ingredient(slots) ==
  size_varint(Bits(Len(slots))) + SumOf([i \in DOMAIN slots |-> size_slot(slots[i])])

RECURSIVE WalkSlots(_, _, _, _)
WalkSlots(s, count, max_len, size) ==
  IF count <= 0 THEN size
  ELSE Then(walk_slot(s, max_len),
            LAMBDA ret : WalkSlots(s, count - 1, max_len - ret, size + ret))
walk_ingredient(s, max_len) ==
  Then(walk_varint(s, max_len),
       LAMBDA ret : WalkSlots(Skip(s, ret), SNum(dec_varint(s)), max_len - ret, ret))

enc_ingredient(slots) ==
  enc_varint(Bits(Len(slots))) \o FlattenSeq([i \in DOMAIN slots |-> enc_slot(slots[i])])

RECURSIVE SkipSlots(_, _)
SkipSlots(s, count) == IF count <= 0 \/ s = NULL THEN s ELSE SkipSlots(dec_slot(s).rest, count - 1)
dec_ingredient(s) ==
  After(DecVarint(s), LAMBDA count :
    Decoded(IF SNum(count.v) = 0 THEN <<>> ELSE NULL, SkipSlots(count.rest, SNum(count.v)), 0))

-----------------------------------------------------------------------------
(* Smelting recipes. *)

size_smelting(m) ==
  size_string(m.group) + size_ingredient(m.ingredient) + size_slot(m.result)
    + 4 + size_varint(m.cooking_time)

\* For the four bytes of experience the length of the slot is added again.
walk_smelting(s, max_len) ==
  Then(walk_string(s, max_len), LAMBDA g :
    Then(walk_ingredient(Skip(s, g), max_len - g), LAMBDA i :
      Then(walk_slot(Skip(s, g + i), max_len - g - i), LAMBDA r :
        IF Below(max_len - g - i - r, 4)
        THEN -1
        ELSE Then(walk_varint(Skip(s, g + i + r + 4), max_len - g - i - r - 4),
                  LAMBDA c : g + i + r + r + c))))

enc_smelting(m) ==
  enc_string(m.group) \o enc_ingredient(m.ingredient) \o enc_slot(m.result)
    \o enc_be(m.experience, 4) \o enc_varint(m.cooking_time)

dec_smelting(s) ==
  After(dec_string(s), LAMBDA g :
    After(dec_ingredient(g.rest), LAMBDA i :
      After(dec_slot(i.rest), LAMBDA r :
        After(DecVarint(Skip(r.rest, 4)), LAMBDA c :
          Decoded([group |-> g.v, ingredient |-> i.v, result |-> r.v,
                   experience |-> dec_be(r.rest, 4), cooking_time |-> c.v],
                  c.rest, g.blocks + i.blocks + r.blocks)))))

-----------------------------------------------------------------------------
(* Particles: a type and what goes with it, in the field data. *)

particle_block        == 3
particle_dust         == 11
particle_falling_dust == 20
particle_item         == 27
BlockParticles        == {particle_block, particle_falling_dust}

size_particle(p) ==
  size_varint(Bits(p.type)) + CASE p.type \in BlockParticles -> size_varint(p.data)
                                [] p.type = particle_dust    -> 16
                                [] p.type = particle_item    -> size_slot(p.data)
                                [] OTHER -> 0

\* The walk expects a varint before the data, which no encoder writes, and
\* for dust goes on into the case of items without having moved.
walk_particledata(s, max_len, type) ==
  Then(walk_varint(s, max_len), LAMBDA first :
    LET rest == Skip(s, first)
        left == max_len - first
    IN CASE type \in BlockParticles ->
              Then(walk_varint(rest, left), LAMBDA ret : first + ret)
         [] type = particle_dust ->
              IF Below(left, 16) THEN -1
              ELSE Then(walk_slot(rest, left), LAMBDA ret : first + 16 + ret)
         [] type = particle_item ->
              Then(walk_slot(rest, left), LAMBDA ret : first + ret)
         [] OTHER -> first)
walk_particle(s, max_len) ==
  Then(walk_varint(s, max_len), LAMBDA ret :
    Then(walk_particledata(Skip(s, ret), max_len - ret, SNum(dec_varint(s))),
         LAMBDA data : ret + data))

enc_particle(p) ==
  enc_varint(Bits(p.type))
    \o CASE p.type \in BlockParticles -> enc_varint(p.data)
         [] p.type = particle_dust    -> FlattenSeq([k \in 1..4 |-> enc_be(p.data[k], 4)])
         [] p.type = particle_item    -> enc_slot(p.data)
         [] OTHER -> <<>>

dec_particledata(s, type) ==
  CASE type \in BlockParticles -> DecVarint(s)
    [] type = particle_dust ->
         Decoded([k \in 1..4 |-> dec_be(Skip(s, 4 * (k - 1)), 4)], Skip(s, 16), 0)
    [] type = particle_item -> dec_slot(s)
    [] OTHER -> Decoded(<<>>, s, 0)
dec_particle(s) ==
  After(DecVarint(s), LAMBDA type :
    After(dec_particledata(type.rest, SNum(type.v)), LAMBDA data :
      Decoded([type |-> SNum(type.v), data |-> data.v], data.rest, data.blocks)))

free_particle(p) == IF p.type = particle_item THEN free_slot(p.data) ELSE 0

-----------------------------------------------------------------------------
(* Item tags: a varint and that many names, each with a varint and that    *)
(* many varints.                                                           *)

SizeTag(tag) ==
  size_string(tag.name) + size_varint(Bits(Len(tag.entries)))
    + SumOf([k \in DOMAIN tag.entries |-> size_varint(tag.entries[k])])
size_itemtag_array(tags) ==
  size_varint(Bits(Len(tags))) + SumOf([i \in DOMAIN tags |-> SizeTag(tags[i])])

\* The entries of a tag: the walk does not move past them.
RECURSIVE WalkEntries(_, _, _, _)
WalkEntries(s, count, max_len, size) ==
  IF count <= 0 THEN size
  ELSE Then(walk_varint(s, max_len),
            LAMBDA ret : WalkEntries(s, count - 1, max_len - ret, size + ret))

RECURSIVE WalkTags(_, _, _, _)
WalkTags(s, count, max_len, size) ==
  IF count = 0 THEN size
  ELSE Then(walk_string(s, max_len), LAMBDA name :
         Then(walk_varint(Skip(s, name), max_len - name), LAMBDA len :
           LET entries == Skip(s, name + len)
               left    == max_len - name - len
           IN Then(WalkEntries(entries, SNum(dec_varint(Skip(s, name))), left, 0),
                   LAMBDA all : WalkTags(entries, count - 1, left - all, size + name + len + all))))
walk_itemtag_array(s, max_len) ==
  IF max_len = 0 THEN -1
  ELSE Then(walk_varint(s, max_len), LAMBDA ret :
         WalkTags(Skip(s, ret), Num(dec_varint(s)), max_len - ret, ret))

EncTag(tag) ==
  enc_string(tag.name) \o enc_varint(Bits(Len(tag.entries)))
    \o FlattenSeq([k \in DOMAIN tag.entries |-> enc_varint(tag.entries[k])])
enc_itemtag_array(tags) ==
  enc_varint(Bits(Len(tags))) \o FlattenSeq([i \in DOMAIN tags |-> EncTag(tags[i])])

\* count values one after another, as a sequence: varints, then whole tags.
RECURSIVE DecEntries(_, _, _)
DecEntries(s, count, done) ==
  IF count <= 0 THEN Decoded(done, s, 1)
  ELSE DecEntries(Skip(s, VarLen(s)), count - 1, Append(done, dec_varint(s)))

RECURSIVE DecTags(_, _, _, _)
DecTags(s, count, done, blocks) ==
  IF count <= 0 THEN Decoded(done, s, blocks)
  ELSE After(dec_string(s), LAMBDA name :
         After(DecVarint(name.rest), LAMBDA len :
           After(DecEntries(len.rest, SNum(len.v), <<>>), LAMBDA entries :
             DecTags(entries.rest, count - 1,
                     Append(done, [name |-> name.v, entries |-> entries.v]),
                     blocks + name.blocks + entries.blocks))))
dec_itemtag_array(s) == DecTags(Skip(s, VarLen(s)), SNum(dec_varint(s)), <<>>, 1)

\* Mutant: the names are not freed.
free_itemtag_array_KeepsNames(tags) == 1 + Len(tags)
free_itemtag_array(tags) == 1 + 2 * Len(tags)

-----------------------------------------------------------------------------
(* Entity metadata: tags of an index, a type, for some types a flag that a *)
(* value follows, and the value; after the last one the byte 0xFF.  The    *)
(* switch statements of the five functions agree on what each type holds.  *)

meta_type ==
  << "byte", "varint", "float", "string", "string", "string", "slot", "byte", "rotation",
     "position", "position", "byte", "uuid", "varint", "nbt", "particle", "villagerdata",
     "varint", "varint" >>

meta_optchat     == 5
meta_optposition == 10
meta_optuuid     == 12
meta_optvarint   == 17
Optional   == {meta_optchat, meta_optposition, meta_optuuid, meta_optvarint}
Holds(tag) == tag.type \notin Optional \/ tag.opt
Fixed      == [byte |-> 1, float |-> 4, rotation |-> 12, position |-> 8, uuid |-> 16]
CloseTag   == 0..7
NO_OVERFLOW == 2^30

SizeMeta(kind, v) ==
  CASE kind \in DOMAIN Fixed  -> Fixed[kind]
    [] kind = "varint"        -> size_varint(v)
    [] kind = "string"        -> size_string(v)
    [] kind = "slot"          -> size_slot(v)
    [] kind = "nbt"           -> size_nbt(v)
    [] kind = "particle"      -> size_particle(v)
    [] kind = "villagerdata"  -> SumOf([j \in 1..3 |-> size_varint(v[j])])
\* Mutant: the flag of an optional value is not counted.
size_metadata_NoFlag(tags) ==
  1 + SumOf([i \in DOMAIN tags |->
        1 + size_varint(Bits(tags[i].type))
          + IF Holds(tags[i]) THEN SizeMeta(meta_type[tags[i].type + 1], tags[i].value) ELSE 0])
size_metadata(tags) ==
  1 + SumOf([i \in DOMAIN tags |->
        LET tag == tags[i]
        IN 1 + size_varint(Bits(tag.type)) + (IF tag.type \in Optional THEN 1 ELSE 0)
             + IF Holds(tag) THEN SizeMeta(meta_type[tag.type + 1], tag.value) ELSE 0])

WalkMeta(kind, s, max_len) ==
  CASE kind \in DOMAIN Fixed  -> Fixed[kind]
    [] kind = "varint"        -> walk_varint(s, max_len)
    [] kind = "string"        -> walk_string(s, max_len)
    [] kind = "slot"          -> walk_slot(s, max_len)
    [] kind = "nbt"           -> walk_nbt(s, max_len)
    [] kind = "particle"      -> walk_particle(s, max_len)
    [] kind = "villagerdata"  ->
         Then(walk_varint(s, max_len), LAMBDA x :
           Then(walk_varint(Skip(s, x), max_len - x), LAMBDA y :
             Then(walk_varint(Skip(s, x + y), max_len - x - y), LAMBDA z : x + y + z)))

\* The value of a tag, its flag included.  The flag is read before max_len is
\* compared with anything.
WalkValue(type, s, max_len) ==
  IF type \notin 0..18 THEN -1
  ELSE IF type \notin Optional THEN WalkMeta(meta_type[type + 1], s, max_len)
  ELSE IF s[1] = {} THEN 1
  ELSE Then(WalkMeta(meta_type[type + 1], Skip(s, 1), max_len - 1), LAMBDA ret : 1 + ret)

RECURSIVE WalkMetatags(_, _, _)
\* Mutant: the bytes may end without the closing one.
WalkMetatags_NoClose(s, max_len, total) ==
  IF max_len = 0 \/ s[1] = CloseTag THEN total + 1
  ELSE Then(walk_varint(Skip(s, 1), max_len - 1), LAMBDA ret :
         LET rest == Skip(s, 1 + ret)
             left == max_len - 1 - ret
         IN Then(WalkValue(SNum(dec_varint(Skip(s, 1))), rest, left), LAMBDA size :
              IF Below(left, size) THEN -1
              ELSE WalkMetatags(Skip(rest, size), left - size, total + 1 + ret + size)))
WalkMetatags(s, max_len, total) ==
  IF s[1] = CloseTag THEN total + 1
  ELSE Then(walk_varint(Skip(s, 1), max_len - 1), LAMBDA ret :
         LET rest == Skip(s, 1 + ret)
             left == max_len - 1 - ret
         IN Then(WalkValue(SNum(dec_varint(Skip(s, 1))), rest, left), LAMBDA size :
              IF ~Below(size, left) THEN -1
              ELSE WalkMetatags(Skip(rest, size), left - size, total + 1 + ret + size)))
walk_metadata(s, max_len) == IF max_len = 0 THEN -1 ELSE WalkMetatags(s, max_len, 0)

\* Walks memory that has been walked before.
RECURSIVE CountLoop(_, _)
CountLoop(s, count) ==
  LET type == SNum(dec_varint(Skip(s, 1)))
      rest == Skip(s, 1 + VarLen(Skip(s, 1)))
  IN IF s[1] = CloseTag THEN count
     ELSE IF type \notin 0..18 THEN 0
     ELSE CountLoop(Skip(rest, WalkValue(type, rest, NO_OVERFLOW)), count + 1)
count_metatags(s) == CountLoop(s, 0)

EncMeta(kind, v) ==
  CASE kind = "byte"          -> <<v>>
    [] kind = "varint"        -> enc_varint(v)
    [] kind = "float"         -> enc_be(v, 4)
    [] kind = "string"        -> enc_string(v)
    [] kind = "slot"          -> enc_slot(v)
    [] kind = "rotation"      -> FlattenSeq([j \in 1..3 |-> enc_be(v[j], 4)])
    [] kind = "position"      -> enc_position(v)
    [] kind = "uuid"          -> enc_uuid(v)
    [] kind = "nbt"           -> enc_nbt(v)
    [] kind = "particle"      -> enc_particle(v)
    [] kind = "villagerdata"  -> FlattenSeq([j \in 1..3 |-> enc_varint(v[j])])
EncMetatag(tag) ==
  <<tag.index>> \o enc_varint(Bits(tag.type))
    \o (IF tag.type \in Optional THEN <<IF tag.opt THEN {0} ELSE {}>> ELSE <<>>)
    \o IF Holds(tag) THEN EncMeta(meta_type[tag.type + 1], tag.value) ELSE <<>>
enc_metadata(tags) == FlattenSeq([i \in DOMAIN tags |-> EncMetatag(tags[i])]) \o <<{}>>

DecMeta(kind, s) ==
  CASE kind = "byte"          -> Decoded(s[1], Skip(s, 1), 0)
    [] kind = "varint"        -> DecVarint(s)
    [] kind = "float"         -> Decoded(dec_be(s, 4), Skip(s, 4), 0)
    [] kind = "string"        -> dec_string(s)
    [] kind = "slot"          -> dec_slot(s)
    [] kind = "rotation"      ->
         Decoded([j \in 1..3 |-> dec_be(Skip(s, 4 * (j - 1)), 4)], Skip(s, 12), 0)
    [] kind = "position"      -> Decoded(dec_position(s), Skip(s, 8), 0)
    [] kind = "uuid"          -> Decoded(dec_uuid(s), Skip(s, 16), 0)
    [] kind = "nbt"           -> dec_nbt(s)
    [] kind = "particle"      -> dec_particle(s)
    [] kind = "villagerdata"  -> [DecEntries(s, 3, <<>>) EXCEPT !.blocks = 0]

RECURSIVE DecMetatags(_, _, _, _)
DecMetatags(s, count, tags, blocks) ==
  LET tagOf(type, flag) ==
        LET opt == type \in Optional /\ flag[1] # {}
            at  == IF type \in Optional THEN Skip(flag, 1) ELSE flag
        IN After(IF type \in Optional /\ ~opt
                 THEN Decoded(<<>>, at, 0)
                 ELSE DecMeta(meta_type[type + 1], at), LAMBDA value :
             DecMetatags(value.rest, count - 1,
               Append(tags, [index |-> s[1], type |-> type, opt |-> opt, value |-> value.v]),
               blocks + value.blocks))
  IN IF count = 0 THEN Decoded(tags, Skip(s, 1), blocks)
     ELSE After(DecVarint(Skip(s, 1)), LAMBDA type : tagOf(SNum(type.v), type.rest))
dec_metadata(s) == DecMetatags(s, count_metatags(s), <<>>, 1)

\* The array of tags itself is not freed.
FreeMetatag(tag) ==
  LET kind == meta_type[tag.type + 1]
  IN CASE kind = "string"   -> IF Holds(tag) THEN 1 ELSE 0
       [] kind = "slot"     -> free_slot(tag.value)
       [] kind = "nbt"      -> nbt_free(tag.value)
       [] kind = "particle" -> free_particle(tag.value)
       [] OTHER -> 0
free_metadata(tags) == SumOf([i \in DOMAIN tags |-> FreeMetatag(tags[i])])

-----------------------------------------------------------------------------
(* The functions of each structured kind, for module Codec. *)

StructSize(k, v) ==
  CASE k = "nbt"      -> size_nbt(v)      [] k = "optnbt"     -> size_optnbt(v)
    [] k = "slot"     -> size_slot(v)     [] k = "smelting"   -> size_smelting(v)
    [] k = "particle" -> size_particle(v) [] k = "ingredient" -> size_ingredient(v)
    [] k = "metadata" -> size_metadata(v) [] k = "itemtags"   -> size_itemtag_array(v)
StructWalk(k, s, n) ==
  CASE k = "nbt"      -> walk_nbt(s, n)      [] k = "optnbt"     -> walk_optnbt(s, n)
    [] k = "slot"     -> walk_slot(s, n)     [] k = "smelting"   -> walk_smelting(s, n)
    [] k = "particle" -> walk_particle(s, n) [] k = "ingredient" -> walk_ingredient(s, n)
    [] k = "metadata" -> walk_metadata(s, n) [] k = "itemtags"   -> walk_itemtag_array(s, n)
StructEnc(k, v) ==
  CASE k = "nbt"      -> enc_nbt(v)      [] k = "optnbt"     -> enc_optnbt(v)
    [] k = "slot"     -> enc_slot(v)     [] k = "smelting"   -> enc_smelting(v)
    [] k = "particle" -> enc_particle(v) [] k = "ingredient" -> enc_ingredient(v)
    [] k = "metadata" -> enc_metadata(v) [] k = "itemtags"   -> enc_itemtag_array(v)
StructDec(k, s) ==
  CASE k = "nbt"      -> dec_nbt(s)      [] k = "optnbt"     -> dec_optnbt(s)
    [] k = "slot"     -> dec_slot(s)     [] k = "smelting"   -> dec_smelting(s)
    [] k = "particle" -> dec_particle(s) [] k = "ingredient" -> dec_ingredient(s)
    [] k = "metadata" -> dec_metadata(s) [] k = "itemtags"   -> dec_itemtag_array(s)
StructFree(k, v) ==
  CASE k \in {"nbt", "optnbt"} -> nbt_free(v)
    [] k = "slot"       -> free_slot(v)
    [] k = "ingredient" -> SumOf([i \in DOMAIN v |-> free_slot(v[i])])
    [] k = "smelting"   -> 1 + SumOf([i \in DOMAIN v.ingredient |-> free_slot(v.ingredient[i])])
                             + free_slot(v.result)
    [] k = "particle"   -> free_particle(v)
    [] k = "metadata"   -> free_metadata(v)
    [] k = "itemtags"   -> free_itemtag_array(v)
=============================================================================
