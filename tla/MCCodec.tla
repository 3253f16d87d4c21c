------------------------------ MODULE MCCodec ------------------------------
(* Codec for TLC: the values of its runs. *)
EXTENDS Codec, DataUtils

x == <<Bits(120)>>
yz == <<Bits(121), Bits(122)>>

Of(k, values) == {<<k, v>> : v \in values}

\* Around the powers of 2^7, and the ends of the types.
Narrow     == {{}, {0}, 0..6, {7, 8}, {8}, {13}, {14}, 0..20, {21}, {27}, {28}, {31}, 0..31}
Positive   == {{}, {0}, 0..6, {8}, {13}, {14}, 0..20, {21}, {27}, 0..30, {30}}

Tree(items)   == Node(TAG_COMPOUND, <<>>, List(NULL, items))
Nums          == Tree(<<Node(TAG_BYTE, x, {7}), Node(TAG_LONG, yz, {63}), Node(TAG_FLOAT, x, {30})>>)
Arrays        == Tree(<<Node(TAG_BYTE_ARRAY, x, <<{0}, {1}>>), Node(TAG_INT_ARRAY, yz, <<{31}, {}>>)>>)
Deep          == Tree(<<Node(TAG_COMPOUND, x, List(NULL, <<Node(TAG_STRING, yz, yz)>>)), Node(TAG_INT, x, {})>>)
Listing       == Tree(<<Node(TAG_LIST, x, List(TAG_STRING, <<Node(TAG_STRING, NULL, yz), Node(TAG_STRING, NULL, <<>>)>>))>>)
SomeTrees     == {Tree(<<>>), Nums, Arrays, Deep}

Present(id, nbt) == [present |-> TRUE, id |-> id, count |-> {0}, nbt |-> nbt]
Tag(type, opt, v) == [index |-> {1}, type |-> type, opt |-> opt, value |-> v]
Flagged(type, v) == {<<Tag(type, FALSE, <<>>)>>, <<Tag(type, TRUE, v)>>}

Position == [x |-> 25..31, y |-> {10}, z |-> {0, 24}]
Uuid     == [msb |-> {63, 0}, lsb |-> {62}]

\* Metadata without the kinds whose walk or size is wrong.
Metadata ==
  { <<>>, <<Tag(0, FALSE, {7}), Tag(1, FALSE, {8})>>, <<Tag(2, FALSE, {31}), Tag(3, FALSE, yz)>>,
    <<Tag(8, FALSE, <<{31}, {}, {0}>>), Tag(9, FALSE, Position)>>, <<Tag(6, FALSE, Absent)>>,
    <<Tag(14, FALSE, Deep)>>, <<Tag(16, FALSE, <<{0}, {8}, {}>>), Tag(11, FALSE, {})>>,
    <<Tag(5, TRUE, x), Tag(10, FALSE, <<>>), Tag(17, TRUE, {28})>> }
    \cup Flagged(5, yz) \cup Flagged(10, Position) \cup Flagged(12, Uuid) \cup Flagged(17, {14})

Itemtags == { <<>>, <<[name |-> x, entries |-> <<>>], [name |-> yz, entries |-> <<>>]>>,
              <<[name |-> <<>>, entries |-> <<{3}>>]>> }

\* The values for which size_, walk_ and dec_ all do what they say.
Sound ==
  Of("metadata", Metadata) \cup
  Of("varint", Narrow) \cup Of("string", {<<>>, x, yz}) \cup Of("nbt", SomeTrees)
    \cup Of("optnbt", SomeTrees \cup {NULL}) \cup Of("slot", {Absent})
    \cup Of("ingredient", {<<>>}) \cup Of("itemtags", Itemtags) \cup Of("varlong", Positive)

\* Zeroes, and ones: a continued varint, or the end of metadata.
Memory   == {[i \in 1..24 |-> {}], [i \in 1..24 |-> 0..7]}

\* Values for which the functions disagree, to be put in the place of Sound.
Sevens    == Of("varint", {0..6, {7}})
Longs     == Of("varlong", {{13}, {62}, {63}})
Lists    == Of("nbt", {Listing}) \cup Of("metadata", {<<Tag(14, FALSE, Listing)>>})
Slots     == Of("slot", {Present({3}, NULL)})
Recipes   == Of("smelting", {[group |-> x, ingredient |-> <<Absent>>, result |-> Absent,
                              experience |-> {29}, cooking_time |-> {3}]})
Particles == Of("particle", {[type |-> 3, data |-> {3}], [type |-> 1, data |-> <<>>]})
Tagged    == Of("itemtags", {<<[name |-> x, entries |-> <<{3}, {8}>>]>>})
Metas     == Of("metadata", {<<Tag(0, FALSE, {7})>>})
Ingredients == Of("ingredient", {<<Absent, Absent>>})
=============================================================================
