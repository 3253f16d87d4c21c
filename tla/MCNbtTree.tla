----------------------------- MODULE MCNbtTree -----------------------------
(* NbtTree for TLC: the trees and the searches of its runs. *)
EXTENDS NbtTree

a == <<Bits(97)>>
b == <<Bits(98)>>

Compound(name, items)   == Node(TAG_COMPOUND, name, List(NULL, items))
Listed(name, type, items) == Node(TAG_LIST, name, List(type, items))

\* A node of each type without children but the arrays of ints and longs, with
\* the name.
Leaves(name) ==
  { Node(TAG_BYTE, name, {7}), Node(TAG_SHORT, name, {0, 15}), Node(TAG_INT, name, {31}),
    Node(TAG_LONG, name, {32, 63}), Node(TAG_FLOAT, name, {29}), Node(TAG_DOUBLE, name, {61}),
    Node(TAG_BYTE_ARRAY, name, <<{7}, {}>>), Node(TAG_STRING, name, b),
    Node(TAG_STRING, name, <<>>) }

\* Lists: empty, of numbers, of lists, of compounds.
Lists(name) ==
  { Listed(name, TAG_INT, <<>>),
    Listed(name, TAG_INT, <<Node(TAG_INT, NULL, {1}), Node(TAG_INT, NULL, {31})>>),
    Listed(name, TAG_LIST, <<Listed(NULL, TAG_STRING, <<Node(TAG_STRING, NULL, a)>>)>>),
    Listed(name, TAG_COMPOUND, <<Compound(NULL, <<Node(TAG_BYTE, b, {0})>>), Compound(NULL, <<>>)>>) }

\* The trees of the protocol: compounds with named members.
Plain ==
  {Compound(n, <<>>) : n \in {a, <<>>}}
    \cup {Compound(<<>>, <<t>>) : t \in Leaves(a) \cup Lists(b)}
    \cup { Compound(a, <<Compound(b, <<Node(TAG_STRING, a, b)>>), Node(TAG_INT, b, {})>>),
           Compound(a, <<Node(TAG_BYTE, b, {1}), Compound(b, <<Node(TAG_BYTE, a, {2})>>)>>) }

\* Trees for which the library does not do what it says, to be put in the
\* place of Plain.
IntArrays == {Compound(<<>>, <<Node(TAG_INT_ARRAY, a, <<{0}, {31}>>)>>)}
Unnamed   == {Compound(<<>>, <<Node(TAG_INT, NULL, {1})>>)}
LongNames == {Compound(<<>>, <<Node(TAG_BYTE, a \o a \o b \o b, {1})>>)}
TwoLists  == {Listed(a, TAG_INT, <<Node(TAG_INT, NULL, {1})>>), Compound(a, <<Node(TAG_INT, b, {1})>>)}

AllTypes == 1..12
SomeKeeps == {AllTypes, AllTypes \ {TAG_INT, TAG_BYTE}, AllTypes \ {TAG_STRING, TAG_LIST}}
SomeNames == {NULL, a, b, <<>>}
SomePaths == {<<a>>, <<a, b>>, <<<<>>, b>>, <<a, b, a>>, <<<<>>, b, <<>>, b>>}
SomeJunk  == {{}, 0..31}
NoJunk    == {{}}
Anywhere  == -1..16
=============================================================================
