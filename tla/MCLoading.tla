----------------------------- MODULE MCLoading -----------------------------
(* Loading for TLC: trees of one to five bytes, in one to three parts. *)
EXTENDS Loading

Tree(lengths, fails) ==
  [parts |-> [i \in DOMAIN lengths |-> [k \in 1..lengths[i] |-> <<i, k>>]], fails |-> fails]

Sound == {Tree(<<1>>, FALSE), Tree(<<2>>, FALSE), Tree(<<1, 2, 1>>, FALSE), Tree(<<5>>, FALSE)}
Sizes == 1..5
Values == (1..3) \X Sizes   \* a byte is known by its part and its place in it
Part  == {Tree(<<1, 2>>, TRUE)}
=============================================================================
