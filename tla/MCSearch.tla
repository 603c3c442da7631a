------------------------------ MODULE MCSearch ------------------------------
(***************************************************************************)
(* Instances of Search for TLC.  A tree at rest: every tree of six nodes   *)
(* named a or b, five of them directories, the fourth one unreadable and   *)
(* the fifth one of unknown type; some are deeper than TREE_DEPTH, and one *)
(* search starts at the root.  A busy tree: one of six nodes that other    *)
(* processes rearrange.                                                    *)
(***************************************************************************)
EXTENDS Search

a == <<"a">>
b == <<"b">>

\* A parent comes before its children and siblings have different names.
SmallTrees ==
  {[parent |-> <<1, 1, p3, p4, p5, p6>>, name |-> <<<<>>, a, b, n4, n5, n6>>] :
     p3 \in 1 .. 2, p4 \in 1 .. 3, p5 \in 1 .. 4, p6 \in 1 .. 5,
     n4 \in {a, b}, n5 \in {a, b}, n6 \in {a, b}}
QuietTrees ==
  {t \in SmallTrees : \A i, j \in 2 .. 6 : t.parent[i] = t.parent[j] /\ t.name[i] = t.name[j] => i = j}

\* /a/b/a and the files /a/a, /a/b/a/b
Chain == {[parent |-> <<1, 1, 2, 3, 2, 4>>, name |-> <<<<>>, a, b, a, a, b>>]}

QuietDirs == 1 .. 5
BusyDirs  == 1 .. 4

SlashA  == <<"/", "a">>
SlashB  == <<"/", "b">>
SlashAB == <<"/", "a", "/", "b">>

QuietPaths == {<<Slash>>, <<SlashB, SlashA, SlashAB>>}
QuietPatterns ==
  { <<"*">>, <<"a", "/", "b">>, <<"/", "*", "/", "b">>, <<"/", "a", "/", "?">>,
    <<"a", "|", "/", "b">>, <<"/", "b">>, <<"/", "a", "/", "b">> }
QuietFlags == {{}, {"STOPATFIRST"}, {"INCLUDEROOT", "METADATA"}}

BusyPaths    == {<<SlashB, SlashAB, SlashA>>, << <<>> >>}
BusyPatterns == {<<"b">>, <<"/", "b">>}
BusyFlags    == {{"METADATA"}, {"STOPATFIRST"}}
BusyNames    == {<<"d", "d">>}
BusyAnswers  == {0, 6, 30, 31}

None == {}
Node4 == {4}
Node5 == {5}

OnlyLiteral   == {<<"/", "b">>}
NoFlags == {{}}

=============================================================================
