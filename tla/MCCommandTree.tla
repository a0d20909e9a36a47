--------------------------- MODULE MCCommandTree ---------------------------
(* TLC instance of CommandTree: two commands passed to New, one of them    *)
(* with a third nested in it; two names for all of them.                   *)
EXTENDS CommandTree

CONSTANTS d1, d2, d3, a, b, g

NestedDecls == {d1, d2, d3}
TopDecls == <<d1, d2>>
KidsOfDecls == (d1 :> <<d3>>) @@ (d2 :> <<>>) @@ (d3 :> <<>>)

TwoNames == {a, b}
OneGroup == {g}

NameSymmetry == Permutations(Names)
=============================================================================
