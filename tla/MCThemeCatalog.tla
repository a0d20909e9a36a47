--------------------------- MODULE MCThemeCatalog ---------------------------
(* TLC instance of ThemeCatalog: two goroutines, one sound and one faulty   *)
(* manifest and a name that has none.                                       *)
EXTENDS ThemeCatalog

CONSTANTS g1, g2, sound, faulty, typo

TwoCallers == {g1, g2}
ThreeNames == {sound, faulty, typo}
Embedded == {sound, faulty}
FourCalls == {[op |-> "Get", name |-> sound], [op |-> "Get", name |-> faulty],
              [op |-> "Manifest", name |-> sound], [op |-> "Manifest", name |-> typo]}
SoundOnly == {sound}
=============================================================================
