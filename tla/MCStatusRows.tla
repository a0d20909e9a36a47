---------------------------- MODULE MCStatusRows ----------------------------
(* TLC instance of StatusRows: two keys, two goroutines, and a terminal of *)
(* five lines beside the unknown height 0.                                 *)
EXTENDS StatusRows

CONSTANTS a, b, w1, w2, t1

TwoRows == {a, b}
TwoWorkers == {w1, w2}
TwoPriorities == {1, 2}
SomeEnds == {"Success", "Error"}
OneText == {t1}
LowTerminal == {5}
=============================================================================
