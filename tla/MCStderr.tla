------------------------------ MODULE MCStderr ------------------------------
(* TLC instance of Stderr: two goroutines, a bar of two steps with ints of  *)
(* four bits, two runs, and up to four handlers of two styles.              *)
EXTENDS Stderr, TLC

CONSTANTS w1, w2, x, y, g, plain, rich, loud

TwoWorkers == {w1, w2}
SomeMoves == {[op |-> "Add", n |-> 1], [op |-> "Add", n |-> 7], [op |-> "Set", n |-> 0],
              [op |-> "Done", n |-> 0]}
Said(verbose, level) == [verbose |-> verbose, level |-> level]
SomeLines == {Said(Nil, Nil), Said(TRUE, Nil), Said(TRUE, 2), Said(FALSE, Empty), Said(Nil, loud)}
TwoAttrs == {x, y}
OneGroup == {g}
TwoStyles == {plain, rich}
Alike == Permutations(TwoWorkers) \cup Permutations(TwoAttrs) \cup Permutations(TwoStyles)
=============================================================================
