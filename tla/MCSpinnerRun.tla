---------------------------- MODULE MCSpinnerRun ----------------------------
(* The TLC instance of SpinnerRun: two titles and the empty one.           *)
EXTENDS SpinnerRun

CONSTANTS t1, t2

SomeTitles == {NoTitle, t1, t2}
=============================================================================
