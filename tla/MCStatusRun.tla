---------------------------- MODULE MCStatusRun ----------------------------
(* The TLC instance of StatusRun.                                          *)
EXTENDS StatusRun

SomeCompletions == {"Success", "Warning"}
=============================================================================
