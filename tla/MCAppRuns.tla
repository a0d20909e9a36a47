----------------------------- MODULE MCAppRuns -----------------------------
(* TLC instances of AppRuns: the root and one command, with a handler, with *)
(* hooks only, or with neither.                                            *)
EXTENDS AppRuns

CONSTANT deploy

TwoCmds == {Root, deploy}

Of(r, n) == [run |-> r, preRun |-> n, validations |-> n, postRun |-> n]
SomeSpecs == {Of(TRUE, 0), Of(TRUE, 1), Of(FALSE, 1), Of(FALSE, 0)}
=============================================================================
