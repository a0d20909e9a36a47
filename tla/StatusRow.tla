----------------------------- MODULE StatusRow -----------------------------
(***************************************************************************)
(* One row of a live status display: the record nabat/status_row.go keeps  *)
(* under StatusRow.mu, and the functions of the row its methods compute.   *)
(* Every method takes the lock for its whole body, so a method is one      *)
(* function from the old record to the new one; the module StatusRows      *)
(* makes each of them an atomic step of a goroutine.                       *)
(*                                                                         *)
(* The label, cells, icon and style pointers are overwritten by their own  *)
(* methods and read together by snapshot; they are one field here, text.   *)
(***************************************************************************)
EXTENDS Integers

CONSTANTS
  Keys,   \* the keys of the deduplication map
  Texts,  \* what Label, Set, Icon and Style can write
  Prios,  \* what Priority can write
  Ends,   \* the terminal states goroutines set, of those below
  Nil     \* the nil pointer

Terminal == {"Success", "Error", "Warning", "Done"}

RowState == {"Active"} \cup Terminal

ASSUME RowAssumption ==
  /\ Ends \subseteq Terminal
  /\ Prios \subseteq Int
  /\ Nil \notin Int
  /\ Nil \notin Texts

Row == [key      : Keys,
        text     : Texts \cup {Nil},
        state    : RowState,
        priority : Prios \cup {Nil},
        hidden   : BOOLEAN,
        created  : Nat,
        frozen   : BOOLEAN,
        frozenAt : Nat]

NewRow(k, t) ==
  [key |-> k, text |-> Nil, state |-> "Active", priority |-> Nil,
   hidden |-> FALSE, created |-> t, frozen |-> FALSE, frozenAt |-> 0]

\* The duration the elapsed column shows at time t.
Elapsed(r, t) == IF r.frozen THEN r.frozenAt ELSE t - r.created

\* (A mutant: a freeze at zero elapsed does not count as one.)
freezeTimerAgain(r, t) ==
  IF r.frozenAt # 0 THEN r
                    ELSE [r EXCEPT !.frozen = TRUE, !.frozenAt = t - r.created]

freezeTimer(r, t) ==
  IF r.frozen THEN r
              ELSE [r EXCEPT !.frozen = TRUE, !.frozenAt = t - r.created]

resumeTimer(r) == [r EXCEPT !.frozen = FALSE, !.frozenAt = 0]

\* Success, Error, Warn and Done, which differ in the state they set.
Finished(r, s, t) == freezeTimer([r EXCEPT !.state = s], t)

Activated(r) == [resumeTimer([r EXCEPT !.state = "Active"]) EXCEPT !.hidden = FALSE]

HiddenRow(r, t) == freezeTimer([r EXCEPT !.hidden = TRUE], t)

ShownRow(r) == [r EXCEPT !.hidden = FALSE]

\* What one locked read of row number i copies for the renderer.
Snapshot(i, r, t) ==
  [row |-> i, text |-> r.text, state |-> r.state, elapsed |-> Elapsed(r, t)]
=============================================================================
