------------------------------- MODULE Stderr -------------------------------
(* What the goroutines of one command do with stderr: they log through the  *)
(* handlers of the logging extension and move a progress bar, one thing at  *)
(* a time each, while the App goes from run to run.                         *)
EXTENDS Integers, Sequences

CONSTANTS Workers, Total, MaxInt, Moves,
          Base, Lines, Attrs, Groups, Styles, MaxHandlers, MaxRuns, Empty, Nil,
          MaxCalls     \* of the goroutines, to the bar and the handlers

ASSUME StderrAssumption ==
  /\ MaxInt \in Nat /\ Total \in 1..MaxInt
  /\ \A m \in Moves : m.op \in {"Add", "Set", "Done"} /\ m.n \in (-MaxInt - 1)..MaxInt
  /\ Base \in 0..3 /\ MaxHandlers \in Nat \ {0} /\ MaxRuns \in Nat
  /\ MaxCalls \in Nat
  /\ Nil \notin Workers /\ Empty # Nil /\ Empty \notin 0..3

VARIABLES task, calls,
          current, holder, frame, stuck,
          lv, phase, pflags, said, handlers, arrays, mu

Bar == INSTANCE ProgressBar
Log == INSTANCE Logging

barVars == <<current, holder, frame, stuck>>
logVars == <<lv, phase, pflags, said, handlers, arrays, mu>>
vars == <<task, calls, barVars, logVars>>

Init == Bar!Init /\ Log!Init /\ calls = 0

CallsOnce == calls < MaxCalls /\ calls' = calls + 1

Step(w) ==
  \/ Bar!BarStep(w) /\ UNCHANGED <<calls, logVars>>
  \/ Log!LogStep(w) /\ UNCHANGED <<calls, barVars>>

Next ==
  \/ \E w \in Workers : \/ Bar!BarCall(w) /\ CallsOnce /\ UNCHANGED logVars
                        \/ Log!LogCall(w) /\ CallsOnce /\ UNCHANGED barVars
                        \/ Step(w)
  \/ Log!AppStep /\ UNCHANGED <<calls, barVars>>

Spec == Init /\ [][Next]_vars

-----------------------------------------------------------------------------
(* Properties.                                                             *)

NeverBackByItself == Bar!NeverBackByItself
LevelAskedLast == Log!LevelAskedLast
SiblingsApart == Log!SiblingsApart
LinesOfOneStyle == Log!LinesOfOneStyle
=============================================================================
