------------------------------ MODULE LiveCall ------------------------------
(***************************************************************************)
(* What Context.Spinner and Context.Status promise of the work function    *)
(* they are given, whatever terminal, timers, key presses and contexts do  *)
(* meanwhile (nabat/spinner.go:217-223, nabat/status.go:329-333): the call *)
(* returns only after the function has returned, it returns the function's *)
(* error when there is one, and it does return once the function has.  The *)
(* call may also refuse, before it starts the function.                    *)
(***************************************************************************)
CONSTANTS
  FnErrors,   \* the errors the function can return
  OwnErrors,  \* the errors the call itself can return
  NoErr,      \* the nil error
  Pending     \* the call has not returned

VARIABLES
  fn,     \* "ready", "running" or "returned"
  fnErr,  \* what the function returned
  ret     \* what the call returned

callVars == <<fn, fnErr, ret>>

CallInit == fn = "ready" /\ fnErr = NoErr /\ ret = Pending

Refuse ==
  /\ fn = "ready"
  /\ ret = Pending
  /\ ret' \in OwnErrors
  /\ UNCHANGED <<fn, fnErr>>

Start ==
  /\ fn = "ready"
  /\ ret = Pending
  /\ fn' = "running"
  /\ UNCHANGED <<fnErr, ret>>

FnReturns(e) ==
  /\ fn = "running"
  /\ fn' = "returned"
  /\ fnErr' = e
  /\ UNCHANGED ret

Return ==
  /\ fn = "returned"
  /\ ret = Pending
  /\ ret' \in IF fnErr # NoErr THEN {fnErr} ELSE OwnErrors \cup {NoErr}
  /\ UNCHANGED <<fn, fnErr>>

CallNext == \/ Refuse
            \/ Start
            \/ \E e \in FnErrors \cup {NoErr} : FnReturns(e)
            \/ Return

\* The function itself may run for ever; the call may not.
CallSpec ==
  /\ CallInit
  /\ [][CallNext]_callVars
  /\ WF_callVars(Refuse \/ Start)
  /\ WF_callVars(Return)
=============================================================================
