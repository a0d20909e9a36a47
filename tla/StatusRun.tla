----------------------------- MODULE StatusRun -----------------------------
(***************************************************************************)
(* One call of Context.Status (nabat/status.go, status_model.go): options, *)
(* the plain path, and on a terminal the work function's goroutine beside  *)
(* a Bubble Tea program.  The rows are the module StatusRows; this one is  *)
(* about who ends when: the function, the event loop (by its own Quit, by  *)
(* ctrl+c, by the context, or by failing) and the call.                    *)
(*                                                                         *)
(* Bubble Tea is outside the repository: Run returns nil after a Quit,     *)
(* ErrInterrupted after an Interrupt, ErrProgramKilled once the context it *)
(* was given has ended, and other errors of its own, wrapped in            *)
(* ErrProgramKilled or not.  Commands run in goroutines, so their messages *)
(* arrive in any order.                                                    *)
(***************************************************************************)
CONSTANTS
  Completions,  \* what SetCompletion can be given
  FnErr,        \* an error of the work function's own
  ConfigErr, WriteErr, TeaErr, Canceled, Deadline,
  NoErr, Pending, NoCompletion

FnErrors == {FnErr, Canceled, Deadline}
OwnErrors == {ConfigErr, WriteErr, TeaErr, Canceled, Deadline}

ASSUME StatusRunAssumption ==
  /\ NoErr \notin FnErrors \cup OwnErrors
  /\ Pending \notin FnErrors \cup OwnErrors \cup {NoErr}
  /\ Completions \subseteq {"Success", "Error", "Warning", "Done"}
  /\ NoCompletion \notin Completions

VARIABLES
  tty,        \* IsStderrTTY
  titled,     \* WithTitle was given
  pc,         \* where Status is: "options", "plain", "ui" or "returned"
  fn,         \* the work function: "ready", "running" or "returned"
  fnErr,      \* what it returned; read only after fnDone.Wait
  completion, \* Status.completion
  ctx,        \* c.Err(): NoErr, Canceled or Deadline
  ui,         \* the Bubble Tea program: "off", "up" or "down"
  waiting,    \* the command of Init that waits for fnDone has not sent yet
  inbox,      \* messages on their way to the event loop
  mdone,      \* statusModel.done
  merr,       \* statusModel.err
  header,     \* the header icon last drawn
  runErr,     \* what Run returned
  asked,      \* history: the values Status.completion had between the
              \* function's return and the call's
  ret         \* what Status returned

config == <<tty, titled>>
model == <<waiting, inbox, mdone, merr>>
statusVars ==
  <<config, pc, fn, fnErr, completion, ctx, ui, model, header, runErr, asked, ret>>

StatusInit ==
  /\ tty \in BOOLEAN
  /\ titled \in BOOLEAN
  /\ pc = "options"
  /\ fn = "ready"
  /\ fnErr = NoErr
  /\ completion = NoCompletion
  /\ ctx = NoErr
  /\ ui = "off"
  /\ waiting = FALSE
  /\ inbox = {}
  /\ mdone = FALSE
  /\ merr = NoErr
  /\ header = "none"
  /\ runErr = "none"
  /\ asked = {}
  /\ ret = Pending

-----------------------------------------------------------------------------
(* The work function, the user and the context.                            *)

FnReturns(e) ==
  /\ fn = "running"
  /\ fn' = "returned"
  /\ fnErr' = e
  /\ asked' = {completion}
  /\ UNCHANGED <<config, pc, completion, ctx, ui, model, header, runErr, ret>>

\* Any goroutine that has the handle asks for an icon, whether the function
\* is still running or not.
SetCompletion(s) ==
  /\ fn # "ready"
  /\ completion' = s
  /\ asked' = IF fn = "returned" /\ ret = Pending THEN asked \cup {s} ELSE asked
  /\ UNCHANGED <<config, pc, fn, fnErr, ctx, ui, model, header, runErr, ret>>

ContextEnds(e) ==
  /\ ret = Pending
  /\ ctx = NoErr
  /\ ctx' = e
  /\ UNCHANGED <<config, pc, fn, fnErr, completion, ui, model, header, runErr,
                 asked, ret>>

CtrlC ==
  /\ ui = "up"
  /\ inbox' = inbox \cup {"ctrl+c"}
  /\ UNCHANGED <<config, pc, fn, fnErr, completion, ctx, ui, waiting, mdone, merr,
                 header, runErr, asked, ret>>

-----------------------------------------------------------------------------
(* Status before the program runs, and the plain path.                     *)

BadOption ==
  /\ pc = "options"
  /\ pc' = "returned"
  /\ ret' = ConfigErr
  /\ UNCHANGED <<config, fn, fnErr, completion, ctx, ui, model, header, runErr, asked>>

PlainTitle(ok) ==
  /\ pc = "options" /\ ~tty /\ (~titled => ok)
  /\ IF ok THEN /\ pc' = "plain"
                /\ fn' = "running"
                /\ UNCHANGED ret
           ELSE /\ pc' = "returned"
                /\ ret' = WriteErr
                /\ UNCHANGED fn
  /\ UNCHANGED <<config, fnErr, completion, ctx, ui, model, header, runErr, asked>>

\* The table of the rows is written after the function, if it has any.
PlainTable(ok) ==
  /\ pc = "plain"
  /\ fn = "returned"
  /\ pc' = "returned"
  /\ ret' = IF ~ok /\ fnErr = NoErr THEN WriteErr ELSE fnErr
  /\ UNCHANGED <<config, fn, fnErr, completion, ctx, ui, model, header, runErr, asked>>

\* fnDone.Go, newStatusModel, tea.NewProgram(...).Run, statusModel.Init.
StartUI ==
  /\ pc = "options" /\ tty
  /\ pc' = "ui"
  /\ fn' = "running"
  /\ ui' = "up"
  /\ waiting' = TRUE
  /\ UNCHANGED <<config, fnErr, completion, ctx, inbox, mdone, merr, header,
                 runErr, asked, ret>>

-----------------------------------------------------------------------------
(* The program: its commands, statusModel.Update and View, and its end.    *)

\* The command of Init: fnDone.Wait, then statusDoneMsg.
SendDone ==
  /\ ui = "up" /\ waiting
  /\ fn = "returned"
  /\ waiting' = FALSE
  /\ inbox' = inbox \cup {"done"}
  /\ UNCHANGED <<config, pc, fn, fnErr, completion, ctx, ui, mdone, merr, header,
                 runErr, asked, ret>>

\* (A mutant: the model does not keep the error of the message.)
UpdateDoneDropsErr ==
  /\ ui = "up"
  /\ "done" \in inbox
  /\ mdone' = TRUE
  /\ inbox' = (inbox \ {"done"}) \cup {"quit"}
  /\ UNCHANGED <<config, pc, fn, fnErr, completion, ctx, ui, waiting, merr, header,
                 runErr, asked, ret>>

UpdateDone ==
  /\ ui = "up"
  /\ "done" \in inbox
  /\ merr' = fnErr
  /\ mdone' = TRUE
  /\ inbox' = (inbox \ {"done"}) \cup {"quit"}
  /\ UNCHANGED <<config, pc, fn, fnErr, completion, ctx, ui, waiting, header,
                 runErr, asked, ret>>

\* (A mutant: the key goes to the spinner like any other.)
UpdateCtrlCIgnored ==
  /\ ui = "up"
  /\ "ctrl+c" \in inbox
  /\ inbox' = inbox \ {"ctrl+c"}
  /\ UNCHANGED <<config, pc, fn, fnErr, completion, ctx, ui, waiting, mdone, merr,
                 header, runErr, asked, ret>>

UpdateCtrlC ==
  /\ ui = "up"
  /\ "ctrl+c" \in inbox
  /\ inbox' = (inbox \ {"ctrl+c"}) \cup {"interrupt"}
  /\ UNCHANGED <<config, pc, fn, fnErr, completion, ctx, ui, waiting, mdone, merr,
                 header, runErr, asked, ret>>

completionState(c, e) ==
  IF c # NoCompletion THEN c ELSE IF e # NoErr THEN "Error" ELSE "Success"

\* The icon View puts before the title.
HeaderIcon ==
  IF ~titled THEN "none"
  ELSE IF mdone THEN completionState(completion, merr) ELSE "spinner"

Render ==
  /\ ui = "up"
  /\ header' = HeaderIcon
  /\ UNCHANGED <<config, pc, fn, fnErr, completion, ctx, ui, model, runErr, asked, ret>>

RunEnds(e) ==
  /\ ui = "up"
  /\ ui' = "down"
  /\ runErr' = e
  /\ UNCHANGED <<config, pc, fn, fnErr, completion, ctx, model, asked, ret>>

\* A program that ends well draws its last view.
Quit ==
  /\ "quit" \in inbox
  /\ IF ctx = NoErr THEN RunEnds("none") /\ header' = HeaderIcon
                    ELSE RunEnds("killed") /\ UNCHANGED header

Interrupted == "interrupt" \in inbox /\ RunEnds("interrupted") /\ UNCHANGED header

Killed == ctx # NoErr /\ RunEnds("killed") /\ UNCHANGED header

Fails == \E e \in {"killed", "other"} : RunEnds(e) /\ UNCHANGED header

-----------------------------------------------------------------------------
(* Status after the program: fnDone.Wait and the choice of the result.     *)

\* (A mutant: only a killed program is looked for.)
ResultKilledOnly ==
  IF fnErr # NoErr THEN fnErr
  ELSE CASE runErr = "killed" -> IF ctx # NoErr THEN ctx ELSE Canceled
         [] runErr = "other"  -> TeaErr
         [] runErr \in {"none", "interrupted"} -> NoErr

Result ==
  IF fnErr # NoErr THEN fnErr
  ELSE IF mdone /\ merr # NoErr THEN merr
  ELSE CASE runErr = "interrupted" -> Canceled
         [] runErr = "killed"      -> IF ctx # NoErr THEN ctx ELSE Canceled
         [] runErr = "other"       -> TeaErr
         [] runErr = "none"        -> NoErr

\* (A mutant: fnDone.Wait is missing after the program has ended.)
ReturnAtOnce ==
  /\ pc = "ui" /\ ui = "down"
  /\ pc' = "returned"
  /\ ret' = Result
  /\ UNCHANGED <<config, fn, fnErr, completion, ctx, ui, model, header, runErr, asked>>

Return ==
  /\ pc = "ui" /\ ui = "down"
  /\ fn = "returned"
  /\ pc' = "returned"
  /\ ret' = Result
  /\ UNCHANGED <<config, fn, fnErr, completion, ctx, ui, model, header, runErr, asked>>

-----------------------------------------------------------------------------

Caller ==
  \/ BadOption
  \/ \E ok \in BOOLEAN : PlainTitle(ok)
  \/ \E ok \in BOOLEAN : PlainTable(ok)
  \/ StartUI
  \/ Return

Program ==
  \/ SendDone
  \/ UpdateDone
  \/ UpdateCtrlC
  \/ Render
  \/ Quit
  \/ Interrupted
  \/ Killed
  \/ Fails

StatusNext ==
  \/ \E e \in FnErrors \cup {NoErr} : FnReturns(e)
  \/ \E s \in Completions : SetCompletion(s)
  \/ \E e \in {Canceled, Deadline} : ContextEnds(e)
  \/ CtrlC
  \/ Caller
  \/ Program

\* The caller and the goroutines of the program run, and the loop takes
\* every message it is sent.  Nothing obliges the function, the user or the
\* context, and the program need not fail.
Fairness ==
  /\ WF_statusVars(Caller)
  /\ WF_statusVars(SendDone)
  /\ WF_statusVars(UpdateDone)
  /\ WF_statusVars(UpdateCtrlC)
  /\ WF_statusVars(Quit)
  /\ WF_statusVars(Interrupted)
  /\ WF_statusVars(Killed)

StatusSpec == StatusInit /\ [][StatusNext]_statusVars /\ Fairness

-----------------------------------------------------------------------------
(* Properties.                                                             *)

\* The values of the variables; the program is up only inside Status.
StatusTypeOK ==
  /\ tty \in BOOLEAN
  /\ titled \in BOOLEAN
  /\ pc \in {"options", "plain", "ui", "returned"}
  /\ fn \in {"ready", "running", "returned"}
  /\ fnErr \in FnErrors \cup {NoErr}
  /\ completion \in Completions \cup {NoCompletion}
  /\ ctx \in {NoErr, Canceled, Deadline}
  /\ ui \in {"off", "up", "down"}
  /\ waiting \in BOOLEAN
  /\ inbox \subseteq {"done", "ctrl+c", "quit", "interrupt"}
  /\ mdone \in BOOLEAN
  /\ merr \in FnErrors \cup {NoErr}
  /\ header \in {"none", "spinner", "Success", "Error"} \cup Completions
  /\ runErr \in {"none", "interrupted", "killed", "other"}
  /\ asked \subseteq Completions \cup {NoCompletion}
  /\ ret \in FnErrors \cup OwnErrors \cup {NoErr, Pending}
  /\ ui = "up" => pc = "ui"
  /\ (pc = "returned") <=> (ret # Pending)

\* Status keeps the promise of the module LiveCall: it returns only after
\* the function has, with the function's error if there is one, and it does
\* return then, on ctrl+c and on a killed program too (status.go:329-333).
Promise ==
  INSTANCE LiveCall
    WITH FnErrors <- FnErrors, OwnErrors <- OwnErrors, NoErr <- NoErr,
         Pending <- Pending, fn <- fn, fnErr <- fnErr, ret <- ret
ImplementsLiveCall == Promise!CallSpec

\* nil is returned only for a function that returned nil under a display
\* that ended by itself and saw the result: an interrupt or an ended context
\* that took the display down is never swallowed.
SuccessIsEarned ==
  ret = NoErr => /\ fn = "returned" /\ fnErr = NoErr
                 /\ tty => runErr = "none" /\ mdone

\* The icons that tell the outcome: the function's, or one SetCompletion
\* asked for that was in force when the function returned or later.
Told == {completionState(c, fnErr) : c \in asked}

\* The header icon: a call that returns nil leaves the completed header on
\* the screen, and a completed header never tells another outcome than the
\* function's or what SetCompletion last asked for, during the function or,
\* by a goroutine it left behind, after it.
HeaderTellsOutcome ==
  /\ tty /\ titled /\ ret = NoErr => header \in Told
  /\ header \notin {"none", "spinner"} => fn = "returned" /\ header \in Told

\* The display stops for an ended context and for ctrl+c, whether or not
\* the function ever returns.
UIStops == /\ (ui = "up" /\ ctx # NoErr) ~> (ui = "down")
           /\ ("ctrl+c" \in inbox) ~> (ui = "down")
=============================================================================
