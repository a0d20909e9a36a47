----------------------------- MODULE SpinnerRun -----------------------------
(***************************************************************************)
(* One call of Context.Spinner (nabat/spinner.go): the work function runs  *)
(* in a goroutine and the caller animates a line on stderr in a select     *)
(* loop over the function's result, the context, the start delay and the   *)
(* frame ticker.  Any write to the terminal can fail, the context can be   *)
(* cancelled or reach its deadline at any moment, and a select takes any   *)
(* case that is ready.                                                     *)
(***************************************************************************)
CONSTANTS
  Titles,    \* what WithTitle and Spinner.SetText can set, NoTitle among them
  NoTitle,   \* the empty title
  FnErr,     \* an error of the work function's own
  ConfigErr, WriteErr, Canceled, Deadline,
  NoErr, Pending

FnErrors == {FnErr, Canceled, Deadline}
OwnErrors == {ConfigErr, WriteErr, Canceled, Deadline}

ASSUME SpinnerAssumption ==
  /\ NoErr \notin FnErrors \cup OwnErrors
  /\ Pending \notin FnErrors \cup OwnErrors \cup {NoErr}
  /\ WriteErr \notin {ConfigErr, Canceled, Deadline}
  /\ NoTitle \in Titles

VARIABLES
  tty,     \* IsStderrTTY
  delayed, \* a start delay above zero is configured
  pc,      \* where the caller is
  fn,      \* the work function: "ready", "running" or "returned"
  fnErr,   \* what it returned
  done,    \* the channel its goroutine sends to, of capacity 1
  text,    \* Spinner.text
  ctx,     \* c.Err(): NoErr, Canceled or Deadline
  timer,   \* delayC: "nil", "armed" or "fired"
  shown,   \* the animation has started
  fin,     \* the arguments of finish, once the loop is left
  line,    \* the terminal line: nothing, a frame, or the final line
  failed,  \* history: a write failed
  late,    \* history: the titles Spinner.text had between the function's
           \* return and the call's
  ret      \* what Spinner returned

config == <<tty, delayed>>
work == <<fn, fnErr, done, text>>
spinnerVars == <<config, pc, work, ctx, timer, shown, fin, line, failed, late, ret>>

Blank == [kind |-> "blank", title |-> NoTitle]
NoFin == [fnErr |-> NoErr, cancel |-> FALSE, liveErr |-> NoErr]

SpinnerInit ==
  /\ tty \in BOOLEAN
  /\ delayed \in BOOLEAN
  /\ pc = "options"
  /\ fn = "ready"
  /\ fnErr = NoErr
  /\ done = <<>>
  /\ text \in Titles
  /\ ctx = NoErr
  /\ timer = "nil"
  /\ shown = FALSE
  /\ fin = NoFin
  /\ line = Blank
  /\ failed = FALSE
  /\ late = {}
  /\ ret = Pending

-----------------------------------------------------------------------------
(* Outside the caller.                                                     *)

\* The function returns; its goroutine's send cannot block.
FnReturns(e) ==
  /\ fn = "running"
  /\ fn' = "returned"
  /\ fnErr' = e
  /\ done' = IF tty THEN <<e>> ELSE done
  /\ late' = {text}
  /\ UNCHANGED <<config, pc, text, ctx, timer, shown, fin, line, failed, ret>>

\* Whoever has the handle, the function or a goroutine it left behind, sets
\* the title at any time: before the last line is drawn and after the call.
SetText(t) ==
  /\ fn # "ready"
  /\ text' = t
  /\ late' = IF fn = "returned" /\ ret = Pending THEN late \cup {t} ELSE late
  /\ UNCHANGED <<config, pc, fn, fnErr, done, ctx, timer, shown, fin, line, failed, ret>>

ContextEnds(e) ==
  /\ ret = Pending
  /\ ctx = NoErr
  /\ ctx' = e
  /\ UNCHANGED <<config, pc, work, timer, shown, fin, line, failed, late, ret>>

DelayPasses ==
  /\ timer = "armed"
  /\ timer' = "fired"
  /\ UNCHANGED <<config, pc, work, ctx, shown, fin, line, failed, late, ret>>

-----------------------------------------------------------------------------
(* The caller.                                                             *)

BadOption ==
  /\ pc = "options"
  /\ pc' = "returned"
  /\ ret' = ConfigErr
  /\ UNCHANGED <<config, work, ctx, timer, shown, fin, line, failed, late>>

\* Not a terminal: the title is printed, and the function runs in the
\* caller only when that worked.
PlainTitle(ok) ==
  /\ pc = "options" /\ ~tty /\ (text = NoTitle => ok)
  /\ IF ok
     THEN /\ pc' = "call"
          /\ fn' = "running"
          /\ line' = [kind |-> "title", title |-> text]
          /\ UNCHANGED <<failed, ret>>
     ELSE /\ pc' = "returned"
          /\ ret' = WriteErr
          /\ failed' = TRUE
          /\ UNCHANGED <<fn, line>>
  /\ UNCHANGED <<config, fnErr, done, text, ctx, timer, shown, fin, late>>

PlainReturn ==
  /\ pc = "call"
  /\ fn = "returned"
  /\ pc' = "returned"
  /\ ret' = fnErr
  /\ UNCHANGED <<config, work, ctx, timer, shown, fin, line, failed, late>>

\* runTTYSpinner: start the goroutine; arm the delay, or go and draw.
StartFn ==
  /\ pc = "options" /\ tty
  /\ fn' = "running"
  /\ IF delayed THEN pc' = "loop" /\ timer' = "armed"
                ELSE pc' = "first" /\ UNCHANGED timer
  /\ UNCHANGED <<config, fnErr, done, text, ctx, shown, fin, line, failed, late, ret>>

\* writeLive, after which the loop goes on, or ends for a failed write.
WriteLive(ok) ==
  /\ shown' = TRUE
  /\ IF ok
     THEN /\ line' = [kind |-> "frame", title |-> text]
          /\ pc' = "loop"
          /\ UNCHANGED <<fin, failed>>
     ELSE /\ fin' = [NoFin EXCEPT !.liveErr = WriteErr]
          /\ pc' = "drain"
          /\ failed' = TRUE
          /\ UNCHANGED line
  /\ UNCHANGED <<config, work, ctx, late, ret>>

FirstFrame(ok) == pc = "first" /\ WriteLive(ok) /\ UNCHANGED timer

DelayCase(ok) ==
  /\ pc = "loop" /\ timer = "fired" /\ ~shown
  /\ timer' = "nil"
  /\ WriteLive(ok)

\* A tick before the animation has started is dropped.
TickCase(ok) == pc = "loop" /\ shown /\ WriteLive(ok) /\ UNCHANGED timer

DoneCase ==
  /\ pc = "loop"
  /\ done # <<>>
  /\ fin' = [NoFin EXCEPT !.fnErr = done[1]]
  /\ done' = <<>>
  /\ pc' = "final"
  /\ UNCHANGED <<config, fn, fnErr, text, ctx, timer, shown, line, failed, late, ret>>

\* (A mutant: the function is not waited for.)
ContextCaseNoWait ==
  /\ pc = "loop"
  /\ ctx # NoErr
  /\ fin' = [NoFin EXCEPT !.cancel = TRUE]
  /\ pc' = "final"
  /\ UNCHANGED <<config, work, ctx, timer, shown, line, failed, late, ret>>

\* (A mutant: the context is looked at when the function returns.)
ContextCaseLate ==
  /\ pc = "loop"
  /\ ctx # NoErr /\ done # <<>>
  /\ fin' = [NoFin EXCEPT !.cancel = TRUE]
  /\ pc' = "drain"
  /\ UNCHANGED <<config, work, ctx, timer, shown, line, failed, late, ret>>

ContextCase ==
  /\ pc = "loop"
  /\ ctx # NoErr
  /\ fin' = [NoFin EXCEPT !.cancel = TRUE]
  /\ pc' = "drain"
  /\ UNCHANGED <<config, work, ctx, timer, shown, line, failed, late, ret>>

\* finish(<-done, ...): the loop is over and the function is not.
Drain ==
  /\ pc = "drain"
  /\ done # <<>>
  /\ fin' = [fin EXCEPT !.fnErr = done[1]]
  /\ done' = <<>>
  /\ pc' = "final"
  /\ UNCHANGED <<config, fn, fnErr, text, ctx, timer, shown, line, failed, late, ret>>

\* (A mutant: finish trusts the loop to have noticed the context's end.)
FinishResultByFlag(f, ok) ==
  CASE f.fnErr # NoErr -> f.fnErr
    [] f.fnErr = NoErr /\ f.liveErr # NoErr -> f.liveErr
    [] f.fnErr = NoErr /\ f.liveErr = NoErr ->
         IF ~ok THEN WriteErr ELSE IF f.cancel THEN Canceled ELSE NoErr

\* What finish returns, given its arguments and whether writeDone failed.
FinishResult(f, ok) ==
  CASE f.fnErr # NoErr -> f.fnErr
    [] f.fnErr = NoErr /\ f.liveErr # NoErr -> f.liveErr
    [] f.fnErr = NoErr /\ f.liveErr = NoErr /\ ~ok -> WriteErr
    [] f.fnErr = NoErr /\ f.liveErr = NoErr /\ ok /\ ctx # NoErr -> ctx
    [] f.fnErr = NoErr /\ f.liveErr = NoErr /\ ok /\ ctx = NoErr ->
         IF f.cancel THEN Canceled ELSE NoErr

completionState(e) == IF e # NoErr THEN "Error" ELSE "Success"

\* (A mutant: the final line repeats the title of the last frame.)
FinishOldTitle(ok) ==
  /\ pc = "final"
  /\ line' = IF ok THEN [line EXCEPT !.kind = completionState(fin.fnErr)]
                   ELSE line
  /\ failed' = (failed \/ ~ok)
  /\ ret' = FinishResult(fin, ok)
  /\ pc' = "returned"
  /\ UNCHANGED <<config, work, ctx, timer, shown, fin, late>>

Finish(ok) ==
  /\ pc = "final"
  /\ line' = IF ok THEN [kind |-> completionState(fin.fnErr), title |-> text]
                   ELSE line
  /\ failed' = (failed \/ ~ok)
  /\ ret' = FinishResult(fin, ok)
  /\ pc' = "returned"
  /\ UNCHANGED <<config, work, ctx, timer, shown, fin, late>>

-----------------------------------------------------------------------------

Caller ==
  \/ BadOption
  \/ \E ok \in BOOLEAN : PlainTitle(ok)
  \/ PlainReturn
  \/ StartFn
  \/ \E ok \in BOOLEAN : FirstFrame(ok)
  \/ \E ok \in BOOLEAN : DelayCase(ok)
  \/ \E ok \in BOOLEAN : TickCase(ok)
  \/ DoneCase
  \/ ContextCase
  \/ Drain
  \/ \E ok \in BOOLEAN : Finish(ok)

SpinnerNext ==
  \/ \E e \in FnErrors \cup {NoErr} : FnReturns(e)
  \/ \E t \in Titles : SetText(t)
  \/ \E e \in {Canceled, Deadline} : ContextEnds(e)
  \/ DelayPasses
  \/ Caller

\* The goroutine of the caller runs.  A Go select picks among ready cases
\* at random, so no ready case is passed over for ever; neither the work
\* function nor the context is under any obligation.
Fairness ==
  /\ WF_spinnerVars(Caller)
  /\ WF_spinnerVars(DoneCase)
  /\ WF_spinnerVars(ContextCase)

SpinnerSpec == SpinnerInit /\ [][SpinnerNext]_spinnerVars /\ Fairness

-----------------------------------------------------------------------------
(* Properties.                                                             *)

\* The values of the variables, and what the caller's place says of them.
TypeOK ==
  /\ tty \in BOOLEAN
  /\ delayed \in BOOLEAN
  /\ pc \in {"options", "call", "first", "loop", "drain", "final", "returned"}
  /\ fn \in {"ready", "running", "returned"}
  /\ fnErr \in FnErrors \cup {NoErr}
  /\ done \in {<<>>} \cup {<<e>> : e \in FnErrors \cup {NoErr}}
  /\ text \in Titles
  /\ ctx \in {NoErr, Canceled, Deadline}
  /\ timer \in {"nil", "armed", "fired"}
  /\ shown \in BOOLEAN
  /\ fin \in [fnErr : FnErrors \cup {NoErr}, cancel : BOOLEAN,
              liveErr : {NoErr, WriteErr}]
  /\ line \in [kind : {"blank", "title", "frame", "Success", "Error"}, title : Titles]
  /\ failed \in BOOLEAN
  /\ late \in SUBSET Titles
  /\ ret \in FnErrors \cup OwnErrors \cup {NoErr, Pending}
  /\ (pc = "returned") <=> (ret # Pending)

\* Spinner keeps the promise of the module LiveCall: it never returns while
\* the function runs, never hides the function's error, and always returns
\* once the function has (spinner.go:221-223).
Call ==
  INSTANCE LiveCall
    WITH FnErrors <- FnErrors, OwnErrors <- OwnErrors, NoErr <- NoErr,
         Pending <- Pending, fn <- fn, fnErr <- fnErr, ret <- ret
ImplementsLiveCall == Call!CallSpec

\* nil means all of it: the function returned nil, every write to the
\* terminal worked, and the context of an animated call had not ended,
\* whichever case the select happened to take.
SuccessIsEarned ==
  ret = NoErr => /\ fn = "returned" /\ fnErr = NoErr
                 /\ ~failed
                 /\ tty => ctx = NoErr

\* A failed write of a frame or of the final line is never lost behind a
\* cancelled context (spinner.go:341-342).
WriteFailureReported ==
  ret # Pending /\ failed /\ fnErr = NoErr => ret = WriteErr

\* When the call returns, the line on the terminal tells how the function
\* ended, under the title the function left or, when a goroutine of its own
\* went on calling SetText before the line was drawn, one of those titles:
\* never under one that was replaced while the function still ran.
FinalLineTellsOutcome ==
  tty /\ fn = "returned" /\ pc = "returned" /\ ~failed =>
    /\ line.kind = completionState(fnErr)
    /\ line.title \in late

\* The end of the context ends the animation although the function may run
\* on and the ticker never stops.
CancelEndsAnimation == (pc = "loop" /\ ctx # NoErr) ~> (pc # "loop")
=============================================================================
