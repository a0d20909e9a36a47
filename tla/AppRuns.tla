------------------------------ MODULE AppRuns ------------------------------
(***************************************************************************)
(* The runs of one App, one after the other (nabat/app.go): App.Run hands  *)
(* the arguments to Cobra, which finds the command and calls the root's    *)
(* PersistentPreRunE (it builds the Context and calls the global hooks)    *)
(* and then the command's RunE (its own hooks and handler, attachRunE).    *)
(* The two functions talk through the context.Context Cobra keeps in the   *)
(* command, which outlives the run.                                        *)
(*                                                                         *)
(* Handlers and hooks are user functions: each call returns nil,           *)
(* ErrHandled or another error.                                            *)
(***************************************************************************)
EXTENDS Integers, Sequences, FiniteSets

CONSTANTS
  Cmds,        \* the commands
  Root,        \* the root command
  Specs,       \* commandSpecs a command can be declared with
  MaxHooks,    \* bound: hooks of one kind on one command
  MaxGlobals,  \* bound: global hooks
  MaxRuns      \* bound: runs

Spec0 == [run : BOOLEAN, preRun : 0..MaxHooks, validations : 0..MaxHooks,
          postRun : 0..MaxHooks]

ASSUME RunsAssumption ==
  /\ Root \in Cmds
  /\ MaxHooks \in Nat /\ MaxGlobals \in Nat /\ MaxRuns \in Nat
  /\ Specs \subseteq Spec0

VARIABLES
  spec,      \* commandSpec of each command: its handler and how many hooks
  hasHooks,  \* hasSpecHooks, which attachRunE captured at registration
  globals,   \* how many App.globalPreRun
  frozen,    \* App.registrationFrozen
  goCtx,     \* the context.Context each cobra.Command holds: the run whose
             \* context it comes from (0: nil), the run that attached a
             \* runState to it last (0: none), and that state's handled flag
  run,       \* runs begun so far
  cmd,       \* the command of the current run
  pc,        \* where the run is
  left,      \* hooks its current loop has still to call
  err,       \* the error on its way to Run
  called,    \* history: the user functions this run has called
  atStart    \* history: the global hooks there were when the run began

callVars == <<spec, hasHooks, frozen, run, cmd, atStart>>
vars == <<callVars, globals, goCtx, pc, left, err, called>>

NoErr == [from |-> "none", number |-> 0]

Init ==
  /\ spec \in [Cmds -> Specs]
  /\ hasHooks = [c \in Cmds |-> \/ spec[c].preRun > 0
                                \/ spec[c].validations > 0
                                \/ spec[c].postRun > 0]
  /\ globals = 0
  /\ frozen = FALSE
  /\ goCtx = [c \in Cmds |-> [from |-> 0, state |-> 0, handled |-> FALSE]]
  /\ run = 0
  /\ cmd = Root
  /\ pc = "idle"
  /\ left = 0
  /\ err = NoErr
  /\ called = <<>>
  /\ atStart = 0

-----------------------------------------------------------------------------
(* Hooks registered by On* methods, init hooks included: attachRunE has     *)
(* looked at the spec before.                                              *)

\* App.OnPreRun, which is not frozen: a hook, a handler or a goroutine of an
\* extension can call it while a command runs.
OnPreRunGlobal ==
  /\ globals < MaxGlobals
  /\ globals' = globals + 1
  /\ UNCHANGED <<callVars, goCtx, pc, left, err, called>>

On(c, s) ==
  /\ ~frozen
  /\ s \in Spec0
  /\ spec' = [spec EXCEPT ![c] = s]
  /\ UNCHANGED <<hasHooks, frozen, run, cmd, atStart, globals, goCtx, pc, left,
                 err, called>>

OnPreRun(c) == On(c, [spec[c] EXCEPT !.preRun = @ + 1])
OnValidate(c) == On(c, [spec[c] EXCEPT !.validations = @ + 1])
OnPostRun(c) == On(c, [spec[c] EXCEPT !.postRun = @ + 1])

-----------------------------------------------------------------------------
(* Run, Cobra, and PersistentPreRunE.                                      *)

\* ExecuteContextC gives the root the context of the run and, when it has
\* found the command, the command its root's, unless it holds one already.
Run(c) ==
  /\ pc = "idle"
  /\ run < MaxRuns
  /\ frozen' = TRUE
  /\ run' = run + 1
  /\ cmd' = c
  /\ goCtx' = [d \in Cmds |-> IF d = Root \/ (d = c /\ goCtx[d].from = 0)
                             THEN [from |-> run + 1, state |-> 0, handled |-> FALSE]
                             ELSE goCtx[d]]
  /\ pc' = "resolve"
  /\ err' = NoErr
  /\ called' = <<>>
  /\ atStart' = globals
  /\ UNCHANGED <<spec, hasHooks, globals, left>>

\* Cobra parses the arguments and newContext resolves them.
Refused ==
  /\ pc = "resolve"
  /\ err' = [from |-> "resolve", number |-> 0]
  /\ pc' = "end"
  /\ UNCHANGED <<callVars, globals, goCtx, left, called>>

\* globalHooks copies the slice.
Resolved ==
  /\ pc = "resolve"
  /\ left' = globals
  /\ pc' = "global"
  /\ UNCHANGED <<callVars, globals, goCtx, err, called>>

\* One call of a user function of the current loop.
Kinds == {"global", "preRun", "validation", "handler", "postRun"}
Outcomes == {"nil", "handled", "error"}
Count(kind) == Cardinality({i \in DOMAIN called : called[i].kind = kind})
Number(kind) == Count(kind) + 1
Call(kind, o) ==
  /\ pc = kind /\ left > 0
  /\ called' = Append(called, [kind |-> kind, number |-> Number(kind), out |-> o])
Goes(o) == o = "nil" /\ left' = left - 1 /\ UNCHANGED <<pc, err>>
Error(kind) == [from |-> kind, number |-> Number(kind)]
Fails(kind) == err' = Error(kind) /\ pc' = "end" /\ left' = 0

\* SetContext: the command's context now carries the runState of this run.
Attach(h) ==
  goCtx' = [goCtx EXCEPT ![cmd] = [from |-> @.from, state |-> run, handled |-> h]]

GlobalHook(o) ==
  /\ Call("global", o)
  /\ \/ Goes(o) /\ UNCHANGED goCtx
     \/ o = "handled" /\ Attach(TRUE) /\ pc' = "runE" /\ left' = 0 /\ UNCHANGED err
     \/ o = "error" /\ Fails("global") /\ UNCHANGED goCtx
  /\ UNCHANGED <<callVars, globals>>

\* (A mutant: a context that carries a runState keeps it.)
GlobalsDoneKeepsState ==
  /\ pc = "global" /\ left = 0
  /\ IF goCtx[cmd].state = 0 THEN Attach(FALSE) ELSE UNCHANGED goCtx
  /\ pc' = "runE"
  /\ UNCHANGED <<callVars, globals, left, err, called>>

GlobalsDone ==
  /\ pc = "global" /\ left = 0
  /\ Attach(FALSE)
  /\ pc' = "runE"
  /\ UNCHANGED <<callVars, globals, left, err, called>>

-----------------------------------------------------------------------------
(* RunE of the command.                                                    *)

\* (A mutant: a command without a handler has nothing to call.)
PrintsHelpNoHandler(c) == ~spec[c].run

PrintsHelp(c) == ~spec[c].run /\ ~hasHooks[c]

\* (A mutant: RunE does not look at the handled flag.)
RunEHandledIgnored ==
  /\ pc = "runE"
  /\ IF PrintsHelp(cmd)
     THEN pc' = "end" /\ UNCHANGED left
     ELSE pc' = "preRun" /\ left' = spec[cmd].preRun
  /\ UNCHANGED <<callVars, globals, goCtx, err, called>>

\* The runState is taken from the context; a handled run and a command with
\* nothing to call end here.
RunE ==
  /\ pc = "runE"
  /\ IF goCtx[cmd].handled \/ PrintsHelp(cmd)
     THEN pc' = "end" /\ UNCHANGED left
     ELSE pc' = "preRun" /\ left' = spec[cmd].preRun
  /\ UNCHANGED <<callVars, globals, goCtx, err, called>>

\* The next loop of RunE, over the hooks of that kind.
Loop(from, to, n) ==
  /\ pc = from /\ left = 0
  /\ pc' = to
  /\ left' = n
  /\ UNCHANGED <<callVars, globals, goCtx, err, called>>

PreRun(o) ==
  /\ Call("preRun", o)
  /\ \/ Goes(o)
     \/ o = "handled" /\ pc' = "end" /\ left' = 0 /\ UNCHANGED err
     \/ o = "error" /\ Fails("preRun")
  /\ UNCHANGED <<callVars, globals, goCtx>>

PreRunDone == Loop("preRun", "validation", spec[cmd].validations)

\* ErrHandled is an error like any other here.
Validation(o) ==
  /\ Call("validation", o)
  /\ Goes(o) \/ (o # "nil" /\ Fails("validation"))
  /\ UNCHANGED <<callVars, globals, goCtx>>

ValidationDone == Loop("validation", "handler", IF spec[cmd].run THEN 1 ELSE 0)

Handler(o) ==
  /\ Call("handler", o)
  /\ Goes(o) \/ (o # "nil" /\ err' = Error("handler") /\ left' = 0 /\ UNCHANGED pc)
  /\ UNCHANGED <<callVars, globals, goCtx>>

HandlerDone == Loop("handler", "postRun", spec[cmd].postRun)

\* (A mutant: a later error replaces an earlier one.)
PostRunLastError(o) ==
  /\ Call("postRun", o)
  /\ left' = left - 1
  /\ err' = IF o # "nil" THEN Error("postRun") ELSE err
  /\ UNCHANGED <<callVars, globals, goCtx, pc>>

\* Every postRun hook is called, and the first error kept.
PostRun(o) ==
  /\ Call("postRun", o)
  /\ left' = left - 1
  /\ err' = IF o # "nil" /\ err = NoErr THEN Error("postRun") ELSE err
  /\ UNCHANGED <<callVars, globals, goCtx, pc>>

PostRunDone == Loop("postRun", "end", 0)

\* Run calls the error handler or prints the error, and returns err.
Return ==
  /\ pc = "end"
  /\ pc' = "idle"
  /\ UNCHANGED <<callVars, globals, goCtx, left, err, called>>

UserFunction(o) ==
  \/ GlobalHook(o)
  \/ PreRun(o)
  \/ Validation(o)
  \/ Handler(o)
  \/ PostRun(o)

Next ==
  \/ OnPreRunGlobal
  \/ \E c \in Cmds : OnPreRun(c) \/ OnValidate(c) \/ OnPostRun(c) \/ Run(c)
  \/ Refused
  \/ Resolved
  \/ \E o \in Outcomes : UserFunction(o)
  \/ GlobalsDone \/ RunE \/ PreRunDone \/ ValidationDone \/ HandlerDone \/ PostRunDone
  \/ Return

Spec == Init /\ [][Next]_vars

-----------------------------------------------------------------------------
(* Properties.                                                             *)

Running == {"runE", "preRun", "validation", "handler", "postRun"}

\* The values of the variables; the registration is frozen from the first
\* run on, and no hook is pending outside a loop.
TypeOK ==
  /\ spec \in [Cmds -> Spec0]
  /\ hasHooks \in [Cmds -> BOOLEAN]
  /\ globals \in 0..MaxGlobals
  /\ run \in 0..MaxRuns
  /\ frozen \in BOOLEAN
  /\ frozen <=> run > 0
  /\ goCtx \in [Cmds -> [from : 0..run, state : 0..run, handled : BOOLEAN]]
  /\ cmd \in Cmds
  /\ pc \in {"idle", "resolve", "runE", "end"} \cup Kinds
  /\ left \in Nat
  /\ pc \notin Kinds => left = 0
  /\ err \in [from : {"none", "resolve"} \cup Kinds, number : Nat]
  /\ called \in Seq([kind : Kinds, number : Nat \ {0}, out : Outcomes])
  /\ atStart \in 0..globals

Stops(f) == f.out # "nil" /\ f.kind \in {"global", "preRun", "validation"}

\* Once a hook before the handler has returned ErrHandled or an error, the
\* run calls no other function (app.go:622-625, 1040-1068).
StoppedRunsStop == \A i \in DOMAIN called : Stops(called[i]) => i = Len(called)

\* A run that nothing stopped has called everything there was to call: the
\* global hooks of its start, those an earlier run registered among them,
\* and every hook and the handler of the command. A handler that was called,
\* whatever it returned, is followed by every postRun hook
\* (command.go:348-350).
EverythingCalled ==
  pc = "end" =>
    /\ err.from # "resolve" /\ (\A i \in DOMAIN called : ~Stops(called[i])) =>
         /\ Count("global") >= atStart
         /\ spec[cmd].run \/ hasHooks[cmd] =>
              /\ Count("preRun") = spec[cmd].preRun
              /\ Count("validation") = spec[cmd].validations
              /\ Count("handler") = IF spec[cmd].run THEN 1 ELSE 0
    /\ Count("handler") = 1 => Count("postRun") = spec[cmd].postRun

\* Run returns the error of the first function that returned one, and nil
\* when none did: a failing handler's is not lost behind those of the postRun
\* hooks that are called all the same.  This speaks of the runs in which only
\* pre-run hooks returned ErrHandled (errors.go:32-36), not of those in which
\* a validation, a handler or a postRun hook did.
IsError(f) == f.out = "error"
HandledBeforehand ==
  \A i \in DOMAIN called : called[i].out = "handled" => called[i].kind \in {"global", "preRun"}
FirstErrorReturned ==
  pc = "end" /\ err.from # "resolve" /\ HandledBeforehand =>
    \/ err = NoErr /\ \A i \in DOMAIN called : ~IsError(called[i])
    \/ \E i \in DOMAIN called :
         /\ IsError(called[i])
         /\ \A j \in 1..(i - 1) : ~IsError(called[j])
         /\ err = [from |-> called[i].kind, number |-> called[i].number]

\* RunE finds the runState of its own run, never one that an earlier run of
\* the command left in the context Cobra keeps.
StateOfThisRun == pc \in Running => goCtx[cmd].state = run

-----------------------------------------------------------------------------
(* What a comment says, and the code does not do.                          *)

\* app.go:958-959: the ctx of Run "is the base context.Context for each
\* RunFunc".
ContextOfThisRun == pc \in Running => goCtx[cmd].from = run
=============================================================================
