--------------------------- MODULE AppRunsProofs ---------------------------
(***************************************************************************)
(* Proofs about the runs of an App, for any commands, numbers of hooks and *)
(* runs.  Five facts: the types; the runState a run reads is its own; a    *)
(* stopped run stops; the first error is the one returned; and everything  *)
(* there is to call is called.  The third needs to know that while a run   *)
(* can still call functions nothing has stopped it, which for a run on its *)
(* way into RunE depends on the handled flag it will read there.           *)
(***************************************************************************)
EXTENDS AppRuns, FiniteSetTheorems, TLAPS

\* The number of calls of a kind is a number.
LEMMA CountNat ==
  ASSUME called \in Seq([kind : Kinds, number : Nat \ {0}, out : Outcomes]),
         NEW k
  PROVE  Count(k) \in Nat /\ Number(k) \in Nat \ {0}
<1> DEFINE D == {i \in DOMAIN called : called[i].kind = k}
<1>1. IsFiniteSet(1..Len(called))
  BY FS_Interval
<1>2. D \subseteq 1..Len(called)
  OBVIOUS
<1>3. Count(k) = Cardinality(D)
  BY DEF Count
<1> HIDE DEF D
<1>4. Cardinality(D) \in Nat
  BY <1>1, <1>2, FS_Subset, FS_CardinalityType
<1> QED
  BY <1>3, <1>4 DEF Number

LEMMA InitType == Init => TypeOK
<1> SUFFICES ASSUME Init
             PROVE  TypeOK
  OBVIOUS
<1>1. hasHooks \in [Cmds -> BOOLEAN]
  <2> DEFINE Has(c) == \/ spec[c].preRun > 0
                      \/ spec[c].validations > 0
                      \/ spec[c].postRun > 0
  <2>1. hasHooks = [c \in Cmds |-> Has(c)]
    BY DEF Init
  <2>2. \A c \in Cmds : Has(c) \in BOOLEAN
    OBVIOUS
  <2> HIDE DEF Has
  <2> QED
    BY <2>1, <2>2, Zenon
<1>2. frozen \in BOOLEAN /\ (frozen <=> run > 0)
  <2>1. frozen = FALSE
    BY DEF Init
  <2>2. ~(run > 0)
    BY DEF Init
  <2> QED
    BY <2>1, <2>2
<1>3. called \in Seq([kind : Kinds, number : Nat \ {0}, out : Outcomes])
  BY DEF Init
<1>4. err \in [from : {"none", "resolve"} \cup Kinds, number : Nat]
  BY DEF Init, NoErr
<1>5. spec \in [Cmds -> Spec0] /\ cmd \in Cmds
  BY RunsAssumption DEF Init
<1>6. goCtx \in [Cmds -> [from : 0..run, state : 0..run, handled : BOOLEAN]]
  BY DEF Init
<1> QED
  BY <1>1, <1>2, <1>3, <1>4, <1>5, <1>6, RunsAssumption DEF Init, TypeOK, Kinds

\* What a call of a user function leaves typed.
LEMMA CallType ==
  ASSUME TypeOK, NEW k \in Kinds, NEW o \in Outcomes, Call(k, o)
  PROVE  called' \in Seq([kind : Kinds, number : Nat \ {0}, out : Outcomes])
<1>1. Number(k) \in Nat \ {0}
  BY CountNat DEF TypeOK
<1>2. [kind |-> k, number |-> Number(k), out |-> o]
        \in [kind : Kinds, number : Nat \ {0}, out : Outcomes]
  BY <1>1
<1> QED
  BY <1>2 DEF Call, TypeOK

\* What SetContext leaves typed: the command's entry is a whole record.
LEMMA AttachType ==
  ASSUME TypeOK, NEW h \in BOOLEAN, Attach(h)
  PROVE  goCtx' \in [Cmds -> [from : 0..run, state : 0..run, handled : BOOLEAN]]
<1> DEFINE R == [from |-> goCtx[cmd].from, state |-> run, handled |-> h]
<1>1. R \in [from : 0..run, state : 0..run, handled : BOOLEAN]
  BY RunsAssumption DEF TypeOK
<1>2. goCtx' = [goCtx EXCEPT ![cmd] = R]
  BY DEF Attach
<1> HIDE DEF R
<1> QED
  BY <1>1, <1>2 DEF TypeOK

LEMMA NextType == TypeOK /\ [Next]_vars => TypeOK'
<1> SUFFICES ASSUME TypeOK, [Next]_vars
             PROVE  TypeOK'
  OBVIOUS
<1>1. CASE OnPreRunGlobal
  BY <1>1, RunsAssumption DEF OnPreRunGlobal, TypeOK, callVars
<1>2. ASSUME NEW c \in Cmds, OnPreRun(c) \/ OnValidate(c) \/ OnPostRun(c)
      PROVE  TypeOK'
  <2>1. PICK s \in Spec0 : On(c, s)
    BY <1>2 DEF OnPreRun, OnValidate, OnPostRun, On
  <2> QED
    BY <2>1 DEF On, TypeOK
<1>3. ASSUME NEW c \in Cmds, Run(c)
      PROVE  TypeOK'
  <2>1. run' \in 0..MaxRuns /\ run' = run + 1
    BY <1>3, RunsAssumption DEF Run, TypeOK
  <2>2. goCtx' \in [Cmds -> [from : 0..run', state : 0..run', handled : BOOLEAN]]
    BY <1>3, <2>1 DEF Run, TypeOK
  <2>3. called' \in Seq([kind : Kinds, number : Nat \ {0}, out : Outcomes])
    BY <1>3 DEF Run
  <2>4. /\ frozen' \in BOOLEAN /\ (frozen' <=> run' > 0)
        /\ err' \in [from : {"none", "resolve"} \cup Kinds, number : Nat]
    BY <1>3, <2>1 DEF Run, TypeOK, NoErr
  <2>5. atStart' \in 0..globals'
    BY <1>3, RunsAssumption DEF Run, TypeOK
  <2>6. left' = 0 /\ pc' = "resolve"
    BY <1>3 DEF Run, TypeOK, Kinds
  <2>7. UNCHANGED <<spec, hasHooks, globals>> /\ cmd' \in Cmds
    BY <1>3 DEF Run
  <2> QED
    BY <2>1, <2>2, <2>3, <2>4, <2>5, <2>6, <2>7 DEF TypeOK
<1>4. CASE Refused
  BY <1>4 DEF Refused, TypeOK, callVars, Kinds
<1>5. CASE Resolved
  BY <1>5, RunsAssumption DEF Resolved, TypeOK, callVars, Kinds
<1>6. ASSUME NEW o \in Outcomes, UserFunction(o)
      PROVE  TypeOK'
  <2>1. ASSUME NEW k \in Kinds
        PROVE  Error(k) \in [from : {"none", "resolve"} \cup Kinds, number : Nat]
    BY CountNat DEF Error, TypeOK
  <2>2. CASE GlobalHook(o)
    <3>1. called' \in Seq([kind : Kinds, number : Nat \ {0}, out : Outcomes])
      BY <2>2, CallType DEF GlobalHook, Kinds
    <3>2. goCtx' \in [Cmds -> [from : 0..run, state : 0..run, handled : BOOLEAN]]
      <4>1. goCtx' = goCtx \/ Attach(TRUE)
        BY <2>2 DEF GlobalHook
      <4> QED
        BY <4>1, AttachType DEF TypeOK
    <3>3. left \in Nat /\ left > 0 /\ pc = "global"
      BY <2>2 DEF GlobalHook, Call, TypeOK
    <3>4. CASE Goes(o)
      BY <2>2, <3>1, <3>2, <3>3, <3>4 DEF Goes, GlobalHook, TypeOK, callVars, Kinds
    <3>5. CASE pc' = "runE" /\ left' = 0 /\ UNCHANGED err
      BY <2>2, <3>1, <3>2, <3>5 DEF GlobalHook, TypeOK, callVars, Kinds
    <3>6. CASE Fails("global")
      <4>1. Error("global") \in [from : {"none", "resolve"} \cup Kinds, number : Nat]
        BY <2>1 DEF Kinds
      <4>2. err' = Error("global") /\ pc' = "end" /\ left' = 0
        BY <3>6 DEF Fails
      <4>3. UNCHANGED <<callVars, globals>>
        BY <2>2 DEF GlobalHook
      <4> QED
        BY <3>1, <3>2, <4>1, <4>2, <4>3 DEF TypeOK, callVars, Kinds
    <3> QED
      BY <2>2, <3>4, <3>5, <3>6 DEF GlobalHook
  <2>3. ASSUME NEW k \in {"preRun", "validation", "handler", "postRun"},
               \/ k = "preRun" /\ PreRun(o)
               \/ k = "validation" /\ Validation(o)
               \/ k = "handler" /\ Handler(o)
               \/ k = "postRun" /\ PostRun(o)
        PROVE  TypeOK'
    <3>1. Call(k, o) /\ UNCHANGED <<callVars, globals, goCtx>>
      BY <2>3 DEF PreRun, Validation, Handler, PostRun
    <3>2. called' \in Seq([kind : Kinds, number : Nat \ {0}, out : Outcomes])
      BY <3>1, CallType DEF Kinds
    <3>3. left' \in Nat /\ pc' \in {k, "end"} /\ (pc' = "end" => left' = 0)
      BY <2>3 DEF PreRun, Validation, Handler, PostRun, Call, Goes, Fails, TypeOK
    <3>4. err' \in [from : {"none", "resolve"} \cup Kinds, number : Nat]
      <4>1. err' \in {err, Error(k)}
        BY <2>3 DEF PreRun, Validation, Handler, PostRun, Goes, Fails
      <4> QED
        BY <4>1, <2>1 DEF TypeOK, Kinds
    <3> QED
      BY <3>1, <3>2, <3>3, <3>4 DEF TypeOK, callVars, Kinds
  <2> QED
    BY <1>6, <2>2, <2>3 DEF UserFunction
<1>7. CASE GlobalsDone
  <2>1. goCtx' \in [Cmds -> [from : 0..run, state : 0..run, handled : BOOLEAN]]
    BY <1>7, AttachType DEF GlobalsDone
  <2> QED
    BY <1>7, <2>1 DEF GlobalsDone, TypeOK, callVars, Kinds
<1>8. CASE RunE
  <2>1. spec[cmd].preRun \in Nat
    BY RunsAssumption DEF TypeOK, Spec0
  <2> QED
    BY <1>8, <2>1 DEF RunE, TypeOK, callVars, Kinds
<1>9. ASSUME PreRunDone \/ ValidationDone \/ HandlerDone \/ PostRunDone
      PROVE  TypeOK'
  <2>1. PICK from \in Kinds, to \in Kinds \cup {"end"}, n \in Nat :
          Loop(from, to, n) /\ (to = "end" => n = 0)
    <3>1. spec[cmd].validations \in Nat /\ spec[cmd].postRun \in Nat
      BY RunsAssumption DEF TypeOK, Spec0
    <3> QED
      BY <1>9, <3>1 DEF PreRunDone, ValidationDone, HandlerDone, PostRunDone, Kinds
  <2> QED
    BY <2>1 DEF Loop, TypeOK, callVars, Kinds
<1>10. CASE Return
  BY <1>10 DEF Return, TypeOK, callVars, Kinds
<1>11. CASE UNCHANGED vars
  BY <1>11 DEF vars, callVars, TypeOK
<1> QED
  BY <1>1, <1>2, <1>3, <1>4, <1>5, <1>6, <1>7, <1>8, <1>9, <1>10, <1>11 DEF Next

\* The variables keep their types, and the registration is frozen from the
\* first run on.
THEOREM RunsTypeOK == Spec => []TypeOK
  BY InitType, NextType, PTL DEF Spec

-----------------------------------------------------------------------------
(* The runState of a run is its own.                                       *)

\* RunE finds the runState of its own run, never one that an earlier run of
\* the command left in the context Cobra keeps.
THEOREM RunsStateOfThisRun == Spec => []StateOfThisRun
<1>1. Init => StateOfThisRun
  BY DEF Init, StateOfThisRun, Running
<1>2. TypeOK /\ StateOfThisRun /\ [Next]_vars => StateOfThisRun'
  <2> SUFFICES ASSUME TypeOK, StateOfThisRun, [Next]_vars
               PROVE  StateOfThisRun'
    OBVIOUS
  <2>1. ASSUME UNCHANGED <<goCtx, run, cmd>>, pc' \in Running => pc \in Running
        PROVE  StateOfThisRun'
    BY <2>1 DEF StateOfThisRun
  <2>2. ASSUME NEW h, Attach(h), UNCHANGED <<run, cmd>>
        PROVE  StateOfThisRun'
    <3>1. goCtx'[cmd].state = run
      BY <2>2 DEF Attach, TypeOK
    <3> QED
      BY <2>2, <3>1 DEF StateOfThisRun
  <2>3. CASE OnPreRunGlobal
    BY <2>1, <2>3 DEF OnPreRunGlobal, callVars
  <2>4. ASSUME NEW c \in Cmds, OnPreRun(c) \/ OnValidate(c) \/ OnPostRun(c)
        PROVE  StateOfThisRun'
    BY <2>1, <2>4 DEF OnPreRun, OnValidate, OnPostRun, On
  <2>5. ASSUME NEW c \in Cmds, Run(c)
        PROVE  StateOfThisRun'
    BY <2>5 DEF Run, StateOfThisRun, Running
  <2>6. CASE Refused \/ Resolved
    BY <2>6 DEF Refused, Resolved, StateOfThisRun, Running
  <2>7. ASSUME NEW o \in Outcomes, UserFunction(o)
        PROVE  StateOfThisRun'
    <3>1. CASE GlobalHook(o)
      <4>1. CASE Attach(TRUE)
        BY <2>2, <3>1, <4>1 DEF GlobalHook, callVars
      <4>2. CASE Goes(o) \/ Fails("global")
        <5>1. pc' \in {"global", "end"}
          BY <3>1, <4>2 DEF GlobalHook, Call, Goes, Fails
        <5> QED
          BY <5>1 DEF StateOfThisRun, Running
      <4> QED
        BY <3>1, <4>1, <4>2 DEF GlobalHook
    <3>2. CASE PreRun(o)
      BY <2>1, <3>2 DEF PreRun, Call, Goes, Fails, callVars, Running
    <3>3. CASE Validation(o)
      BY <2>1, <3>3 DEF Validation, Call, Goes, Fails, callVars, Running
    <3>4. CASE Handler(o)
      BY <2>1, <3>4 DEF Handler, Call, Goes, Fails, callVars, Running
    <3>5. CASE PostRun(o)
      BY <2>1, <3>5 DEF PostRun, Call, callVars, Running
    <3> QED
      BY <2>7, <3>1, <3>2, <3>3, <3>4, <3>5 DEF UserFunction
  <2>8. CASE GlobalsDone
    BY <2>2, <2>8 DEF GlobalsDone, callVars
  <2>9. CASE RunE
    BY <2>1, <2>9 DEF RunE, callVars, Running
  <2>10. CASE PreRunDone \/ ValidationDone \/ HandlerDone \/ PostRunDone
    BY <2>1, <2>10
       DEF PreRunDone, ValidationDone, HandlerDone, PostRunDone, Loop, callVars, Running
  <2>11. CASE Return
    BY <2>11 DEF Return, StateOfThisRun, Running
  <2>12. CASE UNCHANGED vars
    BY <2>1, <2>12 DEF vars, callVars
  <2> QED
    BY <2>3, <2>4, <2>5, <2>6, <2>7, <2>8, <2>9, <2>10, <2>11, <2>12 DEF Next
<1> QED
  BY <1>1, <1>2, RunsTypeOK, PTL DEF Spec

-----------------------------------------------------------------------------
(* A stopped run stops.                                                    *)

\* The run can still call functions: it is in a loop or before one, or on
\* its way into RunE, which will not see the handled flag.
CanCall ==
  \/ pc \in {"resolve", "global", "preRun", "validation", "handler", "postRun"}
  \/ pc = "runE" /\ ~goCtx[cmd].handled

\* The inductive strengthening of StoppedRunsStop: a run that can still call
\* functions has been stopped by none.
NothingStopped == \A i \in DOMAIN called : ~Stops(called[i])
StopInv == StoppedRunsStop /\ (CanCall => NothingStopped)

\* What one more call does to the history: nothing before it stops the run,
\* and when it does not either, nothing does.
LEMMA CallStops ==
  ASSUME TypeOK, StopInv, NEW k \in Kinds, NEW o \in Outcomes, Call(k, o)
  PROVE  /\ StoppedRunsStop'
         /\ o = "nil" \/ k \in {"handler", "postRun"} => NothingStopped'
<1> DEFINE f == [kind |-> k, number |-> Number(k), out |-> o]
<1>1. called' = Append(called, f) /\ f.kind = k /\ f.out = o
  BY DEF Call
<1>2. \A i \in DOMAIN called : ~Stops(called[i])
  BY DEF StopInv, CanCall, NothingStopped, Call, Kinds
<1> HIDE DEF f
<1>3. /\ Len(called') = Len(called) + 1
      /\ DOMAIN called' = 1..(Len(called) + 1)
      /\ \A i \in DOMAIN called' :
           i # Len(called') => i \in DOMAIN called /\ called'[i] = called[i]
      /\ called'[Len(called')] = f
  BY <1>1 DEF TypeOK
<1>4. \A i \in DOMAIN called' : Stops(called'[i]) => i = Len(called')
  BY <1>2, <1>3 DEF Stops
<1>5. (o = "nil" \/ k \in {"handler", "postRun"}) => ~Stops(f)
  BY <1>1 DEF Stops
<1>6. (o = "nil" \/ k \in {"handler", "postRun"}) =>
        \A i \in DOMAIN called' : ~Stops(called'[i])
  BY <1>3, <1>4, <1>5
<1> QED
  BY <1>4, <1>6 DEF StoppedRunsStop, NothingStopped, Stops

LEMMA RunsStopInv == Spec => []StopInv
<1>1. Init => StopInv
  BY DEF Init, StopInv, StoppedRunsStop, NothingStopped
<1>2. TypeOK /\ StopInv /\ [Next]_vars => StopInv'
  <2> SUFFICES ASSUME TypeOK, StopInv, [Next]_vars
               PROVE  StopInv'
    OBVIOUS
  <2>1. ASSUME UNCHANGED called, CanCall' => CanCall
        PROVE  StopInv'
    BY <2>1 DEF StopInv, StoppedRunsStop, NothingStopped, Stops
  <2>2. CASE OnPreRunGlobal
    BY <2>1, <2>2 DEF OnPreRunGlobal, callVars, CanCall
  <2>3. ASSUME NEW c \in Cmds, OnPreRun(c) \/ OnValidate(c) \/ OnPostRun(c)
        PROVE  StopInv'
    BY <2>1, <2>3 DEF OnPreRun, OnValidate, OnPostRun, On, CanCall
  <2>4. ASSUME NEW c \in Cmds, Run(c)
        PROVE  StopInv'
    BY <2>4 DEF Run, StopInv, StoppedRunsStop, NothingStopped
  <2>5. CASE Refused \/ Resolved
    BY <2>1, <2>5 DEF Refused, Resolved, CanCall
  <2>6. ASSUME NEW o \in Outcomes, UserFunction(o)
        PROVE  StopInv'
    <3>1. CASE GlobalHook(o)
      <4>1. Call("global", o)
        BY <3>1 DEF GlobalHook
      <4>2. StoppedRunsStop' /\ (o = "nil" => NothingStopped')
        BY <4>1, CallStops DEF Kinds
      <4>3. CASE o = "nil"
        BY <4>2, <4>3 DEF StopInv
      <4>4. CASE Attach(TRUE) /\ pc' = "runE"
        <5>1. goCtx'[cmd].handled /\ cmd' = cmd
          BY <3>1, <4>4 DEF Attach, GlobalHook, callVars, TypeOK
        <5> QED
          BY <4>2, <4>4, <5>1 DEF StopInv, CanCall
      <4>5. CASE pc' = "end"
        BY <4>2, <4>5 DEF StopInv, CanCall
      <4> QED
        BY <3>1, <4>3, <4>4, <4>5 DEF GlobalHook, Goes, Fails
    <3>2. ASSUME NEW k \in {"preRun", "validation"}, Call(k, o),
                 o = "nil" \/ pc' = "end"
          PROVE  StopInv'
      <4>1. StoppedRunsStop' /\ (o = "nil" => NothingStopped')
        BY <3>2, CallStops DEF Kinds
      <4> QED
        BY <3>2, <4>1 DEF StopInv, CanCall
    <3>3. CASE PreRun(o)
      BY <3>2, <3>3 DEF PreRun, Goes, Fails
    <3>4. CASE Validation(o)
      BY <3>2, <3>4 DEF Validation, Goes, Fails
    <3>5. CASE Handler(o) \/ PostRun(o)
      <4>1. PICK k \in {"handler", "postRun"} : Call(k, o)
        BY <3>5 DEF Handler, PostRun
      <4>2. StoppedRunsStop' /\ NothingStopped'
        BY <4>1, CallStops DEF Kinds
      <4> QED
        BY <4>2 DEF StopInv
    <3> QED
      BY <2>6, <3>1, <3>3, <3>4, <3>5 DEF UserFunction
  <2>7. CASE GlobalsDone
    BY <2>1, <2>7 DEF GlobalsDone, CanCall
  <2>8. CASE RunE
    BY <2>1, <2>8 DEF RunE, CanCall
  <2>9. CASE PreRunDone \/ ValidationDone \/ HandlerDone \/ PostRunDone
    BY <2>1, <2>9
       DEF PreRunDone, ValidationDone, HandlerDone, PostRunDone, Loop, CanCall
  <2>10. CASE Return
    BY <2>1, <2>10 DEF Return, CanCall
  <2>11. CASE UNCHANGED vars
    BY <2>1, <2>11 DEF vars, callVars, CanCall
  <2> QED
    BY <2>2, <2>3, <2>4, <2>5, <2>6, <2>7, <2>8, <2>9, <2>10, <2>11 DEF Next
<1> QED
  BY <1>1, <1>2, RunsTypeOK, PTL DEF Spec

\* Once a hook before the handler has returned ErrHandled or an error, the
\* run calls no other function.
THEOREM RunsStoppedRunsStop == Spec => []StoppedRunsStop
<1>1. StopInv => StoppedRunsStop
  BY DEF StopInv
<1> QED
  BY <1>1, RunsStopInv, PTL

-----------------------------------------------------------------------------
(* The first error is the one returned.                                    *)

\* What the code takes for a failure: ErrHandled too, of any function but a
\* pre-run hook.
Failed(f) == \/ f.out = "error"
             \/ f.out = "handled" /\ f.kind \notin {"global", "preRun"}

\* e is what a run that called the functions of c has to return.
First(c, e) ==
  \/ e = NoErr /\ \A i \in DOMAIN c : ~Failed(c[i])
  \/ \E i \in DOMAIN c :
       /\ Failed(c[i])
       /\ \A j \in 1..(i - 1) : ~Failed(c[j])
       /\ e = [from |-> c[i].kind, number |-> c[i].number]

\* The inductive strengthening of FirstErrorReturned: until the handler has
\* returned no error is pending, so a failing hook before it overwrites none.
NothingPending ==
  \/ pc \in {"resolve", "global", "runE", "preRun", "validation"}
  \/ pc = "handler" /\ left > 0
FirstInv ==
  /\ NothingPending => err = NoErr
  /\ err.from = "resolve" => pc \in {"end", "idle"}
  /\ err.from # "resolve" => First(called, err)

\* What one more call f does to the history of errors.
LEMMA FirstAppend ==
  ASSUME NEW c \in Seq([kind : Kinds, number : Nat \ {0}, out : Outcomes]),
         NEW e, First(c, e),
         NEW f \in [kind : Kinds, number : Nat \ {0}, out : Outcomes]
  PROVE  /\ ~Failed(f) \/ e # NoErr => First(Append(c, f), e)
         /\ Failed(f) /\ e = NoErr =>
              First(Append(c, f), [from |-> f.kind, number |-> f.number])
<1> DEFINE d == Append(c, f)
<1>1. /\ Len(c) \in Nat
      /\ DOMAIN c = 1..Len(c)
      /\ DOMAIN d = 1..(Len(c) + 1)
      /\ \A i \in DOMAIN c : d[i] = c[i]
      /\ d[Len(c) + 1] = f
  OBVIOUS
<1> HIDE DEF d
<1>2. ASSUME NEW i \in DOMAIN c, Failed(c[i]),
             \A j \in 1..(i - 1) : ~Failed(c[j]),
             e = [from |-> c[i].kind, number |-> c[i].number]
      PROVE  First(d, e)
  <2>1. i \in DOMAIN d /\ d[i] = c[i]
    BY <1>1
  <2>2. \A j \in 1..(i - 1) : j \in DOMAIN c /\ d[j] = c[j]
    BY <1>1
  <2>3. \A j \in 1..(i - 1) : ~Failed(d[j])
    BY <1>2, <2>2
  <2>4. Failed(d[i]) /\ e = [from |-> d[i].kind, number |-> d[i].number]
    BY <1>2, <2>1
  <2> QED
    BY <2>1, <2>3, <2>4 DEF First
<1>3. ASSUME e = NoErr, \A i \in DOMAIN c : ~Failed(c[i])
      PROVE  /\ ~Failed(f) => First(d, e)
             /\ Failed(f) => First(d, [from |-> f.kind, number |-> f.number])
  <2>1. CASE ~Failed(f)
    <3>1. \A i \in DOMAIN d : ~Failed(d[i])
      BY <1>1, <1>3, <2>1
    <3> QED
      BY <1>3, <2>1, <3>1 DEF First
  <2>2. CASE Failed(f)
    <3> DEFINE n == Len(c) + 1
    <3>1. n \in DOMAIN d /\ d[n] = f
      BY <1>1
    <3>2. \A j \in 1..(n - 1) : j \in DOMAIN c /\ d[j] = c[j]
      BY <1>1
    <3>3. \A j \in 1..(n - 1) : ~Failed(d[j])
      BY <1>3, <3>2
    <3> HIDE DEF n
    <3> QED
      BY <2>2, <3>1, <3>3 DEF First
  <2> QED
    BY <2>1, <2>2
<1>4. ASSUME NEW i \in DOMAIN c
      PROVE  [from |-> c[i].kind, number |-> c[i].number] # NoErr
  <2> DEFINE Calls == [kind : Kinds, number : Nat \ {0}, out : Outcomes]
  <2>1. c[i] \in Calls
    <3>1. c \in Seq(Calls) /\ i \in DOMAIN c
      OBVIOUS
    <3> HIDE DEF Calls
    <3> QED
      BY <3>1
  <2>2. c[i].kind \in Kinds
    BY <2>1
  <2> QED
    BY <2>2 DEF NoErr, Kinds
<1>5. CASE e = NoErr
  BY <1>2, <1>3, <1>4, <1>5 DEF First, d
<1>6. CASE e # NoErr
  BY <1>2, <1>6 DEF First, d
<1> QED
  BY <1>5, <1>6

\* The same for a call of a user function of the kind k.
LEMMA CallFirst ==
  ASSUME TypeOK, FirstInv, NEW k \in Kinds, NEW o \in Outcomes, Call(k, o)
  PROVE  /\ (\/ o = "nil"
             \/ o = "handled" /\ k \in {"global", "preRun"}
             \/ err # NoErr)
            => First(called', err)
         /\ err = NoErr /\ (\/ o = "error"
                            \/ o = "handled" /\ k \notin {"global", "preRun"})
            => First(called', Error(k))
<1> DEFINE f == [kind |-> k, number |-> Number(k), out |-> o]
<1>1. f \in [kind : Kinds, number : Nat \ {0}, out : Outcomes]
  BY CountNat DEF TypeOK
<1>2. called' = Append(called, f) /\ f.kind = k /\ f.out = o /\ f.number = Number(k)
  BY DEF Call
<1>3. First(called, err)
  <2>1. pc \notin {"end", "idle"}
    BY DEF Call, Kinds
  <2> QED
    BY <2>1 DEF FirstInv
<1>4. Error(k) = [from |-> f.kind, number |-> f.number]
  BY <1>2 DEF Error
<1>5. Failed(f) <=> \/ o = "error"
                    \/ o = "handled" /\ k \notin {"global", "preRun"}
  BY <1>2 DEF Failed
<1> HIDE DEF f
<1>6. /\ ~Failed(f) \/ err # NoErr => First(called', err)
      /\ Failed(f) /\ err = NoErr => First(called', Error(k))
  <2>1. called \in Seq([kind : Kinds, number : Nat \ {0}, out : Outcomes])
    BY DEF TypeOK
  <2>2. /\ ~Failed(f) \/ err # NoErr => First(Append(called, f), err)
        /\ Failed(f) /\ err = NoErr =>
             First(Append(called, f), [from |-> f.kind, number |-> f.number])
    BY <1>1, <1>3, <2>1, FirstAppend
  <2>3. called' = Append(called, f)
    BY <1>2
  <2> QED
    BY <1>4, <2>2, <2>3, Zenon
<1>7. o = "nil" \/ (o = "handled" /\ k \in {"global", "preRun"}) => ~Failed(f)
  BY <1>5
<1> QED
  BY <1>5, <1>6, <1>7

\* Run returns the error of the first function that returned one, and nil
\* when none did, in a run where only pre-run hooks returned ErrHandled.
THEOREM RunsFirstErrorReturned == Spec => []FirstErrorReturned
<1>1. Init => FirstInv
  BY DEF Init, FirstInv, First, NoErr
<1>2. TypeOK /\ FirstInv /\ [Next]_vars => FirstInv'
  <2> SUFFICES ASSUME TypeOK, FirstInv, [Next]_vars
               PROVE  FirstInv'
    OBVIOUS
  <2>1. ASSUME UNCHANGED <<called, err>>, NothingPending' => NothingPending,
               pc \in {"end", "idle"} => pc' \in {"end", "idle"}
        PROVE  FirstInv'
    BY <2>1 DEF FirstInv, First, Failed
  <2>2. CASE OnPreRunGlobal
    BY <2>1, <2>2 DEF OnPreRunGlobal, NothingPending
  <2>3. ASSUME NEW c \in Cmds, OnPreRun(c) \/ OnValidate(c) \/ OnPostRun(c)
        PROVE  FirstInv'
    BY <2>1, <2>3 DEF OnPreRun, OnValidate, OnPostRun, On, NothingPending
  <2>4. ASSUME NEW c \in Cmds, Run(c)
        PROVE  FirstInv'
    BY <2>4 DEF Run, FirstInv, First, NoErr
  <2>5. CASE Refused
    BY <2>5 DEF Refused, FirstInv, NothingPending
  <2>6. CASE Resolved
    BY <2>1, <2>6 DEF Resolved, NothingPending
  <2>7. ASSUME NEW o \in Outcomes, UserFunction(o)
        PROVE  FirstInv'
    <3>1. ASSUME NEW k \in Kinds, Call(k, o), UNCHANGED err,
                 \/ o = "nil"
                 \/ o = "handled" /\ k \in {"global", "preRun"}
                 \/ err # NoErr,
                 NothingPending' => err = NoErr
          PROVE  FirstInv'
      <4>1. First(called', err)
        BY <3>1, CallFirst
      <4>2. err.from # "resolve"
        BY <3>1 DEF FirstInv, Call, Kinds
      <4> QED
        BY <3>1, <4>1, <4>2 DEF FirstInv
    <3>2. ASSUME NEW k \in Kinds, Call(k, o), err = NoErr, err' = Error(k),
                 \/ o = "error"
                 \/ o = "handled" /\ k \notin {"global", "preRun"},
                 ~NothingPending'
          PROVE  FirstInv'
      <4>1. First(called', err')
        BY <3>2, CallFirst
      <4>2. err'.from # "resolve"
        BY <3>2 DEF Error, Kinds
      <4> QED
        BY <3>2, <4>1, <4>2 DEF FirstInv
    <3>3. ASSUME NEW k \in {"global", "preRun", "validation", "handler"}, Call(k, o)
          PROVE  err = NoErr
      BY <3>3 DEF Call, FirstInv, NothingPending
    <3>4. ASSUME NEW k \in {"global", "preRun", "validation"}, Call(k, o), Fails(k),
                 \/ o = "error"
                 \/ o = "handled" /\ k = "validation"
          PROVE  FirstInv'
      <4>1. err = NoErr
        BY <3>3, <3>4
      <4>2. ~NothingPending'
        BY <3>4 DEF Fails, NothingPending
      <4> QED
        BY <3>2, <3>4, <4>1, <4>2 DEF Fails, Kinds
    <3>5. CASE GlobalHook(o)
      <4>1. Call("global", o) /\ err = NoErr
        BY <3>3, <3>5 DEF GlobalHook
      <4> QED
        BY <3>1, <3>4, <3>5, <4>1 DEF GlobalHook, Goes, Kinds
    <3>6. CASE PreRun(o)
      <4>1. Call("preRun", o) /\ err = NoErr
        BY <3>3, <3>6 DEF PreRun
      <4> QED
        BY <3>1, <3>4, <3>6, <4>1 DEF PreRun, Goes, Kinds
    <3>7. CASE Validation(o)
      <4>1. Call("validation", o) /\ err = NoErr
        BY <3>3, <3>7 DEF Validation
      <4> QED
        BY <3>1, <3>4, <3>7, <4>1 DEF Validation, Goes, Kinds, Outcomes
    <3>8. CASE Handler(o)
      <4>1. Call("handler", o) /\ err = NoErr
        BY <3>3, <3>8 DEF Handler
      <4>2. CASE Goes(o)
        BY <3>1, <4>1, <4>2 DEF Goes, Kinds
      <4>3. CASE o # "nil" /\ err' = Error("handler") /\ left' = 0 /\ UNCHANGED pc
        <5>1. ~NothingPending'
          BY <4>1, <4>3 DEF Call, NothingPending
        <5> QED
          BY <3>2, <4>1, <4>3, <5>1 DEF Kinds, Outcomes
      <4> QED
        BY <3>8, <4>2, <4>3 DEF Handler
    <3>9. CASE PostRun(o)
      <4>1. Call("postRun", o) /\ ~NothingPending'
        BY <3>9 DEF PostRun, Call, NothingPending
      <4>2. CASE o # "nil" /\ err = NoErr
        BY <3>2, <3>9, <4>1, <4>2 DEF PostRun, Kinds, Outcomes
      <4>3. CASE ~(o # "nil" /\ err = NoErr)
        BY <3>1, <3>9, <4>1, <4>3 DEF PostRun, Kinds
      <4> QED
        BY <4>2, <4>3
    <3> QED
      BY <2>7, <3>5, <3>6, <3>7, <3>8, <3>9 DEF UserFunction
  <2>8. CASE GlobalsDone
    BY <2>1, <2>8 DEF GlobalsDone, NothingPending
  <2>9. CASE RunE
    BY <2>1, <2>9 DEF RunE, NothingPending
  <2>10. CASE PreRunDone \/ ValidationDone \/ HandlerDone \/ PostRunDone
    BY <2>1, <2>10
       DEF PreRunDone, ValidationDone, HandlerDone, PostRunDone, Loop, NothingPending
  <2>11. CASE Return
    BY <2>1, <2>11 DEF Return, NothingPending
  <2>12. CASE UNCHANGED vars
    BY <2>1, <2>12 DEF vars, callVars, NothingPending
  <2> QED
    BY <2>2, <2>3, <2>4, <2>5, <2>6, <2>7, <2>8, <2>9, <2>10, <2>11, <2>12 DEF Next
<1>3. TypeOK /\ FirstInv => FirstErrorReturned
  <2> SUFFICES ASSUME TypeOK, FirstInv PROVE FirstErrorReturned
    OBVIOUS
  <2>1. HandledBeforehand => \A i \in DOMAIN called : Failed(called[i]) <=> IsError(called[i])
    BY DEF HandledBeforehand, Failed, IsError
  <2>2. \A i \in DOMAIN called : \A j \in 1..(i - 1) : j \in DOMAIN called
    BY DEF TypeOK
  <2> QED
    BY <2>1, <2>2 DEF FirstInv, First, FirstErrorReturned
<1> QED
  BY <1>1, <1>2, <1>3, RunsTypeOK, PTL DEF Spec

-----------------------------------------------------------------------------
(* Everything there is to call is called.                                  *)

\* One more call of the kind k counts for k and for no other kind.
LEMMA CountCall ==
  ASSUME TypeOK, NEW k \in Kinds, NEW o \in Outcomes, Call(k, o), NEW j
  PROVE  Count(j)' = IF j = k THEN Count(j) + 1 ELSE Count(j)
<1> DEFINE f == [kind |-> k, number |-> Number(k), out |-> o]
           D == {i \in DOMAIN called : called[i].kind = j}
           E == {i \in DOMAIN called' : called'[i].kind = j}
           n == Len(called) + 1
<1>1. called' = Append(called, f) /\ f.kind = k
  BY DEF Call
<1> HIDE DEF f
<1>2. /\ Len(called) \in Nat /\ DOMAIN called = 1..Len(called)
      /\ DOMAIN called' = 1..n /\ called'[n] = f
      /\ \A i \in DOMAIN called : called'[i] = called[i]
  BY <1>1 DEF TypeOK
<1>3. IsFiniteSet(D) /\ Cardinality(D) \in Nat /\ n \notin D
  <2>1. IsFiniteSet(1..Len(called))
    BY <1>2, FS_Interval
  <2>2. D \subseteq 1..Len(called)
    BY <1>2
  <2> HIDE DEF D
  <2>3. n \notin 1..Len(called)
    BY <1>2
  <2> QED
    BY <2>1, <2>2, <2>3, FS_Subset, FS_CardinalityType
<1>4. E = IF j = k THEN D \cup {n} ELSE D
  BY <1>1, <1>2
<1>5. Count(j) = Cardinality(D) /\ Count(j)' = Cardinality(E)
  BY DEF Count
<1> HIDE DEF D, E, n
<1> QED
  BY <1>3, <1>4, <1>5, FS_AddElement

\* How often a hook kind of RunE, or the handler, is to be called.
RunKinds == {"preRun", "validation", "handler", "postRun"}
Due(k) ==
  CASE k = "preRun" -> spec[cmd].preRun
    [] k = "validation" -> spec[cmd].validations
    [] k = "handler" -> IF spec[cmd].run THEN 1 ELSE 0
    [] k = "postRun" -> spec[cmd].postRun

\* The loops that come before the one of the kind k.
Earlier(k) ==
  CASE k = "preRun" -> {}
    [] k = "validation" -> {"preRun"}
    [] k = "handler" -> {"preRun", "validation"}
    [] k = "postRun" -> {"preRun", "validation", "handler"}

\* The inductive strengthening of EverythingCalled: at every point of a run,
\* what its loops have called and what they have left is what is due.
GlobalsCounted ==
  /\ pc = "resolve" => called = <<>>
  /\ pc = "global" => Count("global") + left >= atStart
  /\ pc = "runE" /\ NothingStopped =>
       Count("global") >= atStart /\ ~goCtx[cmd].handled
  /\ pc \in RunKinds =>
       Count("global") >= atStart /\ (spec[cmd].run \/ hasHooks[cmd])
LoopsCounted ==
  /\ pc \in {"resolve", "global", "runE"} => \A k \in RunKinds : Count(k) = 0
  /\ pc \in RunKinds =>
       \A k \in RunKinds : Count(k) = IF k \in Earlier(pc) THEN Due(k)
                                      ELSE IF k = pc THEN Due(k) - left ELSE 0
CountInv ==
  /\ pc # "idle" => frozen
  /\ GlobalsCounted
  /\ LoopsCounted
  /\ EverythingCalled

\* What the steps outside a loop leave of the counts.
LEMMA CountSame == ASSUME UNCHANGED called, NEW k PROVE Count(k)' = Count(k)
  BY DEF Count

LEMMA DueNat ==
  ASSUME TypeOK, NEW k \in RunKinds
  PROVE  Due(k) \in Nat
  BY RunsAssumption DEF TypeOK, Spec0, Due, RunKinds

\* A call of the kind whose loop is under way, after which the loop goes on
\* with one less to call.
LEMMA CallCounted ==
  ASSUME TypeOK, CountInv, NEW k \in Kinds, NEW o \in Outcomes, Call(k, o),
         UNCHANGED callVars, pc' = pc, left' = left - 1
  PROVE  CountInv'
<1>1. pc = k /\ left \in Nat \ {0} /\ frozen
  BY DEF Call, TypeOK, CountInv, Kinds
<1>2. \A j : Count(j)' = IF j = k THEN Count(j) + 1 ELSE Count(j)
  BY CountCall
<1>3. \A j : Count(j) \in Nat
  BY CountNat DEF TypeOK
<1>4. \A j \in RunKinds : Due(j) \in Nat /\ Due(j)' = Due(j)
  BY DueNat DEF Due, callVars
<1>5. GlobalsCounted'
  BY <1>1, <1>2, <1>3 DEF CountInv, GlobalsCounted, Kinds, RunKinds, TypeOK, callVars
<1>6. LoopsCounted'
  <2>1. CASE k = "global"
    BY <1>1, <1>2, <2>1 DEF CountInv, LoopsCounted, RunKinds
  <2>2. CASE k \in RunKinds
    BY <1>1, <1>2, <1>3, <1>4, <2>2 DEF CountInv, LoopsCounted, RunKinds, Earlier
  <2> QED
    BY <2>1, <2>2 DEF Kinds, RunKinds
<1> QED
  BY <1>1, <1>5, <1>6 DEF CountInv, EverythingCalled, callVars, Kinds

\* A call that stops the run, before the handler is called.
LEMMA StopCounted ==
  ASSUME TypeOK, StopInv, CountInv, NEW k \in {"global", "preRun", "validation"},
         NEW o \in Outcomes, o # "nil", Call(k, o), UNCHANGED callVars,
         pc' \in {"runE", "end"}, pc' = "runE" => k = "global"
  PROVE  CountInv'
<1>1. pc = k /\ frozen /\ k \in Kinds
  BY DEF Call, CountInv, Kinds
<1>2. \A j : Count(j)' = IF j = k THEN Count(j) + 1 ELSE Count(j)
  BY <1>1, CountCall
<1>3. /\ called'[Len(called')].kind = k /\ called'[Len(called')].out = o
      /\ Len(called') \in DOMAIN called'
  BY <1>1 DEF Call, TypeOK
<1>4. ~NothingStopped'
  BY <1>3 DEF NothingStopped, Stops
<1>5. /\ Count("handler")' = 0
      /\ k = "global" => \A j \in RunKinds : Count(j)' = 0
  BY <1>1, <1>2 DEF CountInv, LoopsCounted, RunKinds, Earlier, Due
<1>6. GlobalsCounted' /\ LoopsCounted'
  BY <1>4, <1>5 DEF GlobalsCounted, LoopsCounted, RunKinds
<1>7. EverythingCalled'
  <2>1. ~\A i \in DOMAIN called' : ~Stops(called'[i])
    BY <1>4 DEF NothingStopped, Stops
  <2> QED
    BY <1>5, <2>1 DEF EverythingCalled, Stops
<1> QED
  BY <1>1, <1>6, <1>7 DEF CountInv, callVars

LEMMA UserFunctionCounted ==
  ASSUME TypeOK, StopInv, CountInv, NEW o \in Outcomes, UserFunction(o)
  PROVE  CountInv'
<1>1. ASSUME NEW k \in Kinds, Call(k, o), Goes(o), UNCHANGED callVars
      PROVE  CountInv'
  BY <1>1, CallCounted DEF Goes
<1>2. CASE GlobalHook(o)
  BY <1>1, <1>2, StopCounted DEF GlobalHook, Fails, Kinds
<1>3. CASE PreRun(o)
  BY <1>1, <1>3, StopCounted DEF PreRun, Fails, Kinds
<1>4. CASE Validation(o)
  BY <1>1, <1>4, StopCounted DEF Validation, Fails, Kinds
<1>5. CASE Handler(o)
  <2>1. left = 1
    <3>1. Count("handler") = Due("handler") - left /\ pc = "handler" /\ left > 0
      BY <1>5 DEF Handler, Call, CountInv, LoopsCounted, RunKinds, Earlier
    <3>2. Count("handler") \in Nat /\ left \in Nat /\ Due("handler") \in {0, 1}
      BY CountNat DEF TypeOK, Due
    <3> QED
      BY <3>1, <3>2
  <2>2. pc' = pc /\ left' = left - 1
    BY <1>5, <2>1 DEF Handler, Goes
  <2> QED
    BY <1>5, <2>2, CallCounted DEF Handler, Kinds
<1>6. CASE PostRun(o)
  BY <1>6, CallCounted DEF PostRun, Kinds
<1> QED
  BY <1>2, <1>3, <1>4, <1>5, <1>6 DEF UserFunction

\* A run that nothing stopped has called everything there was to call, and
\* the postRun hooks follow every handler that was called.
THEOREM RunsEverythingCalled == Spec => []EverythingCalled
<1>1. Init => StopInv /\ CountInv
  BY DEF Init, StopInv, StoppedRunsStop, NothingStopped, CountInv, GlobalsCounted,
         LoopsCounted, EverythingCalled, RunKinds
<1>2. TypeOK /\ StopInv /\ CountInv /\ [Next]_vars => CountInv'
  <2> SUFFICES ASSUME TypeOK, StopInv, CountInv, [Next]_vars
               PROVE  CountInv'
    OBVIOUS
  <2>1. ASSUME UNCHANGED <<callVars, goCtx, pc, left, err, called>>
        PROVE  CountInv'
    <3>1. /\ \A k : Count(k)' = Count(k) /\ Due(k)' = Due(k)
          /\ NothingStopped' = NothingStopped
      BY <2>1, CountSame DEF Due, callVars, NothingStopped, Stops
    <3>2. GlobalsCounted' /\ LoopsCounted'
      BY <2>1, <3>1 DEF CountInv, GlobalsCounted, LoopsCounted, callVars
    <3>3. EverythingCalled'
      BY <2>1, <3>1 DEF CountInv, EverythingCalled, callVars, Stops
    <3> QED
      BY <2>1, <3>2, <3>3 DEF CountInv, callVars
  <2>2. ASSUME UNCHANGED called
        PROVE  /\ \A k : Count(k)' = Count(k) /\ Count(k) \in Nat
               /\ NothingStopped' = NothingStopped
    BY <2>2, CountSame, CountNat DEF TypeOK, NothingStopped, Stops
  <2>3. CASE OnPreRunGlobal
    BY <2>1, <2>3 DEF OnPreRunGlobal
  <2>4. ASSUME NEW c \in Cmds, OnPreRun(c) \/ OnValidate(c) \/ OnPostRun(c)
        PROVE  CountInv'
    <3>1. pc' = "idle"
      BY <2>4 DEF CountInv, OnPreRun, OnValidate, OnPostRun, On
    <3> QED
      BY <3>1 DEF CountInv, GlobalsCounted, LoopsCounted, EverythingCalled, RunKinds
  <2>5. ASSUME NEW c \in Cmds, Run(c)
        PROVE  CountInv'
    <3>1. pc' = "resolve" /\ called' = <<>> /\ frozen'
      BY <2>5 DEF Run
    <3>2. \A k : Count(k)' = 0
      <4>1. \A k : {i \in DOMAIN called' : called'[i].kind = k} = {}
        BY <3>1
      <4> QED
        BY <4>1, FS_EmptySet DEF Count
    <3> QED
      BY <3>1, <3>2 DEF CountInv, GlobalsCounted, LoopsCounted, EverythingCalled, RunKinds
  <2>6. CASE Refused
    <3>1. Count("handler")' = 0
      BY <2>2, <2>6 DEF Refused, CountInv, LoopsCounted, RunKinds
    <3> QED
      BY <2>6, <3>1 DEF Refused, callVars, CountInv, GlobalsCounted, LoopsCounted,
                        EverythingCalled, RunKinds
  <2>7. CASE Resolved
    <3>1. Count("global")' + left' >= atStart'
      BY <2>2, <2>7, RunsAssumption DEF Resolved, TypeOK, callVars
    <3>2. \A k \in RunKinds : Count(k)' = 0
      BY <2>2, <2>7 DEF Resolved, CountInv, LoopsCounted
    <3> QED
      BY <2>7, <3>1, <3>2 DEF Resolved, callVars, CountInv, GlobalsCounted, LoopsCounted,
                              EverythingCalled, RunKinds
  <2>8. CASE \E o \in Outcomes : UserFunction(o)
    BY <2>8, UserFunctionCounted
  <2>9. CASE GlobalsDone
    <3>1. Count("global")' >= atStart' /\ ~goCtx'[cmd'].handled
      BY <2>2, <2>9 DEF GlobalsDone, Attach, TypeOK, callVars, CountInv, GlobalsCounted
    <3>2. \A k \in RunKinds : Count(k)' = 0
      BY <2>2, <2>9 DEF GlobalsDone, CountInv, LoopsCounted
    <3> QED
      BY <2>9, <3>1, <3>2 DEF GlobalsDone, callVars, CountInv, GlobalsCounted, LoopsCounted,
                              EverythingCalled, RunKinds
  <2>10. CASE RunE
    <3>1. /\ UNCHANGED <<callVars, err, called>>
          /\ \A k \in RunKinds : Count(k)' = 0
          /\ NothingStopped => Count("global")' >= atStart /\ ~goCtx[cmd].handled
          /\ frozen
      BY <2>2, <2>10 DEF RunE, CountInv, GlobalsCounted, LoopsCounted
    <3>2. CASE pc' = "end"
      <4>1. NothingStopped => ~spec[cmd].run /\ ~hasHooks[cmd]
        BY <2>10, <3>1, <3>2 DEF RunE, PrintsHelp
      <4>2. EverythingCalled'
        BY <3>1, <4>1 DEF EverythingCalled, callVars, NothingStopped, Stops, RunKinds
      <4> QED
        BY <3>1, <3>2, <4>2 DEF callVars, CountInv, GlobalsCounted, LoopsCounted, RunKinds
    <3>3. CASE pc' # "end"
      <4>1. /\ pc' = "preRun" /\ left' = Due("preRun") /\ ~goCtx[cmd].handled
            /\ spec[cmd].run \/ hasHooks[cmd]
        BY <2>10, <3>3 DEF RunE, PrintsHelp, Due
      <4>2. NothingStopped
        BY <2>10, <4>1 DEF RunE, StopInv, CanCall
      <4>3. Due("preRun")' = Due("preRun") /\ Due("preRun") \in Nat
        BY <3>1, DueNat DEF Due, callVars, RunKinds
      <4>4. LoopsCounted'
        BY <3>1, <4>1, <4>3 DEF LoopsCounted, RunKinds, Earlier
      <4> QED
        BY <3>1, <4>1, <4>2, <4>4 DEF callVars, CountInv, GlobalsCounted, EverythingCalled
    <3> QED
      BY <3>2, <3>3
  <2>11. ASSUME NEW from \in RunKinds, NEW to \in RunKinds,
                Earlier(to) = Earlier(from) \cup {from}, to \notin Earlier(to),
                Loop(from, to, Due(to))
         PROVE  CountInv'
    <3>1. /\ pc = from /\ left = 0 /\ pc' = to /\ left' = Due(to) /\ frozen
          /\ UNCHANGED <<callVars, goCtx, err, called>>
      BY <2>11 DEF Loop, CountInv, RunKinds
    <3>2. \A k \in RunKinds : Due(k)' = Due(k) /\ Due(k) \in Nat
      BY <3>1, DueNat DEF Due, callVars
    <3>3. \A k \in RunKinds : Count(k)' = IF k \in Earlier(from) \/ k = from THEN Due(k) ELSE 0
      BY <2>2, <3>1, <3>2 DEF CountInv, LoopsCounted
    <3>4. LoopsCounted'
      BY <2>11, <3>1, <3>2, <3>3 DEF LoopsCounted, RunKinds
    <3>5. GlobalsCounted'
      BY <2>2, <3>1 DEF CountInv, GlobalsCounted, RunKinds, callVars
    <3> QED
      BY <3>1, <3>4, <3>5 DEF CountInv, EverythingCalled, RunKinds, callVars
  <2>12. CASE PreRunDone
    BY <2>11, <2>12 DEF PreRunDone, RunKinds, Earlier, Due
  <2>13. CASE ValidationDone
    BY <2>11, <2>13 DEF ValidationDone, RunKinds, Earlier, Due
  <2>14. CASE HandlerDone
    BY <2>11, <2>14 DEF HandlerDone, RunKinds, Earlier, Due
  <2>15. CASE PostRunDone
    <3>1. /\ pc = "postRun" /\ left = 0 /\ pc' = "end" /\ frozen
          /\ UNCHANGED <<callVars, err, called>>
      BY <2>15 DEF PostRunDone, Loop, CountInv
    <3>2. \A k \in RunKinds : Count(k)' = Due(k)
      <4>1. Due("postRun") \in Nat
        BY DueNat DEF RunKinds
      <4> QED
        BY <2>2, <3>1, <4>1 DEF CountInv, LoopsCounted, RunKinds, Earlier
    <3>3. Count("global")' >= atStart
      BY <2>2, <3>1 DEF CountInv, GlobalsCounted, RunKinds
    <3> QED
      BY <3>1, <3>2, <3>3 DEF CountInv, GlobalsCounted, LoopsCounted, EverythingCalled,
                              RunKinds, Due, callVars
  <2>16. CASE Return
    BY <2>16 DEF Return, callVars, CountInv, GlobalsCounted, LoopsCounted,
                 EverythingCalled, RunKinds
  <2>17. CASE UNCHANGED vars
    BY <2>1, <2>17 DEF vars
  <2> QED
    BY <2>3, <2>4, <2>5, <2>6, <2>7, <2>8, <2>9, <2>10, <2>12, <2>13, <2>14, <2>15,
       <2>16, <2>17 DEF Next
<1>3. CountInv => EverythingCalled
  BY DEF CountInv
<1> QED
  BY <1>1, <1>2, <1>3, RunsTypeOK, RunsStopInv, PTL DEF Spec
=============================================================================
