---------------------------- MODULE TerminalProofs ----------------------------
(***************************************************************************)
(* Proofs about what is written to the terminal: about Stderr, and in the  *)
(* last section about SpinnerRun, for every choice of their constants.     *)
(*                                                                         *)
(* In Stderr the goroutines, attributes, styles, moves and numbers of      *)
(* handlers, runs and calls are any.  Both locks protect a promise that    *)
(* holds whenever they are free: the installed handler is of one style,    *)
(* and the frame on the screen shows the position of the bar.  What a      *)
(* goroutine in a critical section knows is what it owes at the end.  The  *)
(* attributes need no lock: an array is never written again.               *)
(***************************************************************************)
EXTENDS Stderr, SpinnerRun, SequenceTheorems, TLAPS

Pair == [badge : Styles, text : Styles]
Slice == [arr : Nat, len : Nat]
Handler == [styles : Pair, group : Seq(Groups), attrs : Slice, meant : Seq(Attrs)]

Of(S) == \E s \in Styles : S = Log!Whole(s)

BarTask == [kind : {"bar"}, at : {"lock", "move", "write"}, move : Moves, shows : Int \cup {Nil}]
LogTask == [kind : {"log"}, at : {"styles", "write", "restyle"}, h : Nat, styles : Pair \cup {Nil}]
Task == BarTask \cup LogTask \cup {Nil}
TaskOK == task \in [Workers -> Task]

\* The values, as far as the proofs need them.
LogType ==
  /\ handlers \in Seq(Handler) /\ Len(handlers) > 0
  /\ arrays \in Seq(Seq(Attrs \cup {Nil}))
  /\ lv \in 0..3

\* The slice of a handler lies in an array and says what the handler was
\* given.
SliceIn(as, h) ==
  IF h.attrs.arr = 0 THEN h.attrs.len = 0 /\ h.meant = <<>>
  ELSE /\ h.attrs.arr \in 1..Len(as)
       /\ h.attrs.len <= Len(as[h.attrs.arr])
       /\ SubSeq(as[h.attrs.arr], 1, h.attrs.len) = h.meant
SlicesOK == \A i \in 1..Len(handlers) : SliceIn(arrays, handlers[i])

\* Who restyles a handler holds the mutex; while it is free, and while some
\* other handler is restyled, the installed one is of one style.
StylesOK ==
  /\ mu = Nil => Of(handlers[1].styles)
  /\ \A w \in Workers :
       /\ task[w] # Nil /\ task[w].kind = "log" => task[w].h \in 1..Len(handlers)
       /\ Log!Logs(w, "restyle") => /\ mu = w /\ Of(task[w].styles)
                                    /\ task[w].h # 1 => Of(handlers[1].styles)
       /\ Log!Logs(w, "write") /\ task[w].h = 1 => Of(task[w].styles)

\* The frame shows the position, unless the writer has failed.
Shown == stuck \/ frame = current

\* A call that asks for a step back, or adds so much that the sum may wrap.
Asked(m) == m.op = "Set" \/ (m.op = "Add" /\ (m.n < 0 \/ m.n > MaxInt - Total))

BarOK ==
  /\ current \in 0..Total /\ frame \in 0..Total /\ stuck \in BOOLEAN
  /\ holder = Nil => Shown
  /\ \A w \in Workers :
       /\ Bar!Moving(w, "move") => holder = w /\ Shown
       /\ Bar!Moving(w, "write") =>
            /\ holder = w /\ task[w].shows = current
            /\ stuck \/ frame <= current \/ Asked(task[w].move)

\* The runs that were given a flag have a last one.
Given(n) == {k \in DOMAIN said : said[k][n] # Nil}
HasLast(n) == Given(n) # {} => \E k \in Given(n) : \A j \in Given(n) : j <= k

\* pflag holds what was last said of each flag, and a run logs accordingly.
LevelOK ==
  /\ said \in Seq(Lines) /\ \A n : HasLast(n)
  /\ pflags = [n \in {"verbose", "level"} |-> Log!LastSaid(n)]
  /\ phase = "run" => lv = Log!resolveLevel(pflags)

Inv == TaskOK /\ LogType /\ LevelOK /\ SlicesOK /\ StylesOK /\ BarOK

-----------------------------------------------------------------------------
(* What a step leaves alone.                                               *)

\* Only one goroutine takes a step.
LEMMA OneTask ==
  ASSUME TaskOK, NEW w \in Workers, NEW t \in Task, task' = [task EXCEPT ![w] = t]
  PROVE  /\ TaskOK' /\ task'[w] = t
         /\ \A v \in Workers : v # w => task'[v] = task[v]
  BY DEF TaskOK

LEMMA LevelSame ==
  ASSUME LevelOK, UNCHANGED <<lv, phase, pflags, said>>
  PROVE  LevelOK'
<1>1. lv' = lv /\ phase' = phase /\ pflags' = pflags /\ said' = said
  OBVIOUS
<1>2. /\ \A n : Log!LastSaid(n)' = Log!LastSaid(n) /\ HasLast(n)' = HasLast(n)
      /\ Log!resolveLevel(pflags)' = Log!resolveLevel(pflags)
  BY <1>1 DEF Log!LastSaid, HasLast, Given, Log!resolveLevel, Log!Debug
<1> QED
  BY <1>1, <1>2 DEF LevelOK

\* The handlers and the level, when nothing of theirs changes.
LEMMA LogSame ==
  ASSUME Inv, UNCHANGED logVars
  PROVE  (LogType /\ LevelOK /\ SlicesOK)'
<1>1. UNCHANGED <<lv, phase, pflags, said, handlers, arrays, mu>>
  BY DEF logVars
<1>2. LogType' /\ LevelOK'
  BY <1>1, LevelSame DEF Inv, LogType
<1>3. SlicesOK'
  BY <1>1 DEF Inv, SlicesOK
<1> QED
  BY <1>2, <1>3

\* The bar, when a goroutine logs.
LEMMA BarSame ==
  ASSUME Inv, UNCHANGED barVars, NEW w \in Workers, NEW t \in LogTask \cup {Nil},
         task' = [task EXCEPT ![w] = t]
  PROVE  BarOK'
<1>1. UNCHANGED <<current, holder, frame, stuck>>
  BY DEF barVars
<1>2. /\ task'[w] = t /\ \A v \in Workers : v # w => task'[v] = task[v]
      /\ t # Nil => t.kind = "log"
  BY OneTask DEF Inv, Task, LogTask
<1>3. ASSUME NEW v \in Workers
      PROVE  /\ Bar!Moving(v, "move")' => holder' = v /\ Shown'
             /\ Bar!Moving(v, "write")' =>
                  /\ holder' = v /\ task'[v].shows = current'
                  /\ stuck' \/ frame' <= current' \/ Asked(task'[v].move)
  <2>1. CASE v = w
    BY <1>2, <2>1 DEF Bar!Moving
  <2>2. CASE v # w
    BY <1>1, <1>2, <2>2 DEF Inv, BarOK, Bar!Moving, Shown
  <2> QED
    BY <2>1, <2>2
<1> QED
  BY <1>1, <1>3 DEF Inv, BarOK, Shown

\* The styles, when a goroutine moves the bar.
LEMMA StylesSame ==
  ASSUME Inv, UNCHANGED logVars, NEW w \in Workers, NEW t \in BarTask \cup {Nil},
         task' = [task EXCEPT ![w] = t]
  PROVE  StylesOK'
<1>1. UNCHANGED <<handlers, mu>>
  BY DEF logVars
<1>2. /\ task'[w] = t /\ \A v \in Workers : v # w => task'[v] = task[v]
      /\ t # Nil => t.kind = "bar"
  BY OneTask DEF Inv, Task, BarTask
<1>3. ASSUME NEW v \in Workers
      PROVE  /\ task'[v] # Nil /\ task'[v].kind = "log" => task'[v].h \in 1..Len(handlers')
             /\ Log!Logs(v, "restyle")' => /\ mu' = v /\ Of(task'[v].styles)
                                           /\ task'[v].h # 1 => Of(handlers'[1].styles)
             /\ Log!Logs(v, "write")' /\ task'[v].h = 1 => Of(task'[v].styles)
  <2>1. CASE v = w
    BY <1>2, <2>1 DEF Log!Logs
  <2>2. CASE v # w
    BY <1>1, <1>2, <2>2 DEF Inv, StylesOK, Log!Logs, Of
  <2> QED
    BY <2>1, <2>2
<1> QED
  BY <1>1, <1>3 DEF Inv, StylesOK, Of

-----------------------------------------------------------------------------
(* The bar.                                                                *)

LEMMA MovesType ==
  /\ MaxInt \in Nat /\ Total \in Nat /\ 1 <= Total /\ Total <= MaxInt
  /\ \A m \in Moves : m.op \in {"Add", "Set", "Done"} /\ m.n \in Int
                      /\ -MaxInt - 1 <= m.n /\ m.n <= MaxInt
<1>1. MaxInt \in Nat /\ Total \in 1..MaxInt
  BY StderrAssumption
<1>2. \A m \in Moves : m.op \in {"Add", "Set", "Done"} /\ m.n \in (-MaxInt - 1)..MaxInt
  BY StderrAssumption
<1> QED
  BY <1>1, <1>2

\* A sum that a machine integer holds does not wrap.
LEMMA NoWrap ==
  ASSUME NEW n \in 0..MaxInt
  PROVE  Bar!Wrapped(n) = n
<1>1. PICK a, b \in Nat : a = n + MaxInt + 1 /\ b = 2 * (MaxInt + 1) /\ a < b
  BY MovesType
<1>2. a % b = a
  BY <1>1, SMTT(30)
<1> QED
  BY <1>1, <1>2, MovesType DEF Bar!Wrapped

LEMMA WrappedInt ==
  ASSUME NEW n \in Int
  PROVE  Bar!Wrapped(n) \in Int
<1>1. PICK a, b \in Int : a = n + MaxInt + 1 /\ b = 2 * (MaxInt + 1) /\ b > 0
  BY MovesType
<1>2. a % b \in Int
  BY <1>1
<1> QED
  BY <1>1, <1>2, MovesType DEF Bar!Wrapped

LEMMA ClampedType ==
  ASSUME NEW n \in Int
  PROVE  Bar!Clamped(n) \in 0..Total
  BY MovesType DEF Bar!Clamped

LEMMA BarCallInv ==
  ASSUME Inv, NEW w \in Workers, Bar!BarCall(w), UNCHANGED logVars
  PROVE  Inv'
<1>1. PICK m \in Moves : Bar!Call(w, m)
  BY DEF Bar!BarCall
<1>2. PICK t : t = [kind |-> "bar", at |-> "lock", move |-> m, shows |-> Nil]
  OBVIOUS
<1>3. /\ task[w] = Nil /\ task' = [task EXCEPT ![w] = t]
      /\ UNCHANGED <<current, holder, frame, stuck>>
  BY <1>1, <1>2 DEF Bar!Call, Bar!barVars
<1>4. t \in BarTask /\ t.at = "lock"
  BY <1>2 DEF BarTask
<1>5. /\ TaskOK' /\ task'[w] = t
      /\ \A v \in Workers : v # w => task'[v] = task[v]
  BY <1>3, <1>4, OneTask DEF Inv, Task
<1>6. ASSUME NEW v \in Workers
      PROVE  /\ Bar!Moving(v, "move")' => holder' = v /\ Shown'
             /\ Bar!Moving(v, "write")' =>
                  /\ holder' = v /\ task'[v].shows = current'
                  /\ stuck' \/ frame' <= current' \/ Asked(task'[v].move)
  <2>1. CASE v = w
    BY <1>4, <1>5, <2>1 DEF Bar!Moving
  <2>2. CASE v # w
    BY <1>3, <1>4, <2>2 DEF Inv, BarOK, Bar!Moving, Shown
  <2> QED
    BY <2>1, <2>2
<1>7. BarOK'
  BY <1>3, <1>6 DEF Inv, BarOK, Shown
<1>8. StylesOK'
  BY <1>3, <1>4, StylesSame
<1> QED
  BY <1>5, <1>7, <1>8, LogSame DEF Inv

\* The goroutine that goes on is the one that moves the bar; no other is
\* between Lock and Render.
LEMMA BarOneMoves ==
  ASSUME Inv, NEW w \in Workers, holder = Nil \/ holder = w, NEW t \in BarTask \cup {Nil},
         task' = [task EXCEPT ![w] = t], UNCHANGED logVars,
         current' \in 0..Total, frame' \in 0..Total, stuck' \in BOOLEAN,
         holder' = Nil => Shown',
         t # Nil /\ t.at = "move" => holder' = w /\ Shown',
         t # Nil /\ t.at = "write" =>
           /\ holder' = w /\ t.shows = current'
           /\ stuck' \/ frame' <= current' \/ Asked(t.move)
  PROVE  Inv'
<1>1. /\ TaskOK' /\ task'[w] = t
      /\ \A v \in Workers : v # w => task'[v] = task[v]
  BY OneTask DEF Inv, Task
<1>2. ASSUME NEW v \in Workers
      PROVE  /\ Bar!Moving(v, "move")' => holder' = v /\ Shown'
             /\ Bar!Moving(v, "write")' =>
                  /\ holder' = v /\ task'[v].shows = current'
                  /\ stuck' \/ frame' <= current' \/ Asked(task'[v].move)
  <2>1. CASE v = w
    BY <1>1, <2>1 DEF Bar!Moving
  <2>2. CASE v # w
    <3>1. ~Bar!Moving(v, "move") /\ ~Bar!Moving(v, "write")
      BY <2>2, StderrAssumption DEF Inv, BarOK
    <3> QED
      BY <1>1, <2>2, <3>1 DEF Inv, BarOK, Bar!Moving
  <2> QED
    BY <2>1, <2>2
<1>3. BarOK'
  BY <1>2 DEF BarOK
<1> QED
  BY <1>1, <1>3, LogSame, StylesSame DEF Inv

\* What Move makes of the position.
LEMMA MovedBar ==
  ASSUME Inv, NEW w \in Workers, Bar!Move(w)
  PROVE  /\ current' \in 0..Total
         /\ current <= current' \/ Asked(task[w].move)
<1>1. PICK m \in Moves : m = task[w].move
  BY DEF Inv, TaskOK, Task, BarTask, LogTask, Bar!Move, Bar!Moving
<1>2. current \in 0..Total
  BY DEF Inv, BarOK
<1>3. CASE m.op = "Add"
  <2>1. current' = Bar!Clamped(Bar!Wrapped(current + m.n))
    BY <1>1, <1>3 DEF Bar!Move, Bar!Add
  <2>2. m.n \in Int /\ m.n <= MaxInt /\ current + m.n \in Int
    BY <1>1, <1>2, MovesType
  <2>3. current' \in 0..Total
    BY <2>1, <2>2, WrappedInt, ClampedType
  <2>4. ASSUME ~Asked(m)
        PROVE  current <= current'
    <3>1. 0 <= m.n /\ m.n <= MaxInt - Total
      BY <1>3, <2>2, <2>4, MovesType DEF Asked
    <3>2. current + m.n \in 0..MaxInt
      BY <1>2, <2>2, <3>1, MovesType
    <3>3. Bar!Wrapped(current + m.n) = current + m.n
      BY <3>2, NoWrap
    <3> QED
      BY <1>2, <2>1, <2>2, <3>1, <3>3, MovesType DEF Bar!Clamped
  <2> QED
    BY <1>1, <2>3, <2>4
<1>4. CASE m.op = "Set"
  <2>1. current' = Bar!Clamped(m.n)
    BY <1>1, <1>4 DEF Bar!Move, Bar!Set
  <2> QED
    BY <1>1, <1>4, <2>1, MovesType, ClampedType DEF Asked
<1>5. CASE m.op = "Done"
  <2>1. current' = Total
    BY <1>1, <1>5 DEF Bar!Move, Bar!Done
  <2> QED
    BY <1>2, <2>1, MovesType
<1> QED
  BY <1>1, <1>3, <1>4, <1>5, MovesType

LEMMA BarStepInv ==
  ASSUME Inv, NEW w \in Workers, Bar!BarStep(w), UNCHANGED logVars
  PROVE  Inv'
<1>1. task[w] # Nil /\ task[w] \in BarTask /\ task \in [Workers -> Task]
  BY DEF Inv, TaskOK, Task, LogTask, Bar!BarStep, Bar!Lock, Bar!Move, Bar!Render, Bar!Moving
<1>2. current \in 0..Total /\ frame \in 0..Total /\ stuck \in BOOLEAN
  BY DEF Inv, BarOK
<1>3. CASE Bar!Lock(w)
  <2>1. PICK t : t = [task[w] EXCEPT !.at = "move"]
    OBVIOUS
  <2>2. /\ holder = Nil /\ holder' = w /\ UNCHANGED <<current, frame, stuck>>
        /\ task' = [task EXCEPT ![w] = t]
    BY <1>1, <1>3, <2>1 DEF Bar!Lock, Bar!Goes
  <2>3. t \in BarTask /\ t.at = "move"
    BY <1>1, <2>1 DEF BarTask
  <2>4. Shown /\ Shown' /\ holder' # Nil
    BY <2>2, StderrAssumption DEF Inv, BarOK, Shown
  <2> QED
    BY <1>2, <2>2, <2>3, <2>4, BarOneMoves
<1>4. CASE Bar!Move(w)
  <2>1. PICK t : t = [task[w] EXCEPT !.at = "write", !.shows = current']
    OBVIOUS
  <2>2. /\ holder' = w /\ holder = w /\ UNCHANGED <<frame, stuck>> /\ Shown
        /\ task' = [task EXCEPT ![w] = t]
    BY <1>1, <1>4, <2>1 DEF Inv, BarOK, Bar!Move
  <2>3. current' \in 0..Total /\ (current <= current' \/ Asked(task[w].move))
    BY <1>4, MovedBar
  <2>4. t \in BarTask /\ t.at = "write" /\ t.shows = current' /\ t.move = task[w].move
    <3>1. PICK c \in Int : c = current'
      BY <2>3, MovesType
    <3>2. t = [task[w] EXCEPT !.at = "write", !.shows = c]
      BY <2>1, <3>1
    <3> QED
      BY <1>1, <3>1, <3>2 DEF BarTask
  <2>5. stuck' \/ frame' <= current' \/ Asked(t.move)
    BY <2>2, <2>3, <2>4 DEF Shown
  <2>6. holder' # Nil
    BY <2>2, StderrAssumption
  <2> QED
    BY <1>2, <2>2, <2>3, <2>4, <2>5, <2>6, BarOneMoves
<1>5. CASE Bar!Render(w)
  <2>1. /\ holder = w /\ task[w].shows = current
        /\ UNCHANGED current /\ task' = [task EXCEPT ![w] = Nil]
        /\ \/ ~stuck /\ frame' = task[w].shows /\ UNCHANGED stuck
           \/ stuck' = TRUE /\ UNCHANGED frame
    BY <1>5 DEF Inv, BarOK, Bar!Render
  <2>2. frame' \in 0..Total /\ stuck' \in BOOLEAN /\ Shown'
    BY <1>2, <2>1 DEF Shown
  <2> QED
    BY <1>2, <2>1, <2>2, BarOneMoves
<1> QED
  BY <1>3, <1>4, <1>5 DEF Bar!BarStep

-----------------------------------------------------------------------------
(* The handlers.                                                           *)

\* A goroutine that logs, and the installed handler keeps its styles.
LEMMA LogOneSteps ==
  ASSUME Inv, NEW w \in Workers, NEW t \in LogTask \cup {Nil},
         task' = [task EXCEPT ![w] = t], UNCHANGED barVars,
         (LogType /\ LevelOK /\ SlicesOK)',
         handlers'[1].styles = handlers[1].styles, Len(handlers') = Len(handlers), UNCHANGED mu,
         t # Nil => t.h \in 1..Len(handlers),
         t = Nil \/ (t.at # "restyle" /\ (t.at = "write" /\ t.h = 1 => Of(t.styles)))
  PROVE  Inv'
<1>1. /\ TaskOK' /\ task'[w] = t
      /\ \A v \in Workers : v # w => task'[v] = task[v]
  BY OneTask DEF Inv, Task
<1>2. ASSUME NEW v \in Workers
      PROVE  /\ task'[v] # Nil /\ task'[v].kind = "log" => task'[v].h \in 1..Len(handlers')
             /\ Log!Logs(v, "restyle")' => /\ mu' = v /\ Of(task'[v].styles)
                                           /\ task'[v].h # 1 => Of(handlers'[1].styles)
             /\ Log!Logs(v, "write")' /\ task'[v].h = 1 => Of(task'[v].styles)
  <2>1. CASE v = w
    BY <1>1, <2>1 DEF Log!Logs
  <2>2. CASE v # w
    BY <1>1, <2>2 DEF Inv, StylesOK, Log!Logs, Of
  <2> QED
    BY <2>1, <2>2
<1>3. StylesOK'
  BY <1>2 DEF Inv, StylesOK, Of
<1> QED
  BY <1>1, <1>3, BarSame DEF Inv

LEMMA ConcatParts ==
  ASSUME NEW F, NEW s \in Seq(F), NEW t \in Seq(F)
  PROVE  /\ s \o t \in Seq(F) /\ Len(s \o t) = Len(s) + Len(t) /\ Len(t) \in Nat
         /\ \A i \in 1..Len(s) : (s \o t)[i] = s[i]
  BY ConcatProperties

\* A handler is derived: it comes last, and nothing else changes but that
\* an array is new.
LEMMA DerivedInv ==
  ASSUME Inv, UNCHANGED <<task, barVars, lv, phase, pflags, said, mu>>,
         NEW h \in Handler, handlers' = Append(handlers, h),
         NEW A \in Seq(Seq(Attrs \cup {Nil})), arrays' = arrays \o A,
         SliceIn(arrays', h)
  PROVE  Inv'
<1>1. /\ handlers \in Seq(Handler) /\ Len(handlers) \in Nat \ {0}
      /\ arrays \in Seq(Seq(Attrs \cup {Nil})) /\ Len(arrays) \in Nat
  BY DEF Inv, LogType
<1>2. /\ handlers' \in Seq(Handler) /\ Len(handlers') = Len(handlers) + 1
      /\ handlers'[Len(handlers) + 1] = h
      /\ \A i \in 1..Len(handlers) : handlers'[i] = handlers[i]
  BY <1>1
<1>3. /\ arrays' \in Seq(Seq(Attrs \cup {Nil})) /\ Len(arrays') >= Len(arrays)
      /\ \A i \in 1..Len(arrays) : arrays'[i] = arrays[i]
  <2>1. /\ arrays \o A \in Seq(Seq(Attrs \cup {Nil}))
        /\ Len(arrays \o A) = Len(arrays) + Len(A) /\ Len(A) \in Nat
        /\ \A i \in 1..Len(arrays) : (arrays \o A)[i] = arrays[i]
    BY <1>1, ConcatParts
  <2> QED
    BY <1>1, <2>1
<1>4. LogType' /\ LevelOK'
  BY <1>1, <1>2, <1>3, LevelSame DEF Inv, LogType
<1>5. SlicesOK'
  <2>1. \A i \in 1..Len(handlers) : SliceIn(arrays', handlers'[i])
    <3> SUFFICES ASSUME NEW i \in 1..Len(handlers)
                 PROVE  SliceIn(arrays', handlers'[i])
      OBVIOUS
    <3> DEFINE h0 == handlers[i]
    <3>1. h0 \in Handler /\ SliceIn(arrays, h0) /\ handlers'[i] = h0
      <4>1. i \in 1..Len(handlers)
        OBVIOUS
      <4>2. SliceIn(arrays, handlers[i])
        BY <4>1 DEF Inv, SlicesOK
      <4>3. handlers[i] \in Handler
        BY <1>1, <4>1
      <4> QED
        BY <1>2, <4>1, <4>2, <4>3
    <3>2. PICK k \in Handler : k = handlers[i] /\ SliceIn(arrays, k) /\ handlers'[i] = k
      <4> HIDE DEF h0
      <4>1. h0 = handlers[i]
        BY DEF h0
      <4> QED
        BY <3>1, <4>1
    <3>3. k.attrs.arr \in 1..Len(arrays) =>
            k.attrs.arr \in 1..Len(arrays') /\ arrays'[k.attrs.arr] = arrays[k.attrs.arr]
      BY <1>1, <1>3
    <3>4. SliceIn(arrays', k)
      BY <3>2, <3>3 DEF SliceIn
    <3> QED
      BY <3>2, <3>4
  <2>2. ASSUME NEW i \in 1..Len(handlers')
        PROVE  SliceIn(arrays', handlers'[i])
    <3>1. CASE i \in 1..Len(handlers)
      BY <2>1, <3>1
    <3>2. CASE i = Len(handlers) + 1
      BY <1>2, <3>2
    <3> QED
      BY <1>1, <1>2, <3>1, <3>2
  <2> QED
    BY <2>2 DEF SlicesOK
<1>6. StylesOK'
  <2>1. \A v \in Workers : task'[v] # Nil /\ task'[v].kind = "log" =>
                             task'[v].h \in 1..Len(handlers')
    BY <1>1, <1>2 DEF Inv, StylesOK
  <2> QED
    BY <1>1, <1>2, <2>1 DEF Inv, StylesOK, Log!Logs, Of
<1>7. BarOK' /\ TaskOK'
  BY DEF Inv, BarOK, Bar!Moving, Shown, Asked, TaskOK, barVars
<1> QED
  BY <1>4, <1>5, <1>6, <1>7 DEF Inv

\* What a handler has, as a sequence.
LEMMA AttrsOfHandler ==
  ASSUME Inv, NEW i \in DOMAIN handlers
  PROVE  /\ handlers[i] \in Handler /\ SliceIn(arrays, handlers[i])
         /\ Log!AttrsOf(handlers[i]) = handlers[i].meant
         /\ Len(handlers[i].meant) = handlers[i].attrs.len
<1>1. handlers \in Seq(Handler) /\ i \in 1..Len(handlers)
  BY DEF Inv, LogType
<1>2. handlers[i] \in Handler /\ SliceIn(arrays, handlers[i])
  BY <1>1 DEF Inv, SlicesOK
<1>3. PICK h \in Handler : h = handlers[i]
  BY <1>2
<1>4. CASE h.attrs.arr = 0
  BY <1>2, <1>3, <1>4 DEF SliceIn, Log!AttrsOf
<1>5. CASE h.attrs.arr # 0
  <2>1. /\ h.attrs.arr \in 1..Len(arrays) /\ h.attrs.len \in Nat
        /\ h.attrs.len <= Len(arrays[h.attrs.arr])
        /\ SubSeq(arrays[h.attrs.arr], 1, h.attrs.len) = h.meant
    BY <1>2, <1>3, <1>5 DEF SliceIn, Handler, Slice
  <2>2. arrays[h.attrs.arr] \in Seq(Attrs \cup {Nil})
    BY <2>1 DEF Inv, LogType
  <2>3. Len(SubSeq(arrays[h.attrs.arr], 1, h.attrs.len)) = h.attrs.len
    BY <2>1, <2>2
  <2> QED
    BY <1>2, <1>3, <1>5, <2>1, <2>3 DEF Log!AttrsOf
<1> QED
  BY <1>2, <1>3, <1>4, <1>5

\* The slice of an array that begins with s.
LEMMA SliceAt ==
  ASSUME NEW F, NEW s \in Seq(F), NEW t \in Seq(F)
  PROVE  SubSeq(s \o t, 1, Len(s)) = s /\ Len(s) <= Len(s \o t)
<1>1. /\ s \o t \in Seq(F) /\ Len(s \o t) = Len(s) + Len(t) /\ Len(t) \in Nat /\ Len(s) \in Nat
      /\ \A i \in 1..Len(s) : (s \o t)[i] = s[i]
  BY ConcatParts
<1> DEFINE u == s \o t
           n == Len(s)
           b == SubSeq(u, 1, n)
<1>2. /\ b \in Seq(F) /\ Len(b) = n
      /\ \A i \in 1..n : b[i] = u[i]
  <2> HIDE DEF u
  <2>1. Len(u) \in Nat /\ n <= Len(u) /\ n \in Nat /\ u \in Seq(F)
    BY <1>1 DEF u
  <2> HIDE DEF n
  <2> QED
    BY <2>1
<1> HIDE DEF b
<1>3. b = s
  BY <1>1, <1>2, SeqEqual
<1> QED
  BY <1>1, <1>3 DEF b

More(h, a, m) == [h EXCEPT !.attrs = a, !.meant = m]
Grouped(h, a, name) == [h EXCEPT !.group = Append(h.group, name), !.attrs = a]

\* A handler with another slice, and more of it.
LEMMA HandlerMore ==
  ASSUME NEW h \in Handler, NEW a \in Slice, NEW m \in Seq(Attrs)
  PROVE  LET d == More(h, a, m) IN d \in Handler /\ d.attrs = a /\ d.meant = m
<1>1. PICK S, K, M, A : S = Pair /\ K = Seq(Groups) /\ M = Seq(Attrs) /\ A = Slice
  OBVIOUS
<1>2. h \in [styles : S, group : K, attrs : A, meant : M] /\ m \in M /\ a \in A
  BY <1>1 DEF Handler
<1>3. PICK d : d = [h EXCEPT !.attrs = a, !.meant = m]
  OBVIOUS
<1>4. d \in [styles : S, group : K, attrs : A, meant : M] /\ d.attrs = a /\ d.meant = m
  BY <1>2, <1>3
<1> QED
  BY <1>1, <1>3, <1>4 DEF Handler, More

\* A handler with another slice, and one group more.
LEMMA HandlerGrouped ==
  ASSUME NEW h \in Handler, NEW a \in Slice, NEW name \in Groups
  PROVE  LET d == Grouped(h, a, name)
         IN  d \in Handler /\ d.attrs = a /\ d.meant = h.meant
<1>1. PICK S, K, M, A : S = Pair /\ K = Seq(Groups) /\ M = Seq(Attrs) /\ A = Slice
  OBVIOUS
<1>2. h \in [styles : S, group : K, attrs : A, meant : M] /\ a \in A
  BY <1>1 DEF Handler
<1>3. h.group \in Seq(Groups)
  BY <1>1, <1>2
<1>4. PICK k \in K : k = Append(h.group, name)
  BY <1>1, <1>3, AppendProperties
<1>5. PICK d : d = [h EXCEPT !.group = k, !.attrs = a]
  OBVIOUS
<1>6. d \in [styles : S, group : K, attrs : A, meant : M] /\ d.attrs = a /\ d.meant = h.meant
  BY <1>2, <1>5
<1> QED
  BY <1>1, <1>4, <1>5, <1>6 DEF Handler, Grouped

\* WithAttrs appends to a clone.
LEMMA WithAttrsInv ==
  ASSUME Inv, NEW w \in Workers, NEW i \in DOMAIN handlers, NEW x \in Attrs,
         Log!WithAttrs(w, i, x), UNCHANGED barVars
  PROVE  Inv'
<1>1. PICK h : h = handlers[i]
  OBVIOUS
<1>2. /\ h \in Handler /\ SliceIn(arrays, h)
      /\ Log!AttrsOf(h) = h.meant /\ Len(h.meant) = h.attrs.len
  BY <1>1, AttrsOfHandler
<1>3. PICK s \in Seq(Attrs) : s = h.meant
  BY <1>2 DEF Handler
<1>4. PICK spare \in {<<>>, <<Nil>>} : arrays' = Append(arrays, Append(s, x) \o spare)
  BY <1>1, <1>2, <1>3 DEF Log!WithAttrs, Log!NewArray
<1>5. PICK u : u = Append(s, x)
  OBVIOUS
<1>6. /\ u \in Seq(Attrs) /\ u \in Seq(Attrs \cup {Nil}) /\ Len(u) = Len(s) + 1
      /\ spare \in Seq(Attrs \cup {Nil})
  <2>1. Append(s, x) \in Seq(Attrs) /\ Len(Append(s, x)) = Len(s) + 1
    BY AppendProperties
  <2>2. spare \in Seq(Attrs \cup {Nil})
    <3>1. <<>> \in Seq(Attrs \cup {Nil}) /\ <<Nil>> \in Seq(Attrs \cup {Nil})
      OBVIOUS
    <3> QED
      BY <3>1
  <2>3. u \in Seq(Attrs \cup {Nil})
    BY <1>5, AppendProperties
  <2> QED
    BY <1>5, <2>1, <2>2, <2>3
<1>7. PICK a : a = u \o spare
  OBVIOUS
<1>8. a \in Seq(Attrs \cup {Nil}) /\ SubSeq(a, 1, Len(u)) = u /\ Len(u) <= Len(a)
  BY <1>6, <1>7, SliceAt, ConcatParts
<1>9. /\ arrays \in Seq(Seq(Attrs \cup {Nil})) /\ <<a>> \in Seq(Seq(Attrs \cup {Nil}))
      /\ arrays' = Append(arrays, a)
  BY <1>4, <1>5, <1>7, <1>8 DEF Inv, LogType
<1>10. /\ arrays' = arrays \o <<a>>
       /\ Len(arrays') = Len(arrays) + 1 /\ Len(arrays) \in Nat
       /\ arrays'[Len(arrays) + 1] = a
  BY <1>9, AppendIsConcat
<1>11. PICK n \in Nat : n = Len(arrays) + 1
  BY <1>10
<1>12. PICK d : d = [h EXCEPT !.attrs = [arr |-> n, len |-> h.attrs.len + 1], !.meant = u]
  OBVIOUS
<1>13. handlers' = Append(handlers, d)
  BY <1>1, <1>3, <1>5, <1>11, <1>12 DEF Log!WithAttrs, Log!Derived
<1>14. d \in Handler /\ d.attrs.arr = n /\ d.attrs.len = Len(u) /\ d.meant = u
  <2>1. h \in Handler /\ h.attrs.len = Len(s) /\ Len(s) + 1 \in Nat
    BY <1>2, <1>3
  <2>2. PICK e : e = [arr |-> n, len |-> h.attrs.len + 1]
    OBVIOUS
  <2>3. e \in Slice /\ e.arr = n /\ e.len = Len(u)
    BY <1>6, <2>1, <2>2 DEF Slice
  <2>4. d = More(h, e, u)
    BY <1>12, <2>2 DEF More
  <2>5. d \in Handler /\ d.attrs = e /\ d.meant = u
    BY <1>6, <2>1, <2>4, <2>3, HandlerMore
  <2> QED
    BY <2>5, <2>3
<1>15. SliceIn(arrays', d)
  BY <1>8, <1>10, <1>11, <1>14 DEF SliceIn
<1>16. UNCHANGED <<task, barVars, lv, phase, pflags, said, mu>>
  BY DEF Log!WithAttrs, Log!runVars
<1> QED
  BY <1>9, <1>10, <1>13, <1>14, <1>15, <1>16, DerivedInv

\* WithGroup clones the slice, or has none to clone.
LEMMA WithGroupInv ==
  ASSUME Inv, NEW w \in Workers, NEW i \in DOMAIN handlers, NEW name \in Groups,
         Log!WithGroup(w, i, name), UNCHANGED barVars
  PROVE  Inv'
<1>1. PICK h : h = handlers[i]
  OBVIOUS
<1>2. /\ h \in Handler /\ SliceIn(arrays, h)
      /\ Log!AttrsOf(h) = h.meant /\ Len(h.meant) = h.attrs.len
  BY <1>1, AttrsOfHandler
<1>3. PICK s \in Seq(Attrs) : s = h.meant
  BY <1>2 DEF Handler
<1>4. UNCHANGED <<task, barVars, lv, phase, pflags, said, mu>>
  BY DEF Log!WithGroup, Log!runVars
<1>5. arrays \in Seq(Seq(Attrs \cup {Nil})) /\ Len(arrays) \in Nat
  BY DEF Inv, LogType
<1>6. CASE h.attrs.len = 0
  <2>1. PICK d : d = [h EXCEPT !.group = Append(h.group, name), !.attrs = [arr |-> 0, len |-> 0]]
    OBVIOUS
  <2>2. handlers' = Append(handlers, d) /\ arrays' = arrays
    BY <1>1, <1>6, <2>1 DEF Log!WithGroup, Log!NoSlice
  <2>3. s = <<>>
    BY <1>2, <1>3, <1>6
  <2>4. d \in Handler /\ d.attrs.arr = 0 /\ d.attrs.len = 0 /\ d.meant = s
    <3>1. h.meant = s /\ h \in Handler
      BY <1>2, <1>3
    <3> QED
      <4>1. PICK e : e = [arr |-> 0, len |-> 0]
        OBVIOUS
      <4>2. e \in Slice /\ e.arr = 0 /\ e.len = 0
        BY <4>1 DEF Slice
      <4>3. d = Grouped(h, e, name)
        BY <2>1, <4>1 DEF Grouped
      <4>4. d \in Handler /\ d.attrs = e /\ d.meant = h.meant
        BY <3>1, <4>3, <4>2, HandlerGrouped
      <4> QED
        BY <3>1, <4>4, <4>2
  <2>5. SliceIn(arrays', d)
    BY <2>3, <2>4 DEF SliceIn
  <2>6. <<>> \in Seq(Seq(Attrs \cup {Nil})) /\ arrays' = arrays \o <<>>
    BY <1>5, <2>2, ConcatEmptySeq
  <2> QED
    BY <1>4, <2>2, <2>4, <2>5, <2>6, DerivedInv
<1>7. CASE h.attrs.len # 0
  <2>1. PICK n \in Nat : n = Len(arrays) + 1
    BY <1>5
  <2>2. PICK d : d = [h EXCEPT !.group = Append(h.group, name),
                                 !.attrs = [arr |-> n, len |-> h.attrs.len]]
    OBVIOUS
  <2>3. handlers' = Append(handlers, d) /\ arrays' = Append(arrays, s)
    BY <1>1, <1>2, <1>3, <1>7, <2>1, <2>2 DEF Log!WithGroup
  <2>4. d \in Handler /\ d.attrs.arr = n /\ d.attrs.len = Len(s) /\ d.meant = s
    <3>1. h.meant = s /\ h \in Handler
      BY <1>2, <1>3
    <3>2. PICK e : e = [arr |-> n, len |-> h.attrs.len]
      OBVIOUS
    <3>3. e \in Slice /\ e.arr = n /\ e.len = Len(s)
      <4>1. h.attrs.len = Len(s) /\ Len(s) \in Nat
        BY <1>2, <1>3
      <4> QED
        BY <3>2, <4>1 DEF Slice
    <3>4. d = Grouped(h, e, name)
      BY <2>2, <3>2 DEF Grouped
    <3>5. d \in Handler /\ d.attrs = e /\ d.meant = h.meant
      BY <3>1, <3>4, <3>3, HandlerGrouped
    <3> QED
      BY <3>1, <3>5, <3>3
  <2>5. s \in Seq(Attrs \cup {Nil}) /\ <<s>> \in Seq(Seq(Attrs \cup {Nil}))
    BY <1>3
  <2>6. /\ arrays' = arrays \o <<s>>
        /\ Len(arrays') = Len(arrays) + 1 /\ arrays'[n] = s
    BY <1>5, <2>1, <2>3, <2>5, AppendIsConcat
  <2>7. SubSeq(s, 1, Len(s)) = s
    BY SubSeqFull
  <2>8. SliceIn(arrays', d)
    BY <1>5, <2>1, <2>4, <2>6, <2>7 DEF SliceIn
  <2> QED
    BY <1>4, <2>3, <2>4, <2>5, <2>6, <2>8, DerivedInv
<1> QED
  BY <1>6, <1>7

\* A record is asked for, and its goroutine goes on to read the styles.
LEMMA LogInv ==
  ASSUME Inv, NEW w \in Workers, NEW i \in DOMAIN handlers, NEW level,
         Log!Log(w, i, level), UNCHANGED barVars
  PROVE  Inv'
<1>1. PICK t : t = [kind |-> "log", at |-> "styles", h |-> i, styles |-> Nil]
  OBVIOUS
<1>2. task' = [task EXCEPT ![w] = t] /\ UNCHANGED logVars
  BY <1>1 DEF Log!Log, Log!Begins, Log!logVars, logVars
<1>3. i \in Nat
  BY DEF Inv, LogType
<1>4. t \in LogTask /\ t.at = "styles"
  BY <1>1, <1>3 DEF LogTask
<1>5. (LogType /\ LevelOK /\ SlicesOK)'
  BY <1>2, LogSame
<1>6. UNCHANGED <<handlers, mu>> /\ t.h \in 1..Len(handlers)
  BY <1>1, <1>2 DEF Inv, LogType, logVars
<1> QED
  BY <1>2, <1>4, <1>5, <1>6, LogOneSteps

\* The styles are copied while nobody has the mutex.
LEMMA HandleStylesInv ==
  ASSUME Inv, NEW w \in Workers, Log!HandleStyles(w), UNCHANGED barVars
  PROVE  Inv'
<1>1. task[w] \in LogTask /\ UNCHANGED logVars /\ mu = Nil /\ Of(handlers[1].styles)
  BY DEF Inv, TaskOK, Task, BarTask, StylesOK, Log!HandleStyles, Log!Logs, Log!logVars, logVars
<1>2. PICK t : t = [task[w] EXCEPT !.at = "write", !.styles = handlers[task[w].h].styles]
  OBVIOUS
<1>3. /\ task' = [task EXCEPT ![w] = t]
      /\ t.at = "write" /\ t.h = task[w].h /\ t.styles = handlers[task[w].h].styles
  BY <1>1, <1>2 DEF Log!HandleStyles, Inv, TaskOK, LogTask
<1>4. t \in LogTask
  <2>1. task[w].h \in 1..Len(handlers) /\ handlers \in Seq(Handler)
    BY DEF Inv, LogType, StylesOK, Log!HandleStyles, Log!Logs
  <2>2. handlers[task[w].h] \in Handler
    BY <2>1
  <2>3. PICK p \in Pair : p = handlers[task[w].h].styles
    BY <2>2 DEF Handler
  <2>4. t = [task[w] EXCEPT !.at = "write", !.styles = p]
    BY <1>2, <2>3
  <2> QED
    BY <1>1, <2>4 DEF LogTask
<1>5. (LogType /\ LevelOK /\ SlicesOK)'
  BY <1>1, LogSame
<1>6. UNCHANGED <<handlers, mu>> /\ t.h \in 1..Len(handlers)
  BY <1>1, <1>3 DEF Inv, StylesOK, Log!HandleStyles, Log!Logs, logVars
<1> QED
  BY <1>1, <1>3, <1>4, <1>5, <1>6, LogOneSteps

LEMMA HandleWriteInv ==
  ASSUME Inv, NEW w \in Workers, Log!HandleWrite(w), UNCHANGED barVars
  PROVE  Inv'
<1>1. task' = [task EXCEPT ![w] = Nil] /\ UNCHANGED logVars
  BY DEF Log!HandleWrite, Log!Ends, Log!logVars, logVars
<1>2. (LogType /\ LevelOK /\ SlicesOK)'
  BY <1>1, LogSame
<1>3. UNCHANGED <<handlers, mu>>
  BY <1>1 DEF logVars
<1> QED
  BY <1>1, <1>2, <1>3, LogOneSteps

\* A handler gets other styles.
LEMMA Restyled ==
  ASSUME Inv, NEW i \in 1..Len(handlers), NEW p \in Pair,
         handlers' = [handlers EXCEPT ![i].styles = p],
         UNCHANGED <<lv, phase, pflags, said, arrays>>
  PROVE  /\ (LogType /\ LevelOK /\ SlicesOK)'
         /\ Len(handlers') = Len(handlers)
         /\ handlers'[1].styles = IF i = 1 THEN p ELSE handlers[1].styles
<1>1. handlers \in Seq(Handler) /\ Len(handlers) > 0 /\ Len(handlers) \in Nat
  BY DEF Inv, LogType
<1>2. PICK h \in Handler : h = handlers[i]
  BY <1>1
<1>3. PICK d : d = [h EXCEPT !.styles = p]
  OBVIOUS
<1>4. d \in Handler /\ d.styles = p /\ d.attrs = h.attrs /\ d.meant = h.meant
  BY <1>3 DEF Handler
<1>5. handlers' = [handlers EXCEPT ![i] = d]
  BY <1>2, <1>3
<1>6. /\ handlers' \in Seq(Handler) /\ Len(handlers') = Len(handlers)
      /\ handlers'[i] = d /\ \A j \in 1..Len(handlers) : j # i => handlers'[j] = handlers[j]
  BY <1>1, <1>4, <1>5
<1>7. LogType' /\ LevelOK'
  BY <1>1, <1>6, LevelSame DEF Inv, LogType
<1>8. ASSUME NEW j \in 1..Len(handlers)
      PROVE  SliceIn(arrays, handlers'[j])
  <2>1. SliceIn(arrays, handlers[j])
    BY DEF Inv, SlicesOK
  <2>2. handlers'[j].attrs = handlers[j].attrs /\ handlers'[j].meant = handlers[j].meant
    BY <1>2, <1>4, <1>6
  <2> QED
    BY <2>1, <2>2 DEF SliceIn
<1>9. SlicesOK'
  BY <1>6, <1>8 DEF SlicesOK
<1> QED
  BY <1>1, <1>4, <1>6, <1>7, <1>9

LEMMA SetStylesInv ==
  ASSUME Inv, NEW w \in Workers, NEW i \in DOMAIN handlers, NEW s \in Styles,
         Log!SetStyles(w, i, s), UNCHANGED barVars
  PROVE  Inv'
<1>1. PICK t : t = [kind |-> "log", at |-> "restyle", h |-> i, styles |-> Log!Whole(s)]
  OBVIOUS
<1>2. /\ mu = Nil /\ mu' = w /\ task' = [task EXCEPT ![w] = t]
      /\ handlers' = [handlers EXCEPT ![i].styles.badge = s]
      /\ UNCHANGED <<lv, phase, pflags, said, arrays>>
  BY <1>1 DEF Log!SetStyles, Log!Begins, Log!runVars
<1>3. /\ i \in 1..Len(handlers) /\ i \in Nat /\ handlers \in Seq(Handler)
      /\ Of(handlers[1].styles)
  BY <1>2 DEF Inv, LogType, StylesOK
<1>4. PICK h \in Handler : h = handlers[i]
  BY <1>3
<1>5. h.styles \in Pair
  BY <1>4 DEF Handler
<1>6. PICK p : p = [h.styles EXCEPT !.badge = s]
  OBVIOUS
<1>7. p \in Pair
  BY <1>5, <1>6 DEF Pair
<1>8. handlers' = [handlers EXCEPT ![i].styles = p]
  BY <1>2, <1>4, <1>6
<1>9. /\ (LogType /\ LevelOK /\ SlicesOK)' /\ Len(handlers') = Len(handlers)
      /\ i # 1 => Of(handlers'[1].styles)
  BY <1>2, <1>3, <1>7, <1>8, Restyled
<1>10. Log!Whole(s) \in Pair /\ Of(Log!Whole(s))
  BY DEF Log!Whole, Pair, Of
<1>11. /\ t \in LogTask /\ t.kind = "log" /\ t.at = "restyle" /\ t.h = i
       /\ Of(t.styles)
  BY <1>1, <1>3, <1>10 DEF LogTask
<1>12. /\ TaskOK' /\ task'[w] = t
       /\ \A v \in Workers : v # w => task'[v] = task[v]
  BY <1>2, <1>11, OneTask DEF Inv, Task
<1>13. ASSUME NEW v \in Workers
       PROVE  /\ task'[v] # Nil /\ task'[v].kind = "log" => task'[v].h \in 1..Len(handlers')
              /\ Log!Logs(v, "restyle")' => /\ mu' = v /\ Of(task'[v].styles)
                                            /\ task'[v].h # 1 => Of(handlers'[1].styles)
              /\ Log!Logs(v, "write")' /\ task'[v].h = 1 => Of(task'[v].styles)
  <2>1. CASE v = w
    BY <1>2, <1>3, <1>9, <1>11, <1>12, <2>1 DEF Log!Logs
  <2>2. CASE v # w
    <3>1. ~Log!Logs(v, "restyle")
      BY <1>2, StderrAssumption DEF Inv, StylesOK
    <3> QED
      BY <1>9, <1>12, <2>2, <3>1 DEF Inv, StylesOK, Log!Logs
  <2> QED
    BY <2>1, <2>2
<1>14. StylesOK'
  BY <1>2, <1>13, StderrAssumption DEF StylesOK, Of
<1>15. BarOK'
  BY <1>2, <1>11, BarSame
<1> QED
  BY <1>9, <1>12, <1>14, <1>15 DEF Inv

LEMMA StylesSetInv ==
  ASSUME Inv, NEW w \in Workers, Log!StylesSet(w), UNCHANGED barVars
  PROVE  Inv'
<1>1. PICK t \in LogTask : t = task[w]
  BY DEF Inv, TaskOK, Task, BarTask, Log!StylesSet, Log!Logs
<1>2. /\ t.h \in 1..Len(handlers) /\ mu = w /\ Of(t.styles)
      /\ t.h # 1 => Of(handlers[1].styles)
  BY <1>1 DEF Inv, StylesOK, Log!StylesSet, Log!Logs
<1>3. PICK p \in Pair : p = t.styles
  BY <1>2 DEF Of, Log!Whole, Pair
<1>4. /\ mu' = Nil /\ task' = [task EXCEPT ![w] = Nil]
      /\ handlers' = [handlers EXCEPT ![t.h].styles = p]
      /\ UNCHANGED <<lv, phase, pflags, said, arrays>>
  BY <1>1, <1>3 DEF Log!StylesSet, Log!Ends, Log!runVars
<1>5. /\ (LogType /\ LevelOK /\ SlicesOK)' /\ Len(handlers') = Len(handlers)
      /\ Of(handlers'[1].styles)
  BY <1>2, <1>3, <1>4, Restyled
<1>6. /\ TaskOK' /\ task'[w] = Nil
      /\ \A v \in Workers : v # w => task'[v] = task[v]
  BY <1>4, OneTask DEF Inv, Task
<1>7. ASSUME NEW v \in Workers
      PROVE  /\ task'[v] # Nil /\ task'[v].kind = "log" => task'[v].h \in 1..Len(handlers')
             /\ ~Log!Logs(v, "restyle")'
             /\ Log!Logs(v, "write")' /\ task'[v].h = 1 => Of(task'[v].styles)
  <2>1. CASE v = w
    BY <1>6, <2>1 DEF Log!Logs
  <2>2. CASE v # w
    <3>1. ~Log!Logs(v, "restyle")
      BY <1>2, <2>2 DEF Inv, StylesOK
    <3> QED
      BY <1>5, <1>6, <2>2, <3>1 DEF Inv, StylesOK, Log!Logs
  <2> QED
    BY <2>1, <2>2
<1>8. StylesOK'
  BY <1>5, <1>7 DEF StylesOK, Of
<1>9. BarOK'
  BY <1>4, BarSame
<1> QED
  BY <1>5, <1>6, <1>8, <1>9 DEF Inv

-----------------------------------------------------------------------------
(* The whole.                                                              *)

\* One run more: what was last said of a flag is what its command line says, or what
\* was last said before where it says nothing.
LEMMA SaidMore ==
  ASSUME said \in Seq(Lines), NEW cmdline \in Lines, said' = Append(said, cmdline), NEW n, HasLast(n)
  PROVE  /\ Log!LastSaid(n)' = IF cmdline[n] = Nil THEN Log!LastSaid(n) ELSE cmdline[n]
         /\ HasLast(n)'
<1> DEFINE given == Given(n)
           given2 == {k \in DOMAIN said' : said'[k][n] # Nil}
           last == CHOOSE k \in given : \A j \in given : j <= k
           last2 == CHOOSE k \in given2 : \A j \in given2 : j <= k
<1>1. /\ Len(said) \in Nat /\ DOMAIN said = 1..Len(said)
      /\ DOMAIN said' = 1..(Len(said) + 1) /\ said'[Len(said) + 1] = cmdline
      /\ \A k \in 1..Len(said) : said'[k] = said[k]
  OBVIOUS
<1>2. /\ Log!LastSaid(n) = IF given = {} THEN Nil ELSE said[last][n]
      /\ Log!LastSaid(n)' = IF given2 = {} THEN Nil ELSE said'[last2][n]
      /\ Given(n)' = given2
  BY DEF Log!LastSaid, Given
<1>3. CASE cmdline[n] = Nil
  <2>1. given2 = given /\ given \subseteq 1..Len(said)
    BY <1>1, <1>3 DEF Given
  <2>2. last2 = last
    BY <2>1
  <2>3. given # {} => last \in given
    BY DEF HasLast
  <2>4. HasLast(n)'
    BY <1>2, <2>1 DEF HasLast
  <2> HIDE DEF given, given2, last, last2
  <2>5. given # {} => said'[last2][n] = said[last][n]
    BY <1>1, <2>1, <2>2, <2>3
  <2>6. Log!LastSaid(n)' = Log!LastSaid(n)
    <3>1. CASE given = {}
      BY <1>2, <2>1, <3>1
    <3>2. CASE given # {}
      BY <1>2, <2>1, <2>5, <3>2
    <3> QED
      BY <3>1, <3>2
  <2> QED
    BY <1>3, <2>4, <2>6
<1>4. CASE cmdline[n] # Nil
  <2>1. /\ given2 = given \cup {Len(said) + 1}
        /\ \A k \in given : k \in Nat /\ k < Len(said) + 1
    BY <1>1, <1>4 DEF Given
  <2>2. last2 = Len(said) + 1
    BY <1>1, <2>1
  <2>3. HasLast(n)'
    BY <1>1, <1>2, <2>1 DEF HasLast
  <2> HIDE DEF given, given2, last, last2
  <2> QED
    BY <1>1, <1>2, <1>4, <2>1, <2>2, <2>3
<1> QED
  BY <1>3, <1>4

LEMMA AppStepInv ==
  ASSUME Inv, Log!AppStep, UNCHANGED barVars
  PROVE  Inv'
<1>1. UNCHANGED <<task, handlers, arrays, mu, current, holder, frame, stuck>>
  BY DEF Log!AppStep, Log!RunBegins, Log!LevelHook, Log!RunEnds, barVars
<1>2. lv' \in 0..3 /\ LevelOK'
  <2>1. CASE \E cmdline \in Lines : Log!RunBegins(cmdline)
    <3>1. PICK cmdline \in Lines : Log!RunBegins(cmdline)
      BY <2>1
    <3>2. /\ said' = Append(said, cmdline) /\ lv' = lv /\ phase' = "hooks"
          /\ pflags' = [n \in {"verbose", "level"} |-> IF cmdline[n] = Nil THEN pflags[n] ELSE cmdline[n]]
      BY <3>1 DEF Log!RunBegins
    <3>3. /\ said \in Seq(Lines) /\ \A n : HasLast(n)
          /\ pflags = [n \in {"verbose", "level"} |-> Log!LastSaid(n)]
      BY DEF Inv, LevelOK
    <3>4. \A n : /\ Log!LastSaid(n)' = IF cmdline[n] = Nil THEN Log!LastSaid(n) ELSE cmdline[n]
                 /\ HasLast(n)'
      BY <3>2, <3>3, SaidMore
    <3>5. pflags' = [n \in {"verbose", "level"} |-> Log!LastSaid(n)']
      BY <3>2, <3>3, <3>4
    <3>6. said' \in Seq(Lines)
      BY <3>2, <3>3
    <3> QED
      BY <3>2, <3>4, <3>5, <3>6 DEF LevelOK, Inv, LogType
  <2>2. CASE Log!LevelHook
    <3>1. /\ pflags' = pflags /\ said' = said
          /\ \/ phase' = "run" /\ lv' = Log!resolveLevel(pflags) /\ lv' \in 0..3
             \/ phase' = "idle" /\ lv' = lv
      BY <2>2 DEF Log!LevelHook, Log!Levels
    <3>2. /\ \A n : Log!LastSaid(n)' = Log!LastSaid(n) /\ HasLast(n)' = HasLast(n)
          /\ Log!resolveLevel(pflags)' = Log!resolveLevel(pflags)
      BY <3>1 DEF Log!LastSaid, Log!resolveLevel, Log!Debug, HasLast, Given
    <3> QED
      BY <3>1, <3>2 DEF Inv, LogType, LevelOK
  <2>3. CASE Log!RunEnds
    <3>1. /\ pflags' = pflags /\ said' = said /\ phase' = "idle" /\ lv' = lv
      BY <2>3 DEF Log!RunEnds
    <3>2. \A n : Log!LastSaid(n)' = Log!LastSaid(n) /\ HasLast(n)' = HasLast(n)
      BY <3>1 DEF Log!LastSaid, HasLast, Given
    <3> QED
      BY <3>1, <3>2 DEF Inv, LogType, LevelOK
  <2> QED
    BY <2>1, <2>2, <2>3 DEF Log!AppStep
<1>3. LogType' /\ TaskOK' /\ SlicesOK'
  BY <1>1, <1>2 DEF Inv, LogType, TaskOK, SlicesOK
<1>4. StylesOK' /\ BarOK'
  BY <1>1 DEF Inv, StylesOK, Log!Logs, BarOK, Bar!Moving, Shown
<1> QED
  BY <1>2, <1>3, <1>4 DEF Inv

LEMMA InitInv ==
  ASSUME Init
  PROVE  Inv
<1>1. /\ task = [w \in Workers |-> Nil] /\ current = 0 /\ frame = 0 /\ holder = Nil
      /\ stuck = FALSE /\ lv = Base /\ phase = "idle" /\ arrays = <<>> /\ mu = Nil
  BY DEF Init, Bar!Init, Log!Init
<1>2. PICK s \in Styles :
        handlers = <<[styles |-> Log!Whole(s), group |-> <<>>, attrs |-> [arr |-> 0, len |-> 0],
                      meant |-> <<>>]>>
  BY DEF Init, Log!Init, Log!NoSlice
<1>3. Log!Whole(s) \in Pair /\ Of(Log!Whole(s))
  BY DEF Log!Whole, Pair, Of
<1>4. PICK h : h = [styles |-> Log!Whole(s), group |-> <<>>,
                    attrs |-> [arr |-> 0, len |-> 0], meant |-> <<>>]
  OBVIOUS
<1>5. /\ h \in Handler /\ h.styles = Log!Whole(s)
      /\ h.attrs.arr = 0 /\ h.attrs.len = 0 /\ h.meant = <<>>
  BY <1>3, <1>4 DEF Handler, Slice
<1>6. handlers \in Seq(Handler) /\ Len(handlers) = 1 /\ handlers[1] = h
  BY <1>2, <1>4, <1>5
<1>7. LogType
  BY <1>1, <1>6, StderrAssumption DEF LogType
<1>8. SlicesOK
  BY <1>5, <1>6 DEF SlicesOK, SliceIn
<1>9. StylesOK
  BY <1>1, <1>3, <1>5, <1>6 DEF StylesOK, Log!Logs
<1>10. BarOK
  <2>1. \A w \in Workers : ~Bar!Moving(w, "move") /\ ~Bar!Moving(w, "write")
    BY <1>1 DEF Bar!Moving
  <2>2. current \in 0..Total /\ frame \in 0..Total /\ stuck \in BOOLEAN /\ Shown
    <3>1. 0 \in 0..Total
      BY MovesType
    <3>2. current = 0 /\ frame = 0
      BY <1>1
    <3>3. stuck \in BOOLEAN
      BY <1>1
    <3> QED
      BY <3>1, <3>2, <3>3 DEF Shown
  <2> QED
    BY <1>1, <2>1, <2>2 DEF BarOK
<1>11. LevelOK
  <2>1. said = <<>> /\ pflags = [verbose |-> Nil, level |-> Nil] /\ phase = "idle"
    BY DEF Init, Log!Init
  <2>2. said \in Seq(Lines) /\ \A n : Log!LastSaid(n) = Nil /\ HasLast(n)
    BY <2>1 DEF Log!LastSaid, HasLast, Given
  <2>3. pflags = [n \in {"verbose", "level"} |-> Log!LastSaid(n)]
    BY <2>1, <2>2
  <2> QED
    BY <2>1, <2>2, <2>3 DEF LevelOK
<1> QED
  BY <1>1, <1>7, <1>8, <1>9, <1>10, <1>11 DEF Inv, TaskOK, Task

LEMMA NextInv ==
  ASSUME Inv, [Next]_vars
  PROVE  Inv'
<1>1. CASE UNCHANGED vars
  <2>1. UNCHANGED <<task, logVars, barVars>>
    BY <1>1 DEF vars
  <2>2. (LogType /\ LevelOK /\ SlicesOK)'
    BY <2>1, LogSame
  <2> QED
    BY <2>1, <2>2 DEF Inv, TaskOK, StylesOK, Log!Logs, BarOK, Bar!Moving, Shown, barVars, logVars
<1>2. ASSUME NEW w \in Workers, Bar!BarCall(w), UNCHANGED logVars
      PROVE  Inv'
  BY <1>2, BarCallInv
<1>3. ASSUME NEW w \in Workers, Log!LogCall(w), UNCHANGED barVars
      PROVE  Inv'
  <2>1. PICK i \in DOMAIN handlers :
          \/ \E level \in Log!Levels : Log!Log(w, i, level)
          \/ \E x \in Attrs : Log!WithAttrs(w, i, x)
          \/ \E name \in Groups : Log!WithGroup(w, i, name)
          \/ \E s \in Styles : Log!SetStyles(w, i, s)
    BY <1>3 DEF Log!LogCall
  <2> QED
    BY <1>3, <2>1, LogInv, WithAttrsInv, WithGroupInv, SetStylesInv
<1>4. ASSUME NEW w \in Workers, Step(w)
      PROVE  Inv'
  <2>1. CASE Bar!BarStep(w) /\ UNCHANGED <<calls, logVars>>
    BY <2>1, BarStepInv
  <2>2. CASE Log!LogStep(w) /\ UNCHANGED <<calls, barVars>>
    BY <2>2, HandleStylesInv, HandleWriteInv, StylesSetInv DEF Log!LogStep
  <2> QED
    BY <1>4, <2>1, <2>2 DEF Step
<1>5. CASE Log!AppStep /\ UNCHANGED <<calls, barVars>>
  BY <1>5, AppStepInv
<1> QED
  BY <1>1, <1>2, <1>3, <1>4, <1>5 DEF Next

LEMMA StderrInv == Spec => []Inv
<1>1. Init => Inv
  BY InitInv
<1>2. Inv /\ [Next]_vars => Inv'
  BY NextInv
<1> QED
  BY <1>1, <1>2, PTL DEF Spec

\* The handler of a command logs at the level that the two flags, each as the
\* last of the runs so far gave it, and WithLevel ask for, whatever an
\* earlier run left in the LevelVar (extension.Init, resolveLevel).
THEOREM StderrLevelAskedLast == Spec => []LevelAskedLast
<1>1. ASSUME Inv, phase = "run"
      PROVE  lv = IF Log!LastSaid("level") \notin {Nil, Empty} THEN Log!LastSaid("level")
                  ELSE IF Log!LastSaid("verbose") = TRUE THEN Log!Debug ELSE Base
  <2>1. /\ lv = Log!resolveLevel(pflags)
        /\ pflags.level = Log!LastSaid("level") /\ pflags.verbose = Log!LastSaid("verbose")
    BY <1>1 DEF Inv, LevelOK
  <2> QED
    BY <2>1 DEF Log!resolveLevel
<1>2. Inv => LevelAskedLast
  BY <1>1 DEF LevelAskedLast, Log!LevelAskedLast
<1> QED
  BY <1>2, StderrInv, PTL

\* Handlers derived from one parent at the same time never write into each
\* other's attributes (handler.go, WithAttrs).
THEOREM StderrSiblingsApart == Spec => []SiblingsApart
<1>1. ASSUME Inv
      PROVE  SiblingsApart
  BY <1>1, AttrsOfHandler DEF SiblingsApart, Log!SiblingsApart
<1> QED
  BY <1>1, StderrInv, PTL

\* The line a goroutine is about to write through the installed handler is of
\* one style, however SetStyles and Handle meet (handler.go).
THEOREM StderrLinesOfOneStyle == Spec => []LinesOfOneStyle
<1>1. Inv => LinesOfOneStyle
  BY DEF Inv, StylesOK, Of, LinesOfOneStyle, Log!LinesOfOneStyle
<1> QED
  BY <1>1, StderrInv, PTL

\* Only Render draws.
LEMMA FrameOfRender ==
  ASSUME Next, frame' # frame
  PROVE  \E w \in Workers : Bar!Render(w)
<1>1. ~UNCHANGED barVars
  BY DEF barVars
<1>2. PICK w \in Workers : Bar!BarCall(w) \/ Bar!BarStep(w)
  BY <1>1 DEF Next, Step
<1>3. ~Bar!BarCall(w) /\ ~Bar!Lock(w) /\ ~Bar!Move(w)
  BY DEF Bar!BarCall, Bar!Call, Bar!barVars, Bar!Lock, Bar!Move
<1> QED
  BY <1>2, <1>3 DEF Bar!BarStep

\* The bar on the screen goes back only where a goroutine asked for it, or
\* added so much that the sum wraps (progress.go).
THEOREM StderrNeverBackByItself == Spec => NeverBackByItself
<1>1. ASSUME Inv, Next, frame' < frame
      PROVE  \E w \in Workers :
               /\ Bar!Moving(w, "write")
               /\ \/ task[w].move.op = "Set"
                  \/ task[w].move.op = "Add" /\ task[w].move.n < 0
                  \/ task[w].move.op = "Add" /\ task[w].move.n > MaxInt - Total
  <2>1. frame' # frame
    BY <1>1 DEF Inv, BarOK
  <2>2. PICK w \in Workers : Bar!Render(w)
    BY <1>1, <2>1, FrameOfRender
  <2>3. Bar!Moving(w, "write") /\ ~stuck /\ frame' = current
    BY <1>1, <2>1, <2>2 DEF Bar!Render, Inv, BarOK
  <2>4. Asked(task[w].move)
    BY <1>1, <2>3, MovesType DEF Inv, BarOK
  <2> QED
    BY <2>3, <2>4 DEF Asked
<1>2. Inv /\ [Next]_vars =>
        [frame' < frame =>
           \E w \in Workers :
             /\ Bar!Moving(w, "write")
             /\ \/ task[w].move.op = "Set"
                \/ task[w].move.op = "Add" /\ task[w].move.n < 0
                \/ task[w].move.op = "Add" /\ task[w].move.n > MaxInt - Total]_(Bar!vars)
  BY <1>1 DEF vars, barVars, Bar!vars, Bar!barVars
<1> QED
  BY <1>2, StderrInv, PTL DEF Spec, NeverBackByItself, Bar!NeverBackByItself
-----------------------------------------------------------------------------
(***************************************************************************)
(* Spinner.  The properties speak of the moment it returns; what makes     *)
(* them inductive is what each place of the caller knows: where the        *)
(* function is, that the channel holds its error until the caller takes    *)
(* it, that finish is called with that error, that the title is one of     *)
(* those set since the function returned, and which failure is still on    *)
(* its way to the result.                                                  *)
(***************************************************************************)


\* The function runs exactly when it was started, and the caller has its
\* result in the channel or in the arguments of finish.
FnInv ==
  /\ pc = "options" => fn = "ready" /\ fnErr = NoErr /\ done = <<>>
  /\ pc \in {"call", "first", "loop", "drain", "final"} => fn # "ready"
  /\ pc \in {"first", "loop", "drain", "final"} => tty
  /\ pc = "call" => ~tty
  /\ fn # "returned" => fnErr = NoErr
  /\ done # <<>> => fn = "returned" /\ done = <<fnErr>>
  /\ pc = "final" => fn = "returned" /\ fin.fnErr = fnErr
  /\ pc \in {"options", "call", "first", "loop"} => fin = NoFin

\* The title, once the function has returned, is its last or a later one.
LateInv == fn = "returned" /\ ret = Pending => text \in late

\* A failed write ended the loop and is among the arguments of finish.
FailInv ==
  /\ pc \in {"options", "call", "first", "loop"} => ~failed
  /\ pc \in {"drain", "final"} => (failed <=> fin.liveErr = WriteErr)

\* The function has returned when the call has, unless it never started.
ReturnInv ==
  /\ pc = "returned" /\ fn # "returned" =>
       fn = "ready" /\ ret \in {ConfigErr, WriteErr}
  /\ pc = "returned" /\ fnErr # NoErr => ret = fnErr

SpinnerInv ==
  /\ TypeOK
  /\ FnInv
  /\ LateInv
  /\ FailInv
  /\ ReturnInv
  /\ SuccessIsEarned
  /\ WriteFailureReported

-----------------------------------------------------------------------------

LEMMA SpinnerInitInv == SpinnerInit => SpinnerInv
<1> SUFFICES ASSUME SpinnerInit PROVE SpinnerInv
  OBVIOUS
<1> USE SpinnerAssumption DEF SpinnerInit, NoFin, Blank, FnErrors, OwnErrors
<1>1. TypeOK
  BY DEF TypeOK
<1>2. FnInv /\ LateInv /\ FailInv /\ ReturnInv
  BY DEF FnInv, LateInv, FailInv, ReturnInv
<1>3. SuccessIsEarned /\ WriteFailureReported
  BY DEF SuccessIsEarned, WriteFailureReported
<1>4. QED
  BY <1>1, <1>2, <1>3 DEF SpinnerInv

\* What writeLive changes, given that the caller may go on animating.
LEMMA WriteLiveInv ==
  ASSUME SpinnerInv, NEW ok \in BOOLEAN, WriteLive(ok), pc \in {"first", "loop"},
         timer' \in {"nil", "armed", "fired"}
  PROVE  SpinnerInv'
<1> USE SpinnerAssumption DEF SpinnerInv, WriteLive, config, work, NoFin
<1>1. TypeOK'
  <2>1. line' \in [kind : {"blank", "title", "frame", "Success", "Error"},
                   title : Titles]
    BY DEF TypeOK
  <2>2. fin' \in [fnErr : FnErrors \cup {NoErr}, cancel : BOOLEAN,
                  liveErr : {NoErr, WriteErr}]
    <3>1. CASE ok
      BY <3>1 DEF TypeOK
    <3>2. CASE ~ok
      <4>1. fin' = [fnErr |-> NoErr, cancel |-> FALSE, liveErr |-> WriteErr]
        BY <3>2
      <4>2. QED
        BY <4>1
    <3>3. QED
      BY <3>1, <3>2
  <2>3. QED
    BY <2>1, <2>2 DEF TypeOK
<1>2. FnInv' /\ LateInv' /\ ReturnInv'
  BY DEF TypeOK, FnInv, LateInv, ReturnInv
<1>3. FailInv'
  BY DEF TypeOK, FnInv, FailInv
<1>4. SuccessIsEarned' /\ WriteFailureReported'
  BY DEF TypeOK, SuccessIsEarned, WriteFailureReported
<1>5. QED
  BY <1>1, <1>2, <1>3, <1>4

\* What finish makes of its arguments.
LEMMA FinishInv ==
  ASSUME SpinnerInv, NEW ok \in BOOLEAN, Finish(ok)
  PROVE  SpinnerInv'
<1> USE SpinnerAssumption DEF SpinnerInv, Finish, config, work
<1>1. /\ fin.fnErr = fnErr
      /\ fn = "returned"
      /\ fin.liveErr \in {NoErr, WriteErr}
      /\ failed <=> fin.liveErr = WriteErr
  BY DEF TypeOK, FnInv, FailInv
<1>2. ret' = IF fnErr # NoErr THEN fnErr
             ELSE IF fin.liveErr # NoErr THEN WriteErr
             ELSE IF ~ok THEN WriteErr
             ELSE IF ctx # NoErr THEN ctx
             ELSE IF fin.cancel THEN Canceled ELSE NoErr
  BY <1>1 DEF FinishResult
<1>3. line' \in [kind : {"blank", "title", "frame", "Success", "Error"},
                 title : Titles]
  BY DEF TypeOK, completionState
<1>4. TypeOK'
  BY <1>2, <1>3 DEF TypeOK, FnErrors, OwnErrors
<1>5. FnInv' /\ LateInv' /\ FailInv' /\ ReturnInv'
  BY <1>1, <1>2 DEF TypeOK, FnInv, LateInv, FailInv, ReturnInv
<1>6. SuccessIsEarned' /\ WriteFailureReported'
  BY <1>1, <1>2 DEF TypeOK, SuccessIsEarned, WriteFailureReported, FnErrors, OwnErrors
<1>7. QED
  BY <1>4, <1>5, <1>6

\* Every step keeps the invariant.
LEMMA SpinnerNextInv == SpinnerInv /\ [SpinnerNext]_spinnerVars => SpinnerInv'
<1> SUFFICES ASSUME SpinnerInv, [SpinnerNext]_spinnerVars PROVE SpinnerInv'
  OBVIOUS
<1> USE SpinnerAssumption DEF SpinnerInv, config, work
<1>1. ASSUME NEW e \in FnErrors \cup {NoErr}, FnReturns(e) PROVE SpinnerInv'
  <2>1. TypeOK'
    BY <1>1 DEF FnReturns, TypeOK
  <2>2. FnInv' /\ LateInv' /\ FailInv' /\ ReturnInv'
    BY <1>1 DEF FnReturns, TypeOK, FnInv, LateInv, FailInv, ReturnInv
  <2>3. SuccessIsEarned' /\ WriteFailureReported'
    BY <1>1 DEF FnReturns, TypeOK, FnInv, ReturnInv, SuccessIsEarned,
                WriteFailureReported, OwnErrors
  <2>4. QED
    BY <2>1, <2>2, <2>3
<1>2. ASSUME NEW t \in Titles, SetText(t) PROVE SpinnerInv'
  BY <1>2 DEF SetText, TypeOK, FnInv, LateInv, FailInv, ReturnInv, SuccessIsEarned,
              WriteFailureReported
<1>3. ASSUME NEW e \in {Canceled, Deadline}, ContextEnds(e) PROVE SpinnerInv'
  BY <1>3 DEF ContextEnds, TypeOK, FnInv, LateInv, FailInv, ReturnInv, SuccessIsEarned,
              WriteFailureReported, FnErrors, OwnErrors
<1>4. CASE DelayPasses
  BY <1>4 DEF DelayPasses, TypeOK, FnInv, LateInv, FailInv, ReturnInv, SuccessIsEarned,
              WriteFailureReported
<1>5. CASE BadOption
  BY <1>5 DEF BadOption, TypeOK, FnInv, LateInv, FailInv, ReturnInv, SuccessIsEarned,
              WriteFailureReported, FnErrors, OwnErrors
<1>6. ASSUME NEW ok \in BOOLEAN, PlainTitle(ok) PROVE SpinnerInv'
  <2>1. line' \in [kind : {"blank", "title", "frame", "Success", "Error"},
                   title : Titles]
    BY <1>6 DEF PlainTitle, TypeOK
  <2>2. TypeOK'
    <3>1. CASE ok
      BY <1>6, <2>1, <3>1 DEF PlainTitle, TypeOK
    <3>2. CASE ~ok
      BY <1>6, <2>1, <3>2 DEF PlainTitle, TypeOK, OwnErrors
    <3>3. QED
      BY <3>1, <3>2
  <2>3. FnInv' /\ LateInv' /\ FailInv' /\ ReturnInv'
    BY <1>6 DEF PlainTitle, TypeOK, FnInv, LateInv, FailInv, ReturnInv
  <2>4. SuccessIsEarned' /\ WriteFailureReported'
    BY <1>6 DEF PlainTitle, TypeOK, FnInv, SuccessIsEarned, WriteFailureReported,
                FnErrors, OwnErrors
  <2>5. QED
    BY <2>2, <2>3, <2>4
<1>7. CASE PlainReturn
  BY <1>7 DEF PlainReturn, TypeOK, FnInv, LateInv, FailInv, ReturnInv, SuccessIsEarned,
              WriteFailureReported, FnErrors, OwnErrors
<1>8. CASE StartFn
  BY <1>8 DEF StartFn, TypeOK, FnInv, LateInv, FailInv, ReturnInv, SuccessIsEarned,
              WriteFailureReported
<1>9. ASSUME NEW ok \in BOOLEAN, FirstFrame(ok) PROVE SpinnerInv'
  BY <1>9, WriteLiveInv DEF FirstFrame, TypeOK
<1>10. ASSUME NEW ok \in BOOLEAN, DelayCase(ok) PROVE SpinnerInv'
  BY <1>10, WriteLiveInv DEF DelayCase
<1>11. ASSUME NEW ok \in BOOLEAN, TickCase(ok) PROVE SpinnerInv'
  BY <1>11, WriteLiveInv DEF TickCase, TypeOK
<1>12. CASE DoneCase
  <2>1. done[1] = fnErr /\ fn = "returned"
    BY <1>12 DEF DoneCase, FnInv
  <2>2. fin' = [fnErr |-> fnErr, cancel |-> FALSE, liveErr |-> NoErr]
    BY <1>12, <2>1 DEF DoneCase, NoFin, TypeOK
  <2>3. /\ pc' = "final" /\ done' = <<>> /\ pc \in {"loop", "drain"}
        /\ UNCHANGED <<tty, delayed, fn, fnErr, text, ctx, timer, shown, line, failed, late, ret>>
    BY <1>12 DEF DoneCase
  <2>4. TypeOK'
    BY <2>2, <2>3 DEF TypeOK
  <2>5. FnInv' /\ LateInv' /\ ReturnInv'
    BY <2>1, <2>2, <2>3 DEF FnInv, LateInv, ReturnInv
  <2>6. FailInv'
    BY <1>12, <2>2, <2>3 DEF DoneCase, FailInv, OwnErrors
  <2>7. SuccessIsEarned' /\ WriteFailureReported'
    BY <2>3 DEF TypeOK, SuccessIsEarned, WriteFailureReported
  <2>8. QED
    BY <2>4, <2>5, <2>6, <2>7
<1>13. CASE ContextCase
  <2>1. fin' = [fnErr |-> NoErr, cancel |-> TRUE, liveErr |-> NoErr]
    BY <1>13 DEF ContextCase, NoFin
  <2>2. /\ pc' = "drain" /\ pc = "loop"
        /\ UNCHANGED <<tty, delayed, fn, fnErr, done, text, ctx, timer, shown, line,
                      failed, late, ret>>
    BY <1>13 DEF ContextCase
  <2>3. TypeOK'
    BY <2>1, <2>2 DEF TypeOK
  <2>4. FnInv' /\ LateInv' /\ ReturnInv'
    BY <2>1, <2>2 DEF FnInv, LateInv, ReturnInv
  <2>5. FailInv'
    BY <2>1, <2>2 DEF FailInv, OwnErrors
  <2>6. SuccessIsEarned' /\ WriteFailureReported'
    BY <2>2 DEF TypeOK, SuccessIsEarned, WriteFailureReported
  <2>7. QED
    BY <2>3, <2>4, <2>5, <2>6
<1>14. CASE Drain
  <2>1. done[1] = fnErr /\ fn = "returned"
    BY <1>14 DEF Drain, FnInv
  <2>2. fin' = [fnErr |-> fnErr, cancel |-> fin.cancel, liveErr |-> fin.liveErr]
    BY <1>14, <2>1 DEF Drain, NoFin, TypeOK
  <2>3. /\ pc' = "final" /\ done' = <<>> /\ pc \in {"loop", "drain"}
        /\ UNCHANGED <<tty, delayed, fn, fnErr, text, ctx, timer, shown, line, failed, late, ret>>
    BY <1>14 DEF Drain
  <2>4. TypeOK'
    BY <2>2, <2>3 DEF TypeOK
  <2>5. FnInv' /\ LateInv' /\ ReturnInv'
    BY <2>1, <2>2, <2>3 DEF FnInv, LateInv, ReturnInv
  <2>6. FailInv'
    BY <1>14, <2>2, <2>3 DEF Drain, FailInv
  <2>7. SuccessIsEarned' /\ WriteFailureReported'
    BY <2>3 DEF TypeOK, SuccessIsEarned, WriteFailureReported
  <2>8. QED
    BY <2>4, <2>5, <2>6, <2>7
<1>15. ASSUME NEW ok \in BOOLEAN, Finish(ok) PROVE SpinnerInv'
  BY <1>15, FinishInv
<1>16. CASE UNCHANGED spinnerVars
  BY <1>16 DEF spinnerVars, TypeOK, FnInv, LateInv, FailInv, ReturnInv, SuccessIsEarned,
              WriteFailureReported
<1>17. QED
  BY <1>1, <1>2, <1>3, <1>4, <1>5, <1>6, <1>7, <1>8, <1>9, <1>10, <1>11, <1>12,
     <1>13, <1>14, <1>15, <1>16 DEF SpinnerNext, Caller

\* Every step is one of the abstract call, or leaves its state alone.
LEMMA NextCall == SpinnerInv /\ [SpinnerNext]_spinnerVars => [Call!CallNext]_Call!callVars
<1> SUFFICES ASSUME SpinnerInv, [SpinnerNext]_spinnerVars PROVE [Call!CallNext]_Call!callVars
  OBVIOUS
<1> USE SpinnerAssumption
    DEF SpinnerInv, config, work, Call!CallNext, Call!callVars, Call!Refuse, Call!Start,
        Call!FnReturns, Call!Return
<1>1. ASSUME NEW e \in FnErrors \cup {NoErr}, FnReturns(e)
      PROVE  Call!CallNext
  BY <1>1 DEF FnReturns
<1>2. CASE BadOption
  BY <1>2 DEF BadOption, TypeOK, FnInv, OwnErrors
<1>3. ASSUME NEW ok \in BOOLEAN, PlainTitle(ok)
      PROVE  Call!CallNext
  BY <1>3 DEF PlainTitle, TypeOK, FnInv, OwnErrors
<1>4. CASE PlainReturn
  BY <1>4 DEF PlainReturn, TypeOK
<1>5. CASE StartFn
  BY <1>5 DEF StartFn, TypeOK, FnInv
<1>6. ASSUME NEW ok \in BOOLEAN, Finish(ok)
      PROVE  Call!CallNext
  <2>1. fin.fnErr = fnErr /\ fn = "returned" /\ ret = Pending
    BY <1>6 DEF Finish, TypeOK, FnInv
  <2>2. ret' \in IF fnErr # NoErr THEN {fnErr} ELSE OwnErrors \cup {NoErr}
    BY <1>6, <2>1 DEF Finish, FinishResult, TypeOK, OwnErrors
  <2>3. QED
    BY <1>6, <2>1, <2>2 DEF Finish
<1>7. CASE UNCHANGED <<fn, fnErr, ret>>
  BY <1>7
<1>8. UNCHANGED <<fn, fnErr, ret>> \/ Caller \/ (\E e \in FnErrors \cup {NoErr} : FnReturns(e))
  BY DEF SpinnerNext, SetText, ContextEnds, DelayPasses, spinnerVars
<1>9. Caller =>
        \/ UNCHANGED <<fn, fnErr, ret>>
        \/ BadOption \/ PlainReturn \/ StartFn
        \/ \E ok \in BOOLEAN : PlainTitle(ok) \/ Finish(ok)
  BY DEF Caller, FirstFrame, DelayCase, TickCase, WriteLive, DoneCase, ContextCase, Drain
<1>10. QED
  BY <1>1, <1>2, <1>3, <1>4, <1>5, <1>6, <1>7, <1>8, <1>9

-----------------------------------------------------------------------------

\* The variables of a Spinner call keep their types.
THEOREM SpinnerTypeOK == SpinnerSpec => []TypeOK
<1>1. SpinnerInv => TypeOK
  BY DEF SpinnerInv
<1>2. QED
  BY SpinnerInitInv, SpinnerNextInv, <1>1, PTL DEF SpinnerSpec

\* A Spinner that returns nil has earned it: the function's nil, all writes
\* done, and on a terminal a context that has not ended.
THEOREM SpinnerSuccessIsEarned == SpinnerSpec => []SuccessIsEarned
<1>1. SpinnerInv => SuccessIsEarned
  BY DEF SpinnerInv
<1>2. QED
  BY SpinnerInitInv, SpinnerNextInv, <1>1, PTL DEF SpinnerSpec

\* A failed write is reported unless the function's own error is.
THEOREM SpinnerWriteFailureReported == SpinnerSpec => []WriteFailureReported
<1>1. SpinnerInv => WriteFailureReported
  BY DEF SpinnerInv
<1>2. QED
  BY SpinnerInitInv, SpinnerNextInv, <1>1, PTL DEF SpinnerSpec

\* When the call returns, the line on the terminal tells how the function
\* ended, under the title the function left or one set after it returned:
\* only finish draws after the function has returned, and the title it then
\* reads is one of those.
THEOREM SpinnerFinalLineTellsOutcome == SpinnerSpec => []FinalLineTellsOutcome
<1>1. SpinnerInit => FinalLineTellsOutcome
  BY DEF SpinnerInit, FinalLineTellsOutcome
<1>2. SpinnerInv /\ FinalLineTellsOutcome /\ [SpinnerNext]_spinnerVars => FinalLineTellsOutcome'
  <2> SUFFICES ASSUME SpinnerInv, FinalLineTellsOutcome, [SpinnerNext]_spinnerVars
               PROVE  FinalLineTellsOutcome'
    OBVIOUS
  <2> USE DEF config, work
  <2>1. ASSUME UNCHANGED <<tty, fn, fnErr, pc, line, late, failed>>
        PROVE  FinalLineTellsOutcome'
    BY <2>1 DEF FinalLineTellsOutcome, completionState
  <2>2. ASSUME NEW e \in FnErrors \cup {NoErr}, FnReturns(e)
        PROVE  FinalLineTellsOutcome'
    BY <2>2 DEF FnReturns, FinalLineTellsOutcome, SpinnerInv, ReturnInv
  <2>3. ASSUME NEW t \in Titles, SetText(t)
        PROVE  FinalLineTellsOutcome'
    BY <2>3 DEF SetText, FinalLineTellsOutcome, SpinnerInv, TypeOK
  <2>4. CASE (\E e \in {Canceled, Deadline} : ContextEnds(e)) \/ DelayPasses \/ UNCHANGED spinnerVars
    BY <2>1, <2>4 DEF ContextEnds, DelayPasses, spinnerVars
  <2>5. CASE BadOption \/ PlainReturn \/ \E ok \in BOOLEAN : PlainTitle(ok)
    BY <2>5 DEF BadOption, PlainReturn, PlainTitle, FinalLineTellsOutcome, SpinnerInv, FnInv
  <2>6. CASE Caller /\ pc' # "returned"
    BY <2>6 DEF FinalLineTellsOutcome
  <2>7. ASSUME NEW ok \in BOOLEAN, Finish(ok)
        PROVE  FinalLineTellsOutcome'
    BY <2>7 DEF Finish, FinalLineTellsOutcome, SpinnerInv, TypeOK, FnInv, LateInv, completionState
  <2>8. Caller => \/ pc' # "returned"
                 \/ BadOption \/ PlainReturn
                 \/ \E ok \in BOOLEAN : PlainTitle(ok) \/ Finish(ok)
    BY DEF Caller, StartFn, FirstFrame, DelayCase, TickCase, WriteLive, DoneCase,
           ContextCase, Drain
  <2> QED
    BY <2>2, <2>3, <2>4, <2>5, <2>6, <2>7, <2>8 DEF SpinnerNext
<1>3. QED
  BY SpinnerInitInv, SpinnerNextInv, <1>1, <1>2, PTL DEF SpinnerSpec

\* The safety part of LiveCall: every step of a Spinner call is a step of
\* the abstract call or changes nothing it speaks of.
THEOREM SpinnerRefinesLiveCall ==
  SpinnerSpec => Call!CallInit /\ [][Call!CallNext]_Call!callVars
<1>1. SpinnerInit => Call!CallInit
  BY DEF SpinnerInit, Call!CallInit
<1>2. SpinnerInv /\ [SpinnerNext]_spinnerVars => [Call!CallNext]_Call!callVars
  BY NextCall
<1>3. QED
  BY SpinnerInitInv, SpinnerNextInv, <1>1, <1>2, PTL DEF SpinnerSpec
=============================================================================
