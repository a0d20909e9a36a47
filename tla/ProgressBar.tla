---------------------------- MODULE ProgressBar ----------------------------
(* A progress bar moved by several goroutines: every method takes the       *)
(* mutex, changes the position and draws it. Positions are machine integers *)
(* of MaxInt and wrap around; frames go to stderr through the writer that   *)
(* stops at its first error.                                                *)
EXTENDS Integers

CONSTANTS Workers,
          Total,       \* > 0, as Context.ProgressBar demands
          MaxInt,      \* the largest int
          Moves,       \* the calls made: [op, n]
          Nil

VARIABLES task,     \* what each goroutine is doing, or Nil
          current,
          holder,   \* who holds the mutex, or Nil
          frame,    \* the last frame drawn
          stuck     \* the writer's error: nothing is drawn any more

barVars == <<current, holder, frame, stuck>>
vars == <<task, barVars>>

\* Context.ProgressBar draws the first frame.
Init ==
  /\ task = [w \in Workers |-> Nil]
  /\ current = 0 /\ frame = 0
  /\ holder = Nil /\ stuck = FALSE

Wrapped(n) == ((n + MaxInt + 1) % (2 * (MaxInt + 1))) - (MaxInt + 1)
Clamped(n) == IF n < 0 THEN 0 ELSE IF n > Total THEN Total ELSE n

Moving(w, at) == task[w] # Nil /\ task[w].kind = "bar" /\ task[w].at = at
Goes(w, at) == task' = [task EXCEPT ![w].at = at]

Call(w, m) ==
  /\ task[w] = Nil
  /\ task' = [task EXCEPT ![w] = [kind |-> "bar", at |-> "lock", move |-> m, shows |-> Nil]]
  /\ UNCHANGED barVars

\* The mutex not waited for.
LockAnyway(w) ==
  /\ Moving(w, "lock")
  /\ holder' = w
  /\ Goes(w, "move")
  /\ UNCHANGED <<current, frame, stuck>>

Lock(w) ==
  /\ Moving(w, "lock") /\ holder = Nil
  /\ holder' = w
  /\ Goes(w, "move")
  /\ UNCHANGED <<current, frame, stuck>>

\* Add adds first and clamps then; Increment is Add(1).
Add(n) == current' = Clamped(Wrapped(current + n))
Set(n) == current' = Clamped(n)
Done == current' = Total

\* The new position, and the frame that shows it.
Move(w) ==
  /\ Moving(w, "move")
  /\ LET m == task[w].move
     IN  CASE m.op = "Add" -> Add(m.n) [] m.op = "Set" -> Set(m.n) [] m.op = "Done" -> Done
  /\ task' = [task EXCEPT ![w].at = "write", ![w].shows = current']
  /\ UNCHANGED <<holder, frame, stuck>>

\* render and the printf of Done: one write, which may fail for good. The
\* mutex is given back whatever came of it.
Render(w) ==
  /\ Moving(w, "write")
  /\ \/ ~stuck /\ frame' = task[w].shows /\ UNCHANGED stuck
     \/ stuck' = TRUE /\ UNCHANGED frame
  /\ holder' = Nil
  /\ task' = [task EXCEPT ![w] = Nil]
  /\ UNCHANGED current

BarStep(w) == Lock(w) \/ Move(w) \/ Render(w)
BarCall(w) == \E m \in Moves : Call(w, m)

Next == \E w \in Workers : BarCall(w) \/ BarStep(w)

Spec == Init /\ [][Next]_vars

-----------------------------------------------------------------------------
(* Properties.                                                             *)

\* The bar on the screen goes back only where somebody asked for it, by Set
\* or a negative Add, and where an Add is so large that the sum wraps: the
\* frame of one goroutine never overtakes that of another.
NeverBackByItself ==
  [][frame' < frame =>
       \E w \in Workers :
         /\ Moving(w, "write")
         /\ \/ task[w].move.op = "Set"
            \/ task[w].move.op = "Add" /\ task[w].move.n < 0
            \/ task[w].move.op = "Add" /\ task[w].move.n > MaxInt - Total]_vars
=============================================================================
