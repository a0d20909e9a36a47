------------------------------ MODULE Logging ------------------------------
(* The logging extension: the level a global hook sets for each run of the  *)
(* App, from flags that pflag keeps from run to run, and the styled handler *)
(* that goroutines derive from, restyle and write through. The derived      *)
(* handlers share the mutex and the level; each has its own copy of the     *)
(* styles and its own slice of attributes, and a slice is an array, which   *)
(* may have room to spare, and a length.                                    *)
EXTENDS Naturals, Sequences

CONSTANTS Workers,
          Base,         \* WithLevel: 0 debug, 1 info, 2 warn, 3 error
          Lines,        \* command lines, as [verbose, level]: a level, a level
                        \* nobody knows, Empty, or Nil where it is not given
          Attrs, Groups, Styles,
          MaxHandlers, MaxRuns,
          Empty, Nil

Levels == 0..3
Debug == 0

VARIABLES task,      \* what each goroutine is doing, or Nil
          lv,        \* the LevelVar all handlers share
          phase,     \* of the App: "idle", "hooks", "run"
          pflags,    \* the value of the two flags that were ever given, or Nil
          said,      \* the command lines of the runs so far, for the properties
          handlers,  \* the handlers made so far, the installed one first
          arrays,    \* the backing arrays of their attributes
          mu         \* who holds the mutex, or Nil

logVars == <<lv, phase, pflags, said, handlers, arrays, mu>>
runVars == <<lv, phase, pflags, said>>
vars == <<task, logVars>>

NoSlice == [arr |-> 0, len |-> 0]
Whole(s) == [badge |-> s, text |-> s]

\* meant keeps what the callers of WithAttrs gave, for the properties.
Init ==
  /\ task = [w \in Workers |-> Nil]
  /\ lv = Base /\ phase = "idle"
  /\ pflags = [verbose |-> Nil, level |-> Nil] /\ said = <<>>
  /\ \E s \in Styles :
       handlers = <<[styles |-> Whole(s), group |-> <<>>, attrs |-> NoSlice, meant |-> <<>>]>>
  /\ arrays = <<>> /\ mu = Nil

-----------------------------------------------------------------------------
(* The level of a run.                                                     *)

\* Cobra parses into the pflag.FlagSets of the App, which outlive a run: what
\* an earlier run was given is still Changed, and explicit, in this one.
RunBegins(line) ==
  /\ phase = "idle" /\ Len(said) < MaxRuns
  /\ phase' = "hooks"
  /\ pflags' = [n \in {"verbose", "level"} |-> IF line[n] = Nil THEN pflags[n] ELSE line[n]]
  /\ said' = Append(said, line)
  /\ UNCHANGED <<task, lv, handlers, arrays, mu>>

resolveLevel(f) ==
  IF f.level \notin {Nil, Empty} THEN f.level ELSE IF f.verbose = TRUE THEN Debug ELSE Base

\* A level that no flag asks for is left as it was.
LevelHookKeeps ==
  /\ phase = "hooks"
  /\ phase' = "run"
  /\ lv' = IF pflags.level \in Levels THEN pflags.level
           ELSE IF pflags.verbose = TRUE THEN Debug ELSE lv
  /\ UNCHANGED <<task, pflags, said, handlers, arrays, mu>>

\* The OnPreRun hook of Init. A level nobody knows ends the run, and the
\* level stays what it was.
LevelHook ==
  /\ phase = "hooks"
  /\ IF resolveLevel(pflags) \in Levels
       THEN phase' = "run" /\ lv' = resolveLevel(pflags)
       ELSE phase' = "idle" /\ UNCHANGED lv
  /\ UNCHANGED <<task, pflags, said, handlers, arrays, mu>>

\* The handler returns, or a hook before the extension's ends the run.
RunEnds ==
  /\ phase # "idle"
  /\ phase' = "idle"
  /\ UNCHANGED <<task, lv, pflags, said, handlers, arrays, mu>>

-----------------------------------------------------------------------------
(* The handler.                                                            *)

Logs(w, at) == task[w] # Nil /\ task[w].kind = "log" /\ task[w].at = at
Begins(w, t) == task[w] = Nil /\ task' = [task EXCEPT ![w] = t]
Goes(w, at) == task' = [task EXCEPT ![w].at = at]
Ends(w) == task' = [task EXCEPT ![w] = Nil]

AttrsOf(h) == IF h.attrs.arr = 0 THEN <<>> ELSE SubSeq(arrays[h.attrs.arr], 1, h.attrs.len)

\* slog asks Enabled before Handle.
Enabled(level) == level >= lv

Log(w, h, level) ==
  /\ h \in DOMAIN handlers /\ Enabled(level)
  /\ Begins(w, [kind |-> "log", at |-> "styles", h |-> h, styles |-> Nil])
  /\ UNCHANGED logVars

\* The styles read without the mutex.
HandleStylesUnlocked(w) ==
  /\ Logs(w, "styles")
  /\ task' = [task EXCEPT ![w].at = "write", ![w].styles = handlers[task[w].h].styles]
  /\ UNCHANGED logVars

\* The first section of Handle copies the styles.
HandleStyles(w) ==
  /\ Logs(w, "styles") /\ mu = Nil
  /\ task' = [task EXCEPT ![w].at = "write", ![w].styles = handlers[task[w].h].styles]
  /\ UNCHANGED logVars

\* The line is put together from them and from what the handler itself
\* never changes, and written in the second section.
HandleWrite(w) ==
  /\ Logs(w, "write") /\ mu = Nil
  /\ Ends(w)
  /\ UNCHANGED logVars

\* append of one attribute: in place where there is room, else in a new
\* array, which may come with room to spare.
NewArray(s, x) ==
  \E spare \in {<<>>, <<Nil>>} : arrays' = Append(arrays, Append(s, x) \o spare)

Derived(h, slice, x) ==
  handlers' = Append(handlers, [h EXCEPT !.attrs = slice, !.meant = Append(@, x)])

\* append to the parent's own slice.
WithAttrsShares(w, i, x) ==
  /\ task[w] = Nil /\ i \in DOMAIN handlers /\ Len(handlers) < MaxHandlers
  /\ LET h == handlers[i]
     IN  IF h.attrs.arr # 0 /\ h.attrs.len < Len(arrays[h.attrs.arr])
           THEN /\ arrays' = [arrays EXCEPT ![h.attrs.arr][h.attrs.len + 1] = x]
                /\ Derived(h, [h.attrs EXCEPT !.len = @ + 1], x)
           ELSE /\ NewArray(AttrsOf(h), x)
                /\ Derived(h, [arr |-> Len(arrays) + 1, len |-> h.attrs.len + 1], x)
  /\ UNCHANGED <<task, runVars, mu>>

\* WithAttrs appends to a clone, which is as long as its array. It copies the
\* styles without the mutex, so it may find SetStyles half done.
WithAttrs(w, i, x) ==
  /\ task[w] = Nil /\ i \in DOMAIN handlers /\ Len(handlers) < MaxHandlers
  /\ LET h == handlers[i]
     IN  /\ NewArray(AttrsOf(h), x)
         /\ Derived(h, [arr |-> Len(arrays) + 1, len |-> h.attrs.len + 1], x)
  /\ UNCHANGED <<task, runVars, mu>>

WithGroup(w, i, name) ==
  /\ task[w] = Nil /\ i \in DOMAIN handlers /\ Len(handlers) < MaxHandlers
  /\ LET h == handlers[i]
         clone == IF h.attrs.len = 0 THEN NoSlice
                  ELSE [arr |-> Len(arrays) + 1, len |-> h.attrs.len]
     IN  /\ arrays' = IF h.attrs.len = 0 THEN arrays ELSE Append(arrays, AttrsOf(h))
         /\ handlers' = Append(handlers, [h EXCEPT !.group = Append(@, name), !.attrs = clone])
  /\ UNCHANGED <<task, runVars, mu>>

\* SetStyles takes the mutex and assigns field by field.
SetStyles(w, i, s) ==
  /\ i \in DOMAIN handlers /\ mu = Nil
  /\ Begins(w, [kind |-> "log", at |-> "restyle", h |-> i, styles |-> Whole(s)])
  /\ mu' = w
  /\ handlers' = [handlers EXCEPT ![i].styles.badge = s]
  /\ UNCHANGED <<runVars, arrays>>

StylesSet(w) ==
  /\ Logs(w, "restyle")
  /\ handlers' = [handlers EXCEPT ![task[w].h].styles = task[w].styles]
  /\ mu' = Nil
  /\ Ends(w)
  /\ UNCHANGED <<runVars, arrays>>

LogStep(w) == HandleStyles(w) \/ HandleWrite(w) \/ StylesSet(w)

LogCall(w) ==
  \E i \in DOMAIN handlers :
    \/ \E level \in Levels : Log(w, i, level)
    \/ \E x \in Attrs : WithAttrs(w, i, x)
    \/ \E name \in Groups : WithGroup(w, i, name)
    \/ \E s \in Styles : SetStyles(w, i, s)

AppStep == (\E line \in Lines : RunBegins(line)) \/ LevelHook \/ RunEnds

Next == AppStep \/ \E w \in Workers : LogCall(w) \/ LogStep(w)

Spec == Init /\ [][Next]_vars

-----------------------------------------------------------------------------
(* Properties.                                                             *)

\* What the last run that was given the flag n, this one or an earlier one,
\* was given for it.
LastSaid(n) ==
  LET given == {k \in DOMAIN said : said[k][n] # Nil}
  IN  IF given = {} THEN Nil ELSE said[CHOOSE k \in given : \A j \in given : j <= k][n]

\* The handler of a command logs at the level that was asked for last: by the
\* level flag, else by the verbose flag, else by WithLevel, each flag as the
\* last of the runs so far gave it, an empty level taking back an earlier
\* one. Nothing else of an earlier run counts, neither the level that it left
\* in the LevelVar nor that it ended at a level nobody knows.
LevelAskedLast ==
  phase = "run" =>
    lv = IF LastSaid("level") \notin {Nil, Empty} THEN LastSaid("level")
         ELSE IF LastSaid("verbose") = TRUE THEN Debug ELSE Base

\* A handler keeps the attributes it was derived with: siblings derived at
\* the same time from one parent never write into each other's array.
SiblingsApart == \A i \in DOMAIN handlers : AttrsOf(handlers[i]) = handlers[i].meant

\* The line a goroutine is about to write through the installed handler is
\* of one style from its badge to its last value, however SetStyles and
\* Handle meet.
LinesOfOneStyle ==
  \A w \in Workers :
    Logs(w, "write") /\ task[w].h = 1 => \E s \in Styles : task[w].styles = Whole(s)
=============================================================================
