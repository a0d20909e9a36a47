---------------------------- MODULE ThemeRegistry ----------------------------
(* What theme.Get and theme.Manifest promise their callers: a value of the  *)
(* caller's own, which is what the embedded manifest says until the caller  *)
(* itself changes it, or an error for a name that has no sound manifest.    *)
CONSTANTS Callers,
          Calls,        \* the calls made: [op, name]
          Says(_, _),   \* what the manifest says to an operation, or Nil
          Nil, Edited

VARIABLES asked,   \* the call each caller has under way, or Nil
          held     \* what its last call returned it

Answered(c) == [op |-> c.op, name |-> c.name, value |-> Says(c.op, c.name)]

Init == asked = [g \in Callers |-> Nil] /\ held = [g \in Callers |-> Nil]

Ask(g, c) ==
  /\ asked[g] = Nil
  /\ asked' = [asked EXCEPT ![g] = c]
  /\ held' = [held EXCEPT ![g] = Nil]

Answer(g) ==
  /\ asked[g] # Nil
  /\ held' = [held EXCEPT ![g] = Answered(asked[g])]
  /\ asked' = [asked EXCEPT ![g] = Nil]

\* A caller changes what it holds.
Edit(g) ==
  /\ held[g] # Nil /\ held[g].value # Nil
  /\ held' = [held EXCEPT ![g].value = Edited]
  /\ UNCHANGED asked

Next == \E g \in Callers : (\E c \in Calls : Ask(g, c)) \/ Answer(g) \/ Edit(g)

Spec == Init /\ [][Next]_<<asked, held>>
          /\ \A g \in Callers : WF_<<asked, held>>(Answer(g))
=============================================================================
