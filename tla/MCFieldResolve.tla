--------------------------- MODULE MCFieldResolve ---------------------------
(* TLC instance of FieldResolve: a root and a leaf command, two names, and  *)
(* declarations of every kind, accepted and refused ones.                  *)
EXTENDS FieldResolve, TLC

CONSTANTS root, leaf, x, y, av, zv, one, Prefixed, Alias

TwoCmds == {root, leaf}
Paths == (root :> <<root>>) @@ (leaf :> <<root, leaf>>)
TwoNames == {x, y}
Order == (x :> 1) @@ (y :> 2)

Plain(n, k, d) ==
  [name |-> n, kind |-> k, choices |-> {}, def |-> d, required |-> FALSE,
   persistent |-> FALSE, prompt |-> FALSE, prefixed |-> <<>>, literal |-> <<>>]
Env(f) == [f EXCEPT !.prefixed = <<Prefixed>>, !.literal = <<Alias>>]
Required(f) == [f EXCEPT !.required = TRUE]
Prompting(f) == [f EXCEPT !.prompt = TRUE]
Persistent(f) == [f EXCEPT !.persistent = TRUE]
Of(f, S) == [f EXCEPT !.choices = S]

Bounds(e, lo, hi) == [exact |-> e, min |-> lo, max |-> hi]
Cmd(args, flags) == [args |-> args, flags |-> flags, arity |-> Bounds(-1, -1, -1),
                     passthrough |-> FALSE]
Tree(r, l) == (root :> r) @@ (leaf :> l)
Leaf(args, flags) == Tree(Cmd(<<>>, {}), Cmd(args, flags))
WithArity(d, bounds, p) == [d EXCEPT ![leaf].arity = bounds, ![leaf].passthrough = p]

X(k, d) == Plain(x, k, d)
Y(k, d) == Plain(y, k, d)
Two == Leaf(<<X("string", <<>>), Y("int", <<one>>)>>, {})

\* An arg with the name of a persistent flag of the root.
SharedName ==
  Tree(Cmd(<<>>, {Persistent(X("string", <<av>>))}), Cmd(<<X("string", <<zv>>)>>, {}))

SomeApps == {
  Leaf(<<Required(Prompting(Env(X("string", <<>>)))), Of(Y("select", <<av>>), {av})>>, {}),
  Leaf(<<Prompting(Env(X("int", <<one>>)))>>, {Y("strings", <<zv>>)}),
  WithArity(Leaf(<<Env(X("string", <<zv>>))>>, {Y("count", <<>>)}), Bounds(1, -1, -1), TRUE),
  WithArity(Two, Bounds(-1, 1, 2), FALSE),
  Tree(Cmd(<<>>, {Env(Persistent(Of(X("select", <<av>>), {av}))), Persistent(Y("bools", <<one>>))}),
       Cmd(<<>>, {X("int", <<one>>)})),
  Tree(Cmd(<<>>, {Persistent(Of(Y("multi", <<av, zv>>), {av, zv}))}),
       Cmd(<<Prompting(Of(X("multi", <<zv>>), {zv}))>>, {})),
  Leaf(<<>>, {Required(Env(Of(X("multi", <<>>), {av}))), Env(Y("count", <<>>))}),
  Leaf(<<X("strings", <<zv>>)>>, {Required(Y("int", <<>>))}),
  \* names declared twice
  SharedName,
  Leaf(<<X("string", <<av>>), X("int", <<one>>)>>, {}),
  Leaf(<<Of(X("select", <<av>>), {av}), X("strings", <<av>>)>>, {}),
  \* refused
  Leaf(<<Of(X("select", <<>>), {av})>>, {}),
  Leaf(<<X("count", <<>>)>>, {}),
  WithArity(Two, Bounds(1, -1, -1), FALSE),
  WithArity(Two, Bounds(2, 1, -1), FALSE)}

Written == <<av>>

None == [pos |-> <<>>, dash |-> -1, given |-> <<>>,
         env |-> [k \in Keys |-> <<>>], tty |-> FALSE]
Texts == {<<>>, <<av>>, <<one>>}
Envs == [Keys -> Texts]
Flags == TwoNames \X {<<av>>, <<one>>, <<av, zv>>}
OneOrTwo(S, T) == {<<s>> : s \in S} \cup (S \X T)

SomeInputs ==
  {[None EXCEPT !.env = e, !.tty = t] : e \in Envs, t \in BOOLEAN}
  \cup {[None EXCEPT !.pos = p, !.dash = d, !.env = e] :
         p \in OneOrTwo({<<av>>, <<zv>>, <<one>>}, {<<av>>, <<one>>}), d \in -1..1,
         e \in {[k \in Keys |-> <<>>], [k \in Keys |-> <<one>>]}}
  \cup {[None EXCEPT !.given = g, !.env = e] : g \in OneOrTwo(Flags, {<<x, <<av>>>>, <<y, <<one>>>>}), e \in
         {[k \in Keys |-> <<>>], [k \in Keys |-> IF k = Alias THEN <<av>> ELSE <<>>]}}
=============================================================================
