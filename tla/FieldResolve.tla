---------------------------- MODULE FieldResolve ----------------------------
(***************************************************************************)
(* How a run gets the values of its args and flags: what the constructors  *)
(* accept (WithArg, WithFlag, ...), what Cobra parses, newContext with its *)
(* two cascades (context_resolve.go), and the Bind of a handler.  One App  *)
(* runs several times: its pflag.FlagSets outlive a run, a Context does    *)
(* not.                                                                    *)
(*                                                                         *)
(* A raw string is the sequence of its comma-separated items; the empty    *)
(* string, for a variable also an unset one, is <<>>.  The kind "int"      *)
(* stands for every kind of one parsed item: bool, int, int64, uint,       *)
(* float, duration.                                                        *)
(***************************************************************************)
EXTENDS Integers, Sequences, FiniteSets, Functions

CONSTANTS
  Cmds,       \* the commands
  Path,       \* Path[c]: the commands from the root to c (commandSpec.parent)
  Names,      \* names of args and flags
  Rank,       \* the order of the names (cmp.Compare)
  Items,      \* items a raw string is made of
  Scalars,    \* the items that parse as a number, a bool, a duration
  Keys,       \* environment variables, prefixed and normalized where they are
  Apps,       \* declarations: [Cmds -> Decl]
  Inputs,     \* what a run is started with
  Junk,       \* what a handler that writes into a slice leaves in it
  MaxRuns     \* bound: runs

Raw == Seq(Items)
Kinds == {"string", "int", "select", "strings", "multi", "bools", "count"}
Lists == {"strings", "multi", "bools"}
Accumulating == Lists \cup {"count"}

\* An arg or a flag.  A flag has no prompt and an arg is not persistent.
Field == [name : Names, kind : Kinds, choices : SUBSET Items, def : Raw,
          required : BOOLEAN, persistent : BOOLEAN, prompt : BOOLEAN,
          prefixed : Seq(Keys), literal : Seq(Keys)]

\* arityConfig, where -1 is nil.
Arity == [exact : Int, min : Int, max : Int]

Decl == [args : Seq(Field), flags : SUBSET Field, arity : Arity,
         passthrough : BOOLEAN]

\* argv without its flags, how many of its tokens stand before "--" (-1: no
\* "--"), the flags in order, the environment, and whether stdin and stdout
\* are terminals.
Input == [pos : Seq(Raw), dash : Int, given : Seq(Names \X Raw),
          env : [Keys -> Raw], tty : BOOLEAN]

\* A command is once on its path.  pflag panics when a flag set gets a second
\* flag of one name (version_register.go:75-78), and flags have no prompt.
ASSUME FieldAssumption ==
  /\ Cmds # {}
  /\ Path \in [Cmds -> Seq(Cmds)]
  /\ \A c \in Cmds : Path[c] # <<>> /\ Path[c][Len(Path[c])] = c
  /\ Rank \in [Names -> Nat]
  /\ \A m, n \in Names : Rank[m] = Rank[n] => m = n
  /\ Scalars \subseteq Items
  /\ \A c \in Cmds : \A j, k \in DOMAIN Path[c] : Path[c][j] = Path[c][k] => j = k
  /\ \A a \in Apps : a \in [Cmds -> Decl]
  /\ \A a \in Apps : \A c \in Cmds : \A f, g \in a[c].flags :
       ~f.prompt /\ (f.name = g.name => f = g)
  /\ Inputs \subseteq Input
  /\ \A in \in Inputs : in.dash \in -1..Len(in.pos)
  /\ Junk \in Raw
  /\ MaxRuns \in Nat

VARIABLES
  app,      \* the declarations of the App
  pflags,   \* each declared flag's pflag.Flag: the run that set it last
            \* (0: not Changed) and the items of its value
  spoiled,  \* <<c, n>>: a handler wrote into the slice that is n's default
  run,      \* runs begun so far
  pc,       \* where New or the run is
  cmd, in,  \* the command and the input of the run
  i,        \* the next flag to parse, the next arg to resolve
  todo,     \* names of the flags resolveFlags has still to resolve
  values,   \* Context.values: kind, items, source, and the command whose
            \* default slice the value shares (<<>>: none)
  set,      \* Context.set
  bound,    \* the last field the handler has bound, and what Bind did
  err       \* the error of the run

ctx == <<cmd, in, values, set>>
vars == <<app, pflags, spoiled, run, pc, i, todo, bound, err, ctx>>

NoInput == [pos |-> <<>>, dash |-> -1, given |-> <<>>,
            env |-> [k \in Keys |-> <<>>], tty |-> FALSE]

NoBind == [name |-> CHOOSE n \in Names : TRUE, type |-> "int", pointer |-> FALSE,
           did |-> "none"]

AnyCmd == CHOOSE c \in Cmds : TRUE

Init ==
  /\ app \in Apps
  /\ pflags = [v \in UNION {{<<c, f.name>> : f \in app[c].flags} : c \in Cmds} |->
                 [last |-> 0, items |-> <<>>]]
  /\ spoiled = {}
  /\ run = 0
  /\ pc = "new"
  /\ cmd = AnyCmd /\ in = NoInput
  /\ i = 1 /\ todo = {}
  /\ values = <<>> /\ set = {}
  /\ bound = NoBind
  /\ err = "none"

-----------------------------------------------------------------------------
(* What New and the constructors accept.                                   *)

\* Constructors register the typed default they take; a count has none.
HasDefault(f) == f.kind # "count"

Member(f, items) == \A k \in DOMAIN items : items[k] \in f.choices

\* (A mutant: the choices of a multi-select are not looked at.)
ValidChoiceSelectOnly(f, kind, items) ==
  f.kind = "select" => kind \in {"string", "select"} /\ \E x \in f.choices : items = <<x>>

\* validateChoice, of a value of the given kind: that of another field, where
\* two share a name.
ValidChoice(f, kind, items) ==
  /\ f.kind = "select" => kind \in {"string", "select"} /\ \E x \in f.choices : items = <<x>>
  /\ f.kind = "multi" => kind \in {"strings", "multi"} /\ Member(f, items)

ValidField(f) ==
  /\ f.kind \in {"select", "multi"} => f.choices # {}
  /\ HasDefault(f) /\ ~f.required => ValidChoice(f, f.kind, f.def)

ValidArg(f) == f.kind \notin {"count", "bools"} /\ ValidField(f)

\* buildArityValidator and validateArityAgainstDeclaredArgs
ValidArity(d) ==
  LET a == d.arity
      n == Len(d.args)
      Has(o) == a[o] # -1
  IN /\ Has("exact") => ~Has("min") /\ ~Has("max")
     /\ ~d.passthrough =>
          /\ Has("exact") => a.exact = n
          /\ Has("min") => a.min <= n
          /\ Has("max") => a.max >= n

New ==
  /\ pc = "new"
  /\ pc' = IF \A c \in Cmds : /\ \A k \in DOMAIN app[c].args : ValidArg(app[c].args[k])
                              /\ \A f \in app[c].flags : ValidField(f)
                              /\ ValidArity(app[c])
           THEN "idle" ELSE "refused"
  /\ UNCHANGED <<app, pflags, spoiled, run, i, todo, bound, err, ctx>>

-----------------------------------------------------------------------------
(* Which flag a name means to a command.                                   *)

\* The commands on the path of c that give it a flag n.
Holders(c, n) ==
  {k \in DOMAIN Path[c] : \E f \in app[Path[c][k]].flags :
     f.name = n /\ (Path[c][k] = c \/ f.persistent)}

Visible(c) == {n \in Names : Holders(c, n) # {}}

\* (A mutant: the flag nearest to the root wins.)
FarthestHolder(c, n) ==
  Path[c][CHOOSE k \in Holders(c, n) : \A j \in Holders(c, n) : k <= j]

\* collectFlagDefsForCommand: the one nearest to the command wins.
Holder(c, n) ==
  Path[c][CHOOSE k \in Holders(c, n) : \A j \in Holders(c, n) : k >= j]

FlagDef(c, n) == CHOOSE f \in app[Holder(c, n)].flags : f.name = n

\* Cobra merges the persistent flags of the parents, the nearest parent
\* first, into the flags of a command, which keep theirs.
CobraFlag(c, n) ==
  <<Path[c][CHOOSE k \in Holders(c, n) : \A j \in Holders(c, n) : k >= j], n>>

-----------------------------------------------------------------------------
(* Cobra: the flags and the number of the arguments.                       *)

Run(c, input) ==
  /\ pc = "idle"
  /\ run < MaxRuns
  /\ run' = run + 1
  /\ pc' = "parse"
  /\ cmd' = c
  /\ in' = input
  /\ UNCHANGED <<app, pflags, spoiled, i, todo, values, set, bound, err>>

\* The run ends with an error.
Fail(why) == pc' = "end" /\ err' = why

\* parseStringToType: the adapters that parse, and what they take.
Parses(f, raw) ==
  /\ f.kind = "int" => Len(raw) = 1 /\ raw[1] \in Scalars
  /\ f.kind = "bools" => \A k \in DOMAIN raw : raw[k] \in Scalars
  /\ f.kind # "count"

\* pflag's Set, where a count is the sequence of its occurrences; the first
\* Set of a list drops the default, the next ones append.
SetFlag(old, f, raw) ==
  [last |-> run,
   items |-> IF f.kind \in Accumulating /\ old.last > 0 THEN old.items \o raw ELSE raw]

ParseFlag ==
  /\ pc = "parse" /\ i <= Len(in.given)
  /\ LET n == in.given[i][1]
         raw == in.given[i][2]
         v == CobraFlag(cmd, n)
         f == CHOOSE g \in app[v[1]].flags : g.name = n
     IN IF n \in Visible(cmd) /\ (f.kind = "count" \/ Parses(f, raw))
        THEN /\ pflags' = [pflags EXCEPT ![v] = SetFlag(@, f, raw)]
             /\ i' = i + 1
             /\ UNCHANGED <<pc, err>>
        ELSE Fail("parse") /\ UNCHANGED <<pflags, i>>
  /\ UNCHANGED <<app, spoiled, run, todo, bound, ctx>>

\* The validators of Cobra count every token, those after "--" too.
ArityMet(a, n) ==
  /\ a.exact # -1 => n = a.exact
  /\ a.min # -1 => n >= a.min
  /\ a.max # -1 => n <= a.max

Parsed ==
  /\ pc = "parse" /\ i = Len(in.given) + 1
  /\ IF ArityMet(app[cmd].arity, Len(in.pos))
     THEN pc' = "args" /\ i' = 1 /\ UNCHANGED err
     ELSE Fail("arity") /\ UNCHANGED i
  /\ UNCHANGED <<app, pflags, spoiled, run, todo, bound, ctx>>

-----------------------------------------------------------------------------
(* newContext, resolveArgs.                                                *)

Args == app[cmd].args

\* Context.args
PreDash == IF in.dash >= 0 THEN SubSeq(in.pos, 1, in.dash) ELSE in.pos

Candidates(f) == f.prefixed \o f.literal

\* lookupEnvForField: raw is the first non-empty of the candidates.
EnvGives(f, raw) ==
  \E k \in DOMAIN Candidates(f) :
    /\ in.env[Candidates(f)[k]] = raw /\ raw # <<>>
    /\ \A j \in 1..(k - 1) : in.env[Candidates(f)[j]] = <<>>

EnvSilent(f) == \A k \in DOMAIN Candidates(f) : in.env[Candidates(f)[k]] = <<>>

\* The value of the field f, named n, and whether the user gave it; it replaces
\* the value of an earlier field of that name.
Keep(n, f, items, from, share, explicit) ==
  /\ values' = [m \in DOMAIN values \cup {n} |->
                  IF m = n
                  THEN [kind |-> f.kind, items |-> items, from |-> from,
                        share |-> share]
                  ELSE values[m]]
  /\ set' = IF explicit THEN set \cup {n} ELSE set
  /\ UNCHANGED <<pc, err>>

\* A raw string, parsed by the adapter of the field.
Take(n, f, raw, from) ==
  IF Parses(f, raw)
  THEN Keep(n, f, raw, from, <<>>, TRUE)
  ELSE Fail("value") /\ UNCHANGED <<values, set>>

\* (A mutant: the default goes to the handler as it is.)
CloneShares(c, f) == IF f.kind \in Lists THEN <<c>> ELSE <<>>

\* cloneDefault copies a slice: the value shares it with no declaration.
Clone(c, f) == <<>>

Default(c, f) == IF <<c, f.name>> \in spoiled THEN Junk ELSE f.def

NextArg == pc = "args" /\ i <= Len(Args)
Given == i <= Len(PreDash)
Prompted(f) == in.tty /\ f.prompt

ArgFromPosition ==
  /\ NextArg /\ Given
  /\ Take(Args[i].name, Args[i], PreDash[i], "arg")

ArgFromEnv ==
  /\ NextArg /\ ~Given
  /\ \E raw \in Range(in.env) :
       EnvGives(Args[i], raw) /\ Take(Args[i].name, Args[i], raw, "env")

\* What promptArg lets the user enter: a parsed item, one of the choices,
\* some of them; a string slice has no choices.
Answers(f) ==
  CASE f.kind = "string" -> {<<x>> : x \in Items}
    [] f.kind = "int" -> {<<x>> : x \in Scalars}
    [] f.kind = "select" -> {<<x>> : x \in f.choices}
    [] f.kind = "multi" -> {<<>>} \cup {<<x>> : x \in f.choices}
    [] OTHER -> {<<>>}

ArgFromPrompt ==
  /\ NextArg /\ ~Given /\ EnvSilent(Args[i]) /\ Prompted(Args[i])
  /\ \/ \E answer \in Answers(Args[i]) :
          Keep(Args[i].name, Args[i], answer, "prompt", <<>>, TRUE)
     \/ Fail("prompt") /\ UNCHANGED <<values, set>>

\* A required arg has no default.
ArgFromDefault ==
  /\ NextArg /\ ~Given /\ EnvSilent(Args[i]) /\ ~Prompted(Args[i])
  /\ IF Args[i].required
     THEN Fail("required") /\ UNCHANGED <<values, set>>
     ELSE Keep(Args[i].name, Args[i], Default(cmd, Args[i]), "default",
               Clone(cmd, Args[i]), FALSE)

ResolveArg ==
  /\ ArgFromPosition \/ ArgFromEnv \/ ArgFromPrompt \/ ArgFromDefault
  /\ i' = i + 1
  /\ UNCHANGED <<app, pflags, spoiled, run, cmd, in, todo, bound>>

\* The choice pass over the args.
ArgsResolved ==
  /\ pc = "args" /\ i = Len(Args) + 1
  /\ IF \A k \in DOMAIN Args : LET n == Args[k].name IN
          n \in DOMAIN values => ValidChoice(Args[k], values[n].kind, values[n].items)
     THEN pc' = "flags" /\ todo' = Visible(cmd) /\ UNCHANGED err
     ELSE Fail("choice") /\ UNCHANGED todo
  /\ UNCHANGED <<app, pflags, spoiled, run, i, bound, ctx>>

-----------------------------------------------------------------------------
(* resolveFlags, in the order of the names.                                *)

NextFlag(n) == pc = "flags" /\ n \in todo /\ \A m \in todo : Rank[n] <= Rank[m]
Changed(n) == pflags[CobraFlag(cmd, n)].last > 0

\* readFlagTypedValue
FlagFromCLI(n) ==
  /\ Changed(n)
  /\ LET v == pflags[CobraFlag(cmd, n)] IN
     Keep(n, FlagDef(cmd, n), v.items, IF v.last = run THEN "flag" ELSE "stale", <<>>, TRUE)

FlagFromEnv(n) ==
  /\ ~Changed(n)
  /\ \E raw \in Range(in.env) :
       EnvGives(FlagDef(cmd, n), raw) /\ Take(n, FlagDef(cmd, n), raw, "env")

FlagFromDefault(n) ==
  LET f == FlagDef(cmd, n) IN
  /\ ~Changed(n) /\ EnvSilent(f)
  /\ \/ /\ HasDefault(f) /\ ~f.required
        /\ Keep(n, f, Default(Holder(cmd, n), f), "default", Clone(Holder(cmd, n), f),
                FALSE)
     \/ f.required /\ Fail("required") /\ UNCHANGED <<values, set>>
     \/ ~HasDefault(f) /\ ~f.required /\ UNCHANGED <<pc, err, values, set>>

ResolveFlag(n) ==
  /\ NextFlag(n)
  /\ FlagFromCLI(n) \/ FlagFromEnv(n) \/ FlagFromDefault(n)
  /\ todo' = todo \ {n}
  /\ UNCHANGED <<app, pflags, spoiled, run, cmd, in, i, bound>>

\* The choice pass over the flags; then the handler has its Context.
FlagsResolved ==
  /\ pc = "flags" /\ todo = {}
  /\ IF \A n \in Visible(cmd) :
          n \in DOMAIN values => ValidChoice(FlagDef(cmd, n), values[n].kind, values[n].items)
     THEN pc' = "handler" /\ UNCHANGED err
     ELSE Fail("choice")
  /\ UNCHANGED <<app, pflags, spoiled, run, i, todo, bound, ctx>>

-----------------------------------------------------------------------------
(* The handler.                                                            *)

Declared == {Args[k].name : k \in DOMAIN Args} \cup Visible(cmd)

GoTypes == {"string", "[]string", "[]bool", "int"}
GoType(kind) ==
  CASE kind \in {"string", "select"} -> "string"
    [] kind \in {"strings", "multi"} -> "[]string"
    [] kind = "bools" -> "[]bool"
    [] OTHER -> "int"

\* reflect.Value.CanConvert between these types; assignPointer asks it.
CanConvert(from, to) == from = to \/ (from = "int" /\ to = "string")

\* (A mutant: a pointer is allocated for every resolved value.)
BindPointerAlways(n, t) == CanConvert(GoType(values[n].kind), t)

BindPointer(n, t) == n \in set /\ CanConvert(GoType(values[n].kind), t)

\* bindStruct for one field of Go type t tagged n, a pointer to t or a t.
\* (A bound: one field in a run, as no field depends on another.)
Bind(n, t, pointer) ==
  /\ pc = "handler"
  /\ bound = NoBind
  /\ bound' = [name |-> n, type |-> t, pointer |-> pointer, did |->
       IF n \notin DOMAIN values
       THEN IF Declared = {} \/ n \in Declared THEN "zero" ELSE "error"
       ELSE IF pointer
       THEN IF BindPointer(n, t) THEN "pointer" ELSE IF n \in set THEN "error" ELSE "nil"
       ELSE IF GoType(values[n].kind) = t THEN "value" ELSE "error"]
  /\ UNCHANGED <<app, pflags, spoiled, run, pc, i, todo, err, ctx>>

\* The handler writes into a slice that Bind or BindAs gave it.
Scribble(n) ==
  /\ pc = "handler"
  /\ n \in DOMAIN values /\ values[n].kind \in Lists /\ values[n].items # <<>>
  /\ values' = [values EXCEPT ![n].items = Junk]
  /\ spoiled' = spoiled \cup {<<c, n>> : c \in Range(values[n].share)}
  /\ pc' = "wrote"
  /\ UNCHANGED <<app, pflags, run, cmd, in, i, todo, set, bound, err>>

\* The Context is dropped.
Return ==
  /\ pc \in {"handler", "wrote", "end"}
  /\ pc' = "idle"
  /\ cmd' = AnyCmd /\ in' = NoInput
  /\ i' = 1 /\ todo' = {}
  /\ values' = <<>> /\ set' = {}
  /\ bound' = NoBind
  /\ err' = "none"
  /\ UNCHANGED <<app, pflags, spoiled, run>>

Next ==
  \/ New
  \/ \E c \in Cmds, input \in Inputs : Run(c, input)
  \/ ParseFlag \/ Parsed
  \/ ResolveArg \/ ArgsResolved
  \/ \E n \in Names : ResolveFlag(n) \/ Scribble(n)
  \/ FlagsResolved
  \/ \E n \in Names, t \in GoTypes, pointer \in BOOLEAN : Bind(n, t, pointer)
  \/ Return

Spec == Init /\ [][Next]_vars

-----------------------------------------------------------------------------
(* Properties.  A name is unshared when the command sees one declaration   *)
(* of it: nothing refuses an arg that has the name of another arg, or of a *)
(* flag of its own or of a parent.                                         *)

Unshared(n) ==
  Cardinality({k \in DOMAIN Args : Args[k].name = n}) +
    (IF n \in Visible(cmd) THEN 1 ELSE 0) = 1

\* The declaration of such a name.
TheField(n) ==
  IF n \in Visible(cmd)
  THEN FlagDef(cmd, n)
  ELSE Args[CHOOSE k \in DOMAIN Args : Args[k].name = n]

\* The values of the variables; a run has an error exactly when it has ended
\* without its handler, every value belongs to a declared name, and Explicit
\* is true of no name that has no value.
TypeOK ==
  /\ app \in Apps
  /\ \A v \in DOMAIN pflags : pflags[v].last \in 0..run /\ pflags[v].items \in Raw
  /\ spoiled \subseteq Cmds \X Names
  /\ run \in 0..MaxRuns
  /\ pc \in {"new", "refused", "idle", "parse", "args", "flags", "handler", "wrote", "end"}
  /\ cmd \in Cmds /\ in \in Inputs \cup {NoInput}
  /\ i \in Nat \ {0} /\ todo \subseteq Visible(cmd)
  /\ DOMAIN values \subseteq Declared
  /\ \A n \in DOMAIN values : values[n].kind \in Kinds /\ values[n].items \in Raw
  /\ set \subseteq DOMAIN values
  /\ bound.did \in {"none", "zero", "nil", "pointer", "value", "error"}
  /\ err \in {"none", "parse", "arity", "value", "prompt", "required", "choice"}
  /\ pc = "end" <=> err # "none"

\* The first non-empty variable of a sequence of them, <<>> when none is.
FirstOf(s) ==
  LET Found == {k \in DOMAIN s : in.env[s[k]] # <<>>}
  IN IF Found = {} THEN <<>> ELSE in.env[s[CHOOSE k \in Found : \A j \in Found : k <= j]]

EnvValue(f) == IF FirstOf(f.prefixed) # <<>> THEN FirstOf(f.prefixed) ELSE FirstOf(f.literal)

\* The environment, the user, or the default of a field that may have one.
Fallback(f, v) ==
  IF EnvValue(f) # <<>>
  THEN v.from = "env" /\ v.items = EnvValue(f)
  ELSE IF Prompted(f) THEN v.from = "prompt" ELSE v.from = "default" /\ ~f.required

Tokens == IF in.dash < 0 THEN Len(in.pos) ELSE in.dash
GivenNow(n) == {k \in DOMAIN in.given : in.given[k][1] = n}
LastGiven(n) == in.given[CHOOSE k \in GivenNow(n) : \A j \in GivenNow(n) : j <= k][2]

\* The flags the k-th command of the path gives to cmd.
Offers(k) == {f \in app[Path[cmd][k]].flags : k = Len(Path[cmd]) \/ f.persistent}

\* What f, declared on node, resolves to.
FlagValue(node, f) ==
  LET n == f.name
      v == values[n]
  IN IF GivenNow(n) # {}
     THEN /\ v.kind = f.kind /\ v.from = "flag"
          /\ f.kind \notin Accumulating => v.items = LastGiven(n)
     ELSE IF pflags[<<node, n>>].last > 0 THEN v.from = "stale"
     ELSE IF n \notin DOMAIN values THEN f.kind = "count" /\ ~f.required
     ELSE Fallback(f, v) /\ v.kind = f.kind

\* What a handler is given, a token before "--" or the last flag of the
\* command line, else the environment, else the prompt (args), else the
\* default of a field that is not required (docs/architecture.md:302-357),
\* the nearest flag of a name hiding those of the parents.  A flag that only
\* an earlier run gave keeps its value.
SourcesInOrder ==
  pc = "handler" =>
    /\ \A k \in DOMAIN Args : Unshared(Args[k].name) =>
         IF k <= Tokens
         THEN values[Args[k].name].from = "arg" /\ values[Args[k].name].items = in.pos[k]
         ELSE Fallback(Args[k], values[Args[k].name])
    /\ \A k \in DOMAIN Path[cmd] : \A f \in Offers(k) :
         Unshared(f.name) /\ (\A j \in DOMAIN Path[cmd] : j > k =>
                               \A g \in Offers(j) : g.name # f.name) =>
           FlagValue(Path[cmd][k], f)

\* A handler never sees a value of a select or multi-select field outside
\* its choices, wherever the value comes from and however long the App runs.
NothingOutsideChoices ==
  pc = "handler" => \A n \in DOMAIN values : Unshared(n) =>
    LET f == TheField(n) IN
    /\ f.kind = "select" => \E x \in f.choices : values[n].items = <<x>>
    /\ f.kind = "multi" => Range(values[n].items) \subseteq f.choices

\* A default is what was declared in every run, also after handlers of
\* earlier runs have written into the slices they were given.
DefaultsSurvive ==
  pc = "handler" => \A n \in DOMAIN values :
    Unshared(n) /\ values[n].from = "default" => values[n].items = TheField(n).def

\* Binding a declared name to a field of its type always works, and a
\* pointer to that type is allocated when the user gave a value, in this
\* run or a flag in an earlier one, and nil otherwise
\* (context_bind.go:23-27).
BoundAsDeclared ==
  pc = "handler" /\ bound.did # "none" =>
    LET n == bound.name IN
    n \in Declared /\ Unshared(n) /\ bound.type = GoType(TheField(n).kind) =>
      bound.did = IF n \notin DOMAIN values THEN "zero"
                  ELSE IF ~bound.pointer THEN "value"
                  ELSE IF values[n].from = "default" THEN "nil" ELSE "pointer"
=============================================================================
