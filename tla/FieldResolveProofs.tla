------------------------- MODULE FieldResolveProofs -------------------------
(***************************************************************************)
(* Proofs about the values a handler is given, for any declarations,       *)
(* command tree, inputs and number of runs.  The choice passes come at the *)
(* end of each cascade, so the invariant follows what they have looked at: *)
(* after the first, args whose name no flag will overwrite; after the      *)
(* second, flags too.  A default survives because no value shares its      *)
(* slice and every default value is that of a declaration of its name.     *)
(*                                                                         *)
(* Where a value comes from is a second invariant, ValueInv: how far pflag *)
(* has read the command line (FlagsParsed), and the source of every arg    *)
(* and flag the cascades have passed (ArgValued, FlagsValued).  A name     *)
(* that is unshared is stored once, so what is true of its value when it   *)
(* is stored is still true when the handler has it.                        *)
(***************************************************************************)
EXTENDS FieldResolve, FiniteSetTheorems, TLAPS

\* The state of a run that has not begun to resolve.
Bare == {"new", "refused", "idle", "parse"}

Types ==
  /\ app \in [Cmds -> Decl]
  /\ cmd \in Cmds
  /\ i \in Nat \ {0}

\* A default value is the default of some declaration of its name.
Origin(n) ==
  values[n].from = "default" =>
    \/ \E k \in DOMAIN Args : Args[k].name = n /\ values[n].items = Args[k].def
    \/ n \in Visible(cmd) /\ values[n].items = FlagDef(cmd, n).def

ArgsChosen ==
  \A k \in DOMAIN Args :
    Args[k].name \in DOMAIN values \ Visible(cmd) =>
      LET v == values[Args[k].name] IN ValidChoice(Args[k], v.kind, v.items)

FlagsChosen ==
  \A n \in Visible(cmd) \cap DOMAIN values :
    ValidChoice(FlagDef(cmd, n), values[n].kind, values[n].items)

FieldInv ==
  /\ Types
  /\ pc \in Bare => DOMAIN values = {}
  /\ DOMAIN values \subseteq Declared
  /\ pc = "flags" => todo \subseteq Visible(cmd)
  /\ pc \in {"flags", "handler"} => ArgsChosen
  /\ pc = "handler" => FlagsChosen
  /\ spoiled = {}
  /\ pc # "wrote" => \A n \in DOMAIN values : values[n].share = <<>> /\ Origin(n)

\* What a step that leaves the Context alone leaves alone.
LEMMA SameContext ==
  ASSUME app' = app, cmd' = cmd, values' = values
  PROVE  /\ Declared' = Declared /\ Visible(cmd)' = Visible(cmd) /\ Args' = Args
         /\ ArgsChosen' = ArgsChosen /\ FlagsChosen' = FlagsChosen
         /\ \A n : Origin(n)' = Origin(n)
BY DEF Declared, Visible, Holders, Args, ArgsChosen, FlagsChosen, Origin, FlagDef,
       Holder, ValidChoice, Member

LEMMA FieldInit == Init => FieldInv
BY FieldAssumption
   DEF Init, FieldInv, Types, Bare, AnyCmd

\* No default has been written to, and no value shares one.
LEMMA KeepsFresh ==
  ASSUME FieldInv
  PROVE  \A c, f : Default(c, f) = f.def /\ Clone(c, f) = <<>>
BY DEF FieldInv, Default, Clone

\* A cascade stores a value under a declared name.
LEMMA KeepStep ==
  ASSUME FieldInv, UNCHANGED <<app, cmd, spoiled>>, i' \in Nat \ {0},
         pc \in {"args", "flags"},
         NEW n \in Declared, NEW f, NEW items, NEW from, NEW explicit,
         Keep(n, f, items, from, <<>>, explicit),
         from = "default" =>
           \/ \E k \in DOMAIN Args : Args[k].name = n /\ items = Args[k].def
           \/ n \in Visible(cmd) /\ items = FlagDef(cmd, n).def,
         pc = "flags" => n \in Visible(cmd) /\ todo' \subseteq Visible(cmd)
  PROVE  FieldInv'
<1>1. Declared' = Declared /\ Visible(cmd)' = Visible(cmd) /\ Args' = Args
  BY DEF Declared, Visible, Holders, Args
<1>2. \A m : FlagDef(cmd, m)' = FlagDef(cmd, m)
  BY DEF FlagDef, Holder, Holders
<1>3. /\ pc' = pc
      /\ DOMAIN values' = DOMAIN values \cup {n}
      /\ values'[n] = [kind |-> f.kind, items |-> items, from |-> from, share |-> <<>>]
      /\ \A m \in DOMAIN values : m # n => values'[m] = values[m]
  BY DEF Keep
<1>4. DOMAIN values' \subseteq Declared'
  BY <1>1, <1>3 DEF FieldInv
<1>5. ASSUME NEW m \in DOMAIN values'
      PROVE  values'[m].share = <<>> /\ Origin(m)'
  <2>1. CASE m = n
    BY <1>1, <1>2, <1>3, <2>1 DEF Origin
  <2>2. CASE m # n
    <3>1. values[m].share = <<>> /\ Origin(m) /\ values'[m] = values[m]
      BY <1>3, <1>5, <2>2 DEF FieldInv
    <3> QED
      BY <1>1, <1>2, <3>1 DEF Origin
  <2> QED
    BY <2>1, <2>2
<1>6. pc' = "flags" => ArgsChosen'
  <2> SUFFICES ASSUME pc = "flags", NEW k \in DOMAIN Args,
                      Args[k].name \in DOMAIN values' \ Visible(cmd)
               PROVE  LET v == values'[Args[k].name] IN ValidChoice(Args[k], v.kind, v.items)
    BY <1>1, <1>3 DEF ArgsChosen, ValidChoice, Member
  <2>1. Args[k].name # n /\ Args[k].name \in DOMAIN values \ Visible(cmd)
    BY <1>3
  <2>2. values'[Args[k].name] = values[Args[k].name]
    BY <1>3, <2>1
  <2>3. LET v == values[Args[k].name] IN ValidChoice(Args[k], v.kind, v.items)
    BY <2>1 DEF FieldInv, ArgsChosen
  <2> QED
    BY <2>2, <2>3
<1>7. Types'
  BY DEF FieldInv, Types
<1> QED
  BY <1>1, <1>3, <1>4, <1>5, <1>6, <1>7 DEF FieldInv, Bare

\* A run that fails, and other steps that leave the Context alone and go where
\* no choice pass is needed.
LEMMA QuietStep ==
  ASSUME FieldInv, UNCHANGED <<app, cmd, spoiled, values>>, i' \in Nat \ {0},
         pc # "wrote", pc' \notin {"flags", "handler"},
         pc' \in Bare => pc \in Bare
  PROVE  FieldInv'
<1>1. Types'
  BY DEF FieldInv, Types
<1>2. DOMAIN values' \subseteq Declared'
  BY SameContext DEF FieldInv
<1>3. \A n \in DOMAIN values' : values'[n].share = <<>> /\ Origin(n)'
  BY SameContext DEF FieldInv
<1> QED
  BY <1>1, <1>2, <1>3 DEF FieldInv

LEMMA ResolveArgStep == FieldInv /\ ResolveArg => FieldInv'
<1> SUFFICES ASSUME FieldInv, ResolveArg
             PROVE  FieldInv'
  OBVIOUS
<1> DEFINE f == Args[i]
<1>1. /\ pc = "args" /\ i \in DOMAIN Args
      /\ UNCHANGED <<app, cmd, spoiled>> /\ i' \in Nat \ {0}
      /\ f.name \in Declared
  <2>1. pc = "args" /\ i <= Len(Args)
    BY DEF ResolveArg, ArgFromPosition, ArgFromEnv, ArgFromPrompt, ArgFromDefault, NextArg
  <2>2. Args \in Seq(Field) /\ i \in Nat \ {0}
    BY DEF FieldInv, Types, Decl, Args
  <2> QED
    BY <2>1, <2>2 DEF ResolveArg, Declared
<1>2. ASSUME NEW why, Fail(why), UNCHANGED values
      PROVE  FieldInv'
  BY <1>1, <1>2, QuietStep DEF Fail, Bare
<1>3. ASSUME NEW items, NEW from, from # "default", Keep(f.name, f, items, from, <<>>, TRUE)
      PROVE  FieldInv'
  BY <1>1, <1>3, KeepStep
<1>4. ASSUME NEW raw, NEW from, from # "default", Take(f.name, f, raw, from)
      PROVE  FieldInv'
  BY <1>2, <1>3, <1>4 DEF Take
<1>5. CASE ArgFromPosition
  BY <1>4, <1>5 DEF ArgFromPosition
<1>6. CASE ArgFromEnv
  BY <1>4, <1>6 DEF ArgFromEnv
<1>7. CASE ArgFromPrompt
  BY <1>2, <1>3, <1>7 DEF ArgFromPrompt
<1>8. CASE ArgFromDefault
  <2>1. CASE f.required
    BY <1>2, <1>8, <2>1 DEF ArgFromDefault
  <2>2. CASE ~f.required
    <3>1. Keep(f.name, f, f.def, "default", <<>>, FALSE)
      BY <1>8, <2>2, KeepsFresh DEF ArgFromDefault
    <3> QED
      BY <1>1, <3>1, KeepStep
  <2> QED
    BY <2>1, <2>2
<1> QED
  BY <1>5, <1>6, <1>7, <1>8 DEF ResolveArg

LEMMA ResolveFlagStep ==
  ASSUME FieldInv, NEW n \in Names, ResolveFlag(n)
  PROVE  FieldInv'
<1> DEFINE f == FlagDef(cmd, n)
<1>1. /\ pc = "flags" /\ n \in Visible(cmd) /\ n \in Declared
      /\ UNCHANGED <<app, cmd, spoiled>> /\ i' \in Nat \ {0}
      /\ todo' \subseteq Visible(cmd)
  BY DEF ResolveFlag, NextFlag, FieldInv, Types, Declared
<1>2. ASSUME NEW why, Fail(why), UNCHANGED values
      PROVE  FieldInv'
  BY <1>1, <1>2, QuietStep DEF Fail, Bare
<1>3. ASSUME NEW items, NEW from, from # "default", Keep(n, f, items, from, <<>>, TRUE)
      PROVE  FieldInv'
  BY <1>1, <1>3, KeepStep
<1>4. CASE FlagFromCLI(n)
  <2>1. PICK items, from : from # "default" /\ Keep(n, f, items, from, <<>>, TRUE)
    BY <1>4 DEF FlagFromCLI
  <2> QED
    BY <1>3, <2>1
<1>5. CASE FlagFromEnv(n)
  <2>1. PICK raw : Take(n, f, raw, "env")
    BY <1>5 DEF FlagFromEnv
  <2> QED
    BY <1>2, <1>3, <2>1 DEF Take
<1>6. CASE FlagFromDefault(n)
  <2>1. CASE Fail("required") /\ UNCHANGED <<values, set>>
    BY <1>2, <2>1
  <2>2. CASE Keep(n, f, Default(Holder(cmd, n), f), "default", Clone(Holder(cmd, n), f), FALSE)
    <3>1. Keep(n, f, f.def, "default", <<>>, FALSE)
      BY <2>2, KeepsFresh
    <3> QED
      BY <1>1, <3>1, KeepStep
  <2>3. CASE UNCHANGED <<pc, err, values, set>>
    <3>1. Types'
      BY <1>1, <2>3 DEF FieldInv, Types
    <3>2. pc' = "flags" /\ todo' \subseteq Visible(cmd)' /\ values' = values
      BY <1>1, <2>3, SameContext
    <3> QED
      BY <1>1, <3>1, <3>2, SameContext DEF FieldInv, Bare
  <2> QED
    BY <1>6, <2>1, <2>2, <2>3 DEF FlagFromDefault
<1> QED
  BY <1>4, <1>5, <1>6 DEF ResolveFlag

LEMMA FieldNext == FieldInv /\ [Next]_vars => FieldInv'
<1> SUFFICES ASSUME FieldInv, [Next]_vars
             PROVE  FieldInv'
  OBVIOUS
<1>1. CASE New
  BY <1>1, QuietStep DEF New, ctx, Bare, FieldInv, Types
<1>2. ASSUME NEW c \in Cmds, NEW input \in Inputs, Run(c, input)
      PROVE  FieldInv'
  BY <1>2 DEF Run, FieldInv, Types, Bare
<1>3. CASE ParseFlag
  <2>1. /\ pc = "parse" /\ UNCHANGED <<app, cmd, spoiled, values>>
        /\ i' \in {i, i + 1} /\ pc' \in {"parse", "end"}
    BY <1>3 DEF ParseFlag, ctx, Fail
  <2> QED
    BY <2>1, QuietStep DEF Bare, FieldInv, Types
<1>4. CASE Parsed
  <2>1. /\ pc = "parse" /\ UNCHANGED <<app, cmd, spoiled, values>>
        /\ i' \in {i, 1} /\ pc' \in {"args", "end"}
    BY <1>4 DEF Parsed, ctx, Fail
  <2> QED
    BY <2>1, QuietStep DEF Bare, FieldInv, Types
<1>5. CASE ResolveArg
  BY <1>5, ResolveArgStep
<1>6. CASE ArgsResolved
  <2>1. pc = "args" /\ UNCHANGED <<app, cmd, spoiled, values, i>>
    BY <1>6 DEF ArgsResolved, ctx
  <2>2. CASE pc' = "end"
    BY <2>1, <2>2, QuietStep DEF Bare, FieldInv, Types
  <2>3. CASE pc' # "end"
    <3>1. /\ pc' = "flags" /\ todo' = Visible(cmd)
          /\ \A k \in DOMAIN Args : LET n == Args[k].name IN
               n \in DOMAIN values => ValidChoice(Args[k], values[n].kind, values[n].items)
      BY <1>6, <2>3 DEF ArgsResolved, Fail
    <3>2. ArgsChosen
      BY <3>1 DEF ArgsChosen
    <3>3. Types'
      BY <2>1 DEF FieldInv, Types
    <3> QED
      BY <2>1, <3>1, <3>2, <3>3, SameContext DEF FieldInv, Bare
  <2> QED
    BY <2>2, <2>3
<1>7. ASSUME NEW n \in Names, ResolveFlag(n)
      PROVE  FieldInv'
  BY <1>7, ResolveFlagStep
<1>8. CASE FlagsResolved
  <2>1. pc = "flags" /\ UNCHANGED <<app, cmd, spoiled, values, i>>
    BY <1>8 DEF FlagsResolved, ctx
  <2>2. CASE pc' = "end"
    BY <2>1, <2>2, QuietStep DEF Bare, FieldInv, Types
  <2>3. CASE pc' # "end"
    <3>1. /\ pc' = "handler"
          /\ \A n \in Visible(cmd) : n \in DOMAIN values =>
               ValidChoice(FlagDef(cmd, n), values[n].kind, values[n].items)
      BY <1>8, <2>3 DEF FlagsResolved, Fail
    <3>2. FlagsChosen
      BY <3>1 DEF FlagsChosen
    <3>3. Types'
      BY <2>1 DEF FieldInv, Types
    <3> QED
      BY <2>1, <3>1, <3>2, <3>3, SameContext DEF FieldInv, Bare
  <2> QED
    BY <2>2, <2>3
<1>9. ASSUME NEW n, NEW t, NEW pointer, Bind(n, t, pointer)
      PROVE  FieldInv'
  <2>1. UNCHANGED <<app, cmd, spoiled, values, i, pc, todo>> /\ pc = "handler"
    BY <1>9 DEF Bind, ctx
  <2>2. Types'
    BY <2>1 DEF FieldInv, Types
  <2> QED
    BY <2>1, <2>2, SameContext DEF FieldInv, Bare
<1>10. ASSUME NEW n, Scribble(n)
       PROVE  FieldInv'
  <2>1. /\ pc = "handler" /\ pc' = "wrote" /\ n \in DOMAIN values
        /\ UNCHANGED <<app, cmd, i>>
        /\ DOMAIN values' = DOMAIN values
    BY <1>10 DEF Scribble
  <2>2. values[n].share = <<>>
    BY <2>1 DEF FieldInv
  <2>3. Range(values[n].share) = {}
    BY <2>2 DEF Range
  <2>4. spoiled' = {}
    BY <1>10, <2>3 DEF Scribble, FieldInv
  <2>5. Declared' = Declared
    BY <2>1 DEF Declared, Args, Visible, Holders
  <2>6. Types'
    BY <2>1 DEF FieldInv, Types
  <2> QED
    BY <2>1, <2>4, <2>5, <2>6 DEF FieldInv, Bare
<1>11. CASE Return
  BY <1>11, FieldAssumption DEF Return, FieldInv, Types, AnyCmd, Bare
<1>12. CASE UNCHANGED vars
  <2>1. UNCHANGED <<app, cmd, spoiled, values, i, pc, todo>>
    BY <1>12 DEF vars, ctx
  <2>2. Types'
    BY <2>1 DEF FieldInv, Types
  <2> QED
    BY <2>1, <2>2, SameContext DEF FieldInv, Bare
<1> QED
  BY <1>1, <1>2, <1>3, <1>4, <1>5, <1>6, <1>7, <1>8, <1>9, <1>10, <1>11, <1>12 DEF Next

THEOREM FieldInvariant == Spec => []FieldInv
BY FieldInit, FieldNext, PTL DEF Spec

-----------------------------------------------------------------------------
\* A declared name that is not a flag is an arg, and TheField is one of its
\* declarations.
LEMMA ArgField ==
  ASSUME NEW n \in Declared, n \notin Visible(cmd)
  PROVE  \E k \in DOMAIN Args : Args[k].name = n /\ TheField(n) = Args[k]
BY DEF Declared, TheField

\* Only one declaration of an unshared name exists.
LEMMA OneDeclaration ==
  ASSUME FieldInv, NEW n, Unshared(n)
  PROVE  /\ n \in Visible(cmd) => \A k \in DOMAIN Args : Args[k].name # n
         /\ n \notin Visible(cmd) =>
              \A j, k \in DOMAIN Args : Args[j].name = n /\ Args[k].name = n => j = k
<1> DEFINE K == {k \in DOMAIN Args : Args[k].name = n}
<1>1. IsFiniteSet(K)
  <2>1. Args \in Seq(Field)
    BY DEF FieldInv, Types, Decl, Args
  <2>2. K \subseteq 1..Len(Args) /\ Len(Args) \in Nat
    BY <2>1
  <2>3. IsFiniteSet(1..Len(Args))
    BY <2>2, FS_Interval
  <2> HIDE DEF K
  <2> QED
    BY <2>2, <2>3, FS_Subset
<1>2. Cardinality(K) \in Nat
  BY <1>1, FS_CardinalityType
<1>3. Cardinality(K) = IF n \in Visible(cmd) THEN 0 ELSE 1
  BY <1>2 DEF Unshared
<1>4. CASE n \in Visible(cmd)
  BY <1>1, <1>3, <1>4, FS_EmptySet
<1>5. CASE n \notin Visible(cmd)
  <2>1. \E x : K = {x}
    BY <1>1, <1>3, <1>5, FS_Singleton
  <2> QED
    BY <1>5, <2>1
<1> QED
  BY <1>4, <1>5

\* Whatever the declarations, the inputs and the runs before, a handler sees
\* no value of a select or multi-select field outside its choices
\* (context_resolve.go:74-86, 108-117).
THEOREM FieldNothingOutsideChoices == Spec => []NothingOutsideChoices
<1>1. FieldInv => NothingOutsideChoices
  <2> SUFFICES ASSUME FieldInv, pc = "handler", NEW n \in DOMAIN values
               PROVE  LET f == TheField(n) IN
                      /\ f.kind = "select" => \E x \in f.choices : values[n].items = <<x>>
                      /\ f.kind = "multi" => Range(values[n].items) \subseteq f.choices
    BY DEF NothingOutsideChoices
  <2>1. ValidChoice(TheField(n), values[n].kind, values[n].items)
    <3>1. CASE n \in Visible(cmd)
      BY <3>1 DEF FieldInv, FlagsChosen, TheField
    <3>2. CASE n \notin Visible(cmd)
      BY <3>2, ArgField DEF FieldInv, ArgsChosen
    <3> QED
      BY <3>1, <3>2
  <2> QED
    BY <2>1 DEF ValidChoice, Member, Range
<1> QED
  BY <1>1, FieldInvariant, PTL

\* Whatever handlers of earlier runs have written into the slices they were
\* given, a default is what was declared (cloneDefault, valuetype.go:455-464).
THEOREM FieldDefaultsSurvive == Spec => []DefaultsSurvive
<1>1. FieldInv => DefaultsSurvive
  <2> SUFFICES ASSUME FieldInv, pc = "handler", NEW n \in DOMAIN values,
                      Unshared(n), values[n].from = "default"
               PROVE  values[n].items = TheField(n).def
    BY DEF DefaultsSurvive
  <2>1. Origin(n) /\ n \in Declared
    BY DEF FieldInv
  <2>2. CASE n \in Visible(cmd)
    BY <2>1, <2>2, OneDeclaration DEF Origin, TheField
  <2>3. CASE n \notin Visible(cmd)
    BY <2>1, <2>3, ArgField, OneDeclaration DEF Origin
  <2> QED
    BY <2>2, <2>3
<1> QED
  BY <1>1, FieldInvariant, PTL

-----------------------------------------------------------------------------
(* Which source a value comes from.                                        *)

\* f is what cmd means by a flag of its name: no command of the path that is
\* nearer to cmd offers one.
Nearest(k, f) ==
  /\ f \in Offers(k)
  /\ \A j \in DOMAIN Path[cmd] : j > k => \A g \in Offers(j) : g.name # f.name

\* pflag has seen the first upto flags of the command line.
GivenUpTo(n, upto) == {j \in 1..upto : in.given[j][1] = n}

FlagParsed(v, f, G) ==
  IF G = {}
  THEN v.last < run
  ELSE /\ v.last = run
       /\ f.kind \notin Accumulating =>
            \E j \in G : (\A m \in G : m <= j) /\ v.items = in.given[j][2]

FlagsParsed(upto) ==
  \A k \in DOMAIN Path[cmd] : \A f \in Offers(k) : Nearest(k, f) =>
    FlagParsed(pflags[<<Path[cmd][k], f.name>>], f, GivenUpTo(f.name, upto))

\* The value of an unshared name has the kind of its declaration, and Explicit
\* is true of it unless it is a default.
AsDeclared(n) ==
  Unshared(n) => /\ values[n].kind = TheField(n).kind
                 /\ (n \in set <=> values[n].from # "default")

\* The k-th arg has the value SourcesInOrder promises.
ArgValued(k) ==
  Unshared(Args[k].name) =>
    LET v == values[Args[k].name] IN
    /\ Args[k].name \in DOMAIN values
    /\ IF k <= Tokens THEN v.from = "arg" /\ v.items = in.pos[k] ELSE Fallback(Args[k], v)

FlagValued(node, f) ==
  /\ FlagValue(node, f)
  /\ f.name \notin DOMAIN values => GivenNow(f.name) = {} /\ ~(pflags[<<node, f.name>>].last > 0)

\* And so has every flag that is no longer to do.
FlagsValued(rest) ==
  \A k \in DOMAIN Path[cmd] : \A f \in Offers(k) :
    Nearest(k, f) /\ Unshared(f.name) /\ f.name \notin rest => FlagValued(Path[cmd][k], f)

ArgNames(S) == {Args[k].name : k \in S}

Resolving == {"args", "flags", "handler"}

\* How far the parser and the cascades have come.
Progress ==
  /\ pc \in {"new", "refused", "idle"} => i = 1
  /\ pc = "parse" => i \in 1..(Len(in.given) + 1) /\ FlagsParsed(i - 1)
  /\ pc \in Resolving => FlagsParsed(Len(in.given))
  /\ pc = "args" => /\ i <= Len(Args) + 1
                    /\ DOMAIN values \subseteq ArgNames(1..(i - 1))
                    /\ \A k \in 1..(i - 1) : ArgValued(k)
  /\ pc \in {"flags", "handler"} => \A k \in DOMAIN Args : ArgValued(k)
  /\ pc = "flags" => /\ todo \cap DOMAIN values \subseteq ArgNames(DOMAIN Args)
                     /\ FlagsValued(todo)
  /\ pc = "handler" => FlagsValued({})

ValueInv ==
  /\ FieldInv
  /\ app \in Apps
  /\ run \in Nat
  /\ DOMAIN pflags = UNION {{<<c, f.name>> : f \in app[c].flags} : c \in Cmds}
  /\ \A v \in DOMAIN pflags : pflags[v].last \in 0..run
  /\ pc \notin {"new", "refused", "idle"} => run > 0 /\ in \in Inputs
  /\ pc \in Bare => set = {}
  /\ pc \in Resolving => /\ set \subseteq DOMAIN values
                         /\ \A n \in DOMAIN values : AsDeclared(n)
  /\ Progress
  /\ pc \notin {"handler", "wrote"} => bound.did = "none"
  /\ BoundAsDeclared

-----------------------------------------------------------------------------
\* The path of a command ends with it and holds no command twice.
LEMMA PathFacts ==
  ASSUME Types
  PROVE  /\ Path[cmd] \in Seq(Cmds) /\ Len(Path[cmd]) \in DOMAIN Path[cmd]
         /\ \A k \in DOMAIN Path[cmd] : Path[cmd][k] = cmd <=> k = Len(Path[cmd])
<1>1. Path[cmd] \in Seq(Cmds) /\ Path[cmd] # <<>> /\ Path[cmd][Len(Path[cmd])] = cmd
  BY FieldAssumption DEF Types
<1>2. Len(Path[cmd]) \in DOMAIN Path[cmd]
  BY <1>1
<1> QED
  BY <1>1, <1>2, FieldAssumption DEF Types

\* The commands that give cmd a flag are those that offer one.
LEMMA HoldersOffer ==
  ASSUME Types, NEW n
  PROVE  Holders(cmd, n) = {k \in DOMAIN Path[cmd] : \E f \in Offers(k) : f.name = n}
BY PathFacts DEF Holders, Offers

\* The nearest flag of a name is the one newContext and Cobra take.
LEMMA NearestIsMeant ==
  ASSUME Types, app \in Apps, NEW k \in DOMAIN Path[cmd], NEW f, Nearest(k, f)
  PROVE  /\ f \in Field /\ f \in app[Path[cmd][k]].flags /\ Path[cmd][k] \in Cmds
         /\ f.name \in Visible(cmd) /\ ~f.prompt
         /\ Holder(cmd, f.name) = Path[cmd][k]
         /\ FlagDef(cmd, f.name) = f
         /\ CobraFlag(cmd, f.name) = <<Path[cmd][k], f.name>>
<1> DEFINE n == f.name
           H == Holders(cmd, n)
<1>1. Path[cmd][k] \in Cmds /\ DOMAIN Path[cmd] \subseteq Nat
  BY PathFacts
<1>2. f \in app[Path[cmd][k]].flags
  BY DEF Nearest, Offers
<1>3. f \in Field
  <2>1. app[Path[cmd][k]].flags \subseteq Field
    BY <1>1 DEF Types, Decl
  <2> QED
    BY <1>2, <2>1
<1>4. n \in Names
  BY <1>3 DEF Field
<1>5. k \in H /\ \A j \in H : j <= k
  BY <1>1, HoldersOffer DEF Nearest
<1>6. n \in Visible(cmd)
  BY <1>4, <1>5 DEF Visible
<1>7. H \subseteq Nat
  BY <1>1 DEF Holders
<1>8. (CHOOSE m \in H : \A j \in H : m >= j) = k
  <2> HIDE DEF H
  <2> QED
    BY <1>5, <1>7
<1>9. Holder(cmd, n) = Path[cmd][k] /\ CobraFlag(cmd, n) = <<Path[cmd][k], n>>
  BY <1>8 DEF Holder, CobraFlag
<1>10. \A g \in app[Path[cmd][k]].flags : ~g.prompt /\ (g.name = n => g = f)
  <2>1. \A c \in Cmds : \A g, h \in app[c].flags : ~g.prompt /\ (g.name = h.name => g = h)
    BY FieldAssumption
  <2> QED
    BY <1>1, <1>2, <2>1
<1>11. FlagDef(cmd, n) = f
  BY <1>2, <1>9, <1>10 DEF FlagDef
<1> QED
  BY <1>1, <1>2, <1>3, <1>6, <1>9, <1>10, <1>11

\* The variable lookupEnvForField takes is the one EnvValue names.
LEMMA FirstFound ==
  ASSUME NEW s \in Seq(Keys), NEW k \in DOMAIN s, in.env[s[k]] # <<>>,
         \A j \in 1..(k - 1) : in.env[s[j]] = <<>>
  PROVE  FirstOf(s) = in.env[s[k]]
<1> DEFINE Found == {j \in DOMAIN s : in.env[s[j]] # <<>>}
<1>1. k \in Found /\ \A j \in Found : k <= j
  OBVIOUS
<1>2. Found \subseteq Nat
  OBVIOUS
<1>3. (CHOOSE m \in Found : \A j \in Found : m <= j) = k
  <2> HIDE DEF Found
  <2> QED
    BY <1>1, <1>2
<1> QED
  BY <1>1, <1>3 DEF FirstOf

LEMMA NoneFound ==
  ASSUME NEW s, \A k \in DOMAIN s : in.env[s[k]] = <<>>
  PROVE  FirstOf(s) = <<>>
BY DEF FirstOf

LEMMA Concatenated ==
  ASSUME NEW S, NEW s \in Seq(S), NEW t \in Seq(S)
  PROVE  /\ Len(s) \in Nat /\ Len(t) \in Nat
         /\ DOMAIN s = 1..Len(s) /\ DOMAIN t = 1..Len(t)
         /\ DOMAIN (s \o t) = 1..(Len(s) + Len(t))
         /\ \A k \in 1..Len(s) : (s \o t)[k] = s[k]
         /\ \A k \in 1..Len(t) : (s \o t)[Len(s) + k] = t[k]
OBVIOUS

LEMMA EnvFound ==
  ASSUME NEW f \in Field, NEW raw, EnvGives(f, raw)
  PROVE  EnvValue(f) = raw /\ raw # <<>>
<1> DEFINE P == f.prefixed
           L == f.literal
<1>1. P \in Seq(Keys) /\ L \in Seq(Keys)
  BY DEF Field
<1>2. PICK k \in DOMAIN (P \o L) :
        /\ in.env[(P \o L)[k]] = raw /\ raw # <<>>
        /\ \A j \in 1..(k - 1) : in.env[(P \o L)[j]] = <<>>
  BY DEF EnvGives, Candidates
<1> DEFINE m == k - Len(P)
<1>3. EnvValue(f) = IF FirstOf(P) # <<>> THEN FirstOf(P) ELSE FirstOf(L)
  BY DEF EnvValue
<1> HIDE DEF P, L
<1>4. k \in 1..(Len(P) + Len(L)) /\ Len(P) \in Nat /\ Len(L) \in Nat
  BY <1>1, Concatenated
<1>5. CASE k <= Len(P)
  <2>1. k \in DOMAIN P /\ in.env[P[k]] = raw
    BY <1>1, <1>2, <1>4, <1>5, Concatenated
  <2>2. ASSUME NEW j \in 1..(k - 1)
        PROVE  in.env[P[j]] = <<>>
    <3>1. j \in 1..Len(P)
      BY <1>4, <1>5
    <3> QED
      BY <1>1, <1>2, <3>1, Concatenated
  <2>3. FirstOf(P) = raw
    BY <1>1, <1>2, <2>1, <2>2, FirstFound
  <2> QED
    BY <1>2, <1>3, <2>3
<1>6. CASE k > Len(P)
  <2>1. m \in 1..Len(L) /\ k = Len(P) + m
    BY <1>4, <1>6
  <2>2. ASSUME NEW j \in DOMAIN P
        PROVE  in.env[P[j]] = <<>>
    <3>1. j \in 1..Len(P) /\ j \in 1..(k - 1)
      BY <1>1, <1>4, <1>6, Concatenated
    <3> QED
      BY <1>1, <1>2, <3>1, Concatenated
  <2>3. FirstOf(P) = <<>>
    BY <2>2, NoneFound
  <2>4. m \in DOMAIN L /\ in.env[L[m]] = raw
    BY <1>1, <1>2, <2>1, Concatenated
  <2>5. ASSUME NEW j \in 1..(m - 1)
        PROVE  in.env[L[j]] = <<>>
    <3>1. j \in 1..Len(L) /\ Len(P) + j \in 1..(k - 1)
      BY <1>4, <2>1
    <3>2. in.env[(P \o L)[Len(P) + j]] = <<>>
      BY <1>2, <3>1
    <3>3. (P \o L)[Len(P) + j] = L[j]
      BY <1>1, <3>1, Concatenated
    <3> QED
      BY <3>2, <3>3
  <2> HIDE DEF m
  <2>6. FirstOf(L) = raw
    BY <1>1, <1>2, <2>4, <2>5, FirstFound
  <2> QED
    BY <1>2, <1>3, <2>3, <2>6
<1> QED
  BY <1>4, <1>5, <1>6

LEMMA EnvNotFound ==
  ASSUME NEW f \in Field, EnvSilent(f)
  PROVE  EnvValue(f) = <<>>
<1> DEFINE P == f.prefixed
           L == f.literal
<1>1. P \in Seq(Keys) /\ L \in Seq(Keys)
  BY DEF Field
<1>2. \A k \in DOMAIN (P \o L) : in.env[(P \o L)[k]] = <<>>
  BY DEF EnvSilent, Candidates
<1>3. EnvValue(f) = IF FirstOf(P) # <<>> THEN FirstOf(P) ELSE FirstOf(L)
  BY DEF EnvValue
<1> HIDE DEF P, L
<1>4. ASSUME NEW k \in DOMAIN P
      PROVE  in.env[P[k]] = <<>>
  <2>1. k \in 1..Len(P) /\ k \in 1..(Len(P) + Len(L))
    BY <1>1, Concatenated
  <2> QED
    BY <1>1, <1>2, <2>1, Concatenated
<1>5. ASSUME NEW k \in DOMAIN L
      PROVE  in.env[L[k]] = <<>>
  <2>1. k \in 1..Len(L) /\ Len(P) + k \in 1..(Len(P) + Len(L))
    BY <1>1, Concatenated
  <2> QED
    BY <1>1, <1>2, <2>1, Concatenated
<1> QED
  BY <1>3, <1>4, <1>5, NoneFound

-----------------------------------------------------------------------------
\* What the properties of a value are about, as long as the run goes on.
LEMMA SameRun ==
  ASSUME UNCHANGED <<app, cmd, in>>
  PROVE  /\ Args' = Args /\ Visible(cmd)' = Visible(cmd) /\ Declared' = Declared
         /\ Tokens' = Tokens
         /\ \A k, f : Nearest(k, f)' = Nearest(k, f)
         /\ \A k : Offers(k)' = Offers(k)
         /\ \A n : /\ Unshared(n)' = Unshared(n) /\ TheField(n)' = TheField(n)
                   /\ GivenNow(n)' = GivenNow(n) /\ LastGiven(n)' = LastGiven(n)
         /\ \A f, v : Fallback(f, v)' = Fallback(f, v)
         /\ \A n, upto : GivenUpTo(n, upto)' = GivenUpTo(n, upto)
<1>1. Args' = Args /\ Visible(cmd)' = Visible(cmd) /\ Tokens' = Tokens
  BY DEF Args, Visible, Holders, Tokens
<1>2. \A k : Offers(k)' = Offers(k)
  BY DEF Offers
<1>3. \A k, f : Nearest(k, f)' = Nearest(k, f)
  BY <1>2 DEF Nearest
<1>4. \A n : Unshared(n)' = Unshared(n)
  BY <1>1 DEF Unshared
<1>5. \A n : TheField(n)' = TheField(n)
  BY <1>1 DEF TheField, FlagDef, Holder, Holders
<1>6. \A n : GivenNow(n)' = GivenNow(n) /\ LastGiven(n)' = LastGiven(n)
  BY DEF GivenNow, LastGiven
<1>7. \A f, v : Fallback(f, v)' = Fallback(f, v)
  BY DEF Fallback, EnvValue, FirstOf, Prompted
<1>8. \A n, upto : GivenUpTo(n, upto)' = GivenUpTo(n, upto)
  BY DEF GivenUpTo
<1> QED
  BY <1>1, <1>2, <1>3, <1>4, <1>5, <1>6, <1>7, <1>8 DEF Declared

LEMMA SameFlags ==
  ASSUME UNCHANGED <<app, cmd, in, run, pflags>>
  PROVE  \A upto : FlagsParsed(upto)' = FlagsParsed(upto)
<1> TAKE upto
<1>1. \A v, f, G : FlagParsed(v, f, G)' = FlagParsed(v, f, G)
  BY DEF FlagParsed
<1>2. \A k \in DOMAIN Path[cmd] : \A f \in Offers(k) :
        (Nearest(k, f) => FlagParsed(pflags[<<Path[cmd][k], f.name>>], f, GivenUpTo(f.name, upto)))'
          = (Nearest(k, f) => FlagParsed(pflags[<<Path[cmd][k], f.name>>], f, GivenUpTo(f.name, upto)))
  BY <1>1, SameRun
<1> QED
  BY <1>2, SameRun DEF FlagsParsed

\* A step of a run that changes no value.
LEMMA SameValues ==
  ASSUME UNCHANGED <<app, cmd, in, run, pflags, values, set>>
  PROVE  /\ \A n : AsDeclared(n)' = AsDeclared(n)
         /\ \A k : ArgValued(k)' = ArgValued(k)
         /\ \A node, f : FlagValued(node, f)' = FlagValued(node, f)
         /\ \A rest : FlagsValued(rest)' = FlagsValued(rest)
<1>1. \A node, f : FlagValued(node, f)' = FlagValued(node, f)
  BY SameRun DEF FlagValued, FlagValue
<1>2. \A n : AsDeclared(n)' = AsDeclared(n)
  BY SameRun DEF AsDeclared
<1>3. \A k : ArgValued(k)' = ArgValued(k)
  BY SameRun DEF ArgValued
<1> QED
  BY <1>1, <1>2, <1>3, SameRun DEF FlagsValued

\* A run that fails.
LEMMA FailStep ==
  ASSUME ValueInv, FieldInv', pc' = "end", pc \in {"parse", "args", "flags"},
         UNCHANGED <<app, in, run, pflags, bound>>
  PROVE  ValueInv'
<1>1. /\ app' \in Apps /\ run' \in Nat /\ in' \in Inputs /\ bound'.did = "none"
      /\ DOMAIN pflags' = UNION {{<<c, f.name>> : f \in app'[c].flags} : c \in Cmds}
      /\ \A v \in DOMAIN pflags' : pflags'[v].last \in 0..run'
  BY DEF ValueInv
<1>2. Progress' /\ BoundAsDeclared'
  BY DEF Progress, Resolving, BoundAsDeclared
<1> QED
  BY <1>1, <1>2 DEF ValueInv, Bare, Resolving

\* A cascade stores a value.
LEMMA KeepValue ==
  ASSUME ValueInv, UNCHANGED <<app, cmd, in, run, pflags>>, pc \in {"args", "flags"},
         NEW n, NEW f, NEW items, NEW from, NEW explicit,
         Keep(n, f, items, from, <<>>, explicit),
         explicit = IF from = "default" THEN FALSE ELSE TRUE,
         Unshared(n) => f = TheField(n),
         Unshared(n) => n \notin DOMAIN values
  PROVE  /\ pc' = pc
         /\ set' \subseteq DOMAIN values'
         /\ DOMAIN values' = DOMAIN values \cup {n}
         /\ values'[n].kind = f.kind /\ values'[n].items = items /\ values'[n].from = from
         /\ \A m \in DOMAIN values' : AsDeclared(m)'
         /\ \A k : ArgValued(k) => ArgValued(k)'
         /\ \A node, g : g.name # n /\ FlagValued(node, g) => FlagValued(node, g)'
<1>1. /\ pc' = pc
      /\ DOMAIN values' = DOMAIN values \cup {n}
      /\ values'[n] = [kind |-> f.kind, items |-> items, from |-> from, share |-> <<>>]
      /\ \A m \in DOMAIN values : m # n => values'[m] = values[m]
      /\ set' = IF explicit THEN set \cup {n} ELSE set
  BY DEF Keep
<1>2. set \subseteq DOMAIN values /\ \A m \in DOMAIN values : AsDeclared(m)
  BY DEF ValueInv, Resolving
<1>3. ASSUME NEW m \in DOMAIN values'
      PROVE  AsDeclared(m)'
  <2> SUFFICES ASSUME Unshared(m)
               PROVE  /\ values'[m].kind = TheField(m).kind
                      /\ (m \in set' <=> values'[m].from # "default")
    BY SameRun DEF AsDeclared
  <2>1. CASE m = n
    BY <1>1, <1>2, <2>1
  <2>2. CASE m # n
    BY <1>1, <1>2, <2>2 DEF AsDeclared
  <2> QED
    BY <2>1, <2>2
<1>4. ASSUME NEW k, ArgValued(k)
      PROVE  ArgValued(k)'
  <2> SUFFICES ASSUME Unshared(Args[k].name)
               PROVE  ArgValued(k)'
    BY SameRun DEF ArgValued
  <2>1. Args[k].name \in DOMAIN values
    BY <1>4 DEF ArgValued
  <2>2. Args[k].name # n
    BY <2>1
  <2>3. values'[Args[k].name] = values[Args[k].name] /\ Args[k].name \in DOMAIN values'
    BY <1>1, <2>1, <2>2
  <2> QED
    BY <1>4, <2>3, SameRun DEF ArgValued
<1>5. ASSUME NEW node, NEW g, g.name # n, FlagValued(node, g)
      PROVE  FlagValued(node, g)'
  <2>1. g.name \in DOMAIN values' <=> g.name \in DOMAIN values
    BY <1>1, <1>5
  <2>2. CASE g.name \in DOMAIN values
    <3>1. values'[g.name] = values[g.name]
      BY <1>1, <1>5, <2>2
    <3> QED
      BY <1>5, <2>1, <2>2, <3>1, SameRun DEF FlagValued, FlagValue
  <2>3. CASE g.name \notin DOMAIN values
    BY <1>5, <2>1, <2>3, SameRun DEF FlagValued, FlagValue
  <2> QED
    BY <2>2, <2>3
<1> QED
  BY <1>1, <1>2, <1>3, <1>4, <1>5

\* The k-th arg of args of that name.
LEMMA UnsharedArg ==
  ASSUME FieldInv, NEW k \in DOMAIN Args, Unshared(Args[k].name)
  PROVE  /\ Args[k].name \notin Visible(cmd)
         /\ TheField(Args[k].name) = Args[k]
         /\ \A j \in DOMAIN Args : Args[j].name = Args[k].name => j = k
<1> DEFINE n == Args[k].name
<1>1. n \notin Visible(cmd)
  BY OneDeclaration
<1>2. \A j \in DOMAIN Args : Args[j].name = n => j = k
  BY <1>1, OneDeclaration
<1>3. TheField(n) = Args[k]
  <2>1. n \in Declared
    BY DEF Declared
  <2>2. PICK j \in DOMAIN Args : Args[j].name = n /\ TheField(n) = Args[j]
    BY <1>1, <2>1, ArgField
  <2> QED
    BY <1>2, <2>2
<1> QED
  BY <1>1, <1>2, <1>3

LEMMA ResolveArgValue == ValueInv /\ ResolveArg /\ FieldInv' => ValueInv'
<1> SUFFICES ASSUME ValueInv, ResolveArg, FieldInv'
             PROVE  ValueInv'
  OBVIOUS
<1>0. PICK f, n : f = Args[i] /\ n = f.name
  OBVIOUS
<1>1. /\ pc = "args" /\ i \in 1..Len(Args) /\ i' = i + 1
      /\ UNCHANGED <<app, pflags, run, cmd, in, bound>>
  <2>1. /\ pc = "args" /\ i <= Len(Args) /\ i' = i + 1
        /\ UNCHANGED <<app, pflags, run, cmd, in, bound>>
    BY DEF ResolveArg, ArgFromPosition, ArgFromEnv, ArgFromPrompt, ArgFromDefault, NextArg
  <2>2. Args \in Seq(Field) /\ i \in Nat \ {0}
    BY DEF ValueInv, FieldInv, Types, Decl, Args
  <2> QED
    BY <2>1, <2>2
<1>2. Args \in Seq(Field) /\ DOMAIN Args = 1..Len(Args) /\ Len(Args) \in Nat /\ f \in Field
  <2>1. Args \in Seq(Field)
    BY DEF ValueInv, FieldInv, Types, Decl, Args
  <2> QED
    BY <1>0, <1>1, <2>1
<1>3. Unshared(n) => f = TheField(n) /\ n \notin DOMAIN values
  <2> SUFFICES ASSUME Unshared(n), n \in DOMAIN values
               PROVE  FALSE
    BY <1>0, <1>1, <1>2, UnsharedArg DEF ValueInv
  <2>1. PICK j \in 1..(i - 1) : Args[j].name = n
    BY <1>1 DEF ValueInv, Progress, ArgNames
  <2> QED
    BY <1>0, <1>1, <1>2, <2>1, UnsharedArg DEF ValueInv
<1>4. in \in Inputs /\ in.pos \in Seq(Raw) /\ in.dash \in -1..Len(in.pos)
  BY <1>1, FieldAssumption DEF ValueInv, Input
<1>5. /\ Given <=> i <= Tokens
      /\ Given => PreDash[i] = in.pos[i]
  BY <1>1, <1>4 DEF Given, PreDash, Tokens
<1>6. ASSUME NEW why, Fail(why)
      PROVE  ValueInv'
  BY <1>1, <1>6, FailStep DEF Fail
<1>7. ASSUME NEW items, NEW from, NEW explicit,
             Keep(n, f, items, from, <<>>, explicit),
             explicit = IF from = "default" THEN FALSE ELSE TRUE,
             IF Given THEN from = "arg" /\ items = in.pos[i]
             ELSE \A v : v.from = from /\ v.items = items => Fallback(f, v)
      PROVE  ValueInv'
  <2>1. /\ pc' = pc
        /\ set' \subseteq DOMAIN values'
        /\ DOMAIN values' = DOMAIN values \cup {n}
        /\ values'[n].kind = f.kind /\ values'[n].items = items /\ values'[n].from = from
        /\ \A m \in DOMAIN values' : AsDeclared(m)'
        /\ \A k : ArgValued(k) => ArgValued(k)'
    <3>1. UNCHANGED <<app, cmd, in, run, pflags>> /\ pc \in {"args", "flags"}
      BY <1>1
    <3>2. Unshared(n) => f = TheField(n)
      BY <1>3
    <3>3. Unshared(n) => n \notin DOMAIN values
      BY <1>3
    <3> QED
      BY <1>7, <3>1, <3>2, <3>3, KeepValue
  <2>2. \A k : k = i => ArgValued(k)'
    <3>1. n \in DOMAIN values'
      BY <2>1
    <3>2. IF i <= Tokens THEN values'[n].from = "arg" /\ values'[n].items = in.pos[i]
          ELSE Fallback(f, values'[n])
      BY <1>5, <1>7, <2>1
    <3> QED
      BY <1>0, <1>1, <3>1, <3>2, SameRun DEF ArgValued
  <2>3. DOMAIN values' \subseteq ArgNames(1..(i - 1))'
    <3>1. DOMAIN values \subseteq ArgNames(1..(i - 1)) /\ Args' = Args
      BY <1>1, SameRun DEF ValueInv, Progress
    <3>2. 1..(i' - 1) = 1..(i - 1) \cup {i}
      BY <1>1
    <3> QED
      BY <1>0, <1>1, <2>1, <3>1, <3>2 DEF ArgNames
  <2>4. \A k \in 1..(i' - 1) : ArgValued(k)'
    <3>1. \A k \in 1..(i - 1) : ArgValued(k)'
      BY <1>1, <2>1 DEF ValueInv, Progress
    <3>2. 1..(i' - 1) = 1..(i - 1) \cup {i}
      BY <1>1
    <3> QED
      BY <2>2, <3>1, <3>2
  <2>5. FlagsParsed(Len(in.given))'
    BY <1>1, SameFlags DEF ValueInv, Progress, Resolving
  <2>6. Progress'
    BY <1>1, <1>2, <2>1, <2>3, <2>4, <2>5, SameRun DEF Progress, Resolving
  <2>7. BoundAsDeclared'
    BY <1>1, <2>1 DEF BoundAsDeclared
  <2> QED
    BY <1>1, <2>1, <2>6, <2>7 DEF ValueInv, Resolving, Bare
<1>8. ASSUME NEW raw, NEW from, from # "default", Take(n, f, raw, from),
             IF Given THEN from = "arg" /\ raw = in.pos[i]
             ELSE \A v : v.from = from /\ v.items = raw => Fallback(f, v)
      PROVE  ValueInv'
  <2>1. CASE Keep(n, f, raw, from, <<>>, TRUE)
    BY <1>7, <1>8, <2>1
  <2>2. CASE Fail("value")
    BY <1>6, <2>2
  <2> QED
    BY <1>8, <2>1, <2>2 DEF Take
<1>9. CASE ArgFromPosition
  <2>1. Given /\ Take(n, f, in.pos[i], "arg")
    BY <1>0, <1>5, <1>9 DEF ArgFromPosition
  <2> QED
    BY <1>8, <2>1
<1>10. CASE ArgFromEnv
  <2>1. PICK raw : ~Given /\ EnvGives(f, raw) /\ Take(n, f, raw, "env")
    BY <1>0, <1>10 DEF ArgFromEnv
  <2>2. \A v : v.from = "env" /\ v.items = raw => Fallback(f, v)
    BY <1>2, <2>1, EnvFound DEF Fallback
  <2> QED
    BY <1>8, <2>1, <2>2
<1>11. CASE ArgFromPrompt
  <2>1. ~Given /\ EnvSilent(f) /\ Prompted(f)
    BY <1>0, <1>11 DEF ArgFromPrompt
  <2>2. \A v : v.from = "prompt" => Fallback(f, v)
    BY <1>2, <2>1, EnvNotFound DEF Fallback
  <2>3. ASSUME NEW answer, Keep(n, f, answer, "prompt", <<>>, TRUE)
        PROVE  ValueInv'
    <3> QED
      BY <1>7, <2>1, <2>2, <2>3
  <2> QED
    BY <1>0, <1>6, <1>11, <2>3 DEF ArgFromPrompt
<1>12. CASE ArgFromDefault
  <2>1. ~Given /\ EnvSilent(f) /\ ~Prompted(f)
    BY <1>0, <1>12 DEF ArgFromDefault
  <2>2. CASE f.required
    BY <1>0, <1>6, <1>12, <2>2 DEF ArgFromDefault
  <2>3. CASE ~f.required
    <3>1. \A v : v.from = "default" => Fallback(f, v)
      BY <1>2, <2>1, <2>3, EnvNotFound DEF Fallback
    <3>2. Keep(n, f, Default(cmd, f), "default", <<>>, FALSE)
      BY <1>0, <1>12, <2>3 DEF ArgFromDefault, Clone
    <3> QED
      BY <1>7, <2>1, <3>1, <3>2
  <2> QED
    BY <2>2, <2>3
<1> QED
  BY <1>9, <1>10, <1>11, <1>12 DEF ResolveArg

\* What pflag has made of the flag that cmd means by n.
LEMMA FlagOfThisRun ==
  ASSUME ValueInv, pc = "flags", NEW k \in DOMAIN Path[cmd], NEW f, Nearest(k, f)
  PROVE  LET v == pflags[CobraFlag(cmd, f.name)] IN
         /\ v = pflags[<<Path[cmd][k], f.name>>]
         /\ v.last \in 0..run /\ run \in Nat \ {0}
         /\ GivenNow(f.name) = {} => v.last < run
         /\ GivenNow(f.name) # {} =>
              v.last = run /\ (f.kind \notin Accumulating => v.items = LastGiven(f.name))
<1> DEFINE n == f.name
           v == pflags[CobraFlag(cmd, n)]
           G == GivenUpTo(n, Len(in.given))
<1>1. /\ Types /\ app \in Apps /\ run \in Nat \ {0} /\ FlagsParsed(Len(in.given))
      /\ in.given \in Seq(Names \X Raw)
  <2>1. Types /\ app \in Apps /\ run \in Nat \ {0} /\ in \in Inputs
    BY DEF ValueInv, FieldInv
  <2>2. FlagsParsed(Len(in.given))
    BY DEF ValueInv, Progress, Resolving
  <2> QED
    BY <2>1, <2>2, FieldAssumption DEF Input
<1>2. CobraFlag(cmd, n) = <<Path[cmd][k], n>>
  BY <1>1, NearestIsMeant
<1>3. CobraFlag(cmd, n) \in DOMAIN pflags
  <2>1. Path[cmd][k] \in Cmds /\ f \in app[Path[cmd][k]].flags
    BY <1>1, NearestIsMeant
  <2> QED
    BY <1>2, <2>1 DEF ValueInv
<1>4. v.last \in 0..run
  BY <1>3 DEF ValueInv
<1>5. FlagParsed(v, f, G)
  <2>1. f \in Offers(k)
    BY DEF Nearest
  <2> HIDE DEF G
  <2> QED
    BY <1>1, <1>2, <2>1 DEF FlagsParsed, G
<1>6. G = GivenNow(n) /\ G \subseteq Nat
  BY <1>1 DEF GivenUpTo, GivenNow
<1>7. ASSUME G # {}, f.kind \notin Accumulating
      PROVE  v.items = LastGiven(n)
  <2>1. PICK j \in G : (\A m \in G : m <= j) /\ v.items = in.given[j][2]
    BY <1>5, <1>7 DEF FlagParsed
  <2>2. (CHOOSE m \in G : \A l \in G : l <= m) = j
    <3> HIDE DEF G
    <3> QED
      BY <1>6, <2>1
  <2>3. LastGiven(n) = in.given[CHOOSE m \in G : \A l \in G : l <= m][2]
    <3> HIDE DEF G
    <3> QED
      BY <1>6 DEF LastGiven
  <2> QED
    BY <2>1, <2>2, <2>3
<1> HIDE DEF G, v
<1>8. /\ G = {} => v.last < run
      /\ G # {} => v.last = run /\ (f.kind \notin Accumulating => v.items = LastGiven(n))
  BY <1>5, <1>7 DEF FlagParsed
<1> QED
  BY <1>1, <1>2, <1>4, <1>6, <1>8 DEF v

LEMMA ResolveFlagValue ==
  ASSUME ValueInv, NEW n \in Names, ResolveFlag(n), FieldInv'
  PROVE  ValueInv'
<1>0. PICK f : f = FlagDef(cmd, n)
  OBVIOUS
<1>1. /\ pc = "flags" /\ n \in Visible(cmd) /\ n \in todo /\ todo' = todo \ {n}
      /\ UNCHANGED <<app, pflags, run, cmd, in, i, bound>>
  BY DEF ResolveFlag, NextFlag, ValueInv, FieldInv
<1>2. /\ Unshared(n) => f = TheField(n)
      /\ Unshared(n) => n \notin DOMAIN values
  <2>1. Unshared(n) => f = TheField(n)
    BY <1>0, <1>1 DEF TheField
  <2>2. ASSUME Unshared(n), n \in DOMAIN values
        PROVE  FALSE
    <3>1. n \in ArgNames(DOMAIN Args)
      BY <1>1, <2>2 DEF ValueInv, Progress
    <3> QED
      BY <1>1, <2>2, <3>1, OneDeclaration DEF ValueInv, ArgNames
  <2> QED
    BY <2>1, <2>2
<1>3. ASSUME NEW why, Fail(why)
      PROVE  ValueInv'
  BY <1>1, <1>3, FailStep DEF Fail
\* The declaration of n, where it is the nearest and only one of its name.
<1> DEFINE TheDeclaration(k) == k \in DOMAIN Path[cmd] /\ Nearest(k, f) /\ f.name = n /\ Unshared(n)
<1>4. ASSUME NEW k \in DOMAIN Path[cmd], NEW g, Nearest(k, g), g.name = n
      PROVE  g = f /\ f \in Field /\ ~f.prompt
  <2>1. Types /\ app \in Apps
    BY DEF ValueInv, FieldInv
  <2> QED
    BY <1>0, <1>4, <2>1, NearestIsMeant
<1>5. ASSUME pc' = pc, set' \subseteq DOMAIN values',
             DOMAIN values' \subseteq DOMAIN values \cup {n},
             \A m \in DOMAIN values' : AsDeclared(m)',
             \A k : ArgValued(k) => ArgValued(k)',
             \A node, g : g.name # n /\ FlagValued(node, g) => FlagValued(node, g)',
             \A k : TheDeclaration(k) => FlagValued(Path[cmd][k], f)'
      PROVE  ValueInv'
  <2>1. \A k \in DOMAIN Args' : ArgValued(k)'
    BY <1>1, <1>5, SameRun DEF ValueInv, Progress
  <2>2. FlagsValued(todo)'
    <3> SUFFICES ASSUME NEW k \in DOMAIN Path[cmd], NEW g \in Offers(k), Nearest(k, g),
                        Unshared(g.name), g.name \notin todo'
                 PROVE  FlagValued(Path[cmd][k], g)'
      BY <1>1, SameRun DEF FlagsValued
    <3>1. CASE g.name = n
      BY <1>4, <1>5, <3>1
    <3>2. CASE g.name # n
      <4>1. FlagsValued(todo)
        BY <1>1 DEF ValueInv, Progress
      <4>2. g.name \notin todo
        BY <1>1, <3>2
      <4>3. FlagValued(Path[cmd][k], g)
        BY <4>1, <4>2 DEF FlagsValued
      <4>4. PICK node : node = Path[cmd][k] /\ node = Path[cmd'][k]
        BY <1>1
      <4> QED
        BY <1>5, <3>2, <4>3, <4>4
    <3> QED
      BY <3>1, <3>2
  <2>3. todo' \cap DOMAIN values' \subseteq ArgNames(DOMAIN Args)'
    <3>1. ArgNames(DOMAIN Args)' = ArgNames(DOMAIN Args)
      BY <1>1, SameRun DEF ArgNames
    <3> QED
      BY <1>1, <1>5, <3>1 DEF ValueInv, Progress
  <2>4. FlagsParsed(Len(in.given))'
    BY <1>1, SameFlags DEF ValueInv, Progress, Resolving
  <2>5. Progress'
    BY <1>1, <1>5, <2>1, <2>2, <2>3, <2>4 DEF Progress, Resolving
  <2>6. BoundAsDeclared'
    BY <1>1, <1>5 DEF BoundAsDeclared
  <2> QED
    BY <1>1, <1>5, <2>5, <2>6 DEF ValueInv, Resolving, Bare
<1>6. ASSUME NEW items, NEW from, NEW explicit,
             Keep(n, f, items, from, <<>>, explicit),
             explicit = IF from = "default" THEN FALSE ELSE TRUE,
             \A k : TheDeclaration(k) =>
               IF GivenNow(n) # {}
               THEN from = "flag" /\ (f.kind \notin Accumulating => items = LastGiven(n))
               ELSE IF pflags[<<Path[cmd][k], n>>].last > 0 THEN from = "stale"
               ELSE \A u : u.from = from /\ u.items = items => Fallback(f, u)
      PROVE  ValueInv'
  <2>1. /\ pc' = pc
        /\ set' \subseteq DOMAIN values'
        /\ DOMAIN values' = DOMAIN values \cup {n}
        /\ values'[n].kind = f.kind /\ values'[n].items = items /\ values'[n].from = from
        /\ \A m \in DOMAIN values' : AsDeclared(m)'
        /\ \A k : ArgValued(k) => ArgValued(k)'
        /\ \A node, g : g.name # n /\ FlagValued(node, g) => FlagValued(node, g)'
    BY <1>1, <1>2, <1>6, KeepValue
  <2>2. ASSUME NEW k, TheDeclaration(k)
        PROVE  FlagValued(Path[cmd][k], f)'
    <3>1. f.name = n /\ n \in DOMAIN values'
      BY <2>1, <2>2
    <3>0. PICK u : u = values'[n]
      OBVIOUS
    <3>2. /\ GivenNow(n)' = GivenNow(n) /\ LastGiven(n)' = LastGiven(n)
          /\ Fallback(f, u)' = Fallback(f, u)
      BY <1>1, SameRun
    <3>3. IF GivenNow(n) # {}
          THEN from = "flag" /\ (f.kind \notin Accumulating => items = LastGiven(n))
          ELSE IF pflags[<<Path[cmd][k], n>>].last > 0 THEN from = "stale"
          ELSE Fallback(f, u)
      BY <1>6, <2>1, <2>2, <3>0
    <3> QED
      BY <1>1, <2>1, <3>0, <3>1, <3>2, <3>3 DEF FlagValued, FlagValue
  <2> QED
    BY <1>5, <2>1, <2>2
<1>7. ASSUME NEW k, TheDeclaration(k)
      PROVE  LET v == pflags[CobraFlag(cmd, n)] IN
             /\ v = pflags[<<Path[cmd][k], n>>]
             /\ v.last \in 0..run /\ run \in Nat \ {0}
             /\ GivenNow(n) = {} => v.last < run
             /\ GivenNow(n) # {} =>
                  v.last = run /\ (f.kind \notin Accumulating => v.items = LastGiven(n))
  BY <1>1, <1>7, FlagOfThisRun
<1>8. CASE FlagFromCLI(n)
  <2> DEFINE v == pflags[CobraFlag(cmd, n)]
             from == IF v.last = run THEN "flag" ELSE "stale"
  <2>1. Keep(n, f, v.items, from, <<>>, TRUE) /\ v.last > 0
    BY <1>0, <1>8 DEF FlagFromCLI, Changed
  <2>2. PICK items, from1 : items = v.items /\ from1 = from
    OBVIOUS
  <2>3. ASSUME NEW k, TheDeclaration(k)
        PROVE  IF GivenNow(n) # {}
               THEN from1 = "flag" /\ (f.kind \notin Accumulating => items = LastGiven(n))
               ELSE pflags[<<Path[cmd][k], n>>].last > 0 /\ from1 = "stale"
    BY <1>7, <2>1, <2>2, <2>3
  <2>4. Keep(n, f, items, from1, <<>>, TRUE) /\ from1 # "default"
    BY <2>1, <2>2
  <2> QED
    BY <1>6, <2>3, <2>4
<1>9. ASSUME ~Changed(n), NEW k, TheDeclaration(k)
      PROVE  GivenNow(n) = {} /\ ~(pflags[<<Path[cmd][k], n>>].last > 0)
  BY <1>7, <1>9 DEF Changed
<1>10. CASE FlagFromEnv(n)
  <2>1. PICK raw : ~Changed(n) /\ EnvGives(f, raw) /\ Take(n, f, raw, "env")
    BY <1>0, <1>10 DEF FlagFromEnv
  <2>2. CASE Fail("value")
    BY <1>3, <2>2
  <2>3. CASE Keep(n, f, raw, "env", <<>>, TRUE)
    <3>1. ASSUME NEW k, TheDeclaration(k), NEW u, u.from = "env", u.items = raw
          PROVE  Fallback(f, u)
      BY <1>4, <2>1, <3>1, EnvFound DEF Fallback
    <3> QED
      BY <1>6, <1>9, <2>1, <2>3, <3>1
  <2> QED
    BY <2>1, <2>2, <2>3 DEF Take
<1>11. CASE FlagFromDefault(n)
  <2>1. ~Changed(n) /\ EnvSilent(f)
    BY <1>0, <1>11 DEF FlagFromDefault
  <2>2. ASSUME NEW k, TheDeclaration(k)
        PROVE  EnvValue(f) = <<>> /\ ~Prompted(f)
    BY <1>4, <2>1, <2>2, EnvNotFound DEF Prompted
  <2>3. CASE ~f.required /\ Keep(n, f, Default(Holder(cmd, n), f), "default", <<>>, FALSE)
    <3>1. PICK items : items = Default(Holder(cmd, n), f)
      OBVIOUS
    <3>2. ASSUME NEW k, TheDeclaration(k), NEW u, u.from = "default"
          PROVE  Fallback(f, u)
      BY <2>2, <2>3, <3>2 DEF Fallback
    <3>3. Keep(n, f, items, "default", <<>>, FALSE)
      BY <2>3, <3>1
    <3> QED
      BY <1>6, <1>9, <2>1, <3>2, <3>3
  <2>4. CASE Fail("required")
    BY <1>3, <2>4
  <2>5. CASE ~HasDefault(f) /\ ~f.required /\ UNCHANGED <<pc, err, values, set>>
    <3>1. /\ \A m : AsDeclared(m)' = AsDeclared(m)
          /\ \A k : ArgValued(k)' = ArgValued(k)
          /\ \A node, g : FlagValued(node, g)' = FlagValued(node, g)
      BY <1>1, <2>5, SameValues
    <3>2. set' \subseteq DOMAIN values' /\ \A m \in DOMAIN values' : AsDeclared(m)'
      BY <1>1, <2>5, <3>1 DEF ValueInv, Resolving
    <3>3. ASSUME NEW k, TheDeclaration(k)
          PROVE  FlagValued(Path[cmd][k], f)'
      <4>1. PICK node : node = Path[cmd][k] /\ node = Path[cmd'][k]
        BY <1>1
      <4>2. FlagValued(node, f)
        BY <1>2, <1>9, <2>1, <2>5, <3>3, <4>1 DEF FlagValued, FlagValue, HasDefault
      <4> QED
        BY <3>1, <4>1, <4>2
    <3> QED
      BY <1>5, <2>5, <3>1, <3>2, <3>3
  <2> QED
    BY <1>0, <1>11, <2>3, <2>4, <2>5 DEF FlagFromDefault, Clone
<1> QED
  BY <1>8, <1>10, <1>11 DEF ResolveFlag

\* pflag takes one more flag of the command line.
LEMMA ParseFlagValue == ValueInv /\ ParseFlag /\ FieldInv' => ValueInv'
<1> SUFFICES ASSUME ValueInv, ParseFlag, FieldInv'
             PROVE  ValueInv'
  OBVIOUS
<1>1. /\ pc = "parse" /\ i \in 1..Len(in.given)
      /\ UNCHANGED <<app, run, cmd, in, values, set, bound>>
      /\ Types /\ app \in Apps /\ in \in Inputs /\ run \in Nat \ {0}
      /\ FlagsParsed(i - 1) /\ set = {}
  <2>1. /\ pc = "parse" /\ i <= Len(in.given)
        /\ UNCHANGED <<app, run, cmd, in, values, set, bound>>
    BY DEF ParseFlag, ctx
  <2>2. /\ Types /\ app \in Apps /\ in \in Inputs /\ run \in Nat \ {0} /\ set = {}
    BY <2>1 DEF ValueInv, FieldInv, Bare
  <2>3. i \in 1..(Len(in.given) + 1) /\ FlagsParsed(i - 1)
    BY <2>1 DEF ValueInv, Progress
  <2>4. in.given \in Seq(Names \X Raw)
    BY <2>2, FieldAssumption DEF Input
  <2> QED
    BY <2>1, <2>2, <2>3, <2>4
<1>2. PICK n, raw, v, old, f :
        /\ n = in.given[i][1] /\ raw = in.given[i][2] /\ v = CobraFlag(cmd, n)
        /\ f = CHOOSE g \in app[v[1]].flags : g.name = n
        /\ old = pflags[v]
  OBVIOUS
<1>3. CASE Fail("parse") /\ UNCHANGED <<pflags, i>>
  BY <1>1, <1>3, FailStep DEF Fail
<1>4. CASE /\ n \in Visible(cmd)
           /\ pflags' = [pflags EXCEPT ![v] = SetFlag(old, f, raw)]
           /\ i' = i + 1 /\ UNCHANGED <<pc, err>>
  <2>1. DOMAIN pflags' = DOMAIN pflags /\ \A w \in DOMAIN pflags : w # v => pflags'[w] = pflags[w]
    BY <1>4
  <2>2. v \in DOMAIN pflags =>
          /\ pflags'[v].last = run
          /\ f.kind \notin Accumulating => pflags'[v].items = raw
    BY <1>4 DEF SetFlag
  <2>3. PICK m : m = i
    OBVIOUS
  <2>4. \A name : GivenUpTo(name, m) =
          GivenUpTo(name, m - 1) \cup (IF name = n THEN {m} ELSE {})
    <3> TAKE name
    <3>1. 1..m = 1..(m - 1) \cup {m}
      BY <1>1, <2>3
    <3> QED
      BY <1>2, <2>3, <3>1 DEF GivenUpTo
  <2>5. ASSUME NEW k \in DOMAIN Path[cmd], NEW g \in Offers(k), Nearest(k, g)
        PROVE  FlagParsed(pflags[<<Path[cmd][k], g.name>>], g, GivenUpTo(g.name, m))'
    <3> DEFINE Before == GivenUpTo(g.name, m - 1)
               After == GivenUpTo(g.name, m)
    <3>1. PICK w : w = <<Path[cmd][k], g.name>> /\ w = <<Path[cmd'][k], g.name>>
      BY <1>1
    <3>2. w \in DOMAIN pflags
      <4>1. Path[cmd][k] \in Cmds /\ g \in app[Path[cmd][k]].flags
        BY <1>1, <2>5, NearestIsMeant
      <4> QED
        BY <3>1, <4>1 DEF ValueInv
    <3>3. FlagParsed(pflags[w], g, Before)
      BY <1>1, <2>3, <2>5, <3>1 DEF FlagsParsed
    <3>4. GivenUpTo(g.name, m)' = After
      BY <1>1, SameRun
    <3>5. FlagParsed(pflags'[w], g, After)
      <4>1. CASE g.name # n
        <5>1. w # v
          BY <1>2, <3>1, <4>1 DEF CobraFlag
        <5>2. After = Before
          BY <2>4, <4>1
        <5> QED
          BY <2>1, <3>2, <3>3, <5>1, <5>2
      <4>2. CASE g.name = n
        <5>1. w = v /\ f = g
          <6>1. CobraFlag(cmd, n) = <<Path[cmd][k], n>> /\ FlagDef(cmd, n) = g
                /\ Holder(cmd, n) = Path[cmd][k]
            BY <1>1, <2>5, <4>2, NearestIsMeant
          <6>2. v = w /\ v[1] = Path[cmd][k]
            BY <1>2, <3>1, <4>2, <6>1
          <6> QED
            BY <1>2, <6>1, <6>2 DEF FlagDef
        <5>2. /\ pflags'[w].last = run
              /\ g.kind \notin Accumulating => pflags'[w].items = raw
          BY <2>2, <3>2, <5>1
        <5>3. m \in After /\ \A j \in After : j <= m
          <6>1. \A j \in After : j \in 1..m
            BY DEF GivenUpTo
          <6> QED
            BY <1>1, <2>3, <2>4, <4>2, <6>1
        <5>4. in.given[m][2] = raw
          BY <1>2, <2>3
        <5> HIDE DEF After
        <5> QED
          BY <5>2, <5>3, <5>4 DEF FlagParsed
      <4> QED
        BY <4>1, <4>2
    <3> HIDE DEF After
    <3> QED
      BY <1>1, <3>1, <3>4, <3>5 DEF FlagParsed
  <2>6. FlagsParsed(m)'
    BY <1>1, <2>5, SameRun DEF FlagsParsed
  <2>7. i' - 1 = m /\ i' \in 1..(Len(in.given) + 1)
    <3>1. in.given \in Seq(Names \X Raw)
      BY <1>1, FieldAssumption DEF Input
    <3> QED
      BY <1>1, <1>4, <2>3, <3>1
  <2>8. Progress'
    BY <1>1, <1>4, <2>6, <2>7 DEF Progress, Resolving
  <2>9. \A w \in DOMAIN pflags' : pflags'[w].last \in 0..run'
    <3>1. \A w \in DOMAIN pflags : pflags[w].last \in 0..run
      BY DEF ValueInv
    <3> QED
      BY <1>1, <2>1, <2>2, <3>1
  <2> QED
    BY <1>1, <1>4, <2>1, <2>8, <2>9 DEF ValueInv, Bare, Resolving, BoundAsDeclared
<1> QED
  BY <1>2, <1>3, <1>4 DEF ParseFlag

LEMMA ValueInit == Init => ValueInv
<1> SUFFICES ASSUME Init
             PROVE  ValueInv
  OBVIOUS
<1>1. /\ app \in Apps /\ run = 0 /\ pc = "new" /\ i = 1 /\ set = {} /\ bound.did = "none"
      /\ DOMAIN pflags = UNION {{<<c, f.name>> : f \in app[c].flags} : c \in Cmds}
      /\ \A v \in DOMAIN pflags : pflags[v].last = 0
  BY DEF Init, NoBind
<1>2. Progress /\ BoundAsDeclared
  BY <1>1 DEF Progress, Resolving, BoundAsDeclared
<1> QED
  BY <1>1, <1>2, FieldInit DEF ValueInv, Resolving

\* A run begins: no flag of it has been parsed.
LEMMA RunValue ==
  ASSUME ValueInv, NEW c \in Cmds, NEW input \in Inputs, Run(c, input), FieldInv'
  PROVE  ValueInv'
<1>1. /\ pc = "idle" /\ pc' = "parse" /\ run' = run + 1 /\ cmd' = c /\ in' = input
      /\ UNCHANGED <<app, pflags, i, values, set, bound>>
      /\ run \in Nat /\ i = 1 /\ app \in [Cmds -> Decl] /\ set = {} /\ bound.did = "none"
  BY DEF Run, ValueInv, FieldInv, Types, Progress, Bare
<1>2. in'.given \in Seq(Names \X Raw)
  BY <1>1, FieldAssumption DEF Input
<1>3. \A v \in DOMAIN pflags' : pflags'[v].last \in 0..run' /\ pflags'[v].last < run'
  BY <1>1 DEF ValueInv
<1>4. FlagsParsed(0)'
  <2> SUFFICES ASSUME NEW k \in DOMAIN Path[cmd'], NEW f \in Offers(k)'
               PROVE  FlagParsed(pflags[<<Path[cmd][k], f.name>>], f, GivenUpTo(f.name, 0))'
    BY DEF FlagsParsed
  <2>1. Path[cmd'][k] \in Cmds /\ f \in app'[Path[cmd'][k]].flags
    BY <1>1, FieldAssumption DEF Offers
  <2>2. <<Path[cmd'][k], f.name>> \in DOMAIN pflags'
    BY <1>1, <2>1 DEF ValueInv
  <2>3. GivenUpTo(f.name, 0)' = {}
    BY DEF GivenUpTo
  <2> QED
    BY <1>3, <2>2, <2>3 DEF FlagParsed
<1>5. Progress'
  BY <1>1, <1>2, <1>4 DEF Progress, Resolving
<1> QED
  BY <1>1, <1>3, <1>5 DEF ValueInv, Bare, Resolving, BoundAsDeclared

\* A handler binds a field.
LEMMA BindValue ==
  ASSUME ValueInv, NEW n, NEW t, NEW pointer, Bind(n, t, pointer), FieldInv'
  PROVE  ValueInv'
<1>1. /\ pc = "handler" /\ pc' = "handler"
      /\ UNCHANGED <<app, pflags, run, i, todo, cmd, in, values, set>>
  BY DEF Bind, ctx
<1>2. Progress'
  BY <1>1, SameFlags, SameValues, SameRun DEF ValueInv, Progress, Resolving
<1>3. set \subseteq DOMAIN values /\ \A m \in DOMAIN values : AsDeclared(m)
  BY <1>1 DEF ValueInv, Resolving
<1>4. BoundAsDeclared'
  <2> SUFFICES ASSUME n \in Declared, Unshared(n), t = GoType(TheField(n).kind)
               PROVE  bound'.did = IF n \notin DOMAIN values THEN "zero"
                                   ELSE IF ~pointer THEN "value"
                                   ELSE IF values[n].from = "default" THEN "nil" ELSE "pointer"
    <3>1. bound'.name = n /\ bound'.type = t /\ bound'.pointer = pointer
      BY DEF Bind
    <3> QED
      BY <1>1, <3>1, SameRun DEF BoundAsDeclared
  <2>1. CASE n \notin DOMAIN values
    BY <2>1 DEF Bind
  <2>2. CASE n \in DOMAIN values
    <3>1. GoType(values[n].kind) = t /\ (n \in set <=> values[n].from # "default")
      BY <1>3, <2>2 DEF AsDeclared
    <3> QED
      BY <2>2, <3>1 DEF Bind, BindPointer, CanConvert
  <2> QED
    BY <2>1, <2>2
<1> QED
  BY <1>1, <1>2, <1>3, <1>4, SameValues DEF ValueInv, Bare, Resolving

LEMMA ValueNext == ValueInv /\ [Next]_vars => ValueInv'
<1> SUFFICES ASSUME ValueInv, [Next]_vars
             PROVE  ValueInv'
  OBVIOUS
<1>1. FieldInv'
  BY FieldNext DEF ValueInv
<1>2. CASE New
  BY <1>1, <1>2 DEF New, ctx, ValueInv, Progress, Bare, Resolving, BoundAsDeclared
<1>3. ASSUME NEW c \in Cmds, NEW input \in Inputs, Run(c, input)
      PROVE  ValueInv'
  BY <1>1, <1>3, RunValue
<1>4. CASE ParseFlag
  BY <1>1, <1>4, ParseFlagValue
<1>5. CASE Parsed
  <2>1. pc = "parse" /\ UNCHANGED <<app, pflags, run, cmd, in, values, set, bound>>
    BY <1>5 DEF Parsed, ctx
  <2>2. CASE pc' = "end"
    BY <1>1, <2>1, <2>2, FailStep
  <2>3. CASE pc' = "args" /\ i' = 1
    <3>1. DOMAIN values = {} /\ set = {} /\ Types /\ in \in Inputs
      BY <2>1 DEF ValueInv, FieldInv, Bare
    <3>2. FlagsParsed(Len(in.given))'
      <4>1. in.given \in Seq(Names \X Raw)
        BY <3>1, FieldAssumption DEF Input
      <4>2. FlagsParsed(i - 1) /\ i = Len(in.given) + 1
        BY <1>5, <2>1 DEF Parsed, ValueInv, Progress
      <4>3. FlagsParsed(Len(in.given))
        BY <4>1, <4>2
      <4> QED
        BY <2>1, <4>3, SameFlags
    <3>3. Args' = Args /\ Len(Args) \in Nat
      BY <2>1, <3>1, SameRun DEF Types, Decl, Args
    <3>4. Progress'
      BY <2>1, <2>3, <3>1, <3>2, <3>3 DEF Progress, Resolving
    <3> QED
      BY <1>1, <2>1, <2>3, <3>1, <3>4 DEF ValueInv, Bare, Resolving, BoundAsDeclared
  <2> QED
    BY <1>5, <2>2, <2>3 DEF Parsed, Fail
<1>6. CASE ResolveArg
  BY <1>1, <1>6, ResolveArgValue
<1>7. CASE ArgsResolved
  <2>1. pc = "args" /\ UNCHANGED <<app, pflags, run, cmd, in, i, values, set, bound>>
    BY <1>7 DEF ArgsResolved, ctx
  <2>2. CASE pc' = "end"
    BY <1>1, <2>1, <2>2, FailStep
  <2>3. CASE pc' = "flags" /\ todo' = Visible(cmd) /\ i = Len(Args) + 1
    <3>1. Args \in Seq(Field)
      BY DEF ValueInv, FieldInv, Types, Decl, Args
    <3>2. i - 1 = Len(Args) /\ 1..(i - 1) = DOMAIN Args
      BY <2>3, <3>1
    <3>3. /\ \A k \in DOMAIN Args : ArgValued(k)
          /\ DOMAIN values \subseteq ArgNames(DOMAIN Args)
          /\ FlagsParsed(Len(in.given))
      BY <2>1, <3>2 DEF ValueInv, Progress, Resolving
    <3>4. FlagsValued(Visible(cmd))
      <4>1. Types /\ app \in Apps
        BY DEF ValueInv, FieldInv
      <4> QED
        BY <4>1, NearestIsMeant DEF FlagsValued
    <3>5. FlagsValued(todo)' /\ FlagsParsed(Len(in.given))'
      BY <2>1, <2>3, <3>3, <3>4, SameValues, SameFlags
    <3>6. ArgNames(DOMAIN Args)' = ArgNames(DOMAIN Args)
      BY <2>1, SameRun DEF ArgNames
    <3>7. Progress'
      BY <2>1, <2>3, <3>3, <3>5, <3>6, SameValues, SameRun DEF Progress, Resolving
    <3> QED
      BY <1>1, <2>1, <2>3, <3>7, SameValues DEF ValueInv, Bare, Resolving, BoundAsDeclared
  <2> QED
    BY <1>7, <2>2, <2>3 DEF ArgsResolved, Fail
<1>8. ASSUME NEW n \in Names, ResolveFlag(n)
      PROVE  ValueInv'
  BY <1>1, <1>8, ResolveFlagValue
<1>9. CASE FlagsResolved
  <2>1. pc = "flags" /\ todo = {} /\ UNCHANGED <<app, pflags, run, cmd, in, i, todo, values, set, bound>>
    BY <1>9 DEF FlagsResolved, ctx
  <2>2. CASE pc' = "end"
    BY <1>1, <2>1, <2>2, FailStep
  <2>3. CASE pc' = "handler"
    <3>1. Progress'
      BY <2>1, <2>3, SameFlags, SameValues, SameRun DEF ValueInv, Progress, Resolving
    <3>2. BoundAsDeclared'
      BY <2>1 DEF ValueInv, BoundAsDeclared
    <3> QED
      BY <1>1, <2>1, <2>3, <3>1, <3>2, SameValues DEF ValueInv, Bare, Resolving
  <2> QED
    BY <1>9, <2>2, <2>3 DEF FlagsResolved, Fail
<1>10. ASSUME NEW n, NEW t, NEW pointer, Bind(n, t, pointer)
       PROVE  ValueInv'
  BY <1>1, <1>10, BindValue
<1>11. ASSUME NEW n, Scribble(n)
       PROVE  ValueInv'
  BY <1>1, <1>11 DEF Scribble, ValueInv, Progress, Bare, Resolving, BoundAsDeclared
<1>12. CASE Return
  BY <1>1, <1>12 DEF Return, NoBind, ValueInv, Progress, Bare, Resolving, BoundAsDeclared
<1>13. CASE UNCHANGED vars
  <2>1. UNCHANGED <<app, pflags, run, pc, cmd, in, i, todo, values, set, bound>>
    BY <1>13 DEF vars, ctx
  <2>2. Progress'
    <3>1. ArgNames(1..(i - 1))' = ArgNames(1..(i - 1)) /\ ArgNames(DOMAIN Args)' = ArgNames(DOMAIN Args)
      BY <2>1, SameRun DEF ArgNames
    <3> QED
      BY <2>1, <3>1, SameFlags, SameValues, SameRun DEF ValueInv, Progress, Resolving
  <2>3. BoundAsDeclared'
    BY <2>1, SameRun DEF ValueInv, BoundAsDeclared
  <2> QED
    BY <1>1, <2>1, <2>2, <2>3, SameValues DEF ValueInv, Bare, Resolving
<1> QED
  BY <1>2, <1>3, <1>4, <1>5, <1>6, <1>7, <1>8, <1>9, <1>10, <1>11, <1>12, <1>13 DEF Next

THEOREM ValueInvariant == Spec => []ValueInv
BY ValueInit, ValueNext, PTL DEF Spec

\* Binding a declared, unshared name to a field of its type always works, and
\* a pointer is allocated exactly when the user gave the value, in this run
\* or by a flag in an earlier one, for any declarations, inputs and number of
\* runs (context_bind.go:23-27).
THEOREM FieldBoundAsDeclared == Spec => []BoundAsDeclared
<1>1. ValueInv => BoundAsDeclared
  BY DEF ValueInv
<1> QED
  BY <1>1, ValueInvariant, PTL

\* A handler is given the value of the first source that has one: a token
\* before "--" or the last flag of the command line, else the environment,
\* else the prompt, else the default (docs/architecture.md:302-357), and a
\* flag that only an earlier run gave keeps its value.
THEOREM FieldSourcesInOrder == Spec => []SourcesInOrder
<1>1. ValueInv => SourcesInOrder
  <2> SUFFICES ASSUME ValueInv, pc = "handler"
               PROVE  SourcesInOrder
    BY DEF SourcesInOrder
  <2>1. (\A k \in DOMAIN Args : ArgValued(k)) /\ FlagsValued({})
    BY DEF ValueInv, Progress
  <2>2. ASSUME NEW k \in DOMAIN Path[cmd], NEW f \in Offers(k), Unshared(f.name),
               \A j \in DOMAIN Path[cmd] : j > k => \A g \in Offers(j) : g.name # f.name
        PROVE  FlagValue(Path[cmd][k], f)
    BY <2>1, <2>2 DEF FlagsValued, FlagValued, Nearest
  <2> QED
    BY <2>1, <2>2 DEF SourcesInOrder, ArgValued
<1> QED
  BY <1>1, ValueInvariant, PTL
=============================================================================
