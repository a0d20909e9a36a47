------------------------------ MODULE MCNewApp ------------------------------
(* TLC instances of NewApp. Themes: over three tokens, of which a falls      *)
(* through to b by default, every palette of aliases with every set of       *)
(* styled tokens, and lists of options over themes of several variants and   *)
(* sources. Built-ins: options of help, version and completion, with flags,   *)
(* args and commands of the user's that collide with them or not.           *)
EXTENDS NewApp

CONSTANTS a, b, c, s1, s2, base, other, typo

Three == {a, b, c}
Fallthrough == a :> b
CoreTokens == <<a, c>>

Theme(default, variants) == [default |-> default, variants |-> variants, prefix |-> Nil]
Styled(T, s) == [t \in T |-> s]

\* Every map of overrides, targets empty or not, over every set of styles.
Partial(D, R) == UNION {[E -> R] : E \in SUBSET D}
Tangled == {Theme(Nil, "dark" :> [ZeroPalette EXCEPT !.aliases = al, !.tokens = Styled(T, s1)]) :
              al \in Partial(Three, Three \cup {Nil}), T \in SUBSET Three}

Custom(t, opaque) == [kind |-> "custom", arg |-> [opaque |-> opaque, theme |-> t]]
Strict == [kind |-> "strict"]
TangledApps == {<<Custom(t, op)>> \o s : t \in Tangled, op \in BOOLEAN, s \in {<<>>, <<Strict>>}}

Rich == [ZeroPalette EXCEPT !.tokens = Styled(Three, s1), !.chroma = "mine",
           !.glamour = "mine", !.huh = "mine"]
Named == [ZeroPalette EXCEPT !.tokens = Styled({b, c}, s1), !.chromaName = "theirs",
            !.glamourName = "theirs", !.glamourFor = "made", !.prompt = "theirs", !.huh = "mine"]
Faulty == [Named EXCEPT !.glamourFor = "fails"]
Shades == Theme("light", ("dark" :> Rich) @@ ("light" :> Named))
Torn == Theme(Nil, ("light" :> Named) @@ ("notty" :> Faulty))
BuiltIn == (base :> Shades) @@ (other :> Theme(Nil, "dark" :> Named))

Set(slot, key, value) == [slot |-> slot, key |-> key, value |-> value]
Change(changes) == [kind |-> "overrides", arg |-> changes]
Changes == {<<Set("token", a, s2)>>, <<Set("alias", b, c), Set("alias", a, Nil)>>,
            <<Set("alias", c, a), Set("alias", b, c)>>,
            <<Set("chroma", Nil, "new"), Set("glamourName", Nil, "late")>>,
            <<Set("chromaName", Nil, "late"), Set("glamour", Nil, "new"), Set("huh", Nil, "new")>>,
            <<Set("huh", Nil, Nil), Set("token", a, s1)>>,
            <<Set("chroma", Nil, Nil), Set("glamourName", Nil, "unknown")>>,
            <<Set("token", c, s2), Nil>>}
Recipes == {[kind |-> "name", arg |-> n] : n \in {other, typo}}
             \cup {Custom(t, FALSE) : t \in {Shades, Torn}}
             \cup {Custom(Torn, TRUE), [kind |-> "custom", arg |-> Nil], [kind |-> "nil"]}
SomeOption == Recipes \cup {Change(ch) : ch \in Changes} \cup {Strict}
ThemeLists == TangledApps \cup {<<>>} \cup {<<o>> : o \in SomeOption}
                 \cup {<<o, p>> : o, p \in SomeOption}
                 \cup {<<Change(x), o, Change(y)>> : x, y \in Changes, o \in Recipes}

Plain(k) == [kind |-> k, arg |-> Nil]
With1(k, v) == [kind |-> k, arg |-> v]
HelpLists ==
  {<<>>, <<Plain("noHelp")>>, <<Plain("noHelp"), Plain("noHelpShort")>>,
   <<Plain("helpName")>>, <<Plain("noHelpFlag"), With1("helpCommand", "help")>>,
   <<With1("helpName", "info"), With1("helpShort", "v")>>, <<With1("helpName", "info")>>,
   <<With1("helpName", "version"), Plain("noHelpShort")>>,
   <<Plain("noHelpShort"), With1("helpShort", "i")>>, <<With1("helpShort", "wide")>>}
Version(inner) == [kind |-> "version", arg |-> s1, inner |-> inner]
VersionLists ==
  {<<>>, <<Version(<<>>)>>, <<[Version(<<>>) EXCEPT !.arg = Nil]>>,
   <<Version(<<Plain("noFlag"), With1("command", "completion")>>)>>,
   <<Version(<<With1("flag", "info"), With1("short", "h")>>)>>,
   <<Version(<<Plain("noCommand"), Plain("noShort")>>)>>,
   <<Version(<<Plain("noShort"), With1("short", "h")>>)>>,
   <<Version(<<Plain("noFlag"), Plain("noCommand")>>)>>,
   <<Version(<<Plain("date"), Plain("flag")>>)>>, <<Version(<<Nil>>)>>,
   <<Version(<<With1("short", "wide")>>)>>}
Completion(inner) == [kind |-> "completion", inner |-> inner]
Flag(n, s, p, bo) == [name |-> n, short |-> s, persistent |-> p, bool |-> bo, ours |-> FALSE]
RootFlag(n, s, p) == [kind |-> "flag", arg |-> Flag(n, s, p, TRUE)]
Sub(n, fs) == [kind |-> "command", arg |-> [name |-> n, flags |-> fs, subs |-> <<>>, ours |-> FALSE]]
UserLists ==
  {<<>>, <<Completion(<<>>)>>, <<Completion(<<Nil>>)>>, <<Completion(<<Plain("name")>>)>>,
   <<Completion(<<With1("shells", <<>>)>>)>>,
   <<Completion(<<With1("name", "help"), With1("shells", <<"bash">>)>>), Sub("help", {})>>,
   <<Completion(<<With1("shells", <<"bash", "bash">>)>>)>>,
   <<RootFlag("host", "h", FALSE)>>, <<RootFlag("verbose", "v", TRUE)>>,
   <<RootFlag("info", Nil, TRUE)>>, <<RootFlag("star", "wide", FALSE)>>,
   <<RootFlag("host", "o", TRUE), Completion(<<Plain("hidden")>>)>>,
   <<RootFlag("host", "i", TRUE), RootFlag("local", "i", FALSE)>>,
   <<RootFlag("host", "i", TRUE), RootFlag("local", "i", TRUE)>>,
   <<RootFlag("host", Nil, TRUE), With1("arg", "host")>>, <<With1("arg", "version")>>,
   <<Sub("run", {Flag("version", "v", FALSE, TRUE)})>>,
   <<Sub("run", {Flag("info", Nil, FALSE, TRUE), Flag("host", "h", FALSE, FALSE)})>>,
   <<Sub("run", {Flag("help", Nil, FALSE, FALSE)})>>}
BuiltinLists == {h \o v \o u : h \in HelpLists, v \in VersionLists, u \in UserLists}

SomeTerminals == {[tty |-> TRUE, files |-> TRUE, dark |-> FALSE],
                  [tty |-> TRUE, files |-> FALSE, dark |-> FALSE],
                  [tty |-> FALSE, files |-> FALSE, dark |-> FALSE]}
OptionLists == ThemeLists \cup BuiltinLists
=============================================================================
