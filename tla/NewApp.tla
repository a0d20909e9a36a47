------------------------------- MODULE NewApp -------------------------------
(* New from its options to the App it returns, and what one run of the App   *)
(* makes of the flags --help and --version: the options of the theme         *)
(* (Themes) and of the built-ins in one list, config.validate, the theme,    *)
(* then help, version and completion, which add flags to the root's spec     *)
(* next to the user's, commands to the tree and hooks before the user's.     *)
(* pflag panics when one set of flags is given a name or a shorthand twice,  *)
(* or a shorthand of more than one byte.                                    *)
(* What init hooks and extensions register is in CommandTree, the other      *)
(* hooks of a run are in AppRuns.                                           *)
EXTENDS Themes

CONSTANT MultiByte

ASSUME ShorthandAssumption == MultiByte \cap {Nil, "h", "v", "o"} = {}

INSTANCE BuiltinOptions

\* Flags and commands of the user's are not ours.
ASSUME OptionsAssumption ==
  \A o \in Option :
    /\ o.kind = "flag" => o.arg.ours = FALSE
    /\ o.kind = "command" => o.arg.ours = FALSE /\ \A f \in o.arg.flags : f.ours = FALSE

VARIABLES help, version, completion,  \* config.help, .version, .completion
          flags,     \* rootSpec.flags: [name, short, persistent, bool, ours]
          args,      \* the names of rootSpec.args
          pending,   \* config.pendingCommands
          children,  \* the root's in Cobra's tree: [name, flags, subs, ours], flags a set
          hooks,     \* globalPreRun as far as New fills it itself
          stage,     \* the next call of New, or how it ended
          run        \* the run under way, or Nil

settings == <<help, version, completion, flags, args, pending>>
built == <<children, hooks, stage>>
vars == <<themeVars, settings, built, run>>

Init ==
  /\ ThemeInit
  /\ help = defaultHelpConfig /\ version = Nil /\ completion = Nil
  /\ flags = <<>> /\ args = {} /\ pending = <<>>
  /\ children = <<>> /\ hooks = <<>>
  /\ stage = "validateUniqueNames" /\ run = Nil

-----------------------------------------------------------------------------
(* The options that are not the theme's.                                    *)

Refused(o) ==
  \/ o.kind \in HelpOptions /\ HelpRefused(o)
  \/ o.kind = "version" /\ VersionRefused(o.arg, o.inner)
  \/ o.kind = "completion" /\ CompletionRefused(o.inner)

Take(o) ==
  /\ help' = IF o.kind \in HelpOptions THEN HelpWith(help, o) ELSE help
  /\ version' = IF o.kind = "version" THEN VersionMade(o.inner) ELSE version
  /\ completion' = IF o.kind = "completion" THEN CompletionMade(o.inner) ELSE completion
  /\ flags' = IF o.kind = "flag" THEN Append(flags, o.arg) ELSE flags
  /\ args' = IF o.kind = "arg" THEN args \cup {o.arg} ELSE args
  /\ pending' = IF o.kind = "command" THEN Append(pending, o.arg) ELSE pending

AppOption ==
  /\ NextOption
  /\ LET o == Head(opts)
     IN  /\ o.kind \notin ThemeOptions
         /\ IF Refused(o) THEN RefuseOption /\ UNCHANGED settings
            ELSE Take(o) /\ UNCHANGED <<recipe, overrides, strict, refused>>
  /\ UNCHANGED <<built, run>>

-----------------------------------------------------------------------------
(* New after config.finalize.                                               *)

Names(fs) == {f.name : f \in fs}
Persistent(fs) == {f \in fs : f.persistent}

\* Two of the flags fs would be one flag of a set.
SameIn(fs) ==
  \E f, g \in fs :
    f # g /\ (f.name = g.name \/ (f.short = g.short /\ f.short # Nil))

Unfit(fs) == SameIn(fs) \/ \E f \in fs : f.short \in MultiByte

Registering(s) == phase = "built" /\ stage = s

validateUniqueNames ==
  /\ Registering("validateUniqueNames")
  /\ stage' = IF Cardinality(Names(ToSet(flags))) < Len(flags)
                    \/ Names(ToSet(flags)) \cap args # {}
                THEN "failed" ELSE "registerHelp"
  /\ UNCHANGED <<themeVars, settings, children, hooks, run>>

Ours(name, short, persistent, bool) ==
  [name |-> name, short |-> short, persistent |-> persistent, bool |-> bool, ours |-> TRUE]

\* append*FlagToSpec refuse a flag that collides with one of the user's or
\* of a built-in before. The mutant looks at the names only.
CollidesByName(name, short) == name \in Names(ToSet(flags)) \cup args
Collides(name, short) ==
  \/ name \in Names(ToSet(flags)) \cup args
  \/ short # Nil /\ \E f \in ToSet(flags) : f.short = short

\* A help flag of another name brings a hidden --help of its own.
HelpFlags ==
  IF help.name = Nil THEN <<>>
  ELSE <<Ours(help.name, help.short, TRUE, TRUE)>>
         \o IF help.name = "help" THEN <<>> ELSE <<Ours("help", Nil, TRUE, TRUE)>>

\* Global hooks are called in the order they came in. A mutant turns
\* it round.
OnPreRunFirst(h) == hooks' = <<h>> \o hooks
OnPreRun(h) == hooks' = Append(hooks, h)

\* The help command goes to Cobra, which adds it when the App runs.
\* The hook is there without a flag, too, and does nothing then.
registerHelp ==
  /\ Registering("registerHelp")
  /\ IF help.disabled
       THEN stage' = "registerVersion" /\ UNCHANGED <<flags, hooks>>
     ELSE IF \E f \in ToSet(HelpFlags) : Collides(f.name, f.short)
       THEN stage' = "failed" /\ UNCHANGED <<flags, hooks>>
       ELSE /\ flags' = flags \o HelpFlags
            /\ OnPreRun("help")
            /\ stage' = "registerVersion"
  /\ UNCHANGED <<themeVars, help, version, completion, args, pending, children, run>>

VersionCommand ==
  [name |-> version.command, flags |-> {Ours("format", Nil, FALSE, FALSE)},
   subs |-> <<>>, ours |-> TRUE]

registerVersion ==
  /\ Registering("registerVersion")
  /\ children' = IF version = Nil \/ version.commandOff THEN children
                                                        ELSE Append(children, VersionCommand)
  /\ IF version = Nil \/ version.flagOff
       THEN stage' = "registerCompletion" /\ UNCHANGED <<flags, hooks>>
     ELSE IF Collides(version.flag, version.short)
       THEN stage' = "failed" /\ UNCHANGED <<flags, hooks>>
       ELSE /\ flags' = Append(flags, Ours(version.flag, version.short, FALSE, TRUE))
            /\ OnPreRun("version")
            /\ stage' = "registerCompletion"
  /\ UNCHANGED <<themeVars, help, version, completion, args, pending, run>>

registerCompletion ==
  /\ Registering("registerCompletion")
  /\ children' = IF completion = Nil THEN children
       ELSE Append(children, [name |-> completion.command, subs |-> completion.shells,
                              flags |-> {Ours("output", "o", TRUE, FALSE)}, ours |-> TRUE])
  /\ stage' = "registerFlags"
  /\ UNCHANGED <<themeVars, settings, hooks, run>>

\* The loop of New over rootSpec.flags; the persistent ones are a set apart.
registerFlags ==
  /\ Registering("registerFlags")
  /\ LET own == Persistent(ToSet(flags))
     IN  stage' = IF Unfit(own) \/ Unfit(ToSet(flags) \ own) THEN "panicked"
                                                            ELSE "registerPending"
  /\ UNCHANGED <<themeVars, settings, children, hooks, run>>

\* The user's commands here have flags that can be registered.
registerPending ==
  /\ Registering("registerPending")
  /\ children' = children \o pending
  /\ stage' = "validate"
  /\ UNCHANGED <<themeVars, settings, hooks, run>>

ChildNames == [i \in DOMAIN children |-> children[i].name]

validate ==
  /\ Registering("validate")
  /\ stage' = IF IsInjective(ChildNames) /\ \A c \in ToSet(children) : IsInjective(c.subs)
                THEN "returned" ELSE "failed"
  /\ UNCHANGED <<themeVars, settings, children, hooks, run>>

-----------------------------------------------------------------------------
(* One run. Cobra parses into the flags of the command and the persistent    *)
(* ones of its parents, the nearer hiding the farther of its name; it adds   *)
(* --help with -h where nobody has, and answers a true --help by itself,     *)
(* before it looks at the arguments.                                        *)

Merge(own, inherited) == own \cup {f \in inherited : f.name \notin Names(own)}

CobraHelp == [name |-> "help", short |-> "h", persistent |-> FALSE, bool |-> TRUE, ours |-> FALSE]
Merged(own, inherited) == Merge(Merge(own, inherited), {CobraHelp})

\* The flags of the commands a run may be of: the root, its children and
\* theirs.
Invocable ==
  LET global == Persistent(ToSet(flags))
  IN  {[root |-> TRUE, flags |-> Merged(ToSet(flags), {})]}
      \cup {[root |-> FALSE, flags |-> Merged(c.flags, global)] : c \in ToSet(children)}
      \cup {[root |-> FALSE, flags |-> Merged({}, Merge(Persistent(c.flags), global))] :
              c \in {d \in ToSet(children) : d.subs # <<>>}}

NoBool(fs, name) == \E f \in fs : f.name = name /\ ~f.bool

\* Cobra merges the root's two sets in every run, and those of the command.
ParsedTo(fs, given, lacks) ==
  IF SameIn(ToSet(flags)) \/ SameIn(fs) THEN "panic"
  ELSE IF NoBool(fs, "help") THEN "refused"
  ELSE IF "help" \in given THEN "help"
  ELSE IF lacks THEN "refused"
  ELSE "hooks"

\* given are the names of the flags that are true; lacks says that Cobra or
\* newContext refuses the run for something else that is missing. What is
\* looked at after New is either styles or a run.
Execute ==
  /\ Registering("returned") /\ run = Nil /\ walk = Nil /\ shown = Nil
  /\ \E cmd \in Invocable, lacks \in BOOLEAN :
       \E given \in SUBSET Names({f \in cmd.flags : f.bool}) :
         run' = [root |-> cmd.root, flags |-> cmd.flags, given |-> given, lacks |-> lacks,
                 next |-> 1, outcome |-> ParsedTo(cmd.flags, given, lacks)]
  /\ UNCHANGED <<themeVars, settings, built>>

InHooks == run # Nil /\ run.outcome = "hooks"

Answer(asked, outcome) ==
  run' = IF asked THEN [run EXCEPT !.outcome = outcome] ELSE [run EXCEPT !.next = @ + 1]

\* The hooks of registerHelp and registerVersion.
Hook ==
  /\ InHooks /\ run.next <= Len(hooks)
  /\ CASE hooks[run.next] = "help" ->
            Answer(help.name # Nil /\ {help.name, "help"} \cap run.given # {}, "help")
       [] hooks[run.next] = "version" -> Answer(version.flag \in run.given, "version")
  /\ UNCHANGED <<themeVars, settings, built>>

\* The user's hooks and the handler.
TheRest ==
  /\ InHooks /\ run.next > Len(hooks)
  /\ run' = [run EXCEPT !.outcome = "handler"]
  /\ UNCHANGED <<themeVars, settings, built>>

ThemeStep ==
  /\ \/ ApplyOption \/ OptionsRefused(HelpInvalid(help)) \/ Finalize(HelpInvalid(help))
     \/ FinalizeTheme
     \/ Registering("returned") /\ run = Nil /\ \E t \in Tokens : AskStyle(t)
  /\ UNCHANGED <<settings, built, run>>

Next ==
  \/ ThemeStep \/ AppOption
  \/ validateUniqueNames \/ registerHelp \/ registerVersion \/ registerCompletion
  \/ registerFlags \/ registerPending \/ validate
  \/ Execute \/ Hook \/ TheRest

Spec == Init /\ [][Next]_vars

-----------------------------------------------------------------------------
(* Properties.                                                              *)

Users == {f \in ToSet(flags) : ~f.ours}

\* Whatever names the built-ins are given and whichever flags the user has,
\* pflag panics in New only for flags of the user's own or for a shorthand
\* of more than one byte, which WithHelpShorthand takes as WithShort does,
\* and when the root is run only for flags of the user's own, or for a -h
\* where nabat's help flag was taken away and Cobra's has come in its place.
\* An App that New returned has a way to ask for a version it was given, and
\* no name twice among the root's flags and args or among its commands.
BuiltinsFit ==
  /\ stage = "panicked" =>
       SameIn(Users) \/ \E f \in ToSet(flags) : f.short \in MultiByte
  /\ run # Nil /\ run.root /\ run.outcome = "panic" =>
       \/ SameIn(Users)
       \/ CobraHelp \in run.flags /\ \E f \in ToSet(flags) : f.short = "h"
  /\ stage = "returned" =>
       /\ version # Nil =>
            \/ \E f \in ToSet(flags) : f.ours /\ f.name = version.flag /\ ~f.persistent
            \/ \E c \in ToSet(children) : c.ours /\ c.name = version.command
       /\ Cardinality(Names(ToSet(flags))) = Len(flags) /\ Names(ToSet(flags)) \cap args = {}
       /\ IsInjective(ChildNames)

Asked(name, persistent) ==
  name \in run.given
    /\ \E f \in run.flags : f.name = name /\ f.ours /\ f.persistent = persistent

\* A run that is given the help flag prints help and calls nothing of the
\* user's, under the flag's new name as under --help and whatever else it is
\* given, the version flag included; one given the version flag alone prints
\* the version; and no run is taken for either that was given no flag of the
\* name. Only a run that cannot get as far as the hooks is refused.
BuiltinsAnswer ==
  run # Nil /\ run.outcome \notin {"hooks", "panic"} =>
    LET helped == help.name # Nil /\ (Asked(help.name, TRUE) \/ Asked("help", TRUE))
        versioned == version # Nil /\ Asked(version.flag, FALSE)
        lost == run.lacks \/ NoBool(run.flags, "help")
    IN  /\ helped => run.outcome = IF lost /\ "help" \notin run.given THEN "refused" ELSE "help"
        /\ versioned /\ {help.name, "help"} \cap run.given = {} =>
             run.outcome = IF lost THEN "refused" ELSE "version"
        /\ run.outcome = "help" => {help.name, "help"} \cap run.given # {}
        /\ run.outcome = "version" => version.flag \in run.given
=============================================================================
