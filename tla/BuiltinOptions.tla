--------------------------- MODULE BuiltinOptions ---------------------------
(* The options of New for its built-in help, version and completion, as      *)
(* functions of what config.help, .version and .completion hold. An option   *)
(* is [kind, arg]; Nil is a nil option, an empty name and no shorthand, the   *)
(* zero rune. The help's shorthand is kept whatever rune it is, the           *)
(* version's must be printable ASCII.                                       *)
EXTENDS Sequences, SequencesExt

CONSTANTS Nil,
          MultiByte  \* the runes that are more than one byte of UTF-8

Shells == <<"bash", "zsh", "fish", "powershell">>

-----------------------------------------------------------------------------
(* Help. disabled is disabledTouched, too: only WithoutHelp sets them.      *)

defaultHelpConfig ==
  [name |-> "help", short |-> "h", shortSet |-> FALSE, shortOff |-> FALSE,
   disabled |-> FALSE, otherTouched |-> FALSE]

HelpOptions == {"helpCommand", "helpName", "noHelpFlag", "helpShort", "noHelpShort", "noHelp"}

HelpRefused(o) == o.kind \in {"helpCommand", "helpName"} /\ o.arg = Nil

HelpWith(h, o) ==
  CASE o.kind = "helpCommand" -> [h EXCEPT !.otherTouched = TRUE]
    [] o.kind = "helpName" -> [h EXCEPT !.name = o.arg, !.otherTouched = TRUE]
    [] o.kind = "noHelpFlag" -> [h EXCEPT !.name = Nil, !.short = Nil, !.otherTouched = TRUE]
    [] o.kind = "helpShort" ->
         [h EXCEPT !.short = o.arg, !.shortSet = TRUE, !.otherTouched = TRUE]
    [] o.kind = "noHelpShort" ->
         [h EXCEPT !.short = Nil, !.shortOff = TRUE, !.otherTouched = TRUE]
    [] o.kind = "noHelp" -> [h EXCEPT !.disabled = TRUE]

\* helpConfig.validate, which config.validate calls after the last option.
HelpInvalid(h) == (h.disabled /\ h.otherTouched) \/ (h.shortOff /\ h.shortSet)

-----------------------------------------------------------------------------
(* Version and completion: an option with options of its own, which takes   *)
(* effect as a whole or not at all.                                         *)

defaultVersionConfig ==
  [command |-> "version", flag |-> "version", short |-> "v", flagOff |-> FALSE,
   commandOff |-> FALSE, shortOff |-> FALSE, shortSet |-> FALSE]

VersionWith(v, o) ==
  CASE o.kind = "command" -> [v EXCEPT !.command = o.arg]
    [] o.kind = "noCommand" -> [v EXCEPT !.commandOff = TRUE]
    [] o.kind = "flag" -> [v EXCEPT !.flag = o.arg]
    [] o.kind = "noFlag" -> [v EXCEPT !.flagOff = TRUE, !.short = Nil]
    [] o.kind = "short" -> [v EXCEPT !.short = o.arg, !.shortSet = TRUE]
    [] o.kind = "noShort" -> [v EXCEPT !.shortOff = TRUE, !.short = Nil]
    [] o.kind \in {"commit", "date", "layout"} -> v   \* what is printed

VersionMade(inner) == FoldLeft(VersionWith, defaultVersionConfig, inner)
VersionInvalid(v) == (v.flagOff /\ v.commandOff) \/ (v.shortOff /\ v.shortSet)

Naming == {"command", "flag", "short", "layout"}

\* version is the text to print, Nil the empty one.
VersionRefused(version, inner) ==
  \/ version = Nil
  \/ \E o \in ToSet(inner) :
       \/ o = Nil
       \/ o.kind \in Naming /\ o.arg = Nil
       \/ o.kind = "short" /\ o.arg \in MultiByte
  \/ VersionInvalid(VersionMade(inner))

CompletionWith(c, o) ==
  CASE o.kind = "name" -> [c EXCEPT !.command = o.arg]
    [] o.kind = "shells" -> [c EXCEPT !.shells = o.arg]
    [] o.kind = "hidden" -> c

\* No WithCompletionShells means all of them, an empty one is refused.
CompletionMade(inner) ==
  FoldLeft(CompletionWith, [command |-> "completion", shells |-> Shells], inner)

CompletionRefused(inner) ==
  \/ \E o \in ToSet(inner) : o = Nil \/ (o.kind = "name" /\ o.arg = Nil)
  \/ LET shells == CompletionMade(inner).shells
     IN  shells = <<>> \/ ~(ToSet(shells) \subseteq ToSet(Shells))
=============================================================================
