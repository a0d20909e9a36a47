--------------------------- MODULE FieldOptions ---------------------------
(***************************************************************************)
(* The options of prompts, form fields and arg prompts                     *)
(* (nabat/field_option.go, nabat/confirm.go): each one writes into a       *)
(* promptConfig or refuses, and the refusals are collected.                *)
(*                                                                         *)
(* Options that only change how a widget looks (labels, hints, suggestions,*)
(* sizes, directories) keep their refusals and lose what they write.       *)
(***************************************************************************)
EXTENDS Integers, Sequences, SequencesExt

CONSTANTS
  Values,  \* the texts, numbers and choices of fields
  Zero,    \* the zero value of a field: "" or 0
  Accepts, \* what the caller's validation functions accept
  None     \* not set

ASSUME ValuesAssumption ==
  /\ Zero \in Values
  /\ Accepts \subseteq Values \cup BOOLEAN
  /\ None \notin Values \cup BOOLEAN

\* The options with an argument of their own to check.
Checked == {"WithHeight", "WithLimit", "WithMaxChars", "WithEditorCmd", "WithValidate"}

\* The display options of the file picker.
Shows == {"WithShowHidden", "WithShowSize", "WithShowPermissions"}

\* An option: its name, the value it carries, and whether its own argument
\* passes (n > 0, a command that is not blank, a function that is not nil).
\* The name "nil" is a nil option.
Option(name, value) == [opt |-> name, value |-> value, valid |-> TRUE]
BadOption(name) == [opt |-> name, value |-> None, valid |-> FALSE]

\* promptConfig before any option.
EmptyConfig ==
  [mode |-> "input", fallback |-> None, initial |-> None, validate |-> FALSE,
   options |-> None, bypassYes |-> FALSE, confirmValue |-> Zero, confirmInput |-> Zero]

\* Refusals that depend on the option alone, and those that depend on the
\* options before it.
Refuses(pc, o) ==
  \/ o.opt = "nil"
  \/ o.opt \in Checked /\ ~o.valid
  \/ o.opt \in Shows /\ pc.mode # "picker"

\* String fields: the mode of the widget.  WithEditor implies WithMultiline;
\* of two modes the later one stays.
TextOption(pc, o) ==
  CASE o.opt \in {"WithMultiline", "WithEditor"} -> [pc EXCEPT !.mode = "multiline"]
    [] o.opt = "WithFilePicker" -> [pc EXCEPT !.mode = "picker"]
    [] OTHER -> pc

\* Values: the fallback of a program without terminal, the starting value of
\* one with a terminal, the validation, the choices of a select recomputed.
ValueOption(pc, o) ==
  CASE o.opt = "WithDefault" -> [pc EXCEPT !.fallback = o.value]
    [] o.opt = "WithInitial" -> [pc EXCEPT !.initial = o.value]
    [] o.opt = "WithPrefill" -> [pc EXCEPT !.fallback = o.value, !.initial = o.value]
    [] o.opt = "WithValidate" -> [pc EXCEPT !.validate = TRUE]
    [] o.opt = "WithOptionsFunc" -> [pc EXCEPT !.options = o.value]
    [] OTHER -> pc

\* Confirm: what bypasses it.
ConfirmOption(pc, o) ==
  CASE o.opt = "WithYes" -> [pc EXCEPT !.bypassYes = o.value]
    [] o.opt = "WithConfirmValue" -> [pc EXCEPT !.confirmValue = o.value]
    [] o.opt = "WithConfirmInput" -> [pc EXCEPT !.confirmInput = o.value]
    [] OTHER -> pc

Apply(pc, o) ==
  IF Refuses(pc, o) THEN pc ELSE ConfirmOption(ValueOption(TextOption(pc, o), o), o)

\* applyFieldOptions and applySelectOptions: every option is applied, those
\* after a refused one too, and the refusals are counted.
ApplyAll(opts) ==
  FoldLeft(LAMBDA acc, o : [config |-> Apply(acc.config, o),
                            issues |-> acc.issues + IF Refuses(acc.config, o) THEN 1 ELSE 0],
           [config |-> EmptyConfig, issues |-> 0], opts)
=============================================================================
