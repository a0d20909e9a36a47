----------------------------- MODULE MCPrompts -----------------------------
(* TLC instance of Prompts: two variables, three values of which one is     *)
(* the zero value and one passes the validation.                            *)
EXTENDS Prompts

CONSTANTS zero, good, other, x, y, junk, none

AllValues == {zero, good, other}
Accepted == {good, TRUE}
TwoTargets == {x, y}
AtZero == [t \in TwoTargets |-> zero]

UpTo(n, S) == UNION {[1..m -> S] : m \in 0..n}

Field(kind, target, opts, default) ==
  [opt |-> "field", opts |-> <<>>,
   field |-> [kind |-> kind, target |-> target, opts |-> opts, default |-> default]]
NilOption == [opt |-> "nil", opts |-> <<>>, field |-> none]
Note == Field("note", none, <<>>, none)
Timeout == [opt |-> "timeout", opts |-> <<>>, field |-> none]
Group(opts) == [opt |-> "group", opts |-> opts, field |-> none]

Port == Field("number", x, <<Option("WithInitial", other), Option("WithValidate", none)>>, none)
Count == Field("number", x, <<Option("WithDefault", good), Option("WithValidate", none)>>, none)
Name == Field("string", y, <<Option("WithPrefill", other)>>, none)
Email == Field("string", y, <<Option("WithValidate", none), Option("WithDefault", good)>>, none)
Kind == Field("select", y, <<Option("WithOptionsFunc", "same")>>, other)
WrongKind == Field("select", y, <<Option("WithOptionsFunc", "other")>>, other)
NoTarget == Field("string", none, <<>>, none)
Hidden == Field("string", y, <<Option("WithInitial", good), Option("WithShowHidden", none),
                               Option("WithFilePicker", none)>>, none)

FormOptions ==
  {NilOption, Timeout, Note, Port, Count, Name, Email, Kind, WrongKind, NoTarget, Hidden,
   Group(<<Port, Name>>), Group(<<Email, Note>>), Group(<<Name, Hidden>>)}
Forms == [fn : {"Form"}, opts : UpTo(3, FormOptions), default : {none}]

ConfirmOptions ==
  {Option("nil", none), Option("WithYes", TRUE), Option("WithYes", FALSE),
   Option("WithDefault", TRUE), Option("WithPrefill", FALSE),
   Option("WithConfirmValue", good), Option("WithConfirmValue", zero),
   Option("WithConfirmInput", good), Option("WithConfirmInput", other),
   Option("WithValidate", none)}
Confirms == [fn : {"Confirm"}, opts : UpTo(3, ConfirmOptions), default : {none}]

TextOptions ==
  {Option("WithDefault", other), Option("WithInitial", good), Option("WithValidate", none),
   Option("WithShowHidden", none), BadOption("WithMaxChars"), Option("WithEditor", none)}
Texts == [fn : Asks, opts : UpTo(2, TextOptions), default : {none}]
Selections == [fn : Chooses, opts : UpTo(1, {BadOption("WithLimit"), Option("WithHeight", none)}),
            default : {other}]

AllCalls == Forms \cup Confirms \cup Texts \cup Selections
=============================================================================
