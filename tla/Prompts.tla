------------------------------ MODULE Prompts ------------------------------
(***************************************************************************)
(* One call of Context.Form, Confirm, Input, TextInput, FilePicker, Select *)
(* or MultiSelect, with or without a terminal (nabat/form.go,              *)
(* nabat/interactive.go): the options are applied one by one, a program    *)
(* without terminal answers from the defaults, the others show a Huh form, *)
(* in which the user moves, edits, submits or gives up.                    *)
(*                                                                         *)
(* Huh is external: a widget writes what the user edits into the variable  *)
(* it was given, calls the field's Validate when the user leaves it, and   *)
(* does not let go of a field that fails it.                               *)
(***************************************************************************)
EXTENDS FormFields, FiniteSets

CONSTANTS
  Calls,   \* the calls: [fn, opts, default], where the options of a Form are
           \* records [opt, field, opts] (field and opts for "field" and
           \* "group") and those of the others are options of FieldOptions
  Start    \* what the caller's variables hold before the call

ASSUME StartAssumption == Start \in [Targets -> Values]

\* Why a call fails.
Errors == {"options", "missing", "build", "aborted", "timeout", "confirm", "noTerminal"}

Declares(f) == f.kind \in Kinds /\ f.target \in Targets \cup {None}

ASSUME CallsAssumption ==
  /\ None \notin Errors
  /\ \A c \in Calls :
       /\ c.opts \in Seq(Range(c.opts))
       /\ c.fn = "Form" => \A o \in Range(c.opts) :
            /\ o.opt \in {"nil", "timeout", "field", "group"}
            /\ o.opt = "field" => Declares(o.field)
            /\ o.opt = "group" =>
                 /\ o.opts \in Seq(Range(o.opts))
                 /\ \A p \in Range(o.opts) :
                      p.opt \in {"nil", "field"} /\ (p.opt = "field" => Declares(p.field))
       /\ c.fn = "Confirm" => \A o \in Range(c.opts) :
            o.opt = "WithYes" => o.value \in BOOLEAN

Asks == {"Input", "TextInput", "FilePicker"}
Chooses == {"Select", "MultiSelect"}

VARIABLES
  call, interactive,
  pc,       \* where the call is
  i, j,     \* the option of the call and of its group applied last
  issues,   \* how many errors have been collected (ConfigErrors)
  conf,     \* promptConfig of a single prompt
  pages,    \* formConfig.groups
  page,     \* the page a WithFormGroup is making, and whether it failed
  timeout,  \* whether WithFormTimeout was given
  fields,   \* the fields of all pages, in the order they are visited
  targets,  \* the caller's variables
  raw,      \* the text in each numeric widget
  cur,      \* the field the loop or the user is at
  out,      \* the variable of a single prompt
  ret       \* what the call returned: [value, err]

setup == <<call, interactive>>
formVars == <<j, pages, page, timeout, fields, targets, raw, cur>>
vars == <<setup, formVars, pc, i, issues, conf, out, ret>>

NoPage == [fields |-> <<>>, issues |-> 0]
Nothing == [value |-> None, err |-> None]

\* TextInput and FilePicker put their mode before the caller's options.
Opts == CASE call.fn = "TextInput" -> <<Option("WithMultiline", None)>> \o call.opts
          [] call.fn = "FilePicker" -> <<Option("WithFilePicker", None)>> \o call.opts
          [] OTHER -> call.opts

Init ==
  /\ call \in Calls
  /\ interactive \in BOOLEAN
  /\ pc = "options"
  /\ i = 0 /\ j = 0 /\ issues = 0
  /\ conf = EmptyConfig
  /\ pages = <<>> /\ page = NoPage
  /\ timeout = FALSE
  /\ fields = <<>> /\ raw = <<>> /\ cur = 1
  /\ targets = Start
  /\ out = None
  /\ ret = Nothing

\* What comes with an error: false, "" or the zero choice; a Form returns
\* nothing but the error.
NoAnswer == CASE call.fn = "Form" -> None
              [] call.fn = "Confirm" -> FALSE
              [] OTHER -> Zero

Return(value, err) ==
  /\ pc' = "returned"
  /\ ret' = [value |-> value, err |-> err]
Fail(err) == Return(NoAnswer, err)

(***************************************************************************)
(* The options of a form.                                                  *)
(***************************************************************************)
FormOption(name) ==
  /\ call.fn = "Form" /\ pc = "options" /\ i < Len(call.opts)
  /\ call.opts[i + 1].opt = name
  /\ i' = i + 1

NilFormOption ==
  /\ FormOption("nil")
  /\ issues' = issues + 1
  /\ UNCHANGED <<setup, formVars, pc, conf, out, ret>>

WithFormTimeout ==
  /\ FormOption("timeout")
  /\ timeout' = TRUE
  /\ UNCHANGED <<setup, j, pages, page, fields, targets, raw, cur, pc, issues, conf, out, ret>>

\* The field constructors as options of the form.
LooseField ==
  /\ FormOption("field")
  /\ LET f == call.opts[i + 1].field
         e == Entry(f, <<i + 1, 0>>)
     IN IF Declined(f)
        THEN issues' = issues + 1 /\ UNCHANGED <<pages, targets>>
        ELSE /\ pages' = OnFirstPage(pages, e)
             /\ targets' = Seeded(targets, e)
             /\ UNCHANGED issues
  /\ UNCHANGED <<setup, j, page, timeout, fields, raw, cur, pc, conf, out, ret>>

WithFormGroup ==
  /\ FormOption("group")
  /\ pc' = "group"
  /\ j' = 0
  /\ page' = NoPage
  /\ UNCHANGED <<setup, pages, timeout, fields, targets, raw, cur, issues, conf, out, ret>>

\* One option of the group.
GroupOption ==
  /\ pc = "group" /\ j < Len(call.opts[i].opts)
  /\ j' = j + 1
  /\ LET o == call.opts[i].opts[j + 1]
         e == Entry(o.field, <<i, j + 1>>)
     IN IF o.opt = "nil" \/ Declined(o.field)
        THEN page' = [page EXCEPT !.issues = @ + 1] /\ UNCHANGED targets
        ELSE /\ page' = [page EXCEPT !.fields = Append(@, e)]
             /\ targets' = Seeded(targets, e)
  /\ UNCHANGED <<setup, pages, timeout, fields, raw, cur, pc, i, issues, conf, out, ret>>

\* (A mutant: the errors of a group stay in the group.)
GroupDoneForgets ==
  /\ pc = "group" /\ j = Len(call.opts[i].opts)
  /\ pc' = "options"
  /\ IF page.issues > 0
     THEN UNCHANGED pages
     ELSE pages' = Append(pages, Page(i, page.fields))
  /\ UNCHANGED <<setup, j, page, timeout, fields, targets, raw, cur, i, issues, conf, out, ret>>

\* A group with an error is not a page: one error of the form.
GroupDone ==
  /\ pc = "group" /\ j = Len(call.opts[i].opts)
  /\ pc' = "options"
  /\ IF page.issues > 0
     THEN issues' = issues + 1 /\ UNCHANGED pages
     ELSE pages' = Append(pages, Page(i, page.fields)) /\ UNCHANGED issues
  /\ UNCHANGED <<setup, j, page, timeout, fields, targets, raw, cur, i, conf, out, ret>>

(***************************************************************************)
(* The form itself.                                                        *)
(***************************************************************************)
OptionsDone == call.fn = "Form" /\ pc = "options" /\ i = Len(call.opts)

FormRefused ==
  /\ OptionsDone
  /\ \/ issues > 0 /\ Fail("options")
     \/ issues = 0 /\ pages = <<>> /\ Return(None, None)
  /\ UNCHANGED <<setup, formVars, i, issues, conf, out>>

FallbackWalk ==
  /\ OptionsDone /\ issues = 0 /\ pages # <<>> /\ ~interactive
  /\ pc' = "fallback"
  /\ fields' = FieldsOf(pages)
  /\ UNCHANGED <<setup, j, pages, page, timeout, targets, raw, cur, i, issues, conf, out, ret>>

\* (A mutant: the walk ends at the first field without a default.)
FallbackStops ==
  /\ pc = "fallback" /\ cur <= Len(fields)
  /\ targets' = FellBack(targets, fields[cur])
  /\ issues' = issues + IF Content(fields[cur]) THEN 0 ELSE 1
  /\ cur' = IF Content(fields[cur]) THEN cur + 1 ELSE Len(fields) + 1
  /\ UNCHANGED <<setup, j, pages, page, timeout, fields, raw, pc, i, conf, out, ret>>

\* One turn of formFallbackWalk.
Fallback ==
  /\ pc = "fallback" /\ cur <= Len(fields)
  /\ targets' = FellBack(targets, fields[cur])
  /\ issues' = issues + IF Content(fields[cur]) THEN 0 ELSE 1
  /\ cur' = cur + 1
  /\ UNCHANGED <<setup, j, pages, page, timeout, fields, raw, pc, i, conf, out, ret>>

FallbackDone ==
  /\ pc = "fallback" /\ cur > Len(fields)
  /\ Return(None, IF issues > 0 THEN "missing" ELSE None)
  /\ UNCHANGED <<setup, formVars, i, issues, conf, out>>

ShowForm ==
  /\ OptionsDone /\ issues = 0 /\ pages # <<>> /\ interactive
  /\ pc' = "build"
  /\ fields' = FieldsOf(pages)
  /\ UNCHANGED <<setup, j, pages, page, timeout, targets, raw, cur, i, issues, conf, out, ret>>

\* One turn of the loop that makes the widgets: buildHuh seeds the variable
\* again, and a numeric widget starts with the text of its variable as it is
\* then. The first widget that cannot be made ends the call.
BuildWidget ==
  /\ pc = "build" /\ cur <= Len(fields)
  /\ LET e == fields[cur]
         seeded == Seeded(targets, e)
     IN IF e.mismatch
        THEN Fail("build") /\ UNCHANGED <<targets, raw, cur>>
        ELSE /\ targets' = seeded
             /\ raw' = Append(raw, IF e.kind = "number" THEN seeded[e.target] ELSE None)
             /\ cur' = cur + 1
             /\ UNCHANGED <<pc, ret>>
  /\ UNCHANGED <<setup, j, pages, page, timeout, fields, i, issues, conf, out>>

RunForm ==
  /\ pc = "build" /\ cur > Len(fields)
  /\ pc' = "form"
  /\ cur' = 1
  /\ UNCHANGED <<setup, j, pages, page, timeout, fields, targets, raw, i, issues, conf, out, ret>>

(***************************************************************************)
(* The user and the Huh form.                                              *)
(***************************************************************************)
\* (A mutant: a numeric widget writes what it can parse at once.)
EditFieldStores ==
  /\ pc = "form" /\ cur <= Len(fields) /\ fields[cur].kind # "note"
  /\ \E v \in Values :
       /\ targets' = [targets EXCEPT ![fields[cur].target] = v]
       /\ raw' = [raw EXCEPT ![cur] = v]
  /\ UNCHANGED <<setup, j, pages, page, timeout, fields, cur, pc, i, issues, conf, out, ret>>

\* The user edits the field: a numeric widget has a text of its own.
EditField ==
  /\ pc = "form" /\ cur <= Len(fields) /\ fields[cur].kind # "note"
  /\ IF fields[cur].kind = "number"
     THEN \E text \in Values \cup {Junk} : raw' = [raw EXCEPT ![cur] = text] /\ UNCHANGED targets
     ELSE \E v \in Values : targets' = [targets EXCEPT ![fields[cur].target] = v] /\ UNCHANGED raw
  /\ UNCHANGED <<setup, j, pages, page, timeout, fields, cur, pc, i, issues, conf, out, ret>>

\* Validate, which for a number parses the text and, if the caller's function
\* accepts the number, stores it.
Passes(k) ==
  LET e == fields[k]
  IN CASE e.kind = "note" -> TRUE
       [] e.kind = "number" -> raw[k] # Junk /\ (e.validate => raw[k] \in Accepts)
       [] OTHER -> e.validate => targets[e.target] \in Accepts

Committed(k) ==
  IF fields[k].kind = "number" THEN [targets EXCEPT ![fields[k].target] = raw[k]] ELSE targets

\* The user leaves the field for the next one or the one before; after the
\* last one the form is submitted.
LeaveField ==
  /\ pc = "form" /\ cur <= Len(fields) /\ Passes(cur)
  /\ targets' = Committed(cur)
  /\ \/ cur < Len(fields) /\ cur' = cur + 1 /\ UNCHANGED <<pc, ret>>
     \/ cur > 1 /\ cur' = cur - 1 /\ UNCHANGED <<pc, ret>>
     \/ cur = Len(fields) /\ Return(None, None) /\ UNCHANGED cur
  /\ UNCHANGED <<setup, j, pages, page, timeout, fields, raw, i, issues, conf, out>>

\* ctrl+c, a terminal that fails, or the timeout of the form.
GiveUp ==
  /\ pc \in {"form", "widget", "type"}
  /\ \/ Fail("aborted")
     \/ pc = "form" /\ timeout /\ Fail("timeout")
  /\ UNCHANGED <<setup, formVars, i, issues, conf, out>>

(***************************************************************************)
(* Single prompts.                                                         *)
(***************************************************************************)
ApplyOption ==
  /\ call.fn # "Form" /\ pc = "options" /\ i < Len(Opts)
  /\ conf' = Apply(conf, Opts[i + 1])
  /\ issues' = issues + IF Refuses(conf, Opts[i + 1]) THEN 1 ELSE 0
  /\ i' = i + 1
  /\ UNCHANGED <<setup, formVars, pc, out, ret>>

Applied(fns) == call.fn \in fns /\ pc = "options" /\ i = Len(Opts)
Severe == conf.confirmValue # Zero

PromptRefused ==
  /\ Applied(Asks \cup Chooses \cup {"Confirm"}) /\ issues > 0
  /\ Fail("options")
  /\ UNCHANGED <<setup, formVars, i, issues, conf, out>>

\* (A mutant: WithYes is looked at before the value to type.)
ConfirmYesFirst ==
  /\ Applied({"Confirm"}) /\ issues = 0
  /\ conf.bypassYes /\ Return(TRUE, None)
  /\ UNCHANGED <<setup, formVars, i, issues, conf, out>>

\* Confirm answers by itself: the value to type came with the call, WithYes,
\* or the default of a program without terminal.
ConfirmBypassed ==
  /\ Applied({"Confirm"}) /\ issues = 0
  /\ IF Severe
     THEN conf.confirmInput = conf.confirmValue /\ Return(TRUE, None)
     ELSE \/ conf.bypassYes /\ Return(TRUE, None)
          \/ /\ ~conf.bypassYes /\ ~interactive /\ conf.fallback # None
             /\ Return(conf.fallback, None)
  /\ UNCHANGED <<setup, formVars, i, issues, conf, out>>

ConfirmRequired ==
  /\ Applied({"Confirm"}) /\ issues = 0 /\ ~interactive
  /\ IF Severe THEN conf.confirmInput # conf.confirmValue
               ELSE ~conf.bypassYes /\ conf.fallback = None
  /\ Fail("confirm")
  /\ UNCHANGED <<setup, formVars, i, issues, conf, out>>

ConfirmAsks ==
  /\ Applied({"Confirm"}) /\ issues = 0 /\ interactive
  /\ IF Severe
     THEN conf.confirmInput # conf.confirmValue /\ pc' = "type" /\ out' = Zero
     ELSE /\ ~conf.bypassYes /\ pc' = "widget"
          /\ out' = IF conf.initial = None THEN FALSE ELSE conf.initial
  /\ UNCHANGED <<setup, formVars, i, issues, conf, ret>>

\* Input, TextInput and FilePicker.
Ask ==
  /\ Applied(Asks) /\ issues = 0
  /\ IF interactive
     THEN /\ pc' = "widget"
          /\ out' = IF conf.initial = None THEN Zero ELSE conf.initial
          /\ UNCHANGED ret
     ELSE /\ IF conf.fallback # None THEN Return(conf.fallback, None) ELSE Fail("noTerminal")
          /\ UNCHANGED out
  /\ UNCHANGED <<setup, formVars, i, issues, conf>>

\* Select and MultiSelect.
Choose ==
  /\ Applied(Chooses) /\ issues = 0
  /\ IF interactive THEN pc' = "widget" /\ out' = call.default /\ UNCHANGED ret
                    ELSE Return(call.default, None) /\ UNCHANGED out
  /\ UNCHANGED <<setup, formVars, i, issues, conf>>

EditPrompt ==
  /\ \/ pc = "widget" /\ out' \in IF call.fn = "Confirm" THEN BOOLEAN ELSE Values
     \/ pc = "type" /\ out' \in Values
  /\ UNCHANGED <<setup, formVars, pc, i, issues, conf, ret>>

SubmitPrompt ==
  /\ \/ pc = "widget" /\ (conf.validate => out \in Accepts) /\ Return(out, None)
     \/ pc = "type" /\ out = conf.confirmValue /\ Return(TRUE, None)
  /\ UNCHANGED <<setup, formVars, i, issues, conf, out>>

(***************************************************************************)
(* What the code does by itself, and what the user and the terminal do.    *)
(***************************************************************************)
Own ==
  \/ NilFormOption \/ WithFormTimeout \/ LooseField \/ WithFormGroup \/ GroupOption
  \/ GroupDone \/ FormRefused \/ FallbackWalk \/ Fallback \/ FallbackDone \/ ShowForm
  \/ BuildWidget \/ RunForm \/ ApplyOption \/ PromptRefused \/ ConfirmBypassed \/ ConfirmRequired \/ ConfirmAsks
  \/ Ask \/ Choose

User == EditField \/ LeaveField \/ EditPrompt \/ SubmitPrompt \/ GiveUp

Next == Own \/ User

Spec == Init /\ [][Next]_vars

(***************************************************************************)
(* Properties                                                              *)
(***************************************************************************)
\* Where the fields of a form stand in its options.
Places == {<<k, 0>> : k \in {n \in DOMAIN call.opts : call.opts[n].opt = "field"}}
  \cup UNION {{<<k, l>> : l \in {n \in DOMAIN call.opts[k].opts : call.opts[k].opts[n].opt = "field"}} :
              k \in {n \in DOMAIN call.opts : call.opts[n].opt = "group"}}
FieldAt(at) ==
  IF at[2] = 0 THEN call.opts[at[1]].field ELSE call.opts[at[1]].opts[at[2]].field

\* A form fails for its options exactly if one of them is faulty, anywhere;
\* it has then asked nothing and taken no default: the caller's variables
\* hold what they held or a starting value (form.go:768-770).
FaultyFormOnlySeeds ==
  call.fn = "Form" /\ pc = "returned" =>
    /\ ret.err = "options" <=>
         \/ \E at \in Places : Declined(FieldAt(at))
         \/ \E k \in DOMAIN call.opts :
              \/ call.opts[k].opt = "nil"
              \/ /\ call.opts[k].opt = "group"
                 /\ \E l \in DOMAIN call.opts[k].opts : call.opts[k].opts[l].opt = "nil"
    /\ ret.err = "options" => \A t \in Targets :
         \/ targets[t] = Start[t]
         \/ \E at \in Places : /\ FieldAt(at).target = t
                               /\ targets[t] = Entry(FieldAt(at), at).initial

\* Without a terminal the error counts every field without a default, not
\* only the first, and each of the others has its default all the same: of
\* the fields on one variable, the last (form.go:841-858).
DefaultsTakenOrReported ==
  call.fn = "Form" /\ ~interactive /\ pc = "returned" /\ ret.err # "options" =>
    LET lacking == {k \in DOMAIN fields : ~Content(fields[k])}
        writers(t) == {k \in DOMAIN fields : /\ fields[k].kind # "note"
                                             /\ fields[k].target = t
                                             /\ fields[k].fallback # None}
    IN /\ ret.err = IF lacking = {} THEN None ELSE "missing"
       /\ issues = Cardinality(lacking)
       /\ \A t \in Targets : writers(t) # {} => targets[t] = fields[Max(writers(t))].fallback

On(t) == {k \in DOMAIN fields : fields[k].kind # "note" /\ fields[k].target = t}

\* Where every field on a variable has a validation, a form that was
\* submitted leaves a value there that passes; and where they are all
\* numbers, nothing else gets there at any time but what was there before
\* and the starting values, whatever the user types and however the form
\* ends (form.go:647-692).
OnlyAcceptedStored ==
  call.fn = "Form" /\ interactive =>
    \A t \in Targets :
      On(t) # {} /\ (\A k \in On(t) : fields[k].kind \notin Selects /\ fields[k].validate) =>
        /\ pc = "returned" /\ ret.err = None => targets[t] \in Accepts
        /\ (\A k \in On(t) : fields[k].kind = "number") =>
             targets[t] \in Accepts \cup {Start[t]} \cup {fields[k].initial : k \in On(t)}

\* The value of the last option of these names.
LastGiven(names, otherwise) ==
  LET ks == {k \in DOMAIN call.opts : call.opts[k].opt \in names}
  IN IF ks = {} THEN otherwise ELSE call.opts[Max(ks)].value

\* Confirm returns true only for options it accepts and if somebody said so:
\* the value to type was passed or typed, with WithYes and WithDefault
\* counting for nothing; or, where there is none to type, WithYes, the default
\* of a program without terminal, or the user (interactive.go:100-160).
ConfirmIsEarned ==
  call.fn = "Confirm" /\ ret.value = TRUE =>
    LET expected == LastGiven({"WithConfirmValue"}, Zero)
    IN /\ issues = 0
       /\ IF expected # Zero
          THEN LastGiven({"WithConfirmInput"}, Zero) = expected \/ (interactive /\ out = expected)
          ELSE \/ LastGiven({"WithYes"}, FALSE)
               \/ ~interactive /\ LastGiven({"WithDefault", "WithPrefill"}, None) = TRUE
               \/ interactive /\ out = TRUE
=============================================================================
