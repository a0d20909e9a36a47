---------------------------- MODULE FormFields ----------------------------
(***************************************************************************)
(* The fields of a form as data (nabat/form.go): what WithFormField,       *)
(* WithSelectField, WithMultiSelectField and WithFormNote make of a        *)
(* declaration, and where the caller's variables stand after it.           *)
(*                                                                         *)
(* A field declaration is a record                                         *)
(*   [kind : Kinds, target : Targets \cup {None}, opts, default]           *)
(* where default is the defaultVal of a select and None for the others.    *)
(***************************************************************************)
EXTENDS FieldOptions

CONSTANTS
  Targets, \* the variables of the caller that fields point to
  Junk     \* a text no number is parsed from

ASSUME TargetsAssumption == None \notin Targets /\ Junk \notin Values

Selects == {"select", "multiselect"}
Kinds == {"string", "bool", "number", "note"} \cup Selects

\* typedFormField, or noteEntry.  at is the place of the declaration in the
\* call: <<i, 0>> for the option i of the form, <<i, j>> for the option j of
\* the group that is option i.
Entry(f, at) ==
  LET pc == ApplyAll(f.opts).config
  IN [at |-> at, kind |-> f.kind, target |-> f.target,
      fallback |-> IF f.kind \in Selects THEN f.default ELSE pc.fallback,
      initial |-> IF f.kind \in Selects \cup {"note"} THEN None ELSE pc.initial,
      validate |-> f.kind \notin Selects /\ pc.validate,
      \* WithOptionsFunc with a function of another element type, which only
      \* the widget of a single select looks at.
      mismatch |-> f.kind = "select" /\ pc.options = "other"]

Declined(f) == f.kind # "note" /\ (f.target = None \/ ApplyAll(f.opts).issues > 0)

\* applyInitial: the starting value overwrites the variable, with or without
\* a terminal.
Seeded(targets, e) ==
  IF e.initial = None THEN targets ELSE [targets EXCEPT ![e.target] = e.initial]

\* applyFallback.  A note has nothing to fall back to and is content.
Content(e) == e.kind = "note" \/ e.fallback # None
FellBack(targets, e) ==
  IF e.kind = "note" \/ e.fallback = None THEN targets
  ELSE [targets EXCEPT ![e.target] = e.fallback]

\* A page (formGroup): group is the index of its WithFormGroup, 0 for the one
\* ensureDefaultGroup makes.
Page(group, fields) == [group |-> group, fields |-> fields]

\* A field outside any group goes to the first page there is by then, and to
\* a default one if there is none (ensureDefaultGroup).
OnFirstPage(pages, e) ==
  IF pages = <<>> THEN <<Page(0, <<e>>)>>
  ELSE [pages EXCEPT ![1].fields = Append(@, e)]

\* The fields in the order of the pages.
FieldsOf(pages) == FlattenSeq([p \in DOMAIN pages |-> pages[p].fields])
=============================================================================
