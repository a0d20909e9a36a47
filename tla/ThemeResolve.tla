---------------------------- MODULE ThemeResolve ----------------------------
(* The functions of package theme that have no state of their own: what an  *)
(* override does to a palette, which variant a theme picks, and how         *)
(* Theme.Resolve folds the slots of that variant into one value each.       *)
(*                                                                          *)
(* A theme is [default, variants, prefix]; prefix stands for PromptKnobs.   *)
(* The integrations of chroma, glamour and huh are told apart by where they *)
(* come from, not by what they look like.                                   *)
EXTENDS Naturals, FiniteSets, Sequences, SequencesExt, TLC

CONSTANTS Tokens,          \* semantic tokens
          DefaultAliases,  \* theme.DefaultAliases
          Nil              \* the empty string, nil and absence

NoEntries == << >>

ZeroPalette ==
  [tokens |-> NoEntries, aliases |-> NoEntries, chroma |-> Nil, chromaName |-> Nil,
   glamour |-> Nil, glamourName |-> Nil, glamourFor |-> Nil, prompt |-> Nil, huh |-> Nil]

-----------------------------------------------------------------------------
(* Overrides.                                                              *)

\* A change is [slot, key, value]; the Set* helpers clear the other sources
\* of the slot they write.
SetChromaNameOnly(p, v) == [p EXCEPT !.chromaName = v]
SetChromaName(p, v) == [p EXCEPT !.chroma = Nil, !.chromaName = v]

Put(f, k, v) == [x \in {k} \cup DOMAIN f |-> IF x = k THEN v ELSE f[x]]

Overridden(p, o) ==
  CASE o.slot = "token" -> [p EXCEPT !.tokens = Put(@, o.key, o.value)]
    [] o.slot = "alias" -> [p EXCEPT !.aliases = Put(@, o.key, o.value)]
    [] o.slot = "chroma" -> [p EXCEPT !.chroma = o.value, !.chromaName = Nil]
    [] o.slot = "chromaName" -> SetChromaName(p, o.value)
    [] o.slot = "glamour" ->
         [p EXCEPT !.glamour = o.value, !.glamourName = Nil, !.glamourFor = Nil]
    [] o.slot = "glamourName" ->
         [p EXCEPT !.glamour = Nil, !.glamourName = o.value, !.glamourFor = Nil]
    [] o.slot = "huh" -> [p EXCEPT !.huh = o.value]

\* The palette p after the first n of some overrides.
Overriding(p, overrides) ==
  LET after[n \in 0..Len(overrides)] ==
        IF n = 0 THEN p ELSE Overridden(after[n - 1], overrides[n])
  IN  after

\* Theme.With works on copies of the palettes of every variant.
With(t, overrides) ==
  [t EXCEPT !.variants =
     [v \in DOMAIN @ |-> Overriding(@[v], overrides)[Len(overrides)]]]

-----------------------------------------------------------------------------
(* Resolution.                                                             *)

\* detectCapabilities: without two files there is nobody to ask for the
\* background, and it is taken to be dark.
detectCapabilities(term) ==
  [interactive |-> term.tty, dark |-> term.files => term.dark]

pickVariant(t, c) ==
  LET declared == DOMAIN t.variants
      shade == IF c.dark THEN "dark" ELSE "light"
  IN  IF Cardinality(declared) = 1 THEN CHOOSE v \in declared : TRUE
      ELSE IF ~c.interactive /\ "notty" \in declared THEN "notty"
      ELSE IF shade \in declared THEN shade
      ELSE t.default

GlamourPreset(v, c) ==
  IF v = "notty" \/ ~c.interactive THEN "notty" ELSE IF c.dark THEN "dark" ELSE "light"

\* Each cascade takes the first source there is; known is what the libraries
\* call one of their own styles. chroma has a style for any name.
ResolvedChroma(p) ==
  IF p.chroma # Nil THEN <<"owned", p.chroma>>
  ELSE IF p.chromaName # Nil THEN <<"named", p.chromaName>>
  ELSE <<"derived", p.tokens>>

GlamourFails(p) == p.glamour = Nil /\ p.glamourFor = "fails"
ResolvedGlamour(p, v, c) ==
  IF p.glamour # Nil THEN <<"owned", p.glamour>>
  ELSE IF GlamourFails(p) THEN <<"none", Nil>>
  ELSE IF p.glamourFor \notin {Nil, "nothing"} THEN <<"made", p.glamourFor>>
  ELSE IF p.glamourName \notin {Nil, "unknown"} THEN <<"named", p.glamourName>>
  ELSE <<"derived", GlamourPreset(v, c)>>

\* PromptKnobs.Apply overlays what Prompt or the tokens give; an owned
\* huh.Theme is used as it is.
ResolvedHuh(p, prefix) ==
  IF p.huh # Nil THEN <<"owned", p.huh, Nil>>
  ELSE IF p.prompt # Nil THEN <<"prompt", p.prompt, prefix>>
  ELSE <<"derived", p.tokens, prefix>>

\* mergeAliases: an empty target takes the default away.
mergeAliases(over) ==
  LET target(k) == IF k \in DOMAIN over THEN over[k] ELSE DefaultAliases[k]
  IN  [k \in {k \in DOMAIN over \cup DOMAIN DefaultAliases : target(k) # Nil} |-> target(k)]

\* resolveWithErr, but for the walk that validates the chains.
Resolved(t, c) ==
  LET v == pickVariant(t, c)
      p == IF v \in DOMAIN t.variants THEN t.variants[v] ELSE ZeroPalette
  IN  [variant |-> v, tokens |-> p.tokens, aliases |-> mergeAliases(p.aliases),
       chroma |-> ResolvedChroma(p), glamour |-> ResolvedGlamour(p, v, c),
       huh |-> ResolvedHuh(p, t.prefix), failed |-> GlamourFails(p)]
=============================================================================
