------------------------------- MODULE Themes -------------------------------
(* The theme of an App: New applies its theme options, resolves the recipe  *)
(* against the terminal, validates the alias chains, checks the tokens that *)
(* its consumers require, and hands out styles. A walk along the aliases is *)
(* a loop of the code and takes a step per token here. NewApp composes these *)
(* actions with the rest of New.                                            *)
EXTENDS ThemeResolve

CONSTANTS Options,    \* the option lists New may be given
          Catalog,    \* the built-in themes by name
          Default,    \* the name of theme.Default
          Terminals,  \* [tty, files, dark]
          Required    \* tokens of the core requirements and the extensions'

Option == UNION {ToSet(os) : os \in Options}
Slots == {"token", "alias", "chroma", "chromaName", "glamour", "glamourName", "huh"}

\* Every name of a token that a theme or an option may have is one of
\* Tokens; a style is there or not, and Nil is none.
PaletteOK(p) ==
  /\ DOMAIN p = DOMAIN ZeroPalette
  /\ DOMAIN p.tokens \subseteq Tokens /\ \A t \in DOMAIN p.tokens : p.tokens[t] # Nil
  /\ DOMAIN p.aliases \subseteq Tokens
  /\ \A t \in DOMAIN p.aliases : p.aliases[t] \in Tokens \cup {Nil}
ThemeOK(t) ==
  /\ DOMAIN t = {"default", "variants", "prefix"}
  /\ \A v \in DOMAIN t.variants : PaletteOK(t.variants[v])
ChangeOK(c) ==
  /\ c.slot \in Slots
  /\ c.slot = "token" => c.key \in Tokens /\ c.value # Nil
  /\ c.slot = "alias" => c.key \in Tokens /\ c.value \in Tokens \cup {Nil}

ASSUME ThemesAssumption ==
  /\ IsFiniteSet(Tokens) /\ Nil \notin Tokens \cup {"fails", "cycle"}
  /\ DOMAIN DefaultAliases \subseteq Tokens
  /\ \A t \in DOMAIN DefaultAliases : DefaultAliases[t] \in Tokens \cup {Nil}
  /\ Default \in DOMAIN Catalog /\ \A n \in DOMAIN Catalog : ThemeOK(Catalog[n])
  /\ Required \in Seq(Tokens)
  /\ Options \subseteq Seq(Option)
  /\ \A o \in Option :
       /\ o.kind = "custom" /\ o.arg # Nil => ThemeOK(o.arg.theme)
       /\ o.kind = "overrides" =>
            /\ o.arg \in Seq(ToSet(o.arg))
            /\ \A c \in ToSet(o.arg) \ {Nil} : ChangeOK(c)

VARIABLES opts,       \* options New has not applied
          recipe,     \* config.theme: [opaque, theme]
          overrides, strict,
          refused,    \* an option returned an error
          term,
          phase, why,
          resolved,   \* config.resolvedTheme
          starts,     \* aliases whose chain has not been validated
          required,   \* tokens CheckRequirements has not asked for
          missing,
          walk,       \* the loop along the aliases under way, or Nil
          shown       \* what the last call of Style returned

themeVars == <<opts, recipe, overrides, strict, refused, term, phase, why, resolved,
               starts, required, missing, walk, shown>>
config == <<opts, recipe, overrides, strict, refused, term>>

Nothing == [variant |-> Nil, tokens |-> NoEntries, aliases |-> NoEntries]

ThemeInit ==
  /\ opts \in Options
  /\ term \in Terminals
  /\ recipe = [opaque |-> FALSE, theme |-> Catalog[Default]]
  /\ overrides = <<>> /\ strict = FALSE /\ refused = FALSE
  /\ phase = "options" /\ why = Nil
  /\ resolved = Nothing
  /\ starts = {} /\ required = <<>> /\ missing = {}
  /\ walk = Nil /\ shown = Nil

-----------------------------------------------------------------------------
(* New: the options. Each is applied although one before it was refused.   *)

NextOption ==
  /\ phase = "options" /\ opts # <<>>
  /\ opts' = Tail(opts)
  /\ UNCHANGED <<term, phase, why, resolved, starts, required, missing, walk, shown>>

RefuseOption == refused' = TRUE /\ UNCHANGED <<recipe, overrides, strict>>

WithTheme(name) ==
  IF name \in DOMAIN Catalog
    THEN /\ recipe' = [opaque |-> FALSE, theme |-> Catalog[name]]
         /\ UNCHANGED <<overrides, strict, refused>>
    ELSE RefuseOption

WithCustomTheme(r) ==
  IF r = Nil THEN RefuseOption
    ELSE recipe' = r /\ UNCHANGED <<overrides, strict, refused>>

\* WithThemeOverride gives one override, WithThemeOverrides any number.
WithThemeOverrides(changes) ==
  IF Nil \in ToSet(changes) THEN RefuseOption
    ELSE overrides' = overrides \o changes /\ UNCHANGED <<recipe, strict, refused>>

ThemeOptions == {"name", "custom", "overrides", "strict", "nil"}

ApplyOption ==
  /\ NextOption
  /\ Head(opts).kind \in ThemeOptions
  /\ LET o == Head(opts)
     IN  CASE o.kind = "name" -> WithTheme(o.arg)
           [] o.kind = "custom" -> WithCustomTheme(o.arg)
           [] o.kind = "overrides" -> WithThemeOverrides(o.arg)
           [] o.kind = "strict" ->
                strict' = TRUE /\ UNCHANGED <<recipe, overrides, refused>>
           [] o.kind = "nil" -> RefuseOption

-----------------------------------------------------------------------------
(* config.finalize.                                                        *)

Fail(reason) ==
  /\ phase' = "failed" /\ why' = reason
  /\ starts' = {} /\ walk' = Nil
  /\ UNCHANGED <<resolved, required, missing, shown>>

\* The errors of the options and of config.validate come back together.
OptionsRefused(invalid) ==
  /\ phase = "options" /\ opts = <<>> /\ (refused \/ invalid)
  /\ Fail("options")
  /\ UNCHANGED config

\* ResolveErr of a declarative theme; a resolver of the user's own resolves
\* by itself, without the overrides and with no error to return.
Finalize(invalid) ==
  /\ phase = "options" /\ opts = <<>> /\ ~(refused \/ invalid)
  /\ LET t == IF recipe.opaque \/ overrides = <<>> THEN recipe.theme
                                                   ELSE With(recipe.theme, overrides)
         r == Resolved(t, detectCapabilities(term))
     IN  /\ resolved' = r
         /\ starts' = IF recipe.opaque THEN {} ELSE DOMAIN r.aliases
  /\ phase' = "validate"
  /\ UNCHANGED <<config, why, required, missing, walk, shown>>

Target(t) == IF t \in DOMAIN resolved.aliases THEN resolved.aliases[t] ELSE Nil
Walk(t) == [start |-> t, cur |-> Target(t), seen |-> {t}]

\* The loop of resolveWithErr over the aliases, in any order.
ValidateChain(t) ==
  /\ phase = "validate" /\ walk = Nil /\ t \in starts
  /\ walk' = Walk(t)
  /\ UNCHANGED <<config, phase, why, resolved, starts, required, missing, shown>>

\* Only a chain that comes back to where it was entered counts as a cycle;
\* one that leads into a cycle further on is left when it repeats.
validateAliasChainStart ==
  /\ phase = "validate" /\ walk # Nil
  /\ IF walk.cur \in {Nil} \cup (walk.seen \ {walk.start})
       THEN /\ walk' = Nil /\ starts' = {}
            /\ UNCHANGED <<phase, why, resolved, required, missing, shown>>
     ELSE IF walk.cur = walk.start
       THEN Fail("cycle")
       ELSE /\ walk' = [walk EXCEPT !.cur = Target(walk.cur), !.seen = @ \cup {walk.cur}]
            /\ UNCHANGED <<phase, why, resolved, starts, required, missing, shown>>
  /\ UNCHANGED config

\* One round of the loop of validateAliasChain.
validateAliasChain ==
  /\ phase = "validate" /\ walk # Nil
  /\ IF walk.cur = Nil
       THEN /\ walk' = Nil /\ starts' = starts \ {walk.start}
            /\ UNCHANGED <<phase, why, resolved, required, missing, shown>>
     ELSE IF walk.cur \in walk.seen
       THEN Fail(IF resolved.failed THEN "glamour" ELSE "cycle")
       ELSE /\ walk' = [walk EXCEPT !.cur = Target(walk.cur), !.seen = @ \cup {walk.cur}]
            /\ UNCHANGED <<phase, why, resolved, starts, required, missing, shown>>
  /\ UNCHANGED config

\* ResolveErr returns, and checkThemeRequirements begins.
ChainsValid ==
  /\ phase = "validate" /\ walk = Nil /\ starts = {}
  /\ IF resolved.failed /\ ~recipe.opaque
       THEN Fail("glamour")
       ELSE /\ phase' = "require"
            /\ required' = Required
            /\ UNCHANGED <<why, resolved, starts, missing, walk, shown>>
  /\ UNCHANGED config

-----------------------------------------------------------------------------
(* HasToken and Style: the token itself, then its chain.                   *)

LookUp(t) ==
  IF t \in DOMAIN resolved.tokens
    THEN [start |-> t, cur |-> t, seen |-> {}]
    ELSE Walk(t)

\* The loop of a lookup ends at a styled token, at the end of the chain, or
\* where it has been before.
LookupEnds == walk.cur = Nil \/ walk.cur \in walk.seen \/ walk.cur \in DOMAIN resolved.tokens
Hit == walk.cur \notin walk.seen \cup {Nil} /\ walk.cur \in DOMAIN resolved.tokens

LookupStep ==
  /\ phase \in {"require", "built"} /\ walk # Nil /\ ~LookupEnds
  /\ walk' = [walk EXCEPT !.cur = Target(walk.cur), !.seen = @ \cup {walk.cur}]
  /\ UNCHANGED <<config, phase, why, resolved, starts, required, missing, shown>>

AskRequired ==
  /\ phase = "require" /\ walk = Nil /\ required # <<>>
  /\ walk' = LookUp(Head(required))
  /\ UNCHANGED <<config, phase, why, resolved, starts, required, missing, shown>>

\* A token that has an alias counts as covered, wherever the alias leads.
HasTokenAliased ==
  /\ phase = "require" /\ walk # Nil
  /\ missing' = IF walk.cur # Nil THEN missing ELSE missing \cup {walk.start}
  /\ required' = Tail(required)
  /\ walk' = Nil
  /\ UNCHANGED <<config, phase, why, resolved, starts, shown>>

HasToken ==
  /\ phase = "require" /\ walk # Nil /\ LookupEnds
  /\ missing' = IF Hit THEN missing ELSE missing \cup {walk.start}
  /\ required' = Tail(required)
  /\ walk' = Nil
  /\ UNCHANGED <<config, phase, why, resolved, starts, shown>>

\* Missing tokens are an error or, without WithStrictThemeRequirements, a
\* line on stderr.
CheckRequirements ==
  /\ phase = "require" /\ walk = Nil /\ required = <<>>
  /\ IF missing # {} /\ strict
       THEN Fail("requirements")
       ELSE /\ phase' = "built"
            /\ UNCHANGED <<why, resolved, starts, required, missing, walk, shown>>
  /\ UNCHANGED config

\* A consumer asks for the style of a token.
AskStyle(t) ==
  /\ phase = "built" /\ walk = Nil
  /\ walk' = LookUp(t)
  /\ UNCHANGED <<config, phase, why, resolved, starts, required, missing, shown>>

Style ==
  /\ phase = "built" /\ walk # Nil /\ LookupEnds
  /\ shown' = [tok |-> walk.start, style |-> IF Hit THEN resolved.tokens[walk.cur] ELSE Nil]
  /\ walk' = Nil
  /\ UNCHANGED <<config, phase, why, resolved, starts, required, missing>>

\* The steps of config.finalize, and of Style.
FinalizeTheme ==
  \/ \E t \in starts : ValidateChain(t)
  \/ validateAliasChain \/ ChainsValid
  \/ AskRequired \/ HasToken \/ CheckRequirements
  \/ LookupStep \/ Style

-----------------------------------------------------------------------------
(* What the walks should find: the hops of a chain counted, not walked. A   *)
(* chain that still goes on after as many hops as there are tokens is a     *)
(* cycle.                                                                   *)

Hops(t) ==
  LET hop[n \in 0..Cardinality(Tokens)] ==
        IF n = 0 THEN t
        ELSE IF hop[n - 1] \in DOMAIN resolved.aliases THEN resolved.aliases[hop[n - 1]]
        ELSE Nil
  IN  hop

Cyclic(t) == Hops(t)[Cardinality(Tokens)] # Nil

StyleMeant(t) ==
  LET styled == {n \in 0..Cardinality(Tokens) : Hops(t)[n] \in DOMAIN resolved.tokens}
  IN  IF styled = {} THEN Nil
      ELSE resolved.tokens[Hops(t)[CHOOSE n \in styled : \A m \in styled : n <= m]]

\* The overrides of the slots S, and of the key k when it is not Nil.
LastOverride(S, k) ==
  LET at == {i \in DOMAIN overrides : overrides[i].slot \in S /\ (k = Nil \/ overrides[i].key = k)}
  IN  IF at = {} THEN Nil ELSE overrides[CHOOSE i \in at : \A j \in at : j <= i]

\* The huh slot is what an override of it says over a Prompt.
HuhAfter(o, prompt) ==
  IF o.value # Nil THEN resolved.huh[1] = "owned" /\ resolved.huh[2] = o.value
  ELSE IF prompt # Nil THEN resolved.huh[1] = "prompt" /\ resolved.huh[2] = prompt
  ELSE resolved.huh[1] = "derived"

-----------------------------------------------------------------------------
(* Properties.                                                             *)

\* New refuses a theme of which some chain of aliases, framework defaults
\* included, leads back to itself, wherever the chain is entered, and
\* refuses none for a cycle it does not have.
CyclesRefused ==
  /\ phase \in {"require", "built"} /\ ~recipe.opaque => \A t \in Tokens : ~Cyclic(t)
  /\ why = "cycle" => \E t \in Tokens : Cyclic(t)

\* A lookup finds the style of the first styled token of the chain and the
\* requirements are judged by that: under WithStrictThemeRequirements no
\* required token of an App that was built is drawn unstyled, and every
\* other App has been warned of those that are.
LookupsAgree ==
  /\ shown # Nil => shown.style = StyleMeant(shown.tok)
  /\ phase = "built" =>
       /\ missing = {t \in ToSet(Required) : StyleMeant(t) = Nil}
       /\ strict => missing = {}

\* Whatever the order of the options and whichever variant is picked, the
\* last override of a slot is what a declarative theme resolves to, over
\* the other sources the theme or an earlier override has for that slot. An
\* empty one of chroma or glamour, or a glamour name that nobody knows, takes
\* the slot back to what is derived; an empty one of huh takes it back to
\* the Prompt the variant has of its own and, where it has none, to what is
\* derived. (A theme that picks a variant it does not declare has nothing to
\* override.)
LastOverrideWins ==
  phase \in {"require", "built"} /\ ~recipe.opaque
    /\ resolved.variant \in DOMAIN recipe.theme.variants =>
    /\ \A t \in Tokens :
         LET o == LastOverride({"token"}, t)
         IN  o # Nil => t \in DOMAIN resolved.tokens /\ resolved.tokens[t] = o.value
    /\ \A t \in Tokens :
         LET o == LastOverride({"alias"}, t)
         IN  o # Nil => Target(t) = o.value
    /\ LET o == LastOverride({"chroma", "chromaName"}, Nil)
       IN  o # Nil => IF o.value = Nil THEN resolved.chroma[1] = "derived"
                                       ELSE resolved.chroma[2] = o.value
    /\ LET o == LastOverride({"glamour", "glamourName"}, Nil)
       IN  o # Nil => IF o.value = Nil \/ (o.slot = "glamourName" /\ o.value = "unknown")
                        THEN resolved.glamour[1] = "derived"
                        ELSE resolved.glamour[2] = o.value
    /\ LET o == LastOverride({"huh"}, Nil)
       IN  o # Nil => HuhAfter(o, recipe.theme.variants[resolved.variant].prompt)
=============================================================================
