--------------------------- MODULE ManifestStyles ---------------------------
(* manifest.Parse: a theme manifest, its checks, and for each variant the   *)
(* styleResolver, which turns the tokens of the manifest into styles. A     *)
(* token may start from another one ($token) and take its colors from       *)
(* others, so the resolver calls itself: stack holds the resolveSpec calls  *)
(* under way, visiting and cache are its maps. Go ranges over the maps of   *)
(* variants and tokens in any order.                                        *)
(*                                                                          *)
(* A style is a function of ColorSlots, and the settings that only overlay  *)
(* what was there (border preset, bold to reverse, text) one by one.        *)
EXTENDS Naturals, Sequences, FiniteSets

CONSTANTS Manifests,    \* the decoded manifests (rawTheme)
          Settings,     \* the overlay settings of a style
          Unset, NoColor, Absent

\* A manifest has finitely many tokens; a variant has a name.
ASSUME ManifestsAssumption ==
  /\ Absent \notin {"dark", "light", "notty"}
  /\ \A m \in Manifests : \A v \in DOMAIN m.variants : IsFiniteSet(DOMAIN m.variants[v].tokens)

ColorSlots == <<"fg", "bg", "borderForeground", "borderBackground">>

VARIABLES raw,       \* the manifest
          left,      \* variants the loop of Parse has not reached
          variant,   \* the variant being parsed, or Absent
          todo,      \* its tokens the loop of parseVariant has not reached
          stack,     \* the calls of resolveSpec, the innermost last
          visiting, cache,
          resolved,  \* the map parseVariant builds
          out,       \* Compiled.Variants
          state      \* "decoded", "parsing", "parsed", or what went wrong

parseVars == <<raw, left, variant, todo, stack, visiting, cache, resolved, out, state>>
resolver == <<todo, stack, visiting, cache, resolved>>

\* An empty Go map.
Empty == [k \in {} |-> k]

\* The assignment m[k] = v to a Go map.
Put(m, k, v) == [j \in DOMAIN m \cup {k} |-> IF j = k THEN v ELSE m[j]]

Plain == [color |-> [i \in DOMAIN ColorSlots |-> NoColor],
          look |-> [a \in Settings |-> Unset]]

ParseInit ==
  /\ raw \in Manifests
  /\ left = DOMAIN raw.variants
  /\ variant = Absent
  /\ todo = {} /\ stack = <<>> /\ visiting = {}
  /\ cache = Empty /\ resolved = Empty /\ out = Empty
  /\ state = "decoded"

Slice == raw.variants[variant]

-----------------------------------------------------------------------------
(* validateManifest.                                                       *)

validVariant(s) ==
  /\ DOMAIN s.primitives # {} /\ DOMAIN s.tokens # {}
  /\ {s.chroma, s.glamour, s.huh} \subseteq {Absent, "known"}

validManifest(m) ==
  /\ m.name # Absent /\ DOMAIN m.variants # {}
  /\ IF m.default = Absent THEN Cardinality(DOMAIN m.variants) = 1
                        ELSE m.default \in DOMAIN m.variants
  /\ \A v \in DOMAIN m.variants :
       v \in {"dark", "light", "notty"} /\ validVariant(m.variants[v])

\* The prompt knobs: border names a preset or is left out, and borderColor
\* may only be a literal color.
parsePromptKnobs(k) ==
  k = Absent \/ (k.border # "unknown" /\ k.borderColor.form \in {"none", "hex"})

Validate ==
  /\ state = "decoded"
  /\ state' = IF validManifest(raw) /\ parsePromptKnobs(raw.knobs)
                THEN "parsing" ELSE "invalid"
  /\ UNCHANGED <<raw, left, variant, out, resolver>>

\* The loop of Parse takes a variant; parseVariant makes a resolver for it.
parseVariant(v) ==
  /\ state = "parsing" /\ variant = Absent /\ v \in left
  /\ variant' = v
  /\ todo' = DOMAIN raw.variants[v].tokens
  /\ stack' = <<>> /\ visiting' = {} /\ cache' = Empty /\ resolved' = Empty
  /\ UNCHANGED <<raw, left, out, state>>

-----------------------------------------------------------------------------
(* The styleResolver.                                                      *)

Call(t) == [tok |-> t, part |-> 0, style |-> Plain]
Top == stack[Len(stack)]
Spec0 == Slice.tokens[Top.tok]
Running == state = "parsing" /\ stack # <<>>

WithTop(f) == [stack EXCEPT ![Len(stack)] = f]
NextPart(f, s) == [f EXCEPT !.part = @ + 1, !.style = s]

\* An error ends every call under way, and Parse with them.
Fail(why) ==
  /\ state' = why
  /\ stack' = <<>> /\ visiting' = {}
  /\ UNCHANGED <<raw, left, variant, todo, cache, resolved, out>>

Advance(s) ==
  /\ stack' = WithTop(NextPart(Top, s))
  /\ UNCHANGED <<raw, left, variant, todo, visiting, cache, resolved, out, state>>

\* What the caller f does with the style of the token it asked for: all of
\* it as a base, its foreground as a color.
Received(f, s) ==
  NextPart(f, IF f.part = 0 THEN s ELSE [f.style EXCEPT !.color[f.part] = s.color[1]])
Usable(f, s) == f.part = 0 \/ s.color[1] # NoColor

\* A reference back to a token under way taken for one without any style.
resolveTokenCyclePlain(t) ==
  IF t \in visiting THEN Advance(Received(Top, Plain).style)
  ELSE IF t \in DOMAIN cache THEN Advance(Received(Top, cache[t]).style)
  ELSE IF t \notin DOMAIN Slice.tokens THEN Fail("unknown token")
  ELSE /\ stack' = Append(stack, Call(t))
       /\ visiting' = visiting \cup {t}
       /\ UNCHANGED <<raw, left, variant, todo, cache, resolved, out, state>>

\* resolveToken, called from the top of the stack.
resolveToken(t) ==
  IF t \in DOMAIN cache
    THEN IF Usable(Top, cache[t])
           THEN /\ stack' = WithTop(Received(Top, cache[t]))
                /\ UNCHANGED <<raw, left, variant, todo, visiting, cache, resolved, out, state>>
           ELSE Fail("no foreground")
  ELSE IF t \in visiting THEN Fail("cycle")
  ELSE IF t \notin DOMAIN Slice.tokens THEN Fail("unknown token")
  ELSE /\ stack' = Append(stack, Call(t))
       /\ visiting' = visiting \cup {t}
       /\ UNCHANGED <<raw, left, variant, todo, cache, resolved, out, state>>

\* The loop of parseVariant.
RangeToken(t) ==
  /\ state = "parsing" /\ variant # Absent /\ stack = <<>> /\ t \in todo
  /\ IF t \in DOMAIN cache
       THEN /\ resolved' = Put(resolved, t, cache[t])
            /\ todo' = todo \ {t}
            /\ UNCHANGED <<stack, visiting>>
       ELSE /\ stack' = <<Call(t)>>
            /\ visiting' = visiting \cup {t}
            /\ UNCHANGED <<todo, resolved>>
  /\ UNCHANGED <<raw, left, variant, cache, out, state>>

\* A reference is [form, to]: "none", "hex", "primitive", "token", or
\* "several" when more than one of its keys is set.
Base ==
  /\ Running /\ Top.part = 0
  /\ LET from == Spec0.base
     IN  CASE from.form = "token" -> resolveToken(from.to)
           [] from.form = "primitive" ->
                IF from.to \in DOMAIN Slice.primitives
                  THEN Advance([Plain EXCEPT !.color[1] = Slice.primitives[from.to]])
                  ELSE Fail("unknown primitive")
           [] OTHER -> Advance(Top.style)

resolveColorRef ==
  /\ Running /\ Top.part \in DOMAIN ColorSlots
  /\ LET ref == Spec0.color[Top.part]
         With(c) == Advance([Top.style EXCEPT !.color[Top.part] = c])
     IN  CASE ref.form = "several" -> Fail("several forms")
           [] ref.form = "hex" -> With(ref.to)
           [] ref.form = "primitive" ->
                IF ref.to \in DOMAIN Slice.primitives
                  THEN With(Slice.primitives[ref.to]) ELSE Fail("unknown primitive")
           [] ref.form = "token" -> resolveToken(ref.to)
           [] OTHER -> Advance(Top.style)

Overlay(s, look) ==
  [s EXCEPT !.look = [a \in Settings |-> IF look[a] = Unset THEN @[a] ELSE look[a]]]

\* The token stays marked as in flight after its call has returned.
SettleKeepsVisiting ==
  /\ Running /\ Top.part = Len(ColorSlots) + 1
  /\ cache' = Put(cache, Top.tok, Overlay(Top.style, Spec0.look))
  /\ stack' = SubSeq(stack, 1, Len(stack) - 1)
  /\ todo' = todo \ {Top.tok}
  /\ UNCHANGED <<raw, left, variant, visiting, resolved, out, state>>

\* The border preset and the modifiers; then resolveToken forgets that it
\* visits the token, remembers the style and returns it to its caller.
Settle ==
  /\ Running /\ Top.part = Len(ColorSlots) + 1
  /\ IF Spec0.border = "unknown" THEN Fail("unknown border")
     ELSE LET s == Overlay(Top.style, Spec0.look)
              t == Top.tok
              callers == SubSeq(stack, 1, Len(stack) - 1)
              f == callers[Len(callers)]
          IN  IF callers # <<>> /\ ~Usable(f, s)
                THEN Fail("no foreground")
                ELSE /\ cache' = Put(cache, t, s)
                     /\ visiting' = visiting \ {t}
                     /\ IF callers = <<>>
                          THEN /\ stack' = <<>>
                               /\ resolved' = Put(resolved, t, s)
                               /\ todo' = todo \ {t}
                          ELSE /\ stack' = [callers EXCEPT ![Len(callers)] = Received(f, s)]
                               /\ UNCHANGED <<resolved, todo>>
                     /\ UNCHANGED <<raw, left, variant, out, state>>

\* parseVariant returns; after the last variant Parse does.
VariantDone ==
  /\ state = "parsing" /\ variant # Absent /\ todo = {} /\ stack = <<>>
  /\ out' = Put(out, variant, resolved)
  /\ left' = left \ {variant}
  /\ variant' = Absent
  /\ state' = IF left' = {} THEN "parsed" ELSE state
  /\ UNCHANGED <<raw, resolver>>

ParseNext ==
  \/ Validate
  \/ \E v \in left : parseVariant(v)
  \/ \E t \in todo : RangeToken(t)
  \/ Base \/ resolveColorRef \/ Settle
  \/ VariantDone

ParseSpec == ParseInit /\ [][ParseNext]_parseVars

-----------------------------------------------------------------------------
(* What a manifest means, without a resolver: the style of each token from  *)
(* the styles env that other tokens have, as soon as these are there. A     *)
(* token that still has none after as many rounds as there are tokens names *)
(* itself in the end, or something that does not exist.                     *)

BaseMeans(s, b, env) ==
  /\ b.form = "primitive" => b.to \in DOMAIN s.primitives
  /\ b.form = "token" => b.to \in DOMAIN env

BaseMeant(s, b, env) ==
  CASE b.form = "primitive" -> [Plain EXCEPT !.color[1] = s.primitives[b.to]]
    [] b.form = "token" -> env[b.to]
    [] OTHER -> Plain

ColorMeans(s, ref, env) ==
  /\ ref.form # "several"
  /\ ref.form = "primitive" => ref.to \in DOMAIN s.primitives
  /\ ref.form = "token" => ref.to \in DOMAIN env /\ env[ref.to].color[1] # NoColor

ColorMeant(s, ref, inherited, env) ==
  CASE ref.form = "hex" -> ref.to
    [] ref.form = "primitive" -> s.primitives[ref.to]
    [] ref.form = "token" -> env[ref.to].color[1]
    [] OTHER -> inherited

Means(s, spec, env) ==
  /\ spec.border # "unknown"
  /\ BaseMeans(s, spec.base, env)
  /\ \A i \in DOMAIN ColorSlots : ColorMeans(s, spec.color[i], env)

StyleMeant(s, spec, env) ==
  LET base == BaseMeant(s, spec.base, env)
  IN  [color |-> [i \in DOMAIN ColorSlots |-> ColorMeant(s, spec.color[i], base.color[i], env)],
       look |-> [a \in Settings |-> IF spec.look[a] = Unset THEN base.look[a] ELSE spec.look[a]]]

\* One round.
MeantFrom(s, env) ==
  [t \in {t \in DOMAIN s.tokens : Means(s, s.tokens[t], env)} |->
     StyleMeant(s, s.tokens[t], env)]

Meaning(s) ==
  LET round[n \in 0..Cardinality(DOMAIN s.tokens)] ==
        IF n = 0 THEN Empty ELSE MeantFrom(s, round[n - 1])
  IN  round[Cardinality(DOMAIN s.tokens)]

\* Every token of every variant has a style: no reference is at fault.
Complete(m) == \A v \in DOMAIN m.variants :
              DOMAIN Meaning(m.variants[v]) = DOMAIN m.variants[v].tokens

-----------------------------------------------------------------------------
(* Properties.                                                             *)

Done == state \notin {"decoded", "parsing"}

\* The in-flight set is the path of calls: each call was made by a reference
\* of the one below it and no token is on it twice, so the recursion is
\* never deeper than the manifest has tokens (style_spec.go:25-27: cycles
\* error "instead of overflowing the stack").
VisitingIsPath ==
  /\ visiting = {stack[i].tok : i \in DOMAIN stack}
  /\ \A i, j \in DOMAIN stack : stack[i].tok = stack[j].tok => i = j
  /\ visiting \cap DOMAIN cache = {}

\* Whatever order the maps are ranged in, Parse refuses exactly the
\* manifests that mean nothing, and what it remembers and returns for a
\* token is what the manifest means by it: no half-built style of a call
\* under way reaches another token through the cache.
ParsedAsWritten ==
  /\ variant # Absent /\ state = "parsing" =>
       \A t \in DOMAIN cache : t \in DOMAIN Meaning(Slice) /\ cache[t] = Meaning(Slice)[t]
  /\ Done =>
       /\ state = "parsed" <=> validManifest(raw) /\ parsePromptKnobs(raw.knobs) /\ Complete(raw)
       /\ state = "parsed" =>
            out = [v \in DOMAIN raw.variants |-> Meaning(raw.variants[v])]
=============================================================================
