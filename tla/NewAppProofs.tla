---------------------------- MODULE NewAppProofs ----------------------------
(* Proofs about Themes and NewApp for every list of options, catalog, set of *)
(* tokens and terminal.                                                      *)
(*                                                                           *)
(* The theme. A walk along the aliases is compared with the count of its     *)
(* hops: it is as far as it has seen tokens, and it has seen every hop       *)
(* before (WalkOK). There are only so many tokens, so a chain that still     *)
(* goes on after as many hops comes back to a token it has been at, and one  *)
(* that comes back goes on for ever. Of the overrides, the palette that the  *)
(* list of them makes says at each slot what the last one of the slot says   *)
(* (Says), and resolving keeps that.                                         *)
(*                                                                           *)
(* The rest of New, and a run. The flags of the built-ins are added only     *)
(* where they collide with none, so what clashes is the user's (ClashInv);   *)
(* a flag of nabat's has its hook (OursInv), the help hook is the first, and *)
(* how a run ended is what its flags said when they were parsed and, if that *)
(* let it through, what its hooks were asked for (OutcomeInv).               *)
EXTENDS NewApp, FiniteSetTheorems, SequenceTheorems, WellFoundedInduction, TLAPS

\* A set of natural numbers that is not empty has a least one.
LEMMA LeastNumber ==
  ASSUME NEW S, S \subseteq Nat, S # {}
  PROVE  \E m \in S : \A k \in S : m <= k
<1>1. PICK m \in S : \A k \in S : ~ (<<k, m>> \in OpToRel(<, Nat))
  BY NatLessThanWellFounded, WFMin
<1>2. ASSUME NEW k \in S PROVE m <= k
  <2>1. m \in Nat /\ k \in Nat
    OBVIOUS
  <2>2. ~(k < m)
    BY <1>1, <2>1 DEF OpToRel
  <2> QED
    BY <2>1, <2>2
<1> QED
  BY <1>2

-----------------------------------------------------------------------------
(* The hops of a chain.                                                     *)

AliasesOK ==
  /\ DOMAIN resolved.aliases \subseteq Tokens
  /\ \A t \in DOMAIN resolved.aliases : resolved.aliases[t] \in Tokens

IsHops(f, t, n) ==
  f = [m \in 0..n |-> IF m = 0 THEN t
                      ELSE IF f[m - 1] \in DOMAIN resolved.aliases
                             THEN resolved.aliases[f[m - 1]] ELSE Nil]

\* The count of hops is a function with the equation its definition gives.
LEMMA HopsExist ==
  ASSUME NEW t, NEW n \in Nat
  PROVE  \E f : IsHops(f, t, n)
<1> DEFINE Lost == {k \in Nat : ~ \E f : IsHops(f, t, k)}
<1>1. CASE Lost = {}
  BY <1>1
<1>2. CASE Lost # {}
  <2>1. PICK m \in Lost : \A k \in Lost : m <= k
    <3>1. Lost \subseteq Nat
      OBVIOUS
    <3> HIDE DEF Lost
    <3> QED
      BY <1>2, <3>1, LeastNumber
  <2>2. CASE m = 0
    <3>1. IsHops([k \in 0..0 |-> t], t, 0)
      BY DEF IsHops
    <3> QED
      BY <2>2, <3>1
  <2>3. CASE m > 0
    <3>1. m - 1 \in Nat /\ m - 1 \notin Lost
      BY <2>1, <2>3
    <3>2. PICK g : IsHops(g, t, m - 1)
      BY <3>1
    <3> DEFINE f == [k \in 0..m |-> IF k < m THEN g[k] ELSE Target(g[m - 1])]
    <3>3. ASSUME NEW k \in 0..m
          PROVE  f[k] = IF k = 0 THEN t ELSE Target(f[k - 1])
      <4>1. CASE k < m
        <5>1. k \in 0..(m - 1) /\ f[k] = g[k]
          BY <4>1
        <5>2. g[k] = IF k = 0 THEN t ELSE Target(g[k - 1])
          BY <3>2, <5>1 DEF IsHops, Target
        <5>3. k # 0 => f[k - 1] = g[k - 1]
          BY <4>1
        <5> HIDE DEF f
        <5> QED
          BY <5>1, <5>2, <5>3
      <4>2. CASE k = m
        <5>1. f[k - 1] = g[k - 1]
          BY <4>2, <2>3
        <5>2. f[k] = Target(g[m - 1])
          BY <4>2
        <5> HIDE DEF f
        <5> QED
          BY <4>2, <2>3, <5>1, <5>2
      <4> QED
        BY <4>1, <4>2
    <3>4. f = [k \in 0..m |-> f[k]]
      OBVIOUS
    <3>5. IsHops(f, t, m)
      <4> HIDE DEF f
      <4> QED
        BY <3>3, <3>4 DEF IsHops, Target
    <3> QED
      BY <3>5
  <2> QED
    BY <2>1, <2>2, <2>3
<1> QED
  BY <1>1, <1>2

\* Hops is that function.
LEMMA HopsEquation ==
  ASSUME NEW t
  PROVE  /\ Cardinality(Tokens) \in Nat
         /\ Hops(t)[0] = t
         /\ \A n \in 1..Cardinality(Tokens) : Hops(t)[n] = Target(Hops(t)[n - 1])
<1>1. Cardinality(Tokens) \in Nat
  BY ThemesAssumption, FS_CardinalityType
<1>2. IsHops(Hops(t), t, Cardinality(Tokens))
  <2> DEFINE g == CHOOSE f : IsHops(f, t, Cardinality(Tokens))
  <2>1. IsHops(g, t, Cardinality(Tokens))
    BY <1>1, HopsExist
  <2>2. Hops(t) = g
    BY DEF Hops, IsHops
  <2> QED
    BY <2>1, <2>2
<1> DEFINE h == Hops(t)
           N == Cardinality(Tokens)
<1>3. \A n \in 0..N : h[n] = IF n = 0 THEN t ELSE Target(h[n - 1])
  BY <1>2 DEF IsHops, Target
<1> HIDE DEF h, N
<1>4. h[0] = t /\ \A n \in 1..N : h[n] = Target(h[n - 1])
  BY <1>1, <1>3 DEF N
<1> QED
  BY <1>1, <1>4 DEF h, N

\* A chain that has come into a set that no alias leads out of stays there.
LEMMA HopsStay ==
  ASSUME NEW t, NEW S, \A s \in S : Target(s) \in S,
         NEW k \in 0..Cardinality(Tokens), Hops(t)[k] \in S,
         NEW n \in k..Cardinality(Tokens)
  PROVE  Hops(t)[n] \in S
<1> DEFINE h == Hops(t)
           N == Cardinality(Tokens)
           Out == {m \in k..N : h[m] \notin S}
<1>1. N \in Nat /\ \A m \in 1..N : h[m] = Target(h[m - 1])
  BY HopsEquation
<1> HIDE DEF h, N
<1>2. k \in 0..N /\ n \in k..N /\ h[k] \in S
  BY DEF h, N
<1>3. CASE Out = {}
  <2>1. h[n] \in S
    BY <1>2, <1>3
  <2> QED
    BY <2>1 DEF h
<1>4. CASE Out # {}
  <2>1. PICK m \in Out : \A j \in Out : m <= j
    <3>1. Out \subseteq Nat
      BY <1>1, <1>2
    <3> HIDE DEF Out
    <3> QED
      BY <1>4, <3>1, LeastNumber
  <2>2. m > k
    BY <1>1, <1>2, <2>1
  <2>3. m - 1 \in k..N /\ m - 1 \notin Out /\ m \in 1..N
    BY <1>1, <1>2, <2>1, <2>2
  <2>4. h[m - 1] \in S
    BY <2>3
  <2>5. h[m] = Target(h[m - 1])
    BY <1>1, <2>3
  <2> QED
    BY <2>1, <2>4, <2>5
<1> QED
  BY <1>3, <1>4

-----------------------------------------------------------------------------
(* The walks.                                                               *)

\* A walk has made as many hops as it has seen tokens, and no alias leads
\* from these elsewhere than to where it is.
WalkOK(w) ==
  /\ w \in [start : Tokens, cur : Tokens \cup {Nil}, seen : SUBSET Tokens]
  /\ w.cur = Hops(w.start)[Cardinality(w.seen)]
  /\ \A m \in Nat : m < Cardinality(w.seen) => Hops(w.start)[m] \in w.seen
  /\ \A s \in w.seen : Target(s) \in w.seen \cup {w.cur}
  /\ w.start \in w.seen \cup {w.cur}

\* An alias leads to a token or nowhere.
LEMMA TargetType ==
  ASSUME AliasesOK
  PROVE  /\ \A t : Target(t) \in Tokens \cup {Nil}
         /\ Target(Nil) = Nil
BY ThemesAssumption DEF AliasesOK, Target

\* A walk has seen at most all tokens.
LEMMA SeenFits ==
  ASSUME NEW S, S \subseteq Tokens
  PROVE  /\ IsFiniteSet(S) /\ Cardinality(S) \in Nat
         /\ Cardinality(S) <= Cardinality(Tokens)
         /\ Cardinality(Tokens) \in Nat
<1>1. IsFiniteSet(Tokens)
  BY ThemesAssumption
<1> QED
  BY <1>1, FS_Subset, FS_CardinalityType

\* What a validation and a lookup begin with is a walk.
LEMMA WalkBegins ==
  ASSUME AliasesOK, NEW t \in Tokens
  PROVE  /\ WalkOK(Walk(t))
         /\ WalkOK([start |-> t, cur |-> t, seen |-> {}])
<1>1. Cardinality({t}) = 1 /\ Cardinality({}) = 0
  BY FS_Singleton, FS_EmptySet
<1>2. 1 \in 1..Cardinality(Tokens)
  BY <1>1, SeenFits, {t} \subseteq Tokens
<1>3. Hops(t)[0] = t /\ Hops(t)[1] = Target(t)
  BY <1>2, HopsEquation
<1>4. Target(t) \in Tokens \cup {Nil}
  BY TargetType
<1>5. WalkOK(Walk(t))
  <2>1. Walk(t) = [start |-> t, cur |-> Target(t), seen |-> {t}]
    BY DEF Walk
  <2>2. \A m \in Nat : m < 1 => m = 0
    OBVIOUS
  <2> QED
    BY <1>1, <1>3, <1>4, <2>1, <2>2 DEF WalkOK
<1>6. WalkOK([start |-> t, cur |-> t, seen |-> {}])
  BY <1>1, <1>3 DEF WalkOK
<1> QED
  BY <1>5, <1>6

Further(w) == [w EXCEPT !.cur = Target(w.cur), !.seen = @ \cup {w.cur}]

\* A walk that goes on to a token it has not seen is a walk.
LEMMA WalkGoesOn ==
  ASSUME AliasesOK, NEW w, WalkOK(w), w.cur \notin w.seen, w.cur # Nil
  PROVE  WalkOK(Further(w))
<1> DEFINE n == Cardinality(w.seen)
           h == Hops(w.start)
           seen == w.seen \cup {w.cur}
<1>1. /\ w \in [start : Tokens, cur : Tokens \cup {Nil}, seen : SUBSET Tokens]
      /\ w.cur = h[n]
      /\ \A m \in Nat : m < n => h[m] \in w.seen
      /\ \A s \in w.seen : Target(s) \in w.seen \cup {w.cur}
      /\ w.start \in w.seen \cup {w.cur}
  BY DEF WalkOK
<1>2. w.cur \in Tokens /\ w.seen \subseteq Tokens /\ w.start \in Tokens
  BY <1>1
<1>3. n \in Nat /\ IsFiniteSet(w.seen)
  BY <1>2, SeenFits
<1>4. Cardinality(seen) = n + 1
  BY <1>3, FS_AddElement
<1>5. n + 1 \in 1..Cardinality(Tokens)
  <2>1. seen \subseteq Tokens
    BY <1>2
  <2>2. Cardinality(seen) <= Cardinality(Tokens) /\ Cardinality(Tokens) \in Nat
    BY <2>1, SeenFits
  <2> QED
    BY <1>3, <1>4, <2>2
<1>6. h[n + 1] = Target(w.cur)
  <2>0. /\ Cardinality(Tokens) \in Nat
        /\ \A k \in 1..Cardinality(Tokens) : h[k] = Target(h[k - 1])
    BY HopsEquation
  <2>1. h[n + 1] = Target(h[n + 1 - 1])
    <3> HIDE DEF h, n
    <3> QED
      BY <1>3, <1>5, <2>0
  <2>2. n + 1 - 1 = n
    BY <1>3
  <2> QED
    BY <1>1, <2>1, <2>2
<1>7. Target(w.cur) \in Tokens \cup {Nil}
  BY TargetType
<1>8. /\ Further(w) \in [start : Tokens, cur : Tokens \cup {Nil}, seen : SUBSET Tokens]
      /\ Further(w).start = w.start
      /\ Further(w).cur = Target(w.cur)
      /\ Further(w).seen = seen
  BY <1>1, <1>2, <1>7 DEF Further
<1>9. ASSUME NEW m \in Nat, m < n + 1 PROVE h[m] \in seen
  BY <1>1, <1>3, <1>9
<1> HIDE DEF n, h, seen
<1>10. /\ \A s \in seen : Target(s) \in seen \cup {Target(w.cur)}
       /\ w.start \in seen
  BY <1>1 DEF seen
<1>11. /\ Further(w).cur = Hops(Further(w).start)[Cardinality(Further(w).seen)]
       /\ \A m \in Nat : m < Cardinality(Further(w).seen)
                           => Hops(Further(w).start)[m] \in Further(w).seen
  BY <1>4, <1>6, <1>8, <1>9 DEF h
<1> QED
  BY <1>8, <1>10, <1>11 DEF WalkOK

\* A walk that comes back to a token it has seen goes on for ever.
LEMMA WalkTurns ==
  ASSUME AliasesOK, NEW w, WalkOK(w), w.cur \in w.seen
  PROVE  /\ \A n \in 0..Cardinality(Tokens) : Hops(w.start)[n] \in w.seen
         /\ Cyclic(w.start)
<1>1. /\ w.seen \subseteq Tokens
      /\ \A s \in w.seen : Target(s) \in w.seen
      /\ w.start \in w.seen
  BY DEF WalkOK
<1>2. Cardinality(Tokens) \in Nat /\ Hops(w.start)[0] \in w.seen
  BY <1>1, HopsEquation
<1>3. 0 \in 0..Cardinality(Tokens)
  BY <1>2
<1>4. \A n \in 0..Cardinality(Tokens) : Hops(w.start)[n] \in w.seen
  BY <1>1, <1>2, <1>3, HopsStay
<1>5. Cardinality(Tokens) \in 0..Cardinality(Tokens)
  BY <1>2
<1>6. Nil \notin w.seen
  BY <1>1, ThemesAssumption
<1> QED
  BY <1>4, <1>5, <1>6 DEF Cyclic

\* A walk that comes to its end shows that the chain is no cycle.
LEMMA WalkLeaves ==
  ASSUME AliasesOK, NEW w, WalkOK(w), w.cur = Nil
  PROVE  /\ \A n \in 0..Cardinality(Tokens) : Hops(w.start)[n] \in w.seen \cup {Nil}
         /\ ~Cyclic(w.start)
<1> DEFINE k == Cardinality(w.seen)
           h == Hops(w.start)
           N == Cardinality(Tokens)
<1>1. w.seen \subseteq Tokens /\ h[k] = Nil /\ \A m \in Nat : m < k => h[m] \in w.seen
  BY DEF WalkOK
<1>2. k \in Nat /\ N \in Nat /\ k <= N
  BY <1>1, SeenFits
<1>3. ASSUME NEW n \in k..N PROVE h[n] = Nil
  <2>1. \A s \in {Nil} : Target(s) \in {Nil}
    BY TargetType
  <2>2. k \in 0..N
    BY <1>2
  <2>3. h[n] \in {Nil}
    BY <1>1, <2>1, <2>2, HopsStay
  <2> QED
    BY <2>3
<1> HIDE DEF k, h, N
<1>4. \A n \in 0..N : h[n] \in w.seen \cup {Nil}
  BY <1>1, <1>2, <1>3
<1>5. h[N] = Nil
  BY <1>2, <1>3
<1> QED
  BY <1>4, <1>5 DEF h, N, Cyclic

\* A token without an alias leads nowhere.
LEMMA NoAliasNoCycle ==
  ASSUME AliasesOK, NEW t \in Tokens, t \notin DOMAIN resolved.aliases
  PROVE  ~Cyclic(t)
<1>1. WalkOK(Walk(t)) /\ Walk(t).cur = Nil /\ Walk(t).start = t
  BY WalkBegins DEF Walk, Target
<1> QED
  BY <1>1, WalkLeaves

TokensOK ==
  /\ DOMAIN resolved.tokens \subseteq Tokens
  /\ \A t \in DOMAIN resolved.tokens : resolved.tokens[t] # Nil

LookupEndsAt(w) == w.cur = Nil \/ w.cur \in w.seen \/ w.cur \in DOMAIN resolved.tokens
HitAt(w) == w.cur \notin w.seen \cup {Nil} /\ w.cur \in DOMAIN resolved.tokens

\* Where a walk that has seen no styled token ends is the style the chain
\* has.
LEMMA LookupFinds ==
  ASSUME AliasesOK, TokensOK, NEW w, WalkOK(w), LookupEndsAt(w),
         w.seen \cap DOMAIN resolved.tokens = {}
  PROVE  /\ StyleMeant(w.start) = IF HitAt(w) THEN resolved.tokens[w.cur] ELSE Nil
         /\ StyleMeant(w.start) = Nil <=> ~HitAt(w)
<1> DEFINE N == Cardinality(Tokens)
           h == Hops(w.start)
           n == Cardinality(w.seen)
           styled == {m \in 0..N : h[m] \in DOMAIN resolved.tokens}
<1>0. Nil \notin DOMAIN resolved.tokens
  BY ThemesAssumption DEF TokensOK
<1>1. /\ w.seen \subseteq Tokens /\ w.cur = h[n]
      /\ \A m \in Nat : m < n => h[m] \in w.seen
  BY DEF WalkOK
<1>2. n \in Nat /\ N \in Nat /\ n <= N
  BY <1>1, SeenFits
<1>3. StyleMeant(w.start) =
        IF styled = {} THEN Nil
        ELSE resolved.tokens[h[CHOOSE k \in styled : \A m \in styled : k <= m]]
  BY DEF StyleMeant
<1>4. CASE HitAt(w)
  <2>1. n \in styled
    BY <1>1, <1>2, <1>4 DEF HitAt
  <2>2. ASSUME NEW m \in styled PROVE n <= m
    <3>1. m \in Nat /\ h[m] \notin w.seen
      OBVIOUS
    <3> HIDE DEF h, styled, n
    <3> QED
      BY <1>1, <1>2, <3>1
  <2>3. styled \subseteq Nat
    BY <1>2
  <2> DEFINE k == CHOOSE k \in styled : \A m \in styled : k <= m
  <2> HIDE DEF styled, n
  <2>4. k \in styled /\ \A m \in styled : k <= m
    BY <2>1, <2>2
  <2>5. k = n
    <3> HIDE DEF k
    <3> QED
      BY <2>1, <2>2, <2>3, <2>4
  <2>6. StyleMeant(w.start) = resolved.tokens[w.cur]
    BY <1>1, <1>3, <2>1, <2>5
  <2>7. resolved.tokens[w.cur] # Nil
    BY <1>4 DEF HitAt, TokensOK
  <2> QED
    BY <1>4, <2>6, <2>7
<1>5. CASE ~HitAt(w)
  <2>1. w.cur \in w.seen \cup {Nil}
    BY <1>5 DEF HitAt, LookupEndsAt
  <2>2. \A m \in 0..N : h[m] \in w.seen \cup {Nil}
    BY <2>1, WalkTurns, WalkLeaves
  <2>3. styled = {}
    BY <1>0, <2>2
  <2> QED
    BY <1>3, <1>5, <2>3
<1> QED
  BY <1>4, <1>5

\* What is said of the chains is said of the resolved theme.
Least(S) == CHOOSE n \in S : \A m \in S : n <= m

\* Chains are about the palette that was resolved, and about nothing else.
LEMMA ChainsFixed ==
  ASSUME resolved' = resolved
  PROVE  /\ AliasesOK' = AliasesOK /\ TokensOK' = TokensOK
         /\ \A t : /\ Target(t)' = Target(t) /\ Hops(t)' = Hops(t)
                   /\ Cyclic(t)' = Cyclic(t) /\ StyleMeant(t)' = StyleMeant(t)
         /\ \A w : WalkOK(w)' = WalkOK(w)
<1>1. AliasesOK' = AliasesOK /\ TokensOK' = TokensOK
  BY DEF AliasesOK, TokensOK
<1>2. ASSUME NEW t PROVE Target(t)' = Target(t) /\ Hops(t)' = Hops(t)
  BY DEF Target, Hops
<1>3. ASSUME NEW t PROVE Cyclic(t)' = Cyclic(t)
  BY <1>2 DEF Cyclic
<1>4. ASSUME NEW t PROVE StyleMeant(t)' = StyleMeant(t)
  <2> DEFINE S == {n \in 0..Cardinality(Tokens) : Hops(t)[n] \in DOMAIN resolved.tokens}
  <2>1. StyleMeant(t) = IF S = {} THEN Nil ELSE resolved.tokens[Hops(t)[Least(S)]]
    BY DEF StyleMeant, Least
  <2>2. StyleMeant(t)' = IF S' = {} THEN Nil ELSE resolved'.tokens[Hops(t)'[Least(S')]]
    BY DEF StyleMeant, Least
  <2>3. S' = S
    BY <1>2
  <2> HIDE DEF S
  <2> QED
    BY <1>2, <2>1, <2>2, <2>3
<1>5. ASSUME NEW w PROVE WalkOK(w)' = WalkOK(w)
  BY <1>2 DEF WalkOK
<1> QED
  BY <1>1, <1>2, <1>3, <1>4, <1>5

-----------------------------------------------------------------------------
(* The overrides.                                                           *)

IsOverriding(f, p, os, n) ==
  f = [m \in 0..n |-> IF m = 0 THEN p ELSE Overridden(f[m - 1], os[m])]

\* The list of overrides makes a palette at each of its places.
LEMMA OverridingExists ==
  ASSUME NEW p, NEW os, NEW n \in Nat
  PROVE  \E f : IsOverriding(f, p, os, n)
<1> DEFINE Lost == {k \in Nat : ~ \E f : IsOverriding(f, p, os, k)}
<1>1. CASE Lost = {}
  BY <1>1
<1>2. CASE Lost # {}
  <2>1. PICK m \in Lost : \A k \in Lost : m <= k
    <3>1. Lost \subseteq Nat
      OBVIOUS
    <3> HIDE DEF Lost
    <3> QED
      BY <1>2, <3>1, LeastNumber
  <2>2. CASE m = 0
    <3>1. IsOverriding([k \in 0..0 |-> p], p, os, 0)
      BY DEF IsOverriding
    <3> QED
      BY <2>2, <3>1
  <2>3. CASE m > 0
    <3>1. m - 1 \in Nat /\ m - 1 \notin Lost
      BY <2>1, <2>3
    <3>2. PICK g : IsOverriding(g, p, os, m - 1)
      BY <3>1
    <3> DEFINE f == [k \in 0..m |-> IF k < m THEN g[k] ELSE Overridden(g[m - 1], os[m])]
    <3>3. ASSUME NEW k \in 0..m
          PROVE  f[k] = IF k = 0 THEN p ELSE Overridden(f[k - 1], os[k])
      <4>1. CASE k < m
        <5>1. k \in 0..(m - 1) /\ f[k] = g[k]
          BY <4>1
        <5>2. g[k] = IF k = 0 THEN p ELSE Overridden(g[k - 1], os[k])
          BY <3>2, <5>1 DEF IsOverriding
        <5>3. k # 0 => f[k - 1] = g[k - 1]
          BY <4>1
        <5> HIDE DEF f
        <5> QED
          BY <5>1, <5>2, <5>3
      <4>2. CASE k = m
        <5>1. f[k - 1] = g[k - 1]
          BY <4>2, <2>3
        <5>2. f[k] = Overridden(g[m - 1], os[m])
          BY <4>2
        <5> HIDE DEF f
        <5> QED
          BY <4>2, <2>3, <5>1, <5>2
      <4> QED
        BY <4>1, <4>2
    <3>4. f = [k \in 0..m |-> f[k]]
      OBVIOUS
    <3>5. IsOverriding(f, p, os, m)
      <4> HIDE DEF f
      <4> QED
        BY <3>3, <3>4 DEF IsOverriding
    <3> QED
      BY <3>5
  <2> QED
    BY <2>1, <2>2, <2>3
<1> QED
  BY <1>1, <1>2

\* Each place is one override over the palette of the place before.
LEMMA OverridingEquation ==
  ASSUME NEW p, NEW os, Len(os) \in Nat
  PROVE  /\ Overriding(p, os)[0] = p
         /\ \A n \in 1..Len(os) :
              Overriding(p, os)[n] = Overridden(Overriding(p, os)[n - 1], os[n])
<1> DEFINE h == Overriding(p, os)
           N == Len(os)
<1>1. IsOverriding(h, p, os, N)
  <2> DEFINE g == CHOOSE f : IsOverriding(f, p, os, N)
  <2>1. IsOverriding(g, p, os, N)
    BY OverridingExists
  <2>2. h = g
    BY DEF Overriding, IsOverriding
  <2> QED
    BY <2>1, <2>2
<1>2. \A n \in 0..N : h[n] = IF n = 0 THEN p ELSE Overridden(h[n - 1], os[n])
  BY <1>1 DEF IsOverriding
<1> HIDE DEF h, N
<1>3. h[0] = p /\ \A n \in 1..N : h[n] = Overridden(h[n - 1], os[n])
  BY <1>2 DEF N
<1> QED
  BY <1>3 DEF h, N

\* What a palette says of the slot of o when o came last.
Says(p, o) ==
  /\ o.slot = "token" => o.key \in DOMAIN p.tokens /\ p.tokens[o.key] = o.value
  /\ o.slot = "alias" => o.key \in DOMAIN p.aliases /\ p.aliases[o.key] = o.value
  /\ o.slot = "chroma" => p.chroma = o.value /\ p.chromaName = Nil
  /\ o.slot = "chromaName" => p.chroma = Nil /\ p.chromaName = o.value
  /\ o.slot = "glamour" => p.glamour = o.value /\ p.glamourName = Nil /\ p.glamourFor = Nil
  /\ o.slot = "glamourName" =>
       p.glamour = Nil /\ p.glamourName = o.value /\ p.glamourFor = Nil
  /\ o.slot = "huh" => p.huh = o.value

\* The changes that take the place of o.
Rivals(o, c) ==
  \/ c.slot = o.slot /\ (o.slot \in {"token", "alias"} => c.key = o.key)
  \/ {c.slot, o.slot} \subseteq {"chroma", "chromaName"}
  \/ {c.slot, o.slot} \subseteq {"glamour", "glamourName"}

\* An override of a palette gives a palette.
LEMMA OverriddenOK ==
  ASSUME NEW p, NEW c, PaletteOK(p), ChangeOK(c)
  PROVE  PaletteOK(Overridden(p, c))
<1>1. DOMAIN p = {"tokens", "aliases", "chroma", "chromaName", "glamour", "glamourName",
                  "glamourFor", "prompt", "huh"}
  BY DEF PaletteOK, ZeroPalette
<1> DEFINE T == Put(p.tokens, c.key, c.value)
           A == Put(p.aliases, c.key, c.value)
<1>2. CASE c.slot = "token"
  <2>1. DOMAIN T = {c.key} \cup DOMAIN p.tokens
        /\ \A t \in DOMAIN T : T[t] = IF t = c.key THEN c.value ELSE p.tokens[t]
    BY DEF Put
  <2>2. DOMAIN T \subseteq Tokens /\ \A t \in DOMAIN T : T[t] # Nil
    <3> HIDE DEF T
    <3> QED
      BY <1>2, <2>1 DEF PaletteOK, ChangeOK
  <2>3. Overridden(p, c) = [p EXCEPT !.tokens = T]
    BY <1>2 DEF Overridden
  <2> HIDE DEF T
  <2> QED
    BY <1>1, <2>2, <2>3 DEF PaletteOK
<1>3. CASE c.slot = "alias"
  <2>1. DOMAIN A = {c.key} \cup DOMAIN p.aliases
        /\ \A t \in DOMAIN A : A[t] = IF t = c.key THEN c.value ELSE p.aliases[t]
    BY DEF Put
  <2>2. DOMAIN A \subseteq Tokens /\ \A t \in DOMAIN A : A[t] \in Tokens \cup {Nil}
    <3> HIDE DEF A
    <3> QED
      BY <1>3, <2>1 DEF PaletteOK, ChangeOK
  <2>3. Overridden(p, c) = [p EXCEPT !.aliases = A]
    BY <1>3 DEF Overridden
  <2> HIDE DEF A
  <2> QED
    BY <1>1, <2>2, <2>3 DEF PaletteOK
<1>4. CASE c.slot \notin {"token", "alias"}
  <2>1. /\ DOMAIN Overridden(p, c) = DOMAIN p
        /\ Overridden(p, c).tokens = p.tokens
        /\ Overridden(p, c).aliases = p.aliases
    BY <1>1, <1>4 DEF Overridden, ChangeOK, Slots, SetChromaName
  <2> QED
    BY <2>1 DEF PaletteOK
<1> QED
  BY <1>2, <1>3, <1>4

\* What an override says is what its slot says afterwards.
LEMMA OverriddenSays ==
  ASSUME NEW p, NEW c, PaletteOK(p), ChangeOK(c)
  PROVE  Says(Overridden(p, c), c)
<1>1. DOMAIN p = {"tokens", "aliases", "chroma", "chromaName", "glamour", "glamourName",
                  "glamourFor", "prompt", "huh"}
  BY DEF PaletteOK, ZeroPalette
<1>2. ASSUME NEW f PROVE LET g == Put(f, c.key, c.value)
                         IN  c.key \in DOMAIN g /\ g[c.key] = c.value
  BY DEF Put
<1>3. CASE c.slot = "token"
  BY <1>1, <1>2, <1>3 DEF Overridden, Says
<1>4. CASE c.slot = "alias"
  BY <1>1, <1>2, <1>4 DEF Overridden, Says
<1>5. CASE c.slot \notin {"token", "alias"}
  BY <1>1, <1>5 DEF Overridden, Says, ChangeOK, Slots, SetChromaName
<1> QED
  BY <1>3, <1>4, <1>5

\* An override that is no rival of another leaves what the other says.
LEMMA OverriddenKeeps ==
  ASSUME NEW p, NEW o, NEW c, PaletteOK(p), ChangeOK(o), ChangeOK(c),
         Says(p, o), ~Rivals(o, c)
  PROVE  Says(Overridden(p, c), o)
<1>1. DOMAIN p = {"tokens", "aliases", "chroma", "chromaName", "glamour", "glamourName",
                  "glamourFor", "prompt", "huh"}
  BY DEF PaletteOK, ZeroPalette
<1>2. ASSUME NEW f, NEW k, k \in DOMAIN f, k # c.key
      PROVE  LET g == Put(f, c.key, c.value)
             IN  k \in DOMAIN g /\ g[k] = f[k]
  BY <1>2 DEF Put
<1>3. CASE c.slot = "token"
  <2>1. Overridden(p, c) = [p EXCEPT !.tokens = Put(p.tokens, c.key, c.value)]
    BY <1>3 DEF Overridden
  <2>2. CASE o.slot = "token"
    <3>1. o.key # c.key /\ o.key \in DOMAIN p.tokens /\ p.tokens[o.key] = o.value
      BY <1>3, <2>2 DEF Rivals, Says
    <3> QED
      BY <1>1, <1>2, <2>1, <2>2, <3>1 DEF Says
  <2>3. CASE o.slot # "token"
    BY <1>1, <2>1, <2>3 DEF Says
  <2> QED
    BY <2>2, <2>3
<1>4. CASE c.slot = "alias"
  <2>1. Overridden(p, c) = [p EXCEPT !.aliases = Put(p.aliases, c.key, c.value)]
    BY <1>4 DEF Overridden
  <2>2. CASE o.slot = "alias"
    <3>1. o.key # c.key /\ o.key \in DOMAIN p.aliases /\ p.aliases[o.key] = o.value
      BY <1>4, <2>2 DEF Rivals, Says
    <3> QED
      BY <1>1, <1>2, <2>1, <2>2, <3>1 DEF Says
  <2>3. CASE o.slot # "alias"
    BY <1>1, <2>1, <2>3 DEF Says
  <2> QED
    BY <2>2, <2>3
<1>5. CASE c.slot \notin {"token", "alias"}
  BY <1>1, <1>5 DEF Overridden, Says, ChangeOK, Slots, SetChromaName, Rivals
<1> QED
  BY <1>3, <1>4, <1>5

\* A list of overrides gives a palette.
LEMMA OverridingOK ==
  ASSUME NEW p, NEW os, PaletteOK(p), Len(os) \in Nat,
         \A i \in 1..Len(os) : ChangeOK(os[i]), NEW n \in 0..Len(os)
  PROVE  PaletteOK(Overriding(p, os)[n])
<1> DEFINE h == Overriding(p, os)
           Bad == {k \in 0..Len(os) : ~PaletteOK(h[k])}
<1>1. h[0] = p /\ \A k \in 1..Len(os) : h[k] = Overridden(h[k - 1], os[k])
  BY OverridingEquation
<1> HIDE DEF h
<1>2. CASE Bad = {}
  BY <1>2 DEF h
<1>3. CASE Bad # {}
  <2>1. PICK m \in Bad : \A k \in Bad : m <= k
    <3>1. Bad \subseteq Nat
      OBVIOUS
    <3> HIDE DEF Bad
    <3> QED
      BY <1>3, <3>1, LeastNumber
  <2>2. m # 0
    BY <1>1, <2>1
  <2>3. m \in 1..Len(os) /\ m - 1 \in 0..Len(os) /\ m - 1 \notin Bad
    BY <2>1, <2>2
  <2>4. PaletteOK(h[m - 1])
    BY <2>3
  <2>5. PaletteOK(h[m])
    BY <1>1, <2>3, <2>4, OverriddenOK
  <2> QED
    BY <2>1, <2>5
<1> QED
  BY <1>2, <1>3

\* No override touches the Prompt of a palette.
LEMMA PromptKept ==
  ASSUME NEW p, NEW os, PaletteOK(p), Len(os) \in Nat,
         \A i \in 1..Len(os) : ChangeOK(os[i])
  PROVE  Overriding(p, os)[Len(os)].prompt = p.prompt
<1> DEFINE h == Overriding(p, os)
           Bad == {k \in 0..Len(os) : h[k].prompt # p.prompt}
<1>1. h[0] = p /\ \A k \in 1..Len(os) : h[k] = Overridden(h[k - 1], os[k])
  BY OverridingEquation
<1>2. \A k \in 0..Len(os) : PaletteOK(h[k])
  BY OverridingOK
<1>3. ASSUME NEW q, NEW c, PaletteOK(q), ChangeOK(c)
      PROVE  Overridden(q, c).prompt = q.prompt
  <2>1. DOMAIN q = {"tokens", "aliases", "chroma", "chromaName", "glamour", "glamourName",
                    "glamourFor", "prompt", "huh"}
    BY <1>3 DEF PaletteOK, ZeroPalette
  <2> QED
    BY <1>3, <2>1 DEF Overridden, ChangeOK, Slots, SetChromaName
<1> HIDE DEF h
<1>4. CASE Bad = {}
  BY <1>4 DEF h
<1>5. CASE Bad # {}
  <2>1. PICK m \in Bad : \A k \in Bad : m <= k
    <3>1. Bad \subseteq Nat
      OBVIOUS
    <3> HIDE DEF Bad
    <3> QED
      BY <1>5, <3>1, LeastNumber
  <2>2. m # 0
    BY <1>1, <2>1
  <2>3. m \in 1..Len(os) /\ m - 1 \in 0..Len(os) /\ m - 1 \notin Bad
    BY <2>1, <2>2
  <2>4. h[m].prompt = h[m - 1].prompt /\ h[m - 1].prompt = p.prompt
    BY <1>1, <1>2, <1>3, <2>3
  <2> QED
    BY <2>1, <2>4
<1> QED
  BY <1>4, <1>5

\* An override that none of those after it takes the place of is what the
\* palette says in the end.
LEMMA LastSays ==
  ASSUME NEW p, NEW os, PaletteOK(p), Len(os) \in Nat,
         \A i \in 1..Len(os) : ChangeOK(os[i]),
         NEW i \in 1..Len(os),
         \A j \in 1..Len(os) : j > i => ~Rivals(os[i], os[j])
  PROVE  Says(Overriding(p, os)[Len(os)], os[i])
<1> DEFINE h == Overriding(p, os)
           Bad == {k \in i..Len(os) : ~Says(h[k], os[i])}
<1>1. \A k \in 1..Len(os) : h[k] = Overridden(h[k - 1], os[k])
  BY OverridingEquation
<1>2. \A k \in 0..Len(os) : PaletteOK(h[k])
  BY OverridingOK
<1> HIDE DEF h
<1>3. CASE Bad = {}
  BY <1>3 DEF h
<1>4. CASE Bad # {}
  <2>1. PICK m \in Bad : \A k \in Bad : m <= k
    <3>1. Bad \subseteq Nat
      OBVIOUS
    <3> HIDE DEF Bad
    <3> QED
      BY <1>4, <3>1, LeastNumber
  <2>2. m \in 1..Len(os) /\ m - 1 \in 0..Len(os)
    BY <2>1
  <2>3. CASE m = i
    BY <1>1, <1>2, <2>1, <2>2, <2>3, OverriddenSays
  <2>4. CASE m > i
    <3>1. m - 1 \in i..Len(os) /\ m - 1 \notin Bad
      BY <2>1, <2>2, <2>4
    <3>2. Says(h[m - 1], os[i])
      BY <3>1
    <3>3. ~Rivals(os[i], os[m]) /\ ChangeOK(os[i]) /\ ChangeOK(os[m])
      BY <2>2, <2>4
    <3> QED
      BY <1>1, <1>2, <2>1, <2>2, <3>2, <3>3, OverriddenKeeps
  <2> QED
    BY <2>1, <2>3, <2>4
<1> QED
  BY <1>3, <1>4

-----------------------------------------------------------------------------
(* What New resolves.                                                       *)

Changed == (UNION {ToSet(o.arg) : o \in {o \in Option : o.kind = "overrides"}}) \ {Nil}

ConfigOK ==
  /\ opts \in Seq(Option)
  /\ ThemeOK(recipe.theme)
  /\ overrides \in Seq(Changed)

\* The theme the options have made.
ThemeMade ==
  IF recipe.opaque \/ overrides = <<>> THEN recipe.theme ELSE With(recipe.theme, overrides)

\* The overrides of the options are changes with tokens for their keys.
LEMMA ChangesOK ==
  ASSUME ConfigOK
  PROVE  /\ Len(overrides) \in Nat /\ DOMAIN overrides = 1..Len(overrides)
         /\ \A i \in 1..Len(overrides) : ChangeOK(overrides[i])
<1>1. \A c \in Changed : ChangeOK(c)
  BY ThemesAssumption DEF Changed
<1>2. overrides \in Seq(Changed)
  BY DEF ConfigOK
<1> HIDE DEF Changed
<1>3. \A i \in 1..Len(overrides) : overrides[i] \in Changed
  BY <1>2
<1> QED
  BY <1>1, <1>2, <1>3

\* A theme with overrides in it is a theme.
LEMMA WithOK ==
  ASSUME ConfigOK
  PROVE  /\ ThemeOK(With(recipe.theme, overrides))
         /\ DOMAIN With(recipe.theme, overrides).variants = DOMAIN recipe.theme.variants
         /\ \A v \in DOMAIN recipe.theme.variants :
              With(recipe.theme, overrides).variants[v] =
                Overriding(recipe.theme.variants[v], overrides)[Len(overrides)]
<1> DEFINE t == recipe.theme
           vs == [v \in DOMAIN t.variants |-> Overriding(t.variants[v], overrides)[Len(overrides)]]
<1>1. DOMAIN t = {"default", "variants", "prefix"}
      /\ \A v \in DOMAIN t.variants : PaletteOK(t.variants[v])
  BY DEF ConfigOK, ThemeOK
<1>2. With(t, overrides) = [t EXCEPT !.variants = vs]
  BY DEF With
<1>3. \A v \in DOMAIN t.variants : PaletteOK(vs[v])
  <2> SUFFICES ASSUME NEW v \in DOMAIN t.variants
               PROVE  PaletteOK(Overriding(t.variants[v], overrides)[Len(overrides)])
    OBVIOUS
  <2>1. Len(overrides) \in 0..Len(overrides)
    BY ChangesOK
  <2> QED
    BY <1>1, <2>1, ChangesOK, OverridingOK
<1>4. DOMAIN vs = DOMAIN t.variants
  OBVIOUS
<1>5. \A v \in DOMAIN t.variants :
        vs[v] = Overriding(t.variants[v], overrides)[Len(overrides)]
  OBVIOUS
<1> HIDE DEF vs
<1>6. With(t, overrides).variants = vs /\ DOMAIN With(t, overrides) = DOMAIN t
  BY <1>1, <1>2
<1> QED
  BY <1>1, <1>3, <1>4, <1>5, <1>6 DEF ThemeOK

\* What is resolved is a theme.
LEMMA ThemeMadeOK ==
  ASSUME ConfigOK
  PROVE  ThemeOK(ThemeMade)
BY WithOK DEF ConfigOK, ThemeMade

\* Whatever resolves gives palettes over the tokens.
LEMMA ResolvedSound ==
  ASSUME NEW t, NEW c, ThemeOK(t)
  PROVE  LET r == Resolved(t, c)
         IN  /\ DOMAIN r.aliases \subseteq Tokens
             /\ \A k \in DOMAIN r.aliases : r.aliases[k] \in Tokens
             /\ DOMAIN r.tokens \subseteq Tokens
             /\ \A k \in DOMAIN r.tokens : r.tokens[k] # Nil
<1> DEFINE v == pickVariant(t, c)
           p == IF v \in DOMAIN t.variants THEN t.variants[v] ELSE ZeroPalette
           r == Resolved(t, c)
<1>1. r.tokens = p.tokens /\ r.aliases = mergeAliases(p.aliases)
  BY DEF Resolved
<1>2. PaletteOK(p)
  <2>1. PaletteOK(ZeroPalette)
    <3>1. DOMAIN NoEntries = {}
      BY DEF NoEntries
    <3> QED
      BY <3>1 DEF PaletteOK, ZeroPalette
  <2> QED
    BY <2>1 DEF ThemeOK
<1> HIDE DEF p, v, r
<1>3. DOMAIN r.tokens \subseteq Tokens /\ \A k \in DOMAIN r.tokens : r.tokens[k] # Nil
  BY <1>1, <1>2 DEF PaletteOK
<1>4. DOMAIN r.aliases \subseteq Tokens /\ \A k \in DOMAIN r.aliases : r.aliases[k] \in Tokens
  <2> DEFINE target(k) == IF k \in DOMAIN p.aliases THEN p.aliases[k] ELSE DefaultAliases[k]
  <2>1. mergeAliases(p.aliases) =
          [k \in {k \in DOMAIN p.aliases \cup DOMAIN DefaultAliases : target(k) # Nil} |->
             target(k)]
    BY DEF mergeAliases
  <2>2. \A k \in DOMAIN p.aliases \cup DOMAIN DefaultAliases :
          k \in Tokens /\ target(k) \in Tokens \cup {Nil}
    BY <1>2, ThemesAssumption DEF PaletteOK
  <2> HIDE DEF target
  <2> QED
    BY <1>1, <2>1, <2>2
<1> QED
  BY <1>3, <1>4 DEF r

\* What a palette says is what it resolves to.
LEMMA SaidIsResolved ==
  ASSUME NEW t, NEW c, ThemeOK(t), resolved = Resolved(t, c),
         resolved.variant \in DOMAIN t.variants,
         NEW o, ChangeOK(o), Says(t.variants[resolved.variant], o)
  PROVE  /\ o.slot = "token" =>
              o.key \in DOMAIN resolved.tokens /\ resolved.tokens[o.key] = o.value
         /\ o.slot = "alias" => Target(o.key) = o.value
         /\ o.slot \in {"chroma", "chromaName"} =>
              IF o.value = Nil THEN resolved.chroma[1] = "derived"
                               ELSE resolved.chroma[2] = o.value
         /\ o.slot \in {"glamour", "glamourName"} =>
              IF o.value = Nil \/ (o.slot = "glamourName" /\ o.value = "unknown")
                THEN resolved.glamour[1] = "derived"
                ELSE resolved.glamour[2] = o.value
         /\ o.slot = "huh" => HuhAfter(o, t.variants[resolved.variant].prompt)
<1> DEFINE v == resolved.variant
           p == t.variants[v]
<1>1. /\ resolved.tokens = p.tokens /\ resolved.aliases = mergeAliases(p.aliases)
      /\ resolved.chroma = ResolvedChroma(p)
      /\ resolved.glamour = ResolvedGlamour(p, v, c)
      /\ resolved.huh = ResolvedHuh(p, t.prefix)
  BY DEF Resolved
<1>2. Says(p, o)
  OBVIOUS
<1> HIDE DEF p, v
<1>3. o.slot = "token" => o.key \in DOMAIN resolved.tokens /\ resolved.tokens[o.key] = o.value
  BY <1>1, <1>2 DEF Says
<1>4. ASSUME o.slot = "alias" PROVE Target(o.key) = o.value
  <2> DEFINE target(k) == IF k \in DOMAIN p.aliases THEN p.aliases[k] ELSE DefaultAliases[k]
             kept == {k \in DOMAIN p.aliases \cup DOMAIN DefaultAliases : target(k) # Nil}
  <2>1. resolved.aliases = [k \in kept |-> target(k)]
    BY <1>1 DEF mergeAliases
  <2>2. o.key \in DOMAIN p.aliases /\ target(o.key) = o.value
    BY <1>2, <1>4 DEF Says
  <2>3. o.key \in kept <=> o.value # Nil
    BY <2>2
  <2> HIDE DEF target, kept
  <2> QED
    BY <2>1, <2>2, <2>3 DEF Target
<1>5. o.slot \in {"chroma", "chromaName"} =>
        IF o.value = Nil THEN resolved.chroma[1] = "derived"
                         ELSE resolved.chroma[2] = o.value
  BY <1>1, <1>2 DEF Says, ResolvedChroma
<1>6. o.slot \in {"glamour", "glamourName"} =>
        IF o.value = Nil \/ (o.slot = "glamourName" /\ o.value = "unknown")
          THEN resolved.glamour[1] = "derived"
          ELSE resolved.glamour[2] = o.value
  BY <1>1, <1>2, ThemesAssumption DEF Says, ResolvedGlamour, GlamourFails
<1>7. o.slot = "huh" => HuhAfter(o, p.prompt)
  BY <1>1, <1>2 DEF Says, ResolvedHuh, HuhAfter
<1> QED
  BY <1>3, <1>4, <1>5, <1>6, <1>7 DEF p, v

\* The last override of a slot is one of the list, and no later one is of the slot.
LEMMA LastOverrideIs ==
  ASSUME ConfigOK, NEW S, NEW k, LastOverride(S, k) # Nil
  PROVE  \E i \in 1..Len(overrides) :
           /\ LastOverride(S, k) = overrides[i]
           /\ overrides[i].slot \in S /\ (k = Nil \/ overrides[i].key = k)
           /\ \A j \in 1..Len(overrides) :
                j > i => ~(overrides[j].slot \in S /\ (k = Nil \/ overrides[j].key = k))
<1> DEFINE at == {i \in DOMAIN overrides :
                    overrides[i].slot \in S /\ (k = Nil \/ overrides[i].key = k)}
           N == Len(overrides)
           back == {N - i : i \in at}
           last == CHOOSE i \in at : \A j \in at : j <= i
<1>1. N \in Nat /\ DOMAIN overrides = 1..N
  BY ChangesOK
<1>2. at # {} /\ LastOverride(S, k) = overrides[last]
  BY DEF LastOverride
<1>3. at \subseteq 1..N
  BY <1>1
<1>4. \E i \in at : \A j \in at : j <= i
  <2> HIDE DEF at, N
  <2>1. back \subseteq Nat /\ back # {}
    <3>1. \A i \in at : N - i \in Nat
      BY <1>1, <1>3
    <3> QED
      BY <1>2, <3>1
  <2>2. PICK m \in back : \A n \in back : m <= n
    <3> HIDE DEF back
    <3> QED
      BY <2>1, LeastNumber
  <2>3. PICK i \in at : m = N - i
    BY <2>2
  <2>4. ASSUME NEW j \in at PROVE j <= i
    <3>1. N - j \in back
      OBVIOUS
    <3>2. N - i <= N - j
      BY <2>2, <2>3, <3>1
    <3> QED
      BY <1>1, <1>3, <3>2
  <2> QED
    BY <2>4
<1>5. last \in at /\ \A j \in at : j <= last
  <2> HIDE DEF at
  <2> QED
    BY <1>4
<1> HIDE DEF last
<1>6. last \in 1..N /\ overrides[last].slot \in S /\ (k = Nil \/ overrides[last].key = k)
  BY <1>3, <1>5
<1>7. ASSUME NEW j \in 1..N, j > last
      PROVE  ~(overrides[j].slot \in S /\ (k = Nil \/ overrides[j].key = k))
  <2>1. j \notin at
    <3> HIDE DEF at
    <3> QED
      BY <1>3, <1>5, <1>6, <1>7
  <2> QED
    BY <1>1, <2>1
<1> QED
  BY <1>2, <1>6, <1>7

\* The last override of a slot is what the theme that was made resolves to.
LEMMA LastIsResolved ==
  ASSUME ConfigOK, ~recipe.opaque, resolved = Resolved(ThemeMade, detectCapabilities(term)),
         resolved.variant \in DOMAIN recipe.theme.variants,
         NEW S, NEW k, LastOverride(S, k) # Nil,
         \/ S \in {{"token"}, {"alias"}} /\ k # Nil
         \/ S \in {{"chroma", "chromaName"}, {"glamour", "glamourName"}, {"huh"}} /\ k = Nil
  PROVE  LET o == LastOverride(S, k)
         IN  /\ o.slot \in S /\ (k = Nil \/ o.key = k) /\ ChangeOK(o)
             /\ Says(ThemeMade.variants[resolved.variant], o)
             /\ resolved.variant \in DOMAIN ThemeMade.variants
             /\ ThemeMade.variants[resolved.variant].prompt
                  = recipe.theme.variants[resolved.variant].prompt
<1> DEFINE v == resolved.variant
           p == recipe.theme.variants[v]
<1>1. PICK i \in 1..Len(overrides) :
           /\ LastOverride(S, k) = overrides[i]
           /\ overrides[i].slot \in S /\ (k = Nil \/ overrides[i].key = k)
           /\ \A j \in 1..Len(overrides) :
                j > i => ~(overrides[j].slot \in S /\ (k = Nil \/ overrides[j].key = k))
  BY LastOverrideIs
<1>2. Len(overrides) \in Nat /\ \A j \in 1..Len(overrides) : ChangeOK(overrides[j])
  BY ChangesOK
<1>3. overrides # <<>>
  BY <1>1, <1>2
<1>4. ThemeMade = With(recipe.theme, overrides)
  BY <1>3 DEF ThemeMade
<1>5. v \in DOMAIN ThemeMade.variants
      /\ ThemeMade.variants[v] = Overriding(p, overrides)[Len(overrides)]
  BY <1>4, WithOK
<1>6. PaletteOK(p)
  BY DEF ConfigOK, ThemeOK
<1>7. ASSUME NEW j \in 1..Len(overrides), j > i PROVE ~Rivals(overrides[i], overrides[j])
  <2>1. ~(overrides[j].slot \in S /\ (k = Nil \/ overrides[j].key = k))
    BY <1>1, <1>7
  <2> QED
    BY <1>1, <2>1 DEF Rivals
<1> HIDE DEF p, v
<1>8. Says(Overriding(p, overrides)[Len(overrides)], overrides[i])
  BY <1>2, <1>6, <1>7, LastSays
<1>9. Overriding(p, overrides)[Len(overrides)].prompt = p.prompt
  BY <1>2, <1>6, PromptKept
<1> QED
  BY <1>1, <1>2, <1>5, <1>8, <1>9 DEF v, p

FinalInv ==
  phase \in {"validate", "require", "built"} =>
    resolved = Resolved(ThemeMade, detectCapabilities(term))

\* A palette that was resolved from the options says what the last override of each slot
\* says.
LEMMA LastOverrideHolds ==
  ASSUME ConfigOK, FinalInv
  PROVE  LastOverrideWins
<1> SUFFICES ASSUME phase \in {"require", "built"}, ~recipe.opaque,
                    resolved.variant \in DOMAIN recipe.theme.variants
             PROVE  /\ \A t \in Tokens :
                         LET o == LastOverride({"token"}, t)
                         IN  o # Nil => t \in DOMAIN resolved.tokens
                                        /\ resolved.tokens[t] = o.value
                    /\ \A t \in Tokens :
                         LET o == LastOverride({"alias"}, t)
                         IN  o # Nil => Target(t) = o.value
                    /\ LET o == LastOverride({"chroma", "chromaName"}, Nil)
                       IN  o # Nil => IF o.value = Nil THEN resolved.chroma[1] = "derived"
                                                       ELSE resolved.chroma[2] = o.value
                    /\ LET o == LastOverride({"glamour", "glamourName"}, Nil)
                       IN  o # Nil =>
                             IF o.value = Nil \/ (o.slot = "glamourName" /\ o.value = "unknown")
                               THEN resolved.glamour[1] = "derived"
                               ELSE resolved.glamour[2] = o.value
                    /\ LET o == LastOverride({"huh"}, Nil)
                       IN  o # Nil =>
                             HuhAfter(o, recipe.theme.variants[resolved.variant].prompt)
  BY DEF LastOverrideWins
<1>1. resolved = Resolved(ThemeMade, detectCapabilities(term)) /\ ThemeOK(ThemeMade)
  BY ThemeMadeOK DEF FinalInv
<1>2. Nil \notin Tokens
  BY ThemesAssumption
<1>3. ASSUME NEW t \in Tokens, LastOverride({"token"}, t) # Nil
      PROVE  t \in DOMAIN resolved.tokens
             /\ resolved.tokens[t] = LastOverride({"token"}, t).value
  <2> DEFINE o == LastOverride({"token"}, t)
  <2>1. o.slot = "token" /\ o.key = t /\ ChangeOK(o)
        /\ resolved.variant \in DOMAIN ThemeMade.variants
        /\ Says(ThemeMade.variants[resolved.variant], o)
    BY <1>1, <1>2, <1>3, LastIsResolved
  <2> HIDE DEF o
  <2>2. o.key \in DOMAIN resolved.tokens /\ resolved.tokens[o.key] = o.value
    BY <1>1, <2>1, SaidIsResolved
  <2> QED
    BY <2>1, <2>2 DEF o
<1>4. ASSUME NEW t \in Tokens, LastOverride({"alias"}, t) # Nil
      PROVE  Target(t) = LastOverride({"alias"}, t).value
  <2> DEFINE o == LastOverride({"alias"}, t)
  <2>1. o.slot = "alias" /\ o.key = t /\ ChangeOK(o)
        /\ resolved.variant \in DOMAIN ThemeMade.variants
        /\ Says(ThemeMade.variants[resolved.variant], o)
    BY <1>1, <1>2, <1>4, LastIsResolved
  <2> HIDE DEF o
  <2>2. Target(o.key) = o.value
    BY <1>1, <2>1, SaidIsResolved
  <2> QED
    BY <2>1, <2>2 DEF o
<1>5. ASSUME NEW S \in {{"chroma", "chromaName"}, {"glamour", "glamourName"}, {"huh"}},
             LastOverride(S, Nil) # Nil
      PROVE  LET o == LastOverride(S, Nil)
             IN  /\ o.slot \in S /\ ChangeOK(o)
                 /\ resolved.variant \in DOMAIN ThemeMade.variants
                 /\ Says(ThemeMade.variants[resolved.variant], o)
                 /\ ThemeMade.variants[resolved.variant].prompt
                      = recipe.theme.variants[resolved.variant].prompt
  BY <1>1, <1>5, LastIsResolved
<1>6. ASSUME LastOverride({"chroma", "chromaName"}, Nil) # Nil
      PROVE  LET o == LastOverride({"chroma", "chromaName"}, Nil)
             IN  IF o.value = Nil THEN resolved.chroma[1] = "derived"
                                  ELSE resolved.chroma[2] = o.value
  <2> DEFINE o == LastOverride({"chroma", "chromaName"}, Nil)
  <2>1. o.slot \in {"chroma", "chromaName"} /\ ChangeOK(o)
        /\ resolved.variant \in DOMAIN ThemeMade.variants
        /\ Says(ThemeMade.variants[resolved.variant], o)
    BY <1>5, <1>6
  <2> HIDE DEF o
  <2>2. IF o.value = Nil THEN resolved.chroma[1] = "derived" ELSE resolved.chroma[2] = o.value
    BY <1>1, <2>1, SaidIsResolved
  <2> QED
    BY <2>2 DEF o
<1>7. ASSUME LastOverride({"glamour", "glamourName"}, Nil) # Nil
      PROVE  LET o == LastOverride({"glamour", "glamourName"}, Nil)
             IN  IF o.value = Nil \/ (o.slot = "glamourName" /\ o.value = "unknown")
                   THEN resolved.glamour[1] = "derived"
                   ELSE resolved.glamour[2] = o.value
  <2> DEFINE o == LastOverride({"glamour", "glamourName"}, Nil)
  <2>1. o.slot \in {"glamour", "glamourName"} /\ ChangeOK(o)
        /\ resolved.variant \in DOMAIN ThemeMade.variants
        /\ Says(ThemeMade.variants[resolved.variant], o)
    BY <1>5, <1>7
  <2> HIDE DEF o
  <2>2. IF o.value = Nil \/ (o.slot = "glamourName" /\ o.value = "unknown")
          THEN resolved.glamour[1] = "derived"
          ELSE resolved.glamour[2] = o.value
    BY <1>1, <2>1, SaidIsResolved
  <2> QED
    BY <2>2 DEF o
<1>8. ASSUME LastOverride({"huh"}, Nil) # Nil
      PROVE  LET o == LastOverride({"huh"}, Nil)
             IN  HuhAfter(o, recipe.theme.variants[resolved.variant].prompt)
  <2> DEFINE o == LastOverride({"huh"}, Nil)
  <2>1. o.slot = "huh" /\ ChangeOK(o)
        /\ resolved.variant \in DOMAIN ThemeMade.variants
        /\ Says(ThemeMade.variants[resolved.variant], o)
        /\ ThemeMade.variants[resolved.variant].prompt
             = recipe.theme.variants[resolved.variant].prompt
    BY <1>5, <1>8
  <2> HIDE DEF o
  <2>2. HuhAfter(o, recipe.theme.variants[resolved.variant].prompt)
    BY <1>1, <2>1, SaidIsResolved
  <2> QED
    BY <2>2 DEF o
<1> QED
  BY <1>3, <1>4, <1>6, <1>7, <1>8

-----------------------------------------------------------------------------
(* The invariant of the theme.                                              *)

Unstyled == {t \in ToSet(Required) : StyleMeant(t) = Nil}

ChainInv ==
  /\ AliasesOK
  /\ walk # Nil => WalkOK(walk)
  /\ phase = "options" => walk = Nil /\ why = Nil
  /\ starts \subseteq Tokens
  /\ phase = "validate" /\ ~recipe.opaque =>
       \A t \in DOMAIN resolved.aliases \ starts : ~Cyclic(t)
  /\ CyclesRefused

\* Whoever is asked of the required tokens has been looked up.
LookInv ==
  /\ TokensOK
  /\ phase \in {"require", "built"} /\ walk # Nil =>
       walk.seen \cap DOMAIN resolved.tokens = {}
  /\ phase \in {"options", "validate"} => shown = Nil /\ missing = {}
  /\ phase = "require" =>
       /\ required \in Seq(Tokens)
       /\ missing \subseteq Unstyled /\ Unstyled \subseteq missing \cup ToSet(required)
       /\ ToSet(required) \subseteq ToSet(Required)
       /\ walk # Nil => required # <<>> /\ walk.start = Head(required)
  /\ LookupsAgree

ThemeInv == ConfigOK /\ FinalInv /\ ChainInv /\ LookInv

LEMMA ThemeInitInv ==
  ASSUME ThemeInit
  PROVE  ThemeInv
<1>1. phase = "options" /\ why = Nil /\ walk = Nil /\ shown = Nil /\ missing = {}
      /\ resolved = Nothing /\ starts = {}
  BY DEF ThemeInit
<1>2. ConfigOK
  <2>1. opts \in Seq(Option) /\ ThemeOK(Catalog[Default]) /\ overrides = <<>>
    BY ThemesAssumption DEF ThemeInit
  <2>2. recipe.theme = Catalog[Default]
    BY DEF ThemeInit
  <2> QED
    BY <2>1, <2>2 DEF ConfigOK
<1>3. AliasesOK /\ TokensOK
  <2>1. DOMAIN NoEntries = {}
    BY DEF NoEntries
  <2> QED
    BY <1>1, <2>1 DEF AliasesOK, TokensOK, Nothing
<1>4. CyclesRefused
  BY <1>1, ThemesAssumption DEF CyclesRefused
<1>5. LookupsAgree
  BY <1>1 DEF LookupsAgree
<1>6. FinalInv
  BY <1>1 DEF FinalInv
<1>7. ChainInv
  BY <1>1, <1>3, <1>4 DEF ChainInv
<1>8. LookInv
  BY <1>1, <1>3, <1>5 DEF LookInv
<1> QED
  BY <1>2, <1>6, <1>7, <1>8 DEF ThemeInv

-----------------------------------------------------------------------------
(* The options.                                                             *)

\* An option changes nothing but what is resolved later.
LEMMA OptionKeeps ==
  ASSUME ThemeInv, NextOption, ConfigOK'
  PROVE  ThemeInv'
<1>1. /\ phase = "options" /\ phase' = phase /\ why' = why /\ resolved' = resolved
      /\ starts' = starts /\ required' = required /\ missing' = missing
      /\ walk' = walk /\ shown' = shown
  BY DEF NextOption
<1>2. walk = Nil /\ why = Nil /\ shown = Nil /\ missing = {} /\ AliasesOK /\ TokensOK
      /\ starts \subseteq Tokens
  BY <1>1 DEF ThemeInv, ChainInv, LookInv
<1>3. AliasesOK' /\ TokensOK'
  BY <1>1, <1>2, ChainsFixed
<1>4. FinalInv'
  BY <1>1 DEF FinalInv
<1>5. CyclesRefused' /\ LookupsAgree'
  BY <1>1, <1>2, ThemesAssumption DEF CyclesRefused, LookupsAgree
<1>6. ChainInv'
  BY <1>1, <1>2, <1>3, <1>5 DEF ChainInv
<1>7. LookInv'
  BY <1>1, <1>2, <1>3, <1>5 DEF LookInv
<1> QED
  BY <1>4, <1>6, <1>7 DEF ThemeInv

LEMMA NextOptionTakes ==
  ASSUME ConfigOK, NextOption
  PROVE  Head(opts) \in Option /\ opts' \in Seq(Option)
BY DEF ConfigOK, NextOption

LEMMA AnOptionKeeps ==
  ASSUME ThemeInv, NextOption, UNCHANGED <<recipe, overrides>>
  PROVE  ThemeInv'
<1>1. ConfigOK'
  BY NextOptionTakes DEF ThemeInv, ConfigOK
<1> QED
  BY <1>1, OptionKeeps

LEMMA ApplyOptionKeeps ==
  ASSUME ThemeInv, ApplyOption
  PROVE  ThemeInv'
<1> DEFINE o == Head(opts)
<1>1. /\ NextOption /\ o.kind \in ThemeOptions
      /\ o.kind = "name" => WithTheme(o.arg)
      /\ o.kind = "custom" => WithCustomTheme(o.arg)
      /\ o.kind = "overrides" => WithThemeOverrides(o.arg)
      /\ o.kind = "strict" => UNCHANGED <<recipe, overrides, refused>>
      /\ o.kind = "nil" => RefuseOption
  BY DEF ApplyOption, ThemeOptions
<1>2. ConfigOK /\ o \in Option /\ opts' \in Seq(Option)
  BY <1>1, NextOptionTakes DEF ThemeInv
<1> HIDE DEF o
<1>3. ConfigOK'
  <2>1. CASE o.kind = "name"
    <3>1. overrides' = overrides /\
          (recipe' = recipe \/ (o.arg \in DOMAIN Catalog /\ recipe'.theme = Catalog[o.arg]))
      BY <1>1, <2>1 DEF WithTheme, RefuseOption
    <3>2. ThemeOK(recipe.theme) /\ \A n \in DOMAIN Catalog : ThemeOK(Catalog[n])
      BY <1>2, ThemesAssumption DEF ConfigOK
    <3>3. ThemeOK(recipe'.theme)
      BY <3>1, <3>2
    <3> QED
      BY <1>2, <3>1, <3>3 DEF ConfigOK
  <2>2. CASE o.kind = "custom"
    <3>1. overrides' = overrides /\ (recipe' = recipe \/ (o.arg # Nil /\ recipe' = o.arg))
      BY <1>1, <2>2 DEF WithCustomTheme, RefuseOption
    <3>2. o.arg # Nil => ThemeOK(o.arg.theme)
      BY <1>2, <2>2, ThemesAssumption
    <3>3. ThemeOK(recipe'.theme)
      BY <1>2, <3>1, <3>2 DEF ConfigOK
    <3> QED
      BY <1>2, <3>1, <3>3 DEF ConfigOK
  <2>3. CASE o.kind = "overrides"
    <3>1. CASE Nil \in ToSet(o.arg)
      BY <1>1, <1>2, <2>3, <3>1 DEF WithThemeOverrides, RefuseOption, ConfigOK
    <3>2. CASE Nil \notin ToSet(o.arg)
      <4>1. o.arg \in Seq(ToSet(o.arg))
        BY <1>2, <2>3, ThemesAssumption
      <4>2. ToSet(o.arg) \subseteq Changed
        BY <1>2, <2>3, <3>2 DEF Changed
      <4>3. o.arg \in Seq(Changed)
        BY <4>1, <4>2, SeqMonotonic
      <4>4. overrides' = overrides \o o.arg /\ recipe' = recipe
        BY <1>1, <2>3, <3>2 DEF WithThemeOverrides
      <4>5. overrides \in Seq(Changed) /\ ThemeOK(recipe.theme)
        BY <1>2 DEF ConfigOK
      <4>6. overrides' \in Seq(Changed)
        BY <4>3, <4>4, <4>5, ConcatProperties
      <4> QED
        BY <1>2, <4>4, <4>5, <4>6 DEF ConfigOK
    <3> QED
      BY <3>1, <3>2
  <2>4. CASE o.kind \in {"strict", "nil"}
    BY <1>1, <1>2, <2>4 DEF RefuseOption, ConfigOK
  <2> QED
    BY <1>1, <2>1, <2>2, <2>3, <2>4 DEF ThemeOptions
<1> QED
  BY <1>1, <1>3, OptionKeeps

-----------------------------------------------------------------------------
(* config.finalize.                                                         *)

\* After the options nothing but the last steps of New moves.
LEMMA Settled ==
  ASSUME ThemeInv, UNCHANGED config, resolved' = resolved
  PROVE  /\ ConfigOK' /\ AliasesOK' /\ TokensOK'
         /\ ThemeMade' = ThemeMade
         /\ Unstyled' = Unstyled
<1>1. recipe' = recipe /\ overrides' = overrides /\ opts' = opts
  BY DEF config
<1>2. AliasesOK /\ TokensOK /\ ConfigOK
  BY DEF ThemeInv, ChainInv, LookInv
<1>3. AliasesOK' /\ TokensOK'
  BY <1>2, ChainsFixed
<1>4. ConfigOK' /\ ThemeMade' = ThemeMade
  BY <1>1, <1>2 DEF ConfigOK, ThemeMade
<1>5. Unstyled' = Unstyled
  BY ChainsFixed DEF Unstyled
<1> QED
  BY <1>3, <1>4, <1>5

\* What was resolved stays so while the options and the terminal do.
LEMMA FinalKeeps ==
  ASSUME ThemeInv, UNCHANGED config, resolved' = resolved,
         phase' \in {"validate", "require", "built"} => phase \in {"validate", "require", "built"}
  PROVE  FinalInv'
<1>1. ThemeMade' = ThemeMade /\ term' = term
  BY Settled DEF config
<1> QED
  BY <1>1 DEF ThemeInv, FinalInv

\* A failure keeps what was found; a cycle must be one.
LEMMA FailKeeps ==
  ASSUME ThemeInv, NEW reason, Fail(reason), UNCHANGED config,
         reason = "cycle" => \E t \in Tokens : Cyclic(t)
  PROVE  ThemeInv'
<1>1. phase' = "failed" /\ why' = reason /\ walk' = Nil /\ resolved' = resolved
      /\ shown' = shown /\ starts' = {}
  BY DEF Fail
<1>2. ConfigOK' /\ AliasesOK' /\ TokensOK' /\ FinalInv'
  BY <1>1, Settled, FinalKeeps
<1>3. CyclesRefused'
  BY <1>1, ChainsFixed DEF CyclesRefused
<1>4. LookupsAgree'
  BY <1>1, ChainsFixed DEF ThemeInv, LookInv, LookupsAgree
<1> QED
  BY <1>1, <1>2, <1>3, <1>4 DEF ThemeInv, ChainInv, LookInv

LEMMA FinalizeKeeps ==
  ASSUME ThemeInv, NEW invalid, Finalize(invalid)
  PROVE  ThemeInv'
<1> DEFINE r == Resolved(ThemeMade, detectCapabilities(term))
<1>1. /\ phase = "options" /\ phase' = "validate" /\ why' = why /\ missing' = missing
      /\ walk' = walk /\ shown' = shown /\ UNCHANGED config
      /\ resolved' = r
      /\ starts' = IF recipe.opaque THEN {} ELSE DOMAIN r.aliases
  BY DEF Finalize, ThemeMade
<1>2. recipe' = recipe /\ overrides' = overrides /\ opts' = opts /\ term' = term
  BY <1>1 DEF config
<1>3. ConfigOK /\ walk = Nil /\ why = Nil /\ shown = Nil /\ missing = {}
  BY <1>1 DEF ThemeInv, ChainInv, LookInv
<1>4. ConfigOK' /\ ThemeMade' = ThemeMade
  BY <1>2, <1>3 DEF ConfigOK, ThemeMade
<1>5. FinalInv'
  BY <1>1, <1>2, <1>4 DEF FinalInv
<1>6. AliasesOK' /\ TokensOK'
  <2>1. ThemeOK(ThemeMade)
    BY <1>3, ThemeMadeOK
  <2>2. /\ DOMAIN r.aliases \subseteq Tokens
        /\ \A t \in DOMAIN r.aliases : r.aliases[t] \in Tokens
        /\ DOMAIN r.tokens \subseteq Tokens
        /\ \A t \in DOMAIN r.tokens : r.tokens[t] # Nil
    BY <2>1, ResolvedSound
  <2> HIDE DEF r
  <2> QED
    BY <1>1, <2>1, <2>2 DEF AliasesOK, TokensOK
<1>7. CyclesRefused' /\ LookupsAgree'
  BY <1>1, <1>3, ThemesAssumption DEF CyclesRefused, LookupsAgree
<1>10. starts' \subseteq Tokens
  BY <1>1, <1>6 DEF AliasesOK
<1> HIDE DEF r
<1>8. ChainInv'
  BY <1>10, <1>1, <1>2, <1>3, <1>6, <1>7 DEF ChainInv
<1>9. LookInv'
  BY <1>1, <1>3, <1>6, <1>7 DEF LookInv
<1> QED
  BY <1>4, <1>5, <1>8, <1>9 DEF ThemeInv

LEMMA ValidateChainKeeps ==
  ASSUME ThemeInv, NEW t, ValidateChain(t)
  PROVE  ThemeInv'
<1>1. /\ phase = "validate" /\ phase' = phase /\ walk' = Walk(t) /\ t \in starts
      /\ why' = why /\ starts' = starts /\ missing' = missing /\ shown' = shown
      /\ resolved' = resolved /\ UNCHANGED config
  BY DEF ValidateChain
<1>2. ConfigOK' /\ AliasesOK' /\ TokensOK' /\ FinalInv'
  BY <1>1, Settled, FinalKeeps
<1>3. AliasesOK /\ t \in Tokens
  BY <1>1 DEF ThemeInv, ChainInv
<1>4. recipe' = recipe
  BY <1>1 DEF config
<1>5. CyclesRefused'
  BY <1>1, ChainsFixed DEF ThemeInv, ChainInv, CyclesRefused
<1>6. LookupsAgree'
  BY <1>1, ChainsFixed DEF ThemeInv, LookInv, LookupsAgree
<1>7. WalkOK(walk)'
  <2>1. \A w : WalkOK(w)' = WalkOK(w)
    BY <1>1, ChainsFixed
  <2>2. WalkOK(walk')
    BY <1>1, <1>3, WalkBegins
  <2> QED
    BY <2>1, <2>2
<1>8. ChainInv'
  BY <1>1, <1>2, <1>4, <1>5, <1>7, ChainsFixed DEF ThemeInv, ChainInv
<1>9. LookInv'
  BY <1>1, <1>2, <1>6 DEF ThemeInv, LookInv
<1> QED
  BY <1>2, <1>8, <1>9 DEF ThemeInv

LEMMA validateAliasChainKeeps ==
  ASSUME ThemeInv, validateAliasChain
  PROVE  ThemeInv'
<1>1. phase = "validate" /\ walk # Nil /\ UNCHANGED config
  BY DEF validateAliasChain
<1>2. AliasesOK /\ WalkOK(walk)
  BY <1>1 DEF ThemeInv, ChainInv
<1>3. walk.start \in Tokens
  BY <1>2 DEF WalkOK
<1>4. recipe' = recipe
  BY <1>1 DEF config
<1>5. CASE walk.cur # Nil /\ walk.cur \in walk.seen
  <2> DEFINE reason == IF resolved.failed THEN "glamour" ELSE "cycle"
  <2>1. Fail(reason)
    BY <1>5 DEF validateAliasChain
  <2>2. Cyclic(walk.start)
    BY <1>2, <1>5, WalkTurns
  <2> HIDE DEF reason
  <2> QED
    BY <1>1, <1>3, <2>1, <2>2, FailKeeps
<1>6. CASE walk.cur = Nil
  <2>1. /\ phase' = phase /\ walk' = Nil /\ starts' = starts \ {walk.start}
        /\ why' = why /\ resolved' = resolved /\ missing' = missing /\ shown' = shown
    BY <1>6 DEF validateAliasChain
  <2>2. ~Cyclic(walk.start)
    BY <1>2, <1>6, WalkLeaves
  <2>3. ConfigOK' /\ AliasesOK' /\ TokensOK' /\ FinalInv'
    BY <1>1, <2>1, Settled, FinalKeeps
  <2>4. CyclesRefused'
    BY <1>1, <2>1, ChainsFixed DEF ThemeInv, ChainInv, CyclesRefused
  <2>5. LookupsAgree'
    BY <1>1, <2>1, ChainsFixed DEF ThemeInv, LookInv, LookupsAgree
  <2>6. \A t : Cyclic(t)' = Cyclic(t)
    BY <2>1, ChainsFixed
  <2>7. ChainInv'
    BY <1>1, <1>4, <2>1, <2>2, <2>3, <2>4, <2>6 DEF ThemeInv, ChainInv
  <2>8. LookInv'
    BY <1>1, <2>1, <2>3, <2>5 DEF ThemeInv, LookInv
  <2> QED
    BY <2>3, <2>7, <2>8 DEF ThemeInv
<1>7. CASE walk.cur # Nil /\ walk.cur \notin walk.seen
  <2>1. /\ phase' = phase /\ walk' = Further(walk) /\ starts' = starts
        /\ why' = why /\ resolved' = resolved /\ missing' = missing /\ shown' = shown
    BY <1>7 DEF validateAliasChain, Further
  <2>2. WalkOK(walk')
    BY <1>2, <1>7, <2>1, WalkGoesOn
  <2>3. ConfigOK' /\ AliasesOK' /\ TokensOK' /\ FinalInv'
    BY <1>1, <2>1, Settled, FinalKeeps
  <2>4. CyclesRefused'
    BY <1>1, <2>1, ChainsFixed DEF ThemeInv, ChainInv, CyclesRefused
  <2>5. LookupsAgree'
    BY <1>1, <2>1, ChainsFixed DEF ThemeInv, LookInv, LookupsAgree
  <2>6. /\ \A t : Cyclic(t)' = Cyclic(t)
        /\ \A w : WalkOK(w)' = WalkOK(w)
    BY <2>1, ChainsFixed
  <2>7. WalkOK(walk)'
    BY <2>2, <2>6
  <2>8. ChainInv'
    BY <1>1, <1>4, <2>1, <2>3, <2>4, <2>6, <2>7 DEF ThemeInv, ChainInv
  <2>9. LookInv'
    BY <1>1, <2>1, <2>3, <2>5 DEF ThemeInv, LookInv
  <2> QED
    BY <2>3, <2>8, <2>9 DEF ThemeInv
<1> QED
  BY <1>5, <1>6, <1>7

LEMMA ChainsValidKeeps ==
  ASSUME ThemeInv, ChainsValid
  PROVE  ThemeInv'
<1>1. phase = "validate" /\ walk = Nil /\ starts = {} /\ UNCHANGED config
  BY DEF ChainsValid
<1>2. recipe' = recipe
  BY <1>1 DEF config
<1>3. CASE resolved.failed /\ ~recipe.opaque
  <2>1. Fail("glamour")
    BY <1>3 DEF ChainsValid
  <2> QED
    BY <1>1, <2>1, FailKeeps
<1>4. CASE ~(resolved.failed /\ ~recipe.opaque)
  <2>1. /\ phase' = "require" /\ required' = Required /\ walk' = walk
        /\ why' = why /\ resolved' = resolved /\ starts' = starts /\ missing' = missing
        /\ shown' = shown
    BY <1>4 DEF ChainsValid
  <2>2. ConfigOK' /\ AliasesOK' /\ TokensOK' /\ FinalInv' /\ Unstyled' = Unstyled
    BY <1>1, <2>1, Settled, FinalKeeps
  <2>3. shown = Nil /\ missing = {} /\ AliasesOK
    BY <1>1 DEF ThemeInv, ChainInv, LookInv
  <2>4. /\ \A t : Cyclic(t)' = Cyclic(t)
    BY <2>1, ChainsFixed
  <2>5. ~recipe.opaque => \A t \in Tokens : ~Cyclic(t)
    <3>1. ASSUME ~recipe.opaque, NEW t \in Tokens PROVE ~Cyclic(t)
      <4>1. CASE t \in DOMAIN resolved.aliases
        BY <1>1, <3>1, <4>1 DEF ThemeInv, ChainInv
      <4>2. CASE t \notin DOMAIN resolved.aliases
        BY <2>3, <4>2, NoAliasNoCycle
      <4> QED
        BY <4>1, <4>2
    <3> QED
      BY <3>1
  <2>6. CyclesRefused'
    BY <1>2, <2>1, <2>4, <2>5 DEF ThemeInv, ChainInv, CyclesRefused
  <2>7. LookupsAgree'
    BY <2>1, <2>3 DEF LookupsAgree
  <2>8. ChainInv'
    BY <1>1, <2>1, <2>2, <2>6 DEF ThemeInv, ChainInv
  <2>9. required' \in Seq(Tokens) /\ Unstyled' \subseteq ToSet(required')
    BY <2>1, <2>2, ThemesAssumption DEF Unstyled
  <2>10. LookInv'
    BY <1>1, <2>1, <2>2, <2>3, <2>7, <2>9 DEF LookInv
  <2> QED
    BY <2>2, <2>8, <2>10 DEF ThemeInv
<1> QED
  BY <1>3, <1>4

-----------------------------------------------------------------------------
(* The requirements and Style.                                              *)

\* A lookup begins at a token whose walk has met no styled one.
LEMMA LookUpBegins ==
  ASSUME AliasesOK, NEW t \in Tokens
  PROVE  /\ WalkOK(LookUp(t)) /\ LookUp(t).start = t
         /\ LookUp(t).seen \cap DOMAIN resolved.tokens = {}
<1>1. Walk(t).seen = {t} /\ Walk(t).start = t
  BY DEF Walk
<1> QED
  BY <1>1, WalkBegins DEF LookUp

\* What the steps after the validation have in common.
LEMMA LookingKeeps ==
  ASSUME ThemeInv, UNCHANGED config, resolved' = resolved, why' = why, starts' = starts,
         phase \in {"require", "built"}, phase' \in {"require", "built"},
         walk' # Nil => WalkOK(walk') /\ walk'.seen \cap DOMAIN resolved.tokens = {}
  PROVE  /\ ConfigOK' /\ FinalInv' /\ ChainInv' /\ TokensOK'
         /\ walk' # Nil => walk'.seen \cap DOMAIN resolved'.tokens = {}
         /\ Unstyled' = Unstyled /\ strict' = strict
         /\ \A t : StyleMeant(t)' = StyleMeant(t)
<1>1. ConfigOK' /\ AliasesOK' /\ TokensOK' /\ FinalInv' /\ Unstyled' = Unstyled
  BY Settled, FinalKeeps
<1>2. /\ \A t : Cyclic(t)' = Cyclic(t) /\ StyleMeant(t)' = StyleMeant(t)
      /\ \A w : WalkOK(w)' = WalkOK(w)
  BY ChainsFixed
<1>3. recipe' = recipe /\ strict' = strict
  BY DEF config
<1>4. CyclesRefused'
  BY <1>2, <1>3 DEF ThemeInv, ChainInv, CyclesRefused
<1>5. walk' # Nil => WalkOK(walk)'
  BY <1>2
<1>6. ChainInv'
  BY <1>1, <1>4, <1>5 DEF ThemeInv, ChainInv
<1> QED
  BY <1>1, <1>2, <1>3, <1>6

LEMMA AskRequiredKeeps ==
  ASSUME ThemeInv, AskRequired
  PROVE  ThemeInv'
<1>1. /\ phase = "require" /\ phase' = phase /\ required # <<>>
      /\ walk' = LookUp(Head(required))
      /\ why' = why /\ starts' = starts /\ missing' = missing /\ shown' = shown
      /\ required' = required /\ resolved' = resolved /\ UNCHANGED config
  BY DEF AskRequired
<1>2. AliasesOK /\ required \in Seq(Tokens)
  BY <1>1 DEF ThemeInv, ChainInv, LookInv
<1>3. Head(required) \in Tokens
  BY <1>1, <1>2
<1>4. WalkOK(walk') /\ walk'.start = Head(required)
      /\ walk'.seen \cap DOMAIN resolved.tokens = {}
  BY <1>1, <1>2, <1>3, LookUpBegins
<1>5. /\ ConfigOK' /\ FinalInv' /\ ChainInv' /\ TokensOK'
      /\ walk' # Nil => walk'.seen \cap DOMAIN resolved'.tokens = {}
      /\ Unstyled' = Unstyled /\ \A t : StyleMeant(t)' = StyleMeant(t)
  BY <1>1, <1>4, LookingKeeps
<1>6. LookupsAgree'
  BY <1>1, <1>5 DEF ThemeInv, LookInv, LookupsAgree
<1>7. LookInv'
  BY <1>1, <1>4, <1>5, <1>6 DEF ThemeInv, LookInv
<1> QED
  BY <1>5, <1>7 DEF ThemeInv

\* Where a walk of a lookup ends.
LEMMA LookedUp ==
  ASSUME ThemeInv, phase \in {"require", "built"}, walk # Nil, LookupEnds
  PROVE  /\ walk.start \in Tokens
         /\ StyleMeant(walk.start) = IF Hit THEN resolved.tokens[walk.cur] ELSE Nil
         /\ StyleMeant(walk.start) = Nil <=> ~Hit
<1>1. AliasesOK /\ TokensOK /\ WalkOK(walk) /\ walk.seen \cap DOMAIN resolved.tokens = {}
  BY DEF ThemeInv, ChainInv, LookInv
<1>2. LookupEndsAt(walk) /\ (Hit <=> HitAt(walk))
  BY DEF LookupEnds, LookupEndsAt, Hit, HitAt
<1>3. walk.start \in Tokens
  BY <1>1 DEF WalkOK
<1> QED
  BY <1>1, <1>2, <1>3, LookupFinds

LEMMA HasTokenKeeps ==
  ASSUME ThemeInv, HasToken
  PROVE  ThemeInv'
<1>1. /\ phase = "require" /\ phase' = phase /\ walk # Nil /\ LookupEnds
      /\ missing' = IF Hit THEN missing ELSE missing \cup {walk.start}
      /\ required' = Tail(required) /\ walk' = Nil
      /\ why' = why /\ starts' = starts /\ shown' = shown
      /\ resolved' = resolved /\ UNCHANGED config
  BY DEF HasToken
<1>2. /\ required \in Seq(Tokens) /\ required # <<>> /\ walk.start = Head(required)
      /\ missing \subseteq Unstyled /\ Unstyled \subseteq missing \cup ToSet(required)
      /\ ToSet(required) \subseteq ToSet(Required)
  BY <1>1 DEF ThemeInv, LookInv
<1>3. StyleMeant(walk.start) = Nil <=> ~Hit
  BY <1>1, LookedUp
<1>4. required' \in Seq(Tokens) /\ ToSet(required) = {walk.start} \cup ToSet(required')
  <2>1. Len(required) \in Nat /\ Len(required) # 0
        /\ DOMAIN required = 1..Len(required)
    BY <1>2
  <2>2. /\ Tail(required) \in Seq(Tokens) /\ Len(Tail(required)) = Len(required) - 1
        /\ DOMAIN Tail(required) = 1..(Len(required) - 1)
        /\ \A i \in 1..(Len(required) - 1) : Tail(required)[i] = required[i + 1]
        /\ Head(required) = required[1]
    BY <1>2, <2>1
  <2>3. ASSUME NEW i \in 1..Len(required)
        PROVE  required[i] = walk.start
               \/ \E j \in 1..(Len(required) - 1) : required[i] = Tail(required)[j]
    <3>1. CASE i = 1
      BY <1>2, <2>2, <3>1
    <3>2. CASE i # 1
      <4>1. i - 1 \in 1..(Len(required) - 1) /\ i = (i - 1) + 1
        BY <2>1, <3>2
      <4> QED
        BY <2>2, <4>1
    <3> QED
      BY <3>1, <3>2
  <2>4. ToSet(required) \subseteq {walk.start} \cup ToSet(Tail(required))
    <3>1. ASSUME NEW x \in ToSet(required) PROVE x \in {walk.start} \cup ToSet(Tail(required))
      <4>1. PICK i \in 1..Len(required) : x = required[i]
        BY <2>1 DEF ToSet
      <4>2. CASE required[i] = walk.start
        BY <4>1, <4>2
      <4>3. CASE \E j \in 1..(Len(required) - 1) : required[i] = Tail(required)[j]
        BY <2>2, <4>1, <4>3 DEF ToSet
      <4> QED
        BY <2>3, <4>2, <4>3
    <3> QED
      BY <3>1
  <2>5. \A i \in 1..(Len(required) - 1) : i + 1 \in 1..Len(required)
    BY <2>1
  <2>6. {walk.start} \cup ToSet(Tail(required)) \subseteq ToSet(required)
    BY <1>2, <2>1, <2>2, <2>5 DEF ToSet
  <2> QED
    BY <1>1, <2>2, <2>4, <2>6
<1>5. /\ ConfigOK' /\ FinalInv' /\ ChainInv' /\ TokensOK'
      /\ Unstyled' = Unstyled /\ \A t : StyleMeant(t)' = StyleMeant(t)
  BY <1>1, LookingKeeps
<1>6. missing' \subseteq Unstyled /\ Unstyled \subseteq missing' \cup ToSet(required')
  <2>1. walk.start \in ToSet(Required)
    BY <1>2, <1>4
  <2>2. walk.start \in Unstyled <=> ~Hit
    BY <1>3, <2>1 DEF Unstyled
  <2> QED
    BY <1>1, <1>2, <1>4, <2>2
<1>7. LookupsAgree'
  BY <1>1, <1>5 DEF ThemeInv, LookInv, LookupsAgree
<1>8. ToSet(required') \subseteq ToSet(Required)
  BY <1>2, <1>4
<1>9. LookInv'
  BY <1>1, <1>4, <1>5, <1>6, <1>7, <1>8 DEF LookInv
<1> QED
  BY <1>5, <1>9 DEF ThemeInv

LEMMA CheckRequirementsKeeps ==
  ASSUME ThemeInv, CheckRequirements
  PROVE  ThemeInv'
<1>1. phase = "require" /\ walk = Nil /\ required = <<>> /\ UNCHANGED config
  BY DEF CheckRequirements
<1>2. CASE missing # {} /\ strict
  <2>1. Fail("requirements")
    BY <1>2 DEF CheckRequirements
  <2> QED
    BY <1>1, <2>1, FailKeeps
<1>3. CASE ~(missing # {} /\ strict)
  <2>1. /\ phase' = "built" /\ walk' = walk
        /\ why' = why /\ resolved' = resolved /\ starts' = starts /\ missing' = missing
        /\ shown' = shown
    BY <1>3 DEF CheckRequirements
  <2>2. ToSet(required) = {}
    BY <1>1 DEF ToSet
  <2>3. missing = Unstyled
    BY <1>1, <2>2 DEF ThemeInv, LookInv
  <2>4. /\ ConfigOK' /\ FinalInv' /\ ChainInv' /\ TokensOK'
        /\ Unstyled' = Unstyled /\ strict' = strict
        /\ \A t : StyleMeant(t)' = StyleMeant(t)
    BY <1>1, <2>1, LookingKeeps
  <2>5. LookupsAgree'
    BY <1>3, <2>1, <2>3, <2>4 DEF ThemeInv, LookInv, LookupsAgree, Unstyled
  <2>6. LookInv'
    BY <1>1, <2>1, <2>4, <2>5 DEF LookInv
  <2> QED
    BY <2>4, <2>6 DEF ThemeInv
<1> QED
  BY <1>2, <1>3

LEMMA LookupStepKeeps ==
  ASSUME ThemeInv, LookupStep
  PROVE  ThemeInv'
<1>1. /\ phase \in {"require", "built"} /\ phase' = phase /\ walk # Nil /\ ~LookupEnds
      /\ walk' = Further(walk)
      /\ why' = why /\ starts' = starts /\ missing' = missing /\ shown' = shown
      /\ required' = required /\ resolved' = resolved /\ UNCHANGED config
  BY DEF LookupStep, Further
<1>2. AliasesOK /\ WalkOK(walk) /\ walk.seen \cap DOMAIN resolved.tokens = {}
  BY <1>1 DEF ThemeInv, ChainInv, LookInv
<1>3. walk.cur # Nil /\ walk.cur \notin walk.seen /\ walk.cur \notin DOMAIN resolved.tokens
  BY <1>1 DEF LookupEnds
<1>4. WalkOK(walk')
  BY <1>1, <1>2, <1>3, WalkGoesOn
<1>5. walk'.seen = walk.seen \cup {walk.cur} /\ walk'.start = walk.start
  BY <1>1, <1>2 DEF Further, WalkOK
<1>6. /\ ConfigOK' /\ FinalInv' /\ ChainInv' /\ TokensOK'
      /\ walk' # Nil => walk'.seen \cap DOMAIN resolved'.tokens = {}
      /\ Unstyled' = Unstyled /\ strict' = strict /\ \A t : StyleMeant(t)' = StyleMeant(t)
  BY <1>1, <1>2, <1>3, <1>4, <1>5, LookingKeeps
<1>7. LookupsAgree'
  BY <1>1, <1>6 DEF ThemeInv, LookInv, LookupsAgree
<1>8. LookInv'
  BY <1>1, <1>5, <1>6, <1>7 DEF ThemeInv, LookInv
<1> QED
  BY <1>6, <1>8 DEF ThemeInv

LEMMA AskStyleKeeps ==
  ASSUME ThemeInv, NEW t \in Tokens, AskStyle(t)
  PROVE  ThemeInv'
<1>1. /\ phase = "built" /\ phase' = phase /\ walk' = LookUp(t)
      /\ why' = why /\ starts' = starts /\ missing' = missing /\ shown' = shown
      /\ resolved' = resolved /\ UNCHANGED config
  BY DEF AskStyle
<1>2. AliasesOK
  BY DEF ThemeInv, ChainInv
<1>3. WalkOK(walk') /\ walk'.seen \cap DOMAIN resolved.tokens = {}
  BY <1>1, <1>2, LookUpBegins
<1>4. /\ ConfigOK' /\ FinalInv' /\ ChainInv' /\ TokensOK'
      /\ walk' # Nil => walk'.seen \cap DOMAIN resolved'.tokens = {}
      /\ strict' = strict /\ \A u : StyleMeant(u)' = StyleMeant(u)
  BY <1>1, <1>3, LookingKeeps
<1>5. LookupsAgree'
  BY <1>1, <1>4 DEF ThemeInv, LookInv, LookupsAgree
<1>6. LookInv'
  BY <1>1, <1>4, <1>5 DEF LookInv
<1> QED
  BY <1>4, <1>6 DEF ThemeInv

LEMMA StyleKeeps ==
  ASSUME ThemeInv, Style
  PROVE  ThemeInv'
<1>1. /\ phase = "built" /\ phase' = phase /\ walk # Nil /\ LookupEnds /\ walk' = Nil
      /\ shown' = [tok |-> walk.start,
                   style |-> IF Hit THEN resolved.tokens[walk.cur] ELSE Nil]
      /\ why' = why /\ starts' = starts /\ missing' = missing
      /\ resolved' = resolved /\ UNCHANGED config
  BY DEF Style
<1>2. shown'.style = StyleMeant(shown'.tok)
  BY <1>1, LookedUp
<1>3. /\ ConfigOK' /\ FinalInv' /\ ChainInv' /\ TokensOK'
      /\ strict' = strict /\ \A t : StyleMeant(t)' = StyleMeant(t)
  BY <1>1, LookingKeeps
<1>4. LookupsAgree'
  BY <1>1, <1>2, <1>3 DEF ThemeInv, LookInv, LookupsAgree
<1>5. LookInv'
  BY <1>1, <1>3, <1>4 DEF LookInv
<1> QED
  BY <1>3, <1>5 DEF ThemeInv

LEMMA FinalizeThemeKeeps ==
  ASSUME ThemeInv, FinalizeTheme
  PROVE  ThemeInv'
BY ValidateChainKeeps, validateAliasChainKeeps, ChainsValidKeeps, AskRequiredKeeps,
   HasTokenKeeps, CheckRequirementsKeeps, LookupStepKeeps, StyleKeeps DEF FinalizeTheme

LEMMA OptionsRefusedKeeps ==
  ASSUME ThemeInv, NEW invalid, OptionsRefused(invalid)
  PROVE  ThemeInv'
BY FailKeeps DEF OptionsRefused

LEMMA ThemeRests ==
  ASSUME ThemeInv, UNCHANGED themeVars
  PROVE  ThemeInv'
<1>1. UNCHANGED config /\ resolved' = resolved /\ phase' = phase /\ why' = why
      /\ walk' = walk /\ starts' = starts /\ missing' = missing /\ shown' = shown
      /\ required' = required /\ recipe' = recipe /\ strict' = strict
  BY DEF themeVars, config
<1>2. ConfigOK' /\ AliasesOK' /\ TokensOK' /\ FinalInv' /\ Unstyled' = Unstyled
  BY <1>1, Settled, FinalKeeps
<1>3. /\ \A t : Cyclic(t)' = Cyclic(t) /\ StyleMeant(t)' = StyleMeant(t)
      /\ \A w : WalkOK(w)' = WalkOK(w)
  BY <1>1, ChainsFixed
<1>4. CyclesRefused' /\ LookupsAgree'
  BY <1>1, <1>3 DEF ThemeInv, ChainInv, LookInv, CyclesRefused, LookupsAgree
<1>5. walk' # Nil => WalkOK(walk)'
  BY <1>1, <1>3 DEF ThemeInv, ChainInv
<1>6. ChainInv'
  BY <1>1, <1>2, <1>3, <1>4, <1>5 DEF ThemeInv, ChainInv
<1>7. LookInv'
  BY <1>1, <1>2, <1>4 DEF ThemeInv, LookInv
<1> QED
  BY <1>2, <1>6, <1>7 DEF ThemeInv

LEMMA NextKeepsTheme ==
  ASSUME ThemeInv, Next
  PROVE  ThemeInv'
<1>1. CASE ThemeStep
  BY <1>1, ApplyOptionKeeps, OptionsRefusedKeeps, FinalizeKeeps, FinalizeThemeKeeps,
     AskStyleKeeps DEF ThemeStep
<1>2. CASE AppOption
  <2>1. NextOption /\ UNCHANGED <<recipe, overrides>>
    BY <1>2 DEF AppOption, RefuseOption
  <2> QED
    BY <2>1, AnOptionKeeps
<1>3. CASE validateUniqueNames \/ registerHelp \/ registerVersion \/ registerCompletion
            \/ registerFlags \/ registerPending \/ validate \/ Execute \/ Hook \/ TheRest
  <2>1. UNCHANGED themeVars
    BY <1>3 DEF validateUniqueNames, registerHelp, registerVersion, registerCompletion,
         registerFlags, registerPending, validate, Execute, Hook, TheRest
  <2> QED
    BY <2>1, ThemeRests
<1> QED
  BY <1>1, <1>2, <1>3 DEF Next

-----------------------------------------------------------------------------
(* Sequences as lists of things.                                            *)

IsSeq(s) == \E S : s \in Seq(S)

\* Two sequences in a row: their elements and lengths.
LEMMA Joined ==
  ASSUME NEW s, NEW r, IsSeq(s), IsSeq(r)
  PROVE  /\ IsSeq(s \o r)
         /\ ToSet(s \o r) = ToSet(s) \cup ToSet(r)
         /\ Len(s \o r) = Len(s) + Len(r) /\ Len(s) \in Nat /\ Len(r) \in Nat
<1>1. PICK S : s \in Seq(S)
  BY DEF IsSeq
<1>2. PICK R : r \in Seq(R)
  BY DEF IsSeq
<1> DEFINE T == S \cup R
           a == s \o r
<1>3. s \in Seq(T) /\ r \in Seq(T)
  BY <1>1, <1>2, SeqMonotonic
<1> HIDE DEF T
<1>4. /\ a \in Seq(T) /\ Len(s) \in Nat /\ Len(r) \in Nat /\ Len(a) = Len(s) + Len(r)
      /\ DOMAIN s = 1..Len(s) /\ DOMAIN r = 1..Len(r) /\ DOMAIN a = 1..(Len(s) + Len(r))
      /\ \A n \in 1..(Len(s) + Len(r)) : a[n] = IF n <= Len(s) THEN s[n] ELSE r[n - Len(s)]
  BY <1>3
<1> HIDE DEF a
<1>5. ASSUME NEW n \in 1..(Len(s) + Len(r)) PROVE a[n] \in ToSet(s) \cup ToSet(r)
  <2>1. CASE n <= Len(s)
    <3>1. n \in 1..Len(s) /\ a[n] = s[n]
      BY <1>4, <2>1
    <3> QED
      BY <1>4, <3>1 DEF ToSet
  <2>2. CASE n > Len(s)
    <3>1. n - Len(s) \in 1..Len(r) /\ a[n] = r[n - Len(s)]
      BY <1>4, <2>2
    <3> QED
      BY <1>4, <3>1 DEF ToSet
  <2> QED
    BY <1>4, <2>1, <2>2
<1>6. ASSUME NEW n \in 1..Len(s) PROVE s[n] \in ToSet(a)
  <2>1. n \in DOMAIN a /\ a[n] = s[n]
    BY <1>4
  <2> QED
    BY <2>1 DEF ToSet
<1>7. ASSUME NEW n \in 1..Len(r) PROVE r[n] \in ToSet(a)
  <2>1. n + Len(s) \in DOMAIN a /\ a[n + Len(s)] = r[n]
    BY <1>4
  <2> QED
    BY <2>1 DEF ToSet
<1>8. ToSet(a) = ToSet(s) \cup ToSet(r)
  <2>1. ToSet(a) \subseteq ToSet(s) \cup ToSet(r)
    BY <1>4, <1>5 DEF ToSet
  <2>2. ToSet(s) \subseteq ToSet(a) /\ ToSet(r) \subseteq ToSet(a)
    BY <1>4, <1>6, <1>7 DEF ToSet
  <2> QED
    BY <2>1, <2>2
<1>9. IsSeq(a)
  BY <1>4 DEF IsSeq
<1> QED
  BY <1>4, <1>8, <1>9 DEF a

\* A sequence of one.
LEMMA OneOf ==
  ASSUME NEW x
  PROVE  IsSeq(<<x>>) /\ ToSet(<<x>>) = {x} /\ Len(<<x>>) = 1
<1>1. <<x>> \in Seq({x})
  OBVIOUS
<1>2. IsSeq(<<x>>)
  BY <1>1 DEF IsSeq
<1>3. Len(<<x>>) = 1 /\ DOMAIN <<x>> = {1} /\ <<x>>[1] = x
  OBVIOUS
<1>4. ToSet(<<x>>) = {x}
  BY <1>3, Zenon DEF ToSet
<1> QED
  BY <1>2, <1>3, <1>4

\* A sequence of none.
LEMMA NoneOf == IsSeq(<<>>) /\ ToSet(<<>>) = {} /\ Len(<<>>) = 0
<1>1. <<>> \in Seq({})
  OBVIOUS
<1> QED
  BY <1>1 DEF IsSeq, ToSet

\* A sequence and one more.
LEMMA Appended ==
  ASSUME NEW s, NEW x, IsSeq(s)
  PROVE  /\ IsSeq(Append(s, x))
         /\ ToSet(Append(s, x)) = ToSet(s) \cup {x}
         /\ Len(Append(s, x)) = Len(s) + 1 /\ Len(s) \in Nat
<1>1. PICK S : s \in Seq(S)
  BY DEF IsSeq
<1>2. s \in Seq(S \cup {x})
  BY <1>1, SeqMonotonic
<1>3. Append(s, x) = s \o <<x>>
  BY <1>2, AppendIsConcat
<1> QED
  BY <1>3, Joined, OneOf

\* No more names than flags.
LEMMA NamesFit ==
  ASSUME NEW fs, IsSeq(fs)
  PROVE  /\ IsFiniteSet(Names(ToSet(fs)))
         /\ Cardinality(Names(ToSet(fs))) \in Nat
         /\ Cardinality(Names(ToSet(fs))) <= Len(fs) /\ Len(fs) \in Nat
<1>1. Len(fs) \in Nat /\ DOMAIN fs = 1..Len(fs)
  BY DEF IsSeq
<1> DEFINE g == [i \in 1..Len(fs) |-> fs[i].name]
           N == Names(ToSet(fs))
<1>2. N = {fs[i].name : i \in 1..Len(fs)}
  BY <1>1 DEF Names, ToSet
<1>3. g \in Surjection(1..Len(fs), N)
  BY <1>2 DEF Surjection
<1>4. IsFiniteSet(1..Len(fs)) /\ Cardinality(1..Len(fs)) = Len(fs)
  <2>1. /\ IsFiniteSet(1..Len(fs))
        /\ Cardinality(1..Len(fs)) = IF 1 > Len(fs) THEN 0 ELSE Len(fs) - 1 + 1
    BY <1>1, FS_Interval
  <2> QED
    BY <1>1, <2>1
<1> HIDE DEF g, N
<1>5. IsFiniteSet(N) /\ Cardinality(N) <= Len(fs)
  BY <1>3, <1>4, FS_Surjection
<1>6. Cardinality(N) \in Nat
  BY <1>5, FS_CardinalityType
<1> QED
  BY <1>1, <1>5, <1>6 DEF N

-----------------------------------------------------------------------------
(* The flags.                                                               *)

Clash(f, g) == f # g /\ (f.name = g.name \/ (f.short = g.short /\ f.short # Nil))

\* Flags that clash are the user's.
ClashInv == \A f, g \in ToSet(flags) : Clash(f, g) => f.ours = FALSE /\ g.ours = FALSE

\* A flag of ours has the hook that answers it.
OursInv ==
  \A f \in ToSet(flags) :
    \/ f.ours = FALSE
    \/ f.ours = TRUE /\ f.persistent = TRUE /\ "help" \in ToSet(hooks)
    \/ f.ours = TRUE /\ f.persistent = FALSE /\ "version" \in ToSet(hooks)

UniqueInv ==
  Cardinality(Names(ToSet(flags))) = Len(flags) /\ Names(ToSet(flags)) \cap args = {}

FlagsInv ==
  /\ IsSeq(flags)
  /\ ClashInv
  /\ OursInv
  /\ stage \notin {"validateUniqueNames", "failed"} => UniqueInv

\* fs could be the flags: no names twice, and no clash but one of before.
Fit(fs) ==
  /\ IsSeq(fs)
  /\ Cardinality(Names(ToSet(fs))) = Len(fs) /\ Names(ToSet(fs)) \cap args = {}
  /\ \A g, h \in ToSet(fs) : Clash(g, h) => {g, h} \subseteq ToSet(flags)

\* One more flag that collides with none.
LEMMA FlagFits ==
  ASSUME NEW fs, Fit(fs),
         NEW f, f.name \notin Names(ToSet(fs)) \cup args,
         f.short # Nil => \A g \in ToSet(fs) : g.short # f.short
  PROVE  Fit(Append(fs, f)) /\ ToSet(Append(fs, f)) = ToSet(fs) \cup {f}
<1> DEFINE gs == Append(fs, f)
<1>1. IsSeq(gs) /\ ToSet(gs) = ToSet(fs) \cup {f} /\ Len(gs) = Len(fs) + 1
  BY Appended DEF Fit
<1> HIDE DEF gs
<1>2. Names(ToSet(gs)) = Names(ToSet(fs)) \cup {f.name}
  BY <1>1 DEF Names
<1>3. Cardinality(Names(ToSet(gs))) = Len(fs) + 1
  <2>1. IsFiniteSet(Names(ToSet(fs))) /\ Cardinality(Names(ToSet(fs))) = Len(fs)
    BY NamesFit DEF Fit
  <2> QED
    BY <1>2, <2>1, FS_AddElement
<1>4. ASSUME NEW g \in ToSet(fs) PROVE ~Clash(f, g) /\ ~Clash(g, f)
  <2>1. g.name # f.name
    BY DEF Names
  <2> QED
    BY <2>1 DEF Clash
<1>5. ~Clash(f, f)
  BY DEF Clash
<1>6. \A g, h \in ToSet(gs) : Clash(g, h) => {g, h} \subseteq ToSet(flags)
  BY <1>1, <1>4, <1>5 DEF Fit
<1>7. Names(ToSet(gs)) \cap args = {}
  BY <1>2 DEF Fit
<1>8. Fit(gs)
  BY <1>1, <1>3, <1>6, <1>7 DEF Fit
<1> QED
  BY <1>1, <1>8 DEF gs

-----------------------------------------------------------------------------
(* The invariant of the rest of New and of a run.                           *)

SettingsInv ==
  /\ version # Nil => ~VersionInvalid(version)
  /\ IsSeq(pending) /\ \A c \in ToSet(pending) : \A f \in c.flags : f.ours = FALSE

\* Nothing is registered before the theme is resolved, and no run begins
\* before New has returned.
StageInv ==
  /\ stage # "validateUniqueNames" => phase = "built"
  /\ stage \in {"validateUniqueNames", "registerHelp"} =>
       hooks = <<>> /\ children = <<>> /\ \A f \in ToSet(flags) : f.ours = FALSE
  /\ stage = "registerVersion" => hooks \in {<<>>, <<"help">>}
  /\ hooks \in {<<>>, <<"help">>, <<"version">>, <<"help", "version">>}
  /\ run # Nil => stage = "returned"

\* The flags of the commands are the user's or take a value.
ChildInv ==
  /\ IsSeq(children)
  /\ \A c \in ToSet(children) : \A f \in c.flags : f.ours = FALSE \/ f.bool = FALSE

HasVersion ==
  \/ \E f \in ToSet(flags) : f.ours = TRUE /\ f.name = version.flag /\ f.persistent = FALSE
  \/ \E c \in ToSet(children) : c.ours = TRUE /\ c.name = version.command

VersionAdded == {"registerCompletion", "registerFlags", "registerPending", "validate", "returned"}

TooWide(fs) == \E f \in fs : f.short \in MultiByte

EndInv ==
  /\ stage \in VersionAdded /\ version # Nil => HasVersion
  /\ stage = "panicked" => SameIn(Users) \/ TooWide(ToSet(flags))
  /\ stage = "returned" => IsInjective(ChildNames)

HookAsked(h) ==
  IF h = "help" THEN help.name # Nil /\ {help.name, "help"} \cap run.given # {}
                ELSE version.flag \in run.given

\* The hooks before the one the run is at were asked for nothing.
Passed == \A i \in 1..Len(hooks) : i < run.next => ~HookAsked(hooks[i])

Parsed == ParsedTo(run.flags, run.given, run.lacks)

OutcomeInv ==
  \/ Parsed # "hooks" /\ run.outcome = Parsed
  \/ /\ Parsed = "hooks" /\ run.next \in 1..(Len(hooks) + 1) /\ Passed
     /\ \/ run.outcome = "hooks"
        \/ /\ run.outcome \in {"help", "version"}
           /\ run.next <= Len(hooks) /\ hooks[run.next] = run.outcome
           /\ HookAsked(run.outcome)
        \/ run.outcome = "handler" /\ run.next > Len(hooks)

RunInv ==
  run # Nil =>
    /\ DOMAIN run = {"root", "flags", "given", "lacks", "next", "outcome"}
    /\ \A f \in run.flags : f.ours = FALSE \/ f.bool = FALSE \/ f \in ToSet(flags)
    /\ run.given \subseteq Names({f \in run.flags : f.bool})
    /\ run.root => run.flags = Merged(ToSet(flags), {})
    /\ OutcomeInv

AppInv == SettingsInv /\ StageInv /\ FlagsInv /\ ChildInv /\ EndInv /\ RunInv

\* What clashes are flags of the user's.
LEMMA ClashesAreUsers ==
  ASSUME FlagsInv, NEW fs \in SUBSET ToSet(flags), SameIn(fs)
  PROVE  SameIn(Users)
<1>1. PICK f \in fs, g \in fs : Clash(f, g)
  BY DEF SameIn, Clash
<1>2. f.ours = FALSE /\ g.ours = FALSE
  BY <1>1 DEF FlagsInv, ClashInv
<1>3. f \in Users /\ g \in Users
  BY <1>2 DEF Users
<1> QED
  BY <1>1, <1>3 DEF SameIn, Clash

\* The invariant gives BuiltinsFit.
LEMMA FitsHolds ==
  ASSUME AppInv
  PROVE  BuiltinsFit
<1> USE DEF AppInv
<1>1. ASSUME run # Nil, run.root, run.outcome = "panic"
      PROVE  \/ SameIn(Users)
             \/ CobraHelp \in run.flags /\ \E f \in ToSet(flags) : f.short = "h"
  <2>1. Parsed = "panic" /\ run.flags = Merged(ToSet(flags), {})
    BY <1>1 DEF RunInv, OutcomeInv
  <2>2. SameIn(ToSet(flags)) \/ SameIn(run.flags)
    BY <2>1 DEF Parsed, ParsedTo
  <2>3. CASE SameIn(ToSet(flags))
    BY <2>3, ClashesAreUsers
  <2>4. CASE SameIn(run.flags) /\ ~SameIn(ToSet(flags))
    <3>1. run.flags \subseteq ToSet(flags) \cup {CobraHelp}
      BY <2>1 DEF Merged, Merge
    <3>2. PICK f \in run.flags, g \in run.flags : Clash(f, g)
      BY <2>4 DEF SameIn, Clash
    <3>3. ~(f \in ToSet(flags) /\ g \in ToSet(flags))
      BY <2>4, <3>2 DEF SameIn, Clash
    <3>4. CobraHelp \in run.flags /\ CobraHelp \notin ToSet(flags)
      BY <3>1, <3>2, <3>3 DEF Clash
    <3>5. \A h \in ToSet(flags) : h.name # "help"
      BY <2>1, <3>4 DEF Merged, Merge, Names, CobraHelp
    <3>6. \E h \in ToSet(flags) : Clash(CobraHelp, h)
      BY <3>1, <3>2, <3>3 DEF Clash
    <3>7. \E h \in ToSet(flags) : h.short = "h"
      BY <3>5, <3>6 DEF Clash, CobraHelp
    <3> QED
      BY <3>4, <3>7
  <2> QED
    BY <2>2, <2>3, <2>4
<1>2. ASSUME stage = "returned", version # Nil
      PROVE  \/ \E f \in ToSet(flags) : f.ours /\ f.name = version.flag /\ ~f.persistent
             \/ \E c \in ToSet(children) : c.ours /\ c.name = version.command
  BY <1>2 DEF EndInv, VersionAdded, HasVersion
<1>3. stage = "returned" => IsInjective(ChildNames) /\ UniqueInv
  BY DEF EndInv, FlagsInv
<1>4. stage = "panicked" => SameIn(Users) \/ \E f \in ToSet(flags) : f.short \in MultiByte
  BY DEF EndInv, TooWide
<1> QED
  BY <1>1, <1>2, <1>3, <1>4 DEF BuiltinsFit, UniqueInv

\* Once pflag has taken the flags of a command, a name that is given is the
\* name of one flag, and a flag of ours is there by that name with its hook.
LEMMA GivenIsOne ==
  ASSUME AppInv, run # Nil, ~SameIn(run.flags), NEW name
  PROVE  /\ name \in run.given => ~NoBool(run.flags, name)
         /\ Asked(name, TRUE) => "help" \in ToSet(hooks)
         /\ Asked(name, FALSE) => "version" \in ToSet(hooks)
<1>1. ASSUME NEW f \in run.flags, f.name = name, name \in run.given
      PROVE  f.bool
  <2>1. PICK g \in run.flags : g.bool /\ g.name = name
    BY <1>1 DEF AppInv, RunInv, Names
  <2>2. f = g
    BY <1>1, <2>1 DEF SameIn
  <2> QED
    BY <2>1, <2>2
<1>2. ASSUME NEW p \in BOOLEAN, Asked(name, p)
      PROVE  \E f \in ToSet(flags) : f.ours /\ f.persistent = p
  <2>1. PICK f \in run.flags : f.name = name /\ f.ours /\ f.persistent = p
    BY <1>2 DEF Asked
  <2>2. name \in run.given /\ f.bool
    BY <1>1, <1>2, <2>1 DEF Asked
  <2>3. f \in ToSet(flags)
    BY <2>1, <2>2 DEF AppInv, RunInv
  <2> QED
    BY <2>1, <2>3
<1>3. name \in run.given => ~NoBool(run.flags, name)
  BY <1>1 DEF NoBool
<1>4. Asked(name, TRUE) => "help" \in ToSet(hooks)
  BY <1>2 DEF AppInv, FlagsInv, OursInv
<1>5. Asked(name, FALSE) => "version" \in ToSet(hooks)
  BY <1>2 DEF AppInv, FlagsInv, OursInv
<1> QED
  BY <1>3, <1>4, <1>5

\* Help is the first hook where it is one.
LEMMA HooksInOrder ==
  ASSUME AppInv
  PROVE  /\ Len(hooks) \in 0..2
         /\ "help" \in ToSet(hooks) => 1 <= Len(hooks) /\ hooks[1] = "help"
         /\ "version" \in ToSet(hooks) => \E i \in 1..Len(hooks) : hooks[i] = "version"
         /\ \A i \in 1..Len(hooks) : hooks[i] \in {"help", "version"}
         /\ \A i \in 1..Len(hooks) : hooks[i] = "help" => i = 1
<1>1. hooks \in {<<>>, <<"help">>, <<"version">>, <<"help", "version">>}
  BY DEF AppInv, StageInv
<1> QED
  BY <1>1 DEF ToSet

\* The invariant gives BuiltinsAnswer.
LEMMA AnswersHold ==
  ASSUME AppInv
  PROVE  BuiltinsAnswer
<1> DEFINE helped == help.name # Nil /\ (Asked(help.name, TRUE) \/ Asked("help", TRUE))
           versioned == version # Nil /\ Asked(version.flag, FALSE)
           lost == run.lacks \/ NoBool(run.flags, "help")
           wanted == {help.name, "help"} \cap run.given # {}
<1> SUFFICES ASSUME run # Nil, run.outcome \notin {"hooks", "panic"}
             PROVE  /\ helped => run.outcome = IF lost /\ "help" \notin run.given
                                                 THEN "refused" ELSE "help"
                    /\ versioned /\ ~wanted =>
                         run.outcome = IF lost THEN "refused" ELSE "version"
                    /\ run.outcome = "help" => wanted
                    /\ run.outcome = "version" => version.flag \in run.given
  BY DEF BuiltinsAnswer
<1>1. Parsed # "panic" /\ OutcomeInv
  BY DEF AppInv, RunInv, OutcomeInv
<1>2. ~SameIn(run.flags)
  BY <1>1 DEF Parsed, ParsedTo
<1>3. Parsed = IF NoBool(run.flags, "help") THEN "refused"
               ELSE IF "help" \in run.given THEN "help"
               ELSE IF run.lacks THEN "refused" ELSE "hooks"
  BY <1>1 DEF Parsed, ParsedTo
<1>4. "help" \in run.given => ~NoBool(run.flags, "help")
  BY <1>2, GivenIsOne
<1>5. helped => wanted /\ "help" \in ToSet(hooks)
  BY <1>2, GivenIsOne DEF Asked
<1>6. versioned => version.flag \in run.given /\ "version" \in ToSet(hooks)
  BY <1>2, GivenIsOne DEF Asked
<1>7. HookAsked("help") <=> help.name # Nil /\ wanted
  BY DEF HookAsked
<1>8. HookAsked("version") <=> version.flag \in run.given
  BY DEF HookAsked
<1> HIDE DEF wanted
<1>9. CASE Parsed # "hooks"
  <2>1. "help" \notin run.given => lost
    BY <1>3, <1>9
  <2>2. run.outcome = Parsed
    BY <1>9, <1>1 DEF OutcomeInv
  <2>3. run.outcome = IF lost /\ "help" \notin run.given THEN "refused" ELSE "help"
    BY <1>3, <1>4, <1>9, <2>2
  <2>4. "help" \in run.given => wanted
    BY DEF wanted
  <2>5. run.outcome \in {"refused", "help"}
    BY <2>3
  <2>6. run.outcome = "help" => wanted
    BY <2>1, <2>3, <2>4
  <2>7. ~wanted => run.outcome = "refused" /\ lost
    BY <2>1, <2>3, <2>4
  <2>8. helped => run.outcome = IF lost /\ "help" \notin run.given THEN "refused" ELSE "help"
    BY <2>3
  <2> HIDE DEF lost, helped
  <2> QED
    BY <2>5, <2>6, <2>7, <2>8
<1>10. CASE Parsed = "hooks"
  <2>1. ~lost /\ "help" \notin run.given
    BY <1>3, <1>10
  <2>2. run.next \in 1..(Len(hooks) + 1) /\ Passed
    BY <1>1, <1>10 DEF OutcomeInv
  <2>3. \/ /\ run.outcome \in {"help", "version"}
           /\ run.next <= Len(hooks) /\ hooks[run.next] = run.outcome
           /\ HookAsked(run.outcome)
        \/ run.outcome = "handler" /\ run.next > Len(hooks)
    BY <1>1, <1>10 DEF OutcomeInv
  <2>4. ASSUME helped PROVE run.outcome = "help"
    <3>1. 1 <= Len(hooks) /\ hooks[1] = "help" /\ HookAsked("help")
      BY <1>5, <1>7, <2>4, HooksInOrder
    <3>2. Len(hooks) \in Nat
      BY HooksInOrder
    <3>3. ~(1 < run.next)
      BY <2>2, <3>1, <3>2 DEF Passed
    <3>4. run.next = 1
      BY <2>2, <3>2, <3>3
    <3> QED
      BY <2>3, <3>1, <3>4
  <2>5. ASSUME versioned, ~wanted PROVE run.outcome = "version"
    <3>1. PICK i \in 1..Len(hooks) : hooks[i] = "version"
      BY <1>6, <2>5, HooksInOrder
    <3>2. Len(hooks) \in Nat /\ HookAsked("version")
      BY <1>6, <1>8, <2>5, HooksInOrder
    <3>3. ~(i < run.next)
      BY <2>2, <3>1, <3>2 DEF Passed
    <3>4. run.outcome # "handler"
      BY <2>2, <2>3, <3>2, <3>3
    <3>5. run.outcome # "help"
      BY <1>7, <2>3, <2>5
    <3> QED
      BY <2>3, <3>4, <3>5
  <2> QED
    BY <1>7, <1>8, <2>1, <2>3, <2>4, <2>5
<1> QED
  BY <1>9, <1>10

LEMMA AppInitInv ==
  ASSUME Init
  PROVE  AppInv
<1>1. /\ flags = <<>> /\ pending = <<>> /\ children = <<>> /\ hooks = <<>> /\ version = Nil
      /\ stage = "validateUniqueNames" /\ run = Nil
  BY DEF Init
<1>2. IsSeq(<<>>) /\ ToSet(<<>>) = {}
  BY NoneOf
<1>3. SettingsInv /\ ChildInv /\ EndInv /\ RunInv
  BY <1>1, <1>2 DEF SettingsInv, ChildInv, EndInv, RunInv, VersionAdded
<1>4. FlagsInv
  BY <1>1, <1>2 DEF FlagsInv, ClashInv, OursInv
<1>5. StageInv
  BY <1>1, <1>2 DEF StageInv
<1> QED
  BY <1>3, <1>4, <1>5 DEF AppInv

\* What the parts of the invariant are about.
LEMMA RunStays ==
  ASSUME RunInv, UNCHANGED <<flags, help, version, hooks, run>>
  PROVE  RunInv'
<1>1. flags' = flags /\ help' = help /\ version' = version /\ hooks' = hooks /\ run' = run
  OBVIOUS
<1>2. \A h : HookAsked(h)' = HookAsked(h)
  BY <1>1 DEF HookAsked
<1>3. Passed' = Passed
  BY <1>1, <1>2 DEF Passed
<1>4. Parsed' = Parsed
  BY <1>1 DEF Parsed, ParsedTo
<1>5. OutcomeInv' = OutcomeInv
  BY <1>1, <1>2, <1>3, <1>4 DEF OutcomeInv
<1> QED
  BY <1>1, <1>5 DEF RunInv

\* The flags' part of the invariant while the flags stay.
LEMMA FlagsStay ==
  ASSUME FlagsInv, UNCHANGED <<flags, args, hooks>>,
         stage' \notin {"validateUniqueNames", "failed"} => UniqueInv
  PROVE  FlagsInv'
<1>1. flags' = flags /\ args' = args /\ hooks' = hooks
  OBVIOUS
<1>2. ClashInv' /\ OursInv' /\ UniqueInv' = UniqueInv
  BY <1>1 DEF FlagsInv, ClashInv, OursInv, UniqueInv
<1> QED
  BY <1>1, <1>2 DEF FlagsInv

\* No part of the invariant is about the theme but that it has been resolved.
LEMMA AppRests ==
  ASSUME AppInv, UNCHANGED <<settings, built, run>>, phase = "built" => phase' = "built"
  PROVE  AppInv'
<1>1. /\ help' = help /\ version' = version /\ flags' = flags /\ args' = args
      /\ pending' = pending /\ children' = children /\ hooks' = hooks /\ stage' = stage
      /\ run' = run
  BY DEF settings, built
<1>2. SettingsInv'
  BY <1>1 DEF AppInv, SettingsInv
<1>3. StageInv'
  BY <1>1 DEF AppInv, StageInv
<1>4. FlagsInv'
  BY <1>1, FlagsStay DEF AppInv, FlagsInv
<1>5. ChildInv'
  BY <1>1 DEF AppInv, ChildInv
<1>6. EndInv'
  <2>1. HasVersion' = HasVersion /\ Users' = Users /\ ChildNames' = ChildNames
    BY <1>1 DEF HasVersion, Users, ChildNames
  <2> QED
    BY <1>1, <2>1 DEF AppInv, EndInv
<1>7. RunInv'
  BY <1>1, RunStays DEF AppInv
<1> QED
  BY <1>2, <1>3, <1>4, <1>5, <1>6, <1>7 DEF AppInv

LEMMA ThemeStepRests ==
  ASSUME AppInv, ThemeStep
  PROVE  AppInv'
<1>1. UNCHANGED <<settings, built, run>>
  BY DEF ThemeStep
<1>2. phase = "built" => phase' = "built"
  BY DEF ThemeStep, ApplyOption, NextOption, OptionsRefused, Finalize, FinalizeTheme,
         ValidateChain, validateAliasChain, ChainsValid, AskRequired, HasToken,
         CheckRequirements, LookupStep, Style, AskStyle
<1> QED
  BY <1>1, <1>2, AppRests

LEMMA AppOptionKeepsApp ==
  ASSUME AppInv, ConfigOK, AppOption
  PROVE  AppInv'
<1> DEFINE o == Head(opts)
<1>1. /\ phase = "options" /\ phase' = phase /\ opts # <<>>
      /\ children' = children /\ hooks' = hooks /\ stage' = stage /\ run' = run
      /\ (UNCHANGED settings \/ (~Refused(o) /\ Take(o)))
  BY DEF AppOption, NextOption, built
<1>2. o \in Option
  BY <1>1 DEF ConfigOK
<1> HIDE DEF o
<1>3. CASE UNCHANGED settings
  BY <1>1, <1>3, AppRests DEF built
<1>4. CASE ~Refused(o) /\ Take(o)
  <2>1. /\ stage = "validateUniqueNames" /\ run = Nil /\ hooks = <<>> /\ children = <<>>
        /\ \A f \in ToSet(flags) : f.ours = FALSE
    BY <1>1 DEF AppInv, StageInv
  <2>2. IsSeq(flags') /\ \A f \in ToSet(flags') : f.ours = FALSE
    <3>1. CASE o.kind = "flag"
      <4>1. flags' = Append(flags, o.arg) /\ o.arg.ours = FALSE /\ IsSeq(flags)
        BY <1>2, <1>4, <3>1, OptionsAssumption DEF Take, AppInv, FlagsInv
      <4>2. IsSeq(flags') /\ ToSet(flags') = ToSet(flags) \cup {o.arg}
        BY <4>1, Appended
      <4> QED
        BY <2>1, <4>1, <4>2
    <3>2. CASE o.kind # "flag"
      BY <1>4, <2>1, <3>2 DEF Take, AppInv, FlagsInv
    <3> QED
      BY <3>1, <3>2
  <2>3. IsSeq(pending') /\ \A c \in ToSet(pending') : \A f \in c.flags : f.ours = FALSE
    <3>1. CASE o.kind = "command"
      <4>1. /\ pending' = Append(pending, o.arg) /\ IsSeq(pending)
            /\ \A f \in o.arg.flags : f.ours = FALSE
        BY <1>2, <1>4, <3>1, OptionsAssumption DEF Take, AppInv, SettingsInv
      <4>2. IsSeq(pending') /\ ToSet(pending') = ToSet(pending) \cup {o.arg}
        BY <4>1, Appended
      <4> QED
        BY <4>1, <4>2 DEF AppInv, SettingsInv
    <3>2. CASE o.kind # "command"
      BY <1>4, <3>2 DEF Take, AppInv, SettingsInv
    <3> QED
      BY <3>1, <3>2
  <2>4. version' # Nil => ~VersionInvalid(version')
    <3>1. CASE o.kind = "version"
      BY <1>4, <3>1 DEF Take, Refused, VersionRefused
    <3>2. CASE o.kind # "version"
      BY <1>4, <3>2 DEF Take, AppInv, SettingsInv
    <3> QED
      BY <3>1, <3>2
  <2>5. VersionInvalid(version)' = VersionInvalid(version')
    BY DEF VersionInvalid
  <2>6. SettingsInv'
    BY <2>3, <2>4, <2>5 DEF SettingsInv
  <2>7. StageInv'
    BY <1>1, <2>1, <2>2 DEF StageInv
  <2>8. FlagsInv'
    BY <1>1, <2>1, <2>2 DEF FlagsInv, ClashInv, OursInv
  <2>9. ChildInv' /\ EndInv' /\ RunInv'
    BY <1>1, <2>1 DEF AppInv, ChildInv, EndInv, RunInv, VersionAdded
  <2> QED
    BY <2>6, <2>7, <2>8, <2>9 DEF AppInv
<1> QED
  BY <1>1, <1>3, <1>4

-----------------------------------------------------------------------------
(* New, a call at a time.                                                   *)

LEMMA validateUniqueNamesKeeps ==
  ASSUME AppInv, validateUniqueNames
  PROVE  AppInv'
<1>1. /\ phase = "built" /\ phase' = phase /\ stage = "validateUniqueNames"
      /\ help' = help /\ version' = version /\ flags' = flags /\ args' = args
      /\ pending' = pending /\ children' = children /\ hooks' = hooks /\ run' = run
  BY DEF validateUniqueNames, Registering, themeVars, settings
<1>2. run = Nil /\ hooks = <<>> /\ children = <<>> /\ stage' \in {"failed", "registerHelp"}
  BY <1>1 DEF validateUniqueNames, AppInv, StageInv
<1>3. stage' # "failed" => UniqueInv
  <2>1. ASSUME stage' # "failed"
        PROVE  /\ ~(Cardinality(Names(ToSet(flags))) < Len(flags))
               /\ Names(ToSet(flags)) \cap args = {}
    BY <2>1 DEF validateUniqueNames
  <2>2. /\ Cardinality(Names(ToSet(flags))) \in Nat /\ Len(flags) \in Nat
        /\ Cardinality(Names(ToSet(flags))) <= Len(flags)
    BY NamesFit DEF AppInv, FlagsInv
  <2> QED
    BY <2>1, <2>2 DEF UniqueInv
<1>4. FlagsInv'
  BY <1>1, <1>3, FlagsStay DEF AppInv
<1>5. SettingsInv' /\ ChildInv'
  BY <1>1 DEF AppInv, SettingsInv, ChildInv
<1>6. StageInv'
  BY <1>1, <1>2 DEF AppInv, StageInv
<1>7. EndInv' /\ RunInv'
  BY <1>1, <1>2 DEF EndInv, RunInv, VersionAdded
<1> QED
  BY <1>4, <1>5, <1>6, <1>7 DEF AppInv

\* Flags of ours that fit, and the hooks that answer them, join the others.
LEMMA FlagsJoin ==
  ASSUME FlagsInv, Fit(flags'), args' = args, ToSet(hooks) \subseteq ToSet(hooks'),
         ToSet(flags) \subseteq ToSet(flags'),
         \A f \in ToSet(flags') \ ToSet(flags) :
           /\ f.ours = TRUE
           /\ \/ f.persistent = TRUE /\ "help" \in ToSet(hooks')
              \/ f.persistent = FALSE /\ "version" \in ToSet(hooks')
  PROVE  FlagsInv' /\ UniqueInv'
<1>1. UniqueInv'
  BY DEF UniqueInv, Fit
<1>2. ClashInv'
  BY DEF ClashInv, FlagsInv, Fit
<1>3. OursInv'
  BY DEF OursInv, FlagsInv
<1>4. IsSeq(flags')
  BY DEF Fit
<1> QED
  BY <1>1, <1>2, <1>3, <1>4 DEF FlagsInv

\* The flags of before fit.
LEMMA FlagsFitNow ==
  ASSUME FlagsInv, UniqueInv
  PROVE  Fit(flags)
BY DEF FlagsInv, UniqueInv, Fit

LEMMA registerHelpKeeps ==
  ASSUME AppInv, registerHelp
  PROVE  AppInv'
<1>1. /\ phase = "built" /\ phase' = phase /\ stage = "registerHelp"
      /\ help' = help /\ version' = version /\ args' = args
      /\ pending' = pending /\ children' = children /\ run' = run
  BY DEF registerHelp, Registering, themeVars
<1>2. /\ run = Nil /\ hooks = <<>> /\ children = <<>> /\ IsSeq(flags)
      /\ FlagsInv /\ UniqueInv
  BY <1>1 DEF AppInv, StageInv, FlagsInv
<1>3. /\ stage' \in {"failed", "registerVersion"} /\ hooks' \in {<<>>, <<"help">>}
      /\ FlagsInv' /\ UniqueInv'
  <2>1. CASE UNCHANGED <<flags, hooks>> /\ stage' \in {"failed", "registerVersion"}
    <3>1. FlagsInv' /\ UniqueInv' = UniqueInv
      BY <1>1, <1>2, <2>1, FlagsStay DEF UniqueInv
    <3> QED
      BY <1>2, <2>1, <3>1
  <2>2. CASE /\ ~\E f \in ToSet(HelpFlags) : Collides(f.name, f.short)
             /\ flags' = flags \o HelpFlags /\ OnPreRun("help")
             /\ stage' = "registerVersion"
    <3> DEFINE A == Ours(help.name, help.short, TRUE, TRUE)
               B == Ours("help", Nil, TRUE, TRUE)
    <3>1. hooks' = <<"help">> /\ ToSet(hooks') = {"help"} /\ ToSet(hooks) = {}
      <4>1. hooks' = <<"help">>
        BY <1>2, <2>2 DEF OnPreRun
      <4> QED
        BY <1>2, <4>1, OneOf, NoneOf
    <3>2. A.name = help.name /\ A.short = help.short /\ A.ours = TRUE /\ A.persistent = TRUE
      BY DEF Ours
    <3>3. B.name = "help" /\ B.short = Nil /\ B.ours = TRUE /\ B.persistent = TRUE
      BY DEF Ours
    <3> HIDE DEF A, B
    <3>4. Fit(flags)
      BY <1>2, FlagsFitNow
    <3>5. Fit(flags') /\ ToSet(flags') \subseteq ToSet(flags) \cup {A, B}
          /\ ToSet(flags) \subseteq ToSet(flags')
      <4>1. CASE help.name = Nil
        <5>1. HelpFlags = <<>>
          BY <4>1 DEF HelpFlags
        <5>2. flags' = flags
          <6>1. PICK S : flags \in Seq(S)
            BY <1>2 DEF IsSeq
          <6> QED
            BY <2>2, <5>1, <6>1
        <5> QED
          BY <3>4, <5>2
      <4>2. CASE help.name # Nil
        <5>1. HelpFlags = <<A>> \o IF help.name = "help" THEN <<>> ELSE <<B>>
          BY <4>2 DEF HelpFlags, A, B
        <5>2. A \in ToSet(HelpFlags) /\ (help.name # "help" => B \in ToSet(HelpFlags))
          <6>1. CASE help.name = "help"
            <7>1. HelpFlags = <<A>> \o <<>>
              BY <5>1, <6>1
            <7>2. ToSet(HelpFlags) = ToSet(<<A>>) \cup ToSet(<<>>)
              BY <7>1, Joined, OneOf, NoneOf
            <7> QED
              BY <6>1, <7>2, OneOf
          <6>2. CASE help.name # "help"
            <7>1. HelpFlags = <<A>> \o <<B>>
              BY <5>1, <6>2
            <7>2. ToSet(HelpFlags) = ToSet(<<A>>) \cup ToSet(<<B>>)
              BY <7>1, Joined, OneOf
            <7> QED
              BY <7>2, OneOf
          <6> QED
            BY <6>1, <6>2
        <5>3. ~Collides(A.name, A.short)
          BY <2>2, <5>2
        <5>4. Fit(Append(flags, A)) /\ ToSet(Append(flags, A)) = ToSet(flags) \cup {A}
          BY <3>4, <5>3, FlagFits DEF Collides
        <5>5. CASE help.name = "help"
          <6>1. flags' = Append(flags, A)
            <7>1. PICK S : flags \in Seq(S)
              BY <1>2 DEF IsSeq
            <7>2. HelpFlags = <<A>>
              BY <5>1, <5>5
            <7> QED
              BY <2>2, <7>1, <7>2, AppendIsConcat
          <6> QED
            BY <5>4, <6>1
        <5>6. CASE help.name # "help"
          <6> DEFINE fs == Append(flags, A)
          <6>1. flags' = Append(fs, B)
            <7>1. PICK S : flags \in Seq(S)
              BY <1>2 DEF IsSeq
            <7>2. HelpFlags = <<A>> \o <<B>>
              BY <5>1, <5>6
            <7>3. flags \in Seq(S \cup {A, B})
              BY <7>1, SeqMonotonic
            <7> QED
              <8>1. /\ Append(flags, A) \in Seq(S \cup {A, B})
                    /\ Append(flags, A) = flags \o <<A>>
                BY <7>3, AppendIsConcat
              <8>2. Append(fs, B) = (flags \o <<A>>) \o <<B>>
                BY <8>1, AppendIsConcat
              <8>3. <<A>> \in Seq(S \cup {A, B}) /\ <<B>> \in Seq(S \cup {A, B})
                OBVIOUS
              <8>4. (flags \o <<A>>) \o <<B>> = flags \o (<<A>> \o <<B>>)
                BY <7>3, <8>3, ConcatAssociative
              <8> QED
                BY <2>2, <7>2, <8>2, <8>4
          <6>2. ~Collides(B.name, B.short)
            BY <2>2, <5>2, <5>6
          <6>3. B.name \notin Names(ToSet(fs)) \cup args
            BY <3>2, <3>3, <5>4, <5>6, <6>2 DEF Collides, Names
          <6> HIDE DEF fs
          <6>4. Fit(Append(fs, B)) /\ ToSet(Append(fs, B)) = ToSet(fs) \cup {B}
            BY <3>3, <5>4, <6>3, FlagFits DEF fs
          <6> QED
            BY <5>4, <6>1, <6>4 DEF fs
        <5> QED
          BY <5>5, <5>6
      <4> QED
        BY <4>1, <4>2
    <3>6. FlagsInv' /\ UniqueInv'
      BY <1>1, <1>2, <3>1, <3>2, <3>3, <3>5, FlagsJoin
    <3> QED
      BY <2>2, <3>1, <3>6
  <2> QED
    BY <2>1, <2>2 DEF registerHelp
<1>4. SettingsInv' /\ ChildInv'
  BY <1>1 DEF AppInv, SettingsInv, ChildInv
<1>5. StageInv'
  BY <1>1, <1>2, <1>3 DEF AppInv, StageInv
<1>6. EndInv' /\ RunInv'
  BY <1>1, <1>2, <1>3 DEF EndInv, RunInv, VersionAdded
<1> QED
  BY <1>3, <1>4, <1>5, <1>6 DEF AppInv

\* One more command of nabat's, whose flags take values.
LEMMA ChildJoins ==
  ASSUME ChildInv, NEW c, children' = Append(children, c), \A f \in c.flags : f.bool = FALSE
  PROVE  ChildInv' /\ ToSet(children') = ToSet(children) \cup {c}
<1>1. IsSeq(children') /\ ToSet(children') = ToSet(children) \cup {c}
  BY Appended DEF ChildInv
<1> QED
  BY <1>1 DEF ChildInv

LEMMA registerVersionKeeps ==
  ASSUME AppInv, registerVersion
  PROVE  AppInv'
<1>1. /\ phase = "built" /\ phase' = phase /\ stage = "registerVersion"
      /\ help' = help /\ version' = version /\ args' = args
      /\ pending' = pending /\ run' = run
  BY DEF registerVersion, Registering, themeVars
<1>2. /\ run = Nil /\ hooks \in {<<>>, <<"help">>} /\ FlagsInv /\ UniqueInv /\ IsSeq(hooks)
  <2>1. run = Nil /\ hooks \in {<<>>, <<"help">>} /\ FlagsInv /\ UniqueInv
    BY <1>1 DEF AppInv, StageInv, FlagsInv
  <2> QED
    BY <2>1, OneOf, NoneOf
<1> DEFINE A == Ours(version.flag, version.short, FALSE, TRUE)
<1>3. A.name = version.flag /\ A.short = version.short /\ A.ours = TRUE /\ A.persistent = FALSE
  BY DEF Ours
<1> HIDE DEF A
<1>4. ChildInv'
      /\ (version # Nil /\ ~version.commandOff =>
            \E c \in ToSet(children') : c.ours = TRUE /\ c.name = version.command)
  <2>1. CASE version = Nil \/ version.commandOff
    <3>1. children' = children
      BY <2>1 DEF registerVersion
    <3> QED
      BY <2>1, <3>1 DEF AppInv, ChildInv
  <2>2. CASE ~(version = Nil \/ version.commandOff)
    <3>1. children' = Append(children, VersionCommand)
      BY <2>2 DEF registerVersion
    <3>2. \A f \in VersionCommand.flags : f.bool = FALSE
      BY DEF VersionCommand, Ours
    <3>3. VersionCommand.ours = TRUE /\ VersionCommand.name = version.command
      BY DEF VersionCommand
    <3>4. ChildInv' /\ ToSet(children') = ToSet(children) \cup {VersionCommand}
      BY <3>1, <3>2, ChildJoins DEF AppInv
    <3> QED
      BY <3>3, <3>4
  <2> QED
    BY <2>1, <2>2
<1>5. /\ stage' \in {"failed", "registerCompletion"}
      /\ hooks' \in {<<>>, <<"help">>, <<"version">>, <<"help", "version">>}
      /\ FlagsInv' /\ UniqueInv'
      /\ stage' # "failed" /\ version # Nil /\ ~version.flagOff => A \in ToSet(flags')
  <2>1. CASE /\ UNCHANGED <<flags, hooks>>
             /\ \/ stage' = "failed"
                \/ stage' = "registerCompletion" /\ (version = Nil \/ version.flagOff)
    <3>1. FlagsInv' /\ UniqueInv' = UniqueInv
      BY <1>1, <1>2, <2>1, FlagsStay DEF UniqueInv
    <3> QED
      BY <1>2, <2>1, <3>1
  <2>2. CASE /\ ~Collides(version.flag, version.short)
             /\ flags' = Append(flags, A) /\ OnPreRun("version")
             /\ stage' = "registerCompletion"
    <3>1. hooks' = Append(hooks, "version") /\ ToSet(hooks') = ToSet(hooks) \cup {"version"}
      BY <1>2, <2>2, Appended DEF OnPreRun
    <3>2. hooks' \in {<<"version">>, <<"help", "version">>}
      <4>1. Append(<<>>, "version") = <<"version">>
        OBVIOUS
      <4>2. Append(<<"help">>, "version") = <<"help", "version">>
        <5> DEFINE S == {"help", "version"}
                   h == <<"help">>
                   q == <<"help", "version">>
        <5>1. h \in Seq(S) /\ Len(h) = 1 /\ h[1] = "help"
          OBVIOUS
        <5>2. q \in Seq(S)
          OBVIOUS
        <5>3. Len(q) = 2 /\ q[1] = "help" /\ q[2] = "version"
          OBVIOUS
        <5>4. "version" \in S
          OBVIOUS
        <5> HIDE DEF S, h, q
        <5> DEFINE p == Append(h, "version")
        <5>5. p \in Seq(S) /\ Len(p) = 2 /\ p[2] = "version"
          BY <5>1, <5>4
        <5>6. p[1] = "help"
          BY <5>1, <5>4
        <5> HIDE DEF p
        <5>7. \A i \in 1..Len(p) : p[i] = q[i]
          BY <5>3, <5>5, <5>6
        <5>8. p = q
          BY <5>2, <5>3, <5>5, <5>7, SeqEqual
        <5> QED
          BY <5>8 DEF p, q, h
      <4> QED
        BY <1>2, <3>1, <4>1, <4>2
    <3>3. Fit(Append(flags, A)) /\ ToSet(Append(flags, A)) = ToSet(flags) \cup {A}
      BY <1>2, <1>3, <2>2, FlagsFitNow, FlagFits DEF Collides
    <3>4. Fit(flags') /\ ToSet(flags') = ToSet(flags) \cup {A}
      BY <2>2, <3>3
    <3>5. FlagsInv' /\ UniqueInv'
      BY <1>1, <1>2, <1>3, <3>1, <3>4, FlagsJoin
    <3> QED
      BY <2>2, <3>2, <3>4, <3>5
  <2> QED
    BY <2>1, <2>2 DEF registerVersion, A
<1>6. SettingsInv'
  BY <1>1 DEF AppInv, SettingsInv
<1>7. StageInv'
  BY <1>1, <1>2, <1>5 DEF StageInv
<1>8. stage' # "failed" /\ version # Nil => HasVersion'
  <2>1. version # Nil => ~(version.flagOff /\ version.commandOff)
    BY DEF AppInv, SettingsInv, VersionInvalid
  <2> QED
    BY <1>1, <1>3, <1>4, <1>5, <2>1 DEF HasVersion
<1>9. EndInv'
  BY <1>1, <1>5, <1>8 DEF EndInv, VersionAdded
<1>10. RunInv'
  BY <1>1, <1>2 DEF RunInv
<1> QED
  BY <1>4, <1>5, <1>6, <1>7, <1>9, <1>10 DEF AppInv

\* The calls that leave the flags and the hooks as they are, and the version
\* where it is.
LEMMA LaterCallKeeps ==
  ASSUME AppInv, phase = "built", phase' = phase, UNCHANGED <<settings, hooks, run>>,
         stage \in VersionAdded \ {"returned"}, stage' \in VersionAdded \cup {"failed", "panicked"},
         IsSeq(children'), ToSet(children) \subseteq ToSet(children'),
         \A c \in ToSet(children') \ ToSet(children) :
           \A f \in c.flags : f.ours = FALSE \/ f.bool = FALSE,
         stage' = "panicked" => SameIn(Users) \/ TooWide(ToSet(flags)),
         stage' = "returned" => IsInjective(ChildNames)'
  PROVE  AppInv'
<1>1. /\ help' = help /\ version' = version /\ flags' = flags /\ args' = args
      /\ pending' = pending /\ hooks' = hooks /\ run' = run
  BY DEF settings
<1>2. run = Nil /\ UniqueInv
  BY DEF AppInv, StageInv, FlagsInv, VersionAdded
<1>3. SettingsInv'
  BY <1>1 DEF AppInv, SettingsInv
<1>4. StageInv'
  BY <1>1, <1>2 DEF AppInv, StageInv, VersionAdded
<1>5. FlagsInv'
  BY <1>1, <1>2, FlagsStay DEF AppInv
<1>6. ChildInv'
  BY DEF AppInv, ChildInv
<1>7. EndInv'
  <2>1. version # Nil => HasVersion'
    BY <1>1 DEF AppInv, EndInv, HasVersion
  <2>2. Users' = Users
    BY <1>1 DEF Users
  <2> QED
    BY <1>1, <2>1, <2>2 DEF EndInv, SameIn, TooWide
<1>8. RunInv'
  BY <1>1, <1>2 DEF RunInv
<1> QED
  BY <1>3, <1>4, <1>5, <1>6, <1>7, <1>8 DEF AppInv

LEMMA registerCompletionKeeps ==
  ASSUME AppInv, registerCompletion
  PROVE  AppInv'
<1>1. /\ phase = "built" /\ phase' = phase /\ stage = "registerCompletion"
      /\ stage' = "registerFlags" /\ UNCHANGED <<settings, hooks, run>>
  BY DEF registerCompletion, Registering, themeVars
<1>2. /\ IsSeq(children') /\ ToSet(children) \subseteq ToSet(children')
      /\ \A c \in ToSet(children') \ ToSet(children) :
           \A f \in c.flags : f.ours = FALSE \/ f.bool = FALSE
  <2>1. CASE completion = Nil
    BY <2>1 DEF registerCompletion, AppInv, ChildInv
  <2>2. CASE completion # Nil
    <3> DEFINE c == [name |-> completion.command, subs |-> completion.shells,
                     flags |-> {Ours("output", "o", TRUE, FALSE)}, ours |-> TRUE]
    <3>1. children' = Append(children, c)
      BY <2>2 DEF registerCompletion
    <3>2. \A f \in c.flags : f.bool = FALSE
      BY DEF Ours
    <3> HIDE DEF c
    <3>3. ChildInv' /\ ToSet(children') = ToSet(children) \cup {c}
      BY <3>1, <3>2, ChildJoins DEF AppInv
    <3> QED
      BY <3>2, <3>3 DEF ChildInv
  <2> QED
    BY <2>1, <2>2
<1> QED
  BY <1>1, <1>2, LaterCallKeeps DEF VersionAdded

LEMMA registerFlagsKeeps ==
  ASSUME AppInv, registerFlags
  PROVE  AppInv'
<1> DEFINE own == Persistent(ToSet(flags))
<1>1. /\ phase = "built" /\ phase' = phase /\ stage = "registerFlags"
      /\ stage' \in {"panicked", "registerPending"}
      /\ stage' = "panicked" => Unfit(own) \/ Unfit(ToSet(flags) \ own)
      /\ UNCHANGED <<settings, hooks, run, children>>
  BY DEF registerFlags, Registering, themeVars
<1>2. own \subseteq ToSet(flags)
  BY DEF Persistent
<1> HIDE DEF own
<1>3. stage' = "panicked" => SameIn(Users) \/ TooWide(ToSet(flags))
  BY <1>1, <1>2, ClashesAreUsers DEF AppInv, Unfit, TooWide
<1>4. IsSeq(children') /\ children' = children
  BY <1>1 DEF AppInv, ChildInv
<1> QED
  BY <1>1, <1>3, <1>4, LaterCallKeeps DEF VersionAdded

LEMMA registerPendingKeeps ==
  ASSUME AppInv, registerPending
  PROVE  AppInv'
<1>1. /\ phase = "built" /\ phase' = phase /\ stage = "registerPending"
      /\ stage' = "validate" /\ UNCHANGED <<settings, hooks, run>>
      /\ children' = children \o pending
  BY DEF registerPending, Registering, themeVars
<1>2. IsSeq(children') /\ ToSet(children') = ToSet(children) \cup ToSet(pending)
  BY <1>1, Joined DEF AppInv, ChildInv, SettingsInv
<1>3. \A c \in ToSet(children') \ ToSet(children) : \A f \in c.flags : f.ours = FALSE
  BY <1>2 DEF AppInv, SettingsInv
<1> QED
  BY <1>1, <1>2, <1>3, LaterCallKeeps DEF VersionAdded

LEMMA validateKeeps ==
  ASSUME AppInv, validate
  PROVE  AppInv'
<1>1. /\ phase = "built" /\ phase' = phase /\ stage = "validate"
      /\ stage' \in {"returned", "failed"} /\ UNCHANGED <<settings, hooks, run, children>>
      /\ stage' = "returned" => IsInjective(ChildNames)
  BY DEF validate, Registering, themeVars
<1>2. IsSeq(children') /\ children' = children
  BY <1>1 DEF AppInv, ChildInv
<1>3. IsInjective(ChildNames)' = IsInjective(ChildNames)
  BY <1>2 DEF ChildNames, IsInjective
<1> QED
  BY <1>1, <1>2, <1>3, LaterCallKeeps DEF VersionAdded

-----------------------------------------------------------------------------
(* The steps of a run.                                                      *)

\* Only the run changes.
LEMMA RunStepKeeps ==
  ASSUME AppInv, phase' = phase, UNCHANGED <<settings, built>>, RunInv',
         stage = "returned"
  PROVE  AppInv'
<1>1. /\ help' = help /\ version' = version /\ flags' = flags /\ args' = args
      /\ pending' = pending /\ children' = children /\ hooks' = hooks /\ stage' = stage
  BY DEF settings, built
<1>2. SettingsInv' /\ ChildInv'
  BY <1>1 DEF AppInv, SettingsInv, ChildInv
<1>3. StageInv'
  BY <1>1 DEF AppInv, StageInv
<1>4. FlagsInv'
  BY <1>1, FlagsStay DEF AppInv, FlagsInv
<1>5. EndInv'
  <2>1. HasVersion' = HasVersion /\ ChildNames' = ChildNames
    BY <1>1 DEF HasVersion, ChildNames
  <2> QED
    BY <1>1, <2>1 DEF AppInv, EndInv
<1> QED
  BY <1>2, <1>3, <1>4, <1>5 DEF AppInv

\* A flag of a command a run may be of is one of the root's, or is the
\* user's or Cobra's, or takes a value.
LEMMA InvocableFlags ==
  ASSUME AppInv, NEW cmd \in Invocable
  PROVE  /\ \A f \in cmd.flags : f.ours = FALSE \/ f.bool = FALSE \/ f \in ToSet(flags)
         /\ cmd.root => cmd.flags = Merged(ToSet(flags), {})
<1> DEFINE global == Persistent(ToSet(flags))
           Fine(fs) == \A f \in fs : f.ours = FALSE \/ f.bool = FALSE \/ f \in ToSet(flags)
<1>1. Fine(global) /\ Fine(ToSet(flags)) /\ Fine({}) /\ Fine({CobraHelp})
  BY DEF Persistent, CobraHelp
<1>2. ASSUME NEW c \in ToSet(children) PROVE Fine(c.flags) /\ Fine(Persistent(c.flags))
  BY <1>2 DEF AppInv, ChildInv, Persistent
<1>3. ASSUME NEW own, NEW inherited, Fine(own), Fine(inherited)
      PROVE  Fine(Merge(own, inherited)) /\ Fine(Merged(own, inherited))
  <2>1. Merge(own, inherited) \subseteq own \cup inherited
    BY DEF Merge
  <2>2. Merged(own, inherited) \subseteq own \cup inherited \cup {CobraHelp}
    BY DEF Merge, Merged
  <2> QED
    BY <1>1, <1>3, <2>1, <2>2
<1> HIDE DEF Fine, global
<1>4. CASE cmd = [root |-> TRUE, flags |-> Merged(ToSet(flags), {})]
  BY <1>1, <1>3, <1>4 DEF Fine
<1>5. ASSUME NEW c \in ToSet(children),
             cmd = [root |-> FALSE, flags |-> Merged(c.flags, global)]
      PROVE  Fine(cmd.flags) /\ ~cmd.root
  BY <1>1, <1>2, <1>3, <1>5
<1>6. ASSUME NEW c \in ToSet(children),
             cmd = [root |-> FALSE, flags |-> Merged({}, Merge(Persistent(c.flags), global))]
      PROVE  Fine(cmd.flags) /\ ~cmd.root
  <2>1. Fine(Merge(Persistent(c.flags), global))
    BY <1>1, <1>2, <1>3
  <2>2. Fine(Merged({}, Merge(Persistent(c.flags), global)))
    BY <1>1, <1>3, <2>1
  <2> QED
    BY <1>6, <2>2
<1>7. \/ cmd = [root |-> TRUE, flags |-> Merged(ToSet(flags), {})]
      \/ \E c \in ToSet(children) : cmd = [root |-> FALSE, flags |-> Merged(c.flags, global)]
      \/ \E c \in ToSet(children) :
           cmd = [root |-> FALSE, flags |-> Merged({}, Merge(Persistent(c.flags), global))]
  BY DEF Invocable, global
<1> QED
  BY <1>4, <1>5, <1>6, <1>7 DEF Fine

LEMMA ExecuteKeeps ==
  ASSUME AppInv, Execute
  PROVE  AppInv'
<1>1. /\ stage = "returned" /\ phase' = phase /\ UNCHANGED <<settings, built>>
  BY DEF Execute, Registering, themeVars
<1>2. /\ help' = help /\ version' = version /\ flags' = flags /\ hooks' = hooks
  BY <1>1 DEF settings, built
<1>3. PICK cmd \in Invocable, lacks \in BOOLEAN :
        \E given \in SUBSET Names({f \in cmd.flags : f.bool}) :
          run' = [root |-> cmd.root, flags |-> cmd.flags, given |-> given, lacks |-> lacks,
                  next |-> 1, outcome |-> ParsedTo(cmd.flags, given, lacks)]
  BY DEF Execute
<1>4. PICK given \in SUBSET Names({f \in cmd.flags : f.bool}) :
        run' = [root |-> cmd.root, flags |-> cmd.flags, given |-> given, lacks |-> lacks,
                next |-> 1, outcome |-> ParsedTo(cmd.flags, given, lacks)]
  BY <1>3
<1>5. /\ run'.flags = cmd.flags /\ run'.given = given /\ run'.lacks = lacks
      /\ run'.root = cmd.root /\ run'.next = 1
      /\ run'.outcome = ParsedTo(cmd.flags, given, lacks)
      /\ DOMAIN run' = {"root", "flags", "given", "lacks", "next", "outcome"}
  BY <1>4
<1>6. Parsed' = run'.outcome
  <2>1. ParsedTo(cmd.flags, given, lacks)' = ParsedTo(cmd.flags, given, lacks)
    BY <1>2 DEF ParsedTo
  <2> QED
    BY <1>2, <1>5, <2>1 DEF Parsed, ParsedTo
<1>7. Len(hooks) \in Nat
  BY HooksInOrder
<1>8. OutcomeInv'
  BY <1>2, <1>5, <1>6, <1>7 DEF OutcomeInv, Passed
<1>9. /\ \A f \in cmd.flags : f.ours = FALSE \/ f.bool = FALSE \/ f \in ToSet(flags)
      /\ cmd.root => cmd.flags = Merged(ToSet(flags), {})
  BY InvocableFlags
<1>10. RunInv'
  BY <1>2, <1>4, <1>5, <1>8, <1>9 DEF RunInv
<1> QED
  BY <1>1, <1>10, RunStepKeeps

\* A run whose next or outcome changes stays the run it is.
LEMMA RunGoesOn ==
  ASSUME AppInv, run # Nil, run.outcome = "hooks", UNCHANGED <<settings, built>>,
         NEW next, NEW outcome,
         DOMAIN run' = DOMAIN run, run'.root = run.root, run'.flags = run.flags, run'.given = run.given,
         run'.lacks = run.lacks, run'.next = next, run'.outcome = outcome,
         next \in 1..(Len(hooks) + 1), next = run.next \/ next = run.next + 1,
         next = run.next + 1 => ~HookAsked(hooks[run.next]),
         \/ outcome = "hooks"
         \/ /\ outcome \in {"help", "version"} /\ next <= Len(hooks)
            /\ hooks[next] = outcome /\ HookAsked(outcome)
         \/ outcome = "handler" /\ next > Len(hooks)
  PROVE  RunInv'
<1>1. help' = help /\ version' = version /\ flags' = flags /\ hooks' = hooks
  BY DEF settings, built
<1>2. \A h : HookAsked(h)' = HookAsked(h)
  BY <1>1 DEF HookAsked
<1>3. Parsed' = Parsed
  BY <1>1 DEF Parsed, ParsedTo
<1>4. Parsed = "hooks" /\ Passed /\ run.next \in 1..(Len(hooks) + 1)
  BY DEF AppInv, RunInv, OutcomeInv
<1>5. Len(hooks) \in Nat
  BY HooksInOrder
<1>6. Passed'
  <2>1. ASSUME NEW i \in 1..Len(hooks), i < next PROVE ~HookAsked(hooks[i])
    <3>1. CASE i < run.next
      BY <1>4, <3>1 DEF Passed
    <3>2. CASE ~(i < run.next)
      <4>1. i = run.next /\ next = run.next + 1
        BY <1>4, <2>1, <3>2
      <4> QED
        BY <4>1
    <3> QED
      BY <3>1, <3>2
  <2> QED
    BY <1>1, <1>2, <2>1 DEF Passed
<1>7. OutcomeInv'
  BY <1>1, <1>2, <1>3, <1>4, <1>6 DEF OutcomeInv
<1> QED
  BY <1>1, <1>7 DEF AppInv, RunInv

LEMMA HookKeeps ==
  ASSUME AppInv, Hook
  PROVE  AppInv'
<1>1. /\ run # Nil /\ run.outcome = "hooks" /\ run.next <= Len(hooks)
      /\ phase' = phase /\ UNCHANGED <<settings, built>>
  BY DEF Hook, InHooks, themeVars
<1>2. stage = "returned" /\ run.next \in 1..(Len(hooks) + 1)
  BY <1>1 DEF AppInv, StageInv, RunInv, OutcomeInv
<1>3. Len(hooks) \in Nat /\ run.next \in 1..Len(hooks) /\ hooks[run.next] \in {"help", "version"}
  BY <1>1, <1>2, HooksInOrder
<1> DEFINE h == hooks[run.next]
<1>4. Answer(HookAsked(h), h)
  <2>1. CASE h = "help"
    BY <2>1 DEF Hook, HookAsked
  <2>2. CASE h = "version"
    BY <2>2 DEF Hook, HookAsked
  <2> QED
    BY <1>3, <2>1, <2>2
<1>5. DOMAIN run = {"root", "flags", "given", "lacks", "next", "outcome"}
  BY <1>1 DEF AppInv, RunInv
<1> HIDE DEF h
<1>6. RunInv'
  <2>1. CASE HookAsked(h)
    <3>1. run' = [run EXCEPT !.outcome = h]
      BY <1>4, <2>1 DEF Answer
    <3>2. /\ DOMAIN run' = DOMAIN run /\ run'.root = run.root /\ run'.flags = run.flags
          /\ run'.given = run.given /\ run'.lacks = run.lacks
          /\ run'.next = run.next /\ run'.outcome = h
      BY <1>5, <3>1
    <3> QED
      BY <1>1, <1>2, <1>3, <2>1, <3>2, RunGoesOn DEF h
  <2>2. CASE ~HookAsked(h)
    <3>1. run' = [run EXCEPT !.next = @ + 1]
      BY <1>4, <2>2 DEF Answer
    <3>2. /\ DOMAIN run' = DOMAIN run /\ run'.root = run.root /\ run'.flags = run.flags
          /\ run'.given = run.given /\ run'.lacks = run.lacks
          /\ run'.next = run.next + 1 /\ run'.outcome = "hooks"
      BY <1>1, <1>5, <3>1
    <3>3. run.next + 1 \in 1..(Len(hooks) + 1)
      BY <1>3
    <3> QED
      BY <1>1, <1>2, <2>2, <3>2, <3>3, RunGoesOn DEF h
  <2> QED
    BY <2>1, <2>2
<1> QED
  BY <1>1, <1>2, <1>6, RunStepKeeps

LEMMA TheRestKeeps ==
  ASSUME AppInv, TheRest
  PROVE  AppInv'
<1>1. /\ run # Nil /\ run.outcome = "hooks" /\ run.next > Len(hooks)
      /\ phase' = phase /\ UNCHANGED <<settings, built>>
      /\ run' = [run EXCEPT !.outcome = "handler"]
  BY DEF TheRest, InHooks, themeVars
<1>2. /\ stage = "returned" /\ run.next \in 1..(Len(hooks) + 1)
      /\ DOMAIN run = {"root", "flags", "given", "lacks", "next", "outcome"}
  BY <1>1 DEF AppInv, StageInv, RunInv, OutcomeInv
<1>3. /\ DOMAIN run' = DOMAIN run /\ run'.root = run.root /\ run'.flags = run.flags
      /\ run'.given = run.given /\ run'.lacks = run.lacks
      /\ run'.next = run.next /\ run'.outcome = "handler"
  BY <1>1, <1>2
<1>4. run.next # run.next + 1
  BY <1>2, HooksInOrder
<1>5. RunInv'
  BY <1>1, <1>2, <1>3, <1>4, RunGoesOn
<1> QED
  BY <1>1, <1>2, <1>5, RunStepKeeps

LEMMA NextKeepsApp ==
  ASSUME ThemeInv, AppInv, Next
  PROVE  AppInv'
<1>1. ConfigOK
  BY DEF ThemeInv
<1> QED
  BY <1>1, ThemeStepRests, AppOptionKeepsApp, validateUniqueNamesKeeps, registerHelpKeeps,
     registerVersionKeeps, registerCompletionKeeps, registerFlagsKeeps, registerPendingKeeps,
     validateKeeps, ExecuteKeeps, HookKeeps, TheRestKeeps DEF Next

-----------------------------------------------------------------------------
(* The theorems.                                                            *)

\* Whatever options New is given, for every catalog of themes, set of tokens and terminal: the
\* invariant of the theme and that of the built-ins, their flags and hooks, hold in every state of New,
\* of a lookup of a style and of a run.
THEOREM NewAppInv == Spec => [](ThemeInv /\ AppInv)
<1>1. Init => ThemeInv /\ AppInv
  BY ThemeInitInv, AppInitInv DEF Init
<1>2. ThemeInv /\ AppInv /\ [Next]_vars => (ThemeInv /\ AppInv)'
  <2>1. ASSUME ThemeInv, AppInv, UNCHANGED vars PROVE (ThemeInv /\ AppInv)'
    <3>1. /\ UNCHANGED themeVars /\ UNCHANGED <<settings, built, run>>
      BY <2>1 DEF vars
    <3>2. phase' = phase
      BY <3>1 DEF themeVars
    <3> QED
      BY <2>1, <3>1, <3>2, ThemeRests, AppRests
  <2> QED
    BY <2>1, NextKeepsTheme, NextKeepsApp
<1> QED
  BY <1>1, <1>2, PTL DEF Spec

\* New refuses a theme in which a chain of aliases leads back to itself, wherever the chain is
\* entered, and none for a cycle that it does not have (validateAliasChain in resolveWithErr).
THEOREM CyclesAreRefused == Spec => []CyclesRefused
<1>1. ThemeInv => CyclesRefused
  BY DEF ThemeInv, ChainInv
<1> QED
  BY <1>1, NewAppInv, PTL

\* Style and HasToken find the first styled token of a chain, so that what the strict
\* requirements let through is styled, and an App that was built otherwise has been warned.
THEOREM LookupsAlwaysAgree == Spec => []LookupsAgree
<1>1. ThemeInv => LookupsAgree
  BY DEF ThemeInv, LookInv
<1> QED
  BY <1>1, NewAppInv, PTL

\* The last of the options WithThemeOverride and WithThemeOverrides for a slot is what the App's
\* theme resolves to, whatever order, recipe and variant; an empty one of huh leaves the Prompt of the
\* variant, and every other empty one what is derived (Theme.With, ResolveErr).
THEOREM LastOverrideAlwaysWins == Spec => []LastOverrideWins
<1>1. ThemeInv => LastOverrideWins
  BY LastOverrideHolds DEF ThemeInv
<1> QED
  BY <1>1, NewAppInv, PTL

\* Next to the flags that New adds for help and version, under whatever names, pflag panics in New
\* only for flags of the user's own or a shorthand of more than one byte, and in a run of the root only
\* for flags of the user's own or for a -h after WithoutHelp or WithoutHelpFlag; a version can
\* be asked for, and no name is there twice (append*FlagToSpec, App.validateUniqueNames,
\* registerVersion).
THEOREM BuiltinsAlwaysFit == Spec => []BuiltinsFit
<1>1. AppInv => BuiltinsFit
  BY FitsHolds
<1> QED
  BY <1>1, NewAppInv, PTL

\* Under whatever names, a run with nabat's help flag prints help, or is refused where an argument is
\* missing and the flag is a renamed one, and one with nabat's version flag alone prints the version;
\* a run that prints either was given a flag of that name, be it nabat's, Cobra's or a command's own
\* (the hooks of registerHelp and registerVersion).
THEOREM BuiltinsAlwaysAnswer == Spec => []BuiltinsAnswer
<1>1. AppInv => BuiltinsAnswer
  BY AnswersHold
<1> QED
  BY <1>1, NewAppInv, PTL
=============================================================================
