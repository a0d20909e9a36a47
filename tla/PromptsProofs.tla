--------------------------- MODULE PromptsProofs ---------------------------
(***************************************************************************)
(* Proofs about Prompts.                                                   *)
(*                                                                         *)
(* The invariant has a part for each question: a form counts each of its   *)
(* faulty options (FaultsCounted) and until then writes nothing but        *)
(* starting values (OnlySeeded; SeedsKept names the field, which is in the *)
(* form if nothing failed); the walk without a terminal has done what it   *)
(* promises for the fields behind it (Walked); a variable whose fields are *)
(* all validated holds an accepted value as soon as one of them is behind  *)
(* the user (Behind), and one whose fields are all numbers never holds     *)
(* anything else that was typed (NumbersOK); and what bypasses Confirm is  *)
(* what the last options of these names gave (ConfInv).                    *)
(***************************************************************************)
EXTENDS Prompts, FiniteSetTheorems, WellFoundedInduction, TLAPS

(***************************************************************************)
(* The parts of the invariant.                                             *)
(***************************************************************************)

\* A page, and one that is being made, with fields from F.
PageOf(F) == [group : Nat, fields : Seq(F)]
DraftOf(F) == [fields : Seq(F), issues : Nat]

\* The entries the fields of the call can become.
Entries == {Entry(FieldAt(at), at) : at \in {p \in Places : ~Declined(FieldAt(p))}}

\* An option of a group that is refused, and an option of the form.
FaultyIn(o) == o.opt = "nil" \/ (o.opt = "field" /\ Declined(o.field))
Faulty(o) ==
  \/ o.opt = "nil"
  \/ o.opt = "field" /\ Declined(o.field)
  \/ o.opt = "group" /\ \E l \in DOMAIN o.opts : FaultyIn(o.opts[l])

\* The call is Context.Form.
Formed == call.fn = "Form"

\* A value for each variable of the caller.
OnTargets(ts) == ts = [t \in Targets |-> ts[t]]

\* The values of the variables.
FormType ==
  /\ call \in Calls
  /\ interactive \in BOOLEAN
  /\ i \in Nat /\ j \in Nat /\ issues \in Nat /\ cur \in Nat \ {0}
  /\ pages \in Seq(PageOf(Entries))
  /\ page \in DraftOf(Entries)
  /\ fields \in Seq(Entries)
  /\ OnTargets(targets)

\* Where the call can be, and what goes with it.
PlaceOK ==
  /\ pc \in IF Formed THEN {"options", "group", "fallback", "build", "form", "returned"}
                      ELSE {"options", "widget", "type", "returned"}
  /\ Formed /\ pc \in {"options", "group"} =>
       cur = 1 /\ fields = <<>> /\ i <= Len(call.opts)
  /\ pc = "group" => /\ i > 0 /\ call.opts[i].opt = "group"
                     /\ j <= Len(call.opts[i].opts)
  /\ pc \in {"build", "form"} => interactive
  /\ pc = "fallback" => ~interactive
  /\ Formed => ret.err \in {None} \cup Errors

\* The errors counted are those of the faulty options so far, and the
\* call ends for its options only if there is one.
FaultsCounted ==
  Formed =>
    /\ pc = "options" => (issues = 0 <=> \A k \in 1..i : ~Faulty(call.opts[k]))
    /\ pc = "group" =>
         /\ issues = 0 <=> \A k \in 1..(i - 1) : ~Faulty(call.opts[k])
         /\ page.issues = 0 <=> \A l \in 1..j : ~FaultyIn(call.opts[i].opts[l])
    /\ pc \in {"fallback", "build", "form"} => \A k \in DOMAIN call.opts : ~Faulty(call.opts[k])
    /\ pc = "returned" => (ret.err = "options" <=> \E k \in DOMAIN call.opts : Faulty(call.opts[k]))

\* A variable holds what it held, or the starting value of a field.
Seed(t) ==
  \/ targets[t] = Start[t]
  \/ \E at \in Places : /\ FieldAt(at).target = t
                        /\ targets[t] = Entry(FieldAt(at), at).initial
\* Until the options are known to be good, nothing else is written.
OnlySeeded ==
  Formed /\ (pc \in {"options", "group"} \/ (pc = "returned" /\ ret.err = "options")) =>
    \A t \in Targets : Seed(t)

\* The fields on some pages.
EntriesOn(ps) == UNION {Range(ps[p].fields) : p \in DOMAIN ps}
\* The fields the form has by now.
Kept == EntriesOn(pages) \cup IF pc = "group" THEN Range(page.fields) ELSE {}
\* The starting value is that of a field that was kept.
SeedKept(t) ==
  \/ targets[t] = Start[t]
  \/ \E e \in Kept : e.kind # "note" /\ e.target = t /\ e.initial = targets[t]
\* As long as nothing failed.
SeedsKept ==
  Formed /\ pc \in {"options", "group"} /\ issues = 0 /\ (pc = "group" => page.issues = 0) =>
    \A t \in Targets : SeedKept(t)

\* Of the first n fields: those without a default, and those that write t.
Lacking(n) == {k \in 1..n : ~Content(fields[k])}
Writers(t, n) == {k \in 1..n : /\ fields[k].kind # "note"
                               /\ fields[k].target = t
                               /\ fields[k].fallback # None}
\* The fields behind the walk are counted, or have written their default.
Walked ==
  pc = "fallback" =>
    /\ cur <= Len(fields) + 1
    /\ issues = Cardinality(Lacking(cur - 1))
    /\ \A t \in Targets : Writers(t, cur - 1) # {} =>
                            targets[t] = fields[Max(Writers(t, cur - 1))].fallback

\* Every field on t has a validation; all of them are numbers.
Validated(t) == On(t) # {} /\ \A k \in On(t) : fields[k].kind \notin Selects /\ fields[k].validate
AllNumbers(t) == Validated(t) /\ \A k \in On(t) : fields[k].kind = "number"
\* Nothing unchecked is on a variable of numbers.
NumbersOK ==
  Formed /\ interactive => \A t \in Targets : AllNumbers(t) =>
         targets[t] \in Accepts \cup {Start[t]} \cup {fields[k].initial : k \in On(t)}
\* What the user has left behind has passed.
Behind ==
  /\ pc = "form" => \A t \in Targets :
       Validated(t) /\ cur \notin On(t) /\ (\E k \in On(t) : k < cur) => targets[t] \in Accepts
  /\ Formed /\ interactive /\ pc = "returned" /\ ret.err = None =>
       \A t \in Targets : Validated(t) => targets[t] \in Accepts
  /\ pc = "form" => cur <= Len(fields) \/ fields = <<>>

\* The values a single prompt knows of, and a promptConfig with values from V.
ValuesGiven == {None, Zero} \cup BOOLEAN \cup {call.opts[k].value : k \in DOMAIN call.opts}
Modes == {"input", "multiline", "picker"}
ConfOf(V) ==
  [mode : Modes, fallback : V, initial : V, validate : BOOLEAN, options : V,
   bypassYes : V, confirmValue : V, confirmInput : V]
\* The value of the last of the first n options of these names.
LastOf(names, otherwise, n) ==
  LET ks == {k \in 1..n : call.opts[k].opt \in names}
  IN IF ks = {} THEN otherwise ELSE call.opts[Max(ks)].value
\* What bypasses Confirm is what the options gave, the last of a name
\* counting; and nothing is true before the call returns.
ConfInv ==
  call.fn = "Confirm" =>
    /\ conf \in ConfOf(ValuesGiven)
    /\ pc = "options" =>
       /\ i <= Len(call.opts)
       /\ conf.bypassYes = LastOf({"WithYes"}, FALSE, i)
       /\ conf.confirmValue = LastOf({"WithConfirmValue"}, Zero, i)
       /\ conf.confirmInput = LastOf({"WithConfirmInput"}, Zero, i)
       /\ conf.fallback = LastOf({"WithDefault", "WithPrefill"}, None, i)
    /\ pc = "widget" => interactive /\ issues = 0 /\ ~Severe
    /\ pc = "type" => interactive /\ issues = 0 /\ Severe
    /\ pc \in {"widget", "type"} =>
         conf.confirmValue = LastOf({"WithConfirmValue"}, Zero, Len(call.opts))
    /\ ret.value = TRUE => pc = "returned"

(***************************************************************************)
(* Sets of places, and sequences.                                          *)
(***************************************************************************)

\* A nonempty set of numbers has a least one.
LEMMA LeastNumber ==
  ASSUME NEW S, S \subseteq Nat, S # {}
  PROVE  \E m \in S : \A n \in S : m <= n
<1>0. S \subseteq Nat /\ S # {}
  OBVIOUS
<1>1. PICK m \in S : \A n \in S : ~(<<n, m>> \in OpToRel(<, Nat))
  BY <1>0, NatLessThanWellFounded, WFMin
<1>2. ASSUME NEW n \in S, n < m PROVE FALSE
  <2>1. <<n, m>> \in OpToRel(<, Nat)
    BY <1>0, <1>2 DEF OpToRel
  <2> QED
    BY <1>1, <2>1
<1>3. \A n \in S : m <= n
  BY <1>0, <1>2
<1> QED
  BY <1>3

\* The greatest of a set, when one knows which it is.
LEMMA GreatestIs ==
  ASSUME NEW S, S \subseteq Int, NEW m \in S, \A n \in S : m >= n
  PROVE  Max(S) = m
<1>1. Max(S) \in S /\ \A n \in S : Max(S) >= n
  BY DEF Max
<1>2. Max(S) >= m /\ m >= Max(S) /\ m \in Int /\ Max(S) \in Int
  BY <1>1
<1> QED
  BY <1>2

\* One more place is looked at: the last with a property is that one, if it
\* has it, or the last there was.
LEMMA OneMorePlace ==
  ASSUME NEW n \in Nat, NEW P, NEW S, NEW S2,
         S = {k \in 1..n : k \in P}, S2 = {k \in 1..(n + 1) : k \in P}
  PROVE  /\ n + 1 \in P => S2 = S \cup {n + 1} /\ Max(S2) = n + 1 /\ n + 1 \notin S
         /\ n + 1 \notin P => S2 = S
<1>1. CASE n + 1 \in P
  <2>1. S2 = S \cup {n + 1} /\ n + 1 \notin S
    BY <1>1
  <2>2. Max(S2) = n + 1
    BY <1>1, GreatestIs
  <2> QED
    BY <1>1, <2>1, <2>2
<1>2. CASE n + 1 \notin P
  BY <1>2
<1> QED
  BY <1>1, <1>2

\* What one more element, and another sequence, adds.
LEMMA AppendParts ==
  ASSUME NEW F, NEW s \in Seq(F), NEW x \in F
  PROVE  /\ Append(s, x) \in Seq(F) /\ Len(Append(s, x)) = Len(s) + 1
         /\ Range(Append(s, x)) = Range(s) \cup {x}
<1>1. /\ Append(s, x) \in Seq(F) /\ Len(Append(s, x)) = Len(s) + 1
      /\ \A n \in 1..Len(s) : Append(s, x)[n] = s[n]
      /\ Append(s, x)[Len(s) + 1] = x /\ Len(s) \in Nat
      /\ DOMAIN s = 1..Len(s) /\ DOMAIN Append(s, x) = 1..(Len(s) + 1)
  OBVIOUS
<1>2. PICK a : a = Append(s, x)
  OBVIOUS
<1>3. Range(a) = Range(s) \cup {x}
  <2>1. ASSUME NEW n \in 1..(Len(s) + 1) PROVE a[n] \in Range(s) \cup {x}
    BY <1>1, <1>2 DEF Range
  <2>2. \A n \in 1..Len(s) : s[n] \in Range(a)
    BY <1>1, <1>2 DEF Range
  <2>3. x \in Range(a)
    <3>1. Len(s) + 1 \in 1..(Len(s) + 1)
      BY <1>1
    <3> QED
      BY <1>1, <1>2, <3>1 DEF Range
  <2> QED
    BY <1>1, <1>2, <2>1, <2>2, <2>3 DEF Range
<1> QED
  BY <1>1, <1>2, <1>3

LEMMA ConcatParts ==
  ASSUME NEW F, NEW s \in Seq(F), NEW t \in Seq(F)
  PROVE  s \o t \in Seq(F) /\ Range(s \o t) = Range(s) \cup Range(t)
<1>1. /\ s \o t \in Seq(F) /\ Len(s \o t) = Len(s) + Len(t)
      /\ Len(s) \in Nat /\ Len(t) \in Nat
      /\ DOMAIN s = 1..Len(s) /\ DOMAIN t = 1..Len(t)
      /\ DOMAIN (s \o t) = 1..(Len(s) + Len(t))
      /\ \A n \in 1..(Len(s) + Len(t)) :
           (s \o t)[n] = IF n <= Len(s) THEN s[n] ELSE t[n - Len(s)]
  OBVIOUS
<1>2. PICK a : a = s \o t
  OBVIOUS
<1>3. Range(a) = Range(s) \cup Range(t)
  <2>1. ASSUME NEW n \in 1..(Len(s) + Len(t)) PROVE a[n] \in Range(s) \cup Range(t)
    <3>1. CASE n <= Len(s)
      BY <1>1, <1>2, <3>1 DEF Range
    <3>2. CASE n > Len(s)
      <4>1. n - Len(s) \in 1..Len(t)
        BY <1>1, <3>2
      <4>2. a[n] = t[n - Len(s)]
        BY <1>1, <1>2, <3>2
      <4> QED
        BY <1>1, <4>1, <4>2 DEF Range
    <3> QED
      BY <1>1, <3>1, <3>2
  <2>2. \A n \in 1..Len(s) : s[n] \in Range(a)
    BY <1>1, <1>2 DEF Range
  <2>3. ASSUME NEW n \in 1..Len(t) PROVE t[n] \in Range(a)
    <3>1. n + Len(s) \in 1..(Len(s) + Len(t)) /\ a[n + Len(s)] = t[n]
      BY <1>1, <1>2
    <3> QED
      BY <1>1, <1>2, <3>1 DEF Range
  <2>4. Range(a) \subseteq Range(s) \cup Range(t)
    BY <1>1, <1>2, <2>1 DEF Range
  <2>5. Range(s) \subseteq Range(a) /\ Range(t) \subseteq Range(a)
    BY <1>1, <2>2, <2>3 DEF Range
  <2> QED
    BY <2>4, <2>5
<1> QED
  BY <1>1, <1>2, <1>3

(***************************************************************************)
(* The pages, flattened.                                                   *)
(***************************************************************************)

\* The function FlattenSeq is defined with: what the first n sequences make.
IsFlat(f, ss, n) == f = [m \in 1..n |-> IF m = 1 THEN ss[m] ELSE f[m - 1] \o ss[m]]

\* The function FlattenSeq defines by recursion exists.
LEMMA FlatExists ==
  ASSUME NEW ss, NEW n \in Nat
  PROVE  \E f : IsFlat(f, ss, n)
<1> DEFINE Lost == {k \in Nat : ~ \E f : IsFlat(f, ss, k)}
<1>1. CASE Lost = {}
  BY <1>1
<1>2. CASE Lost # {}
  <2>1. PICK m \in Lost : \A k \in Lost : m <= k
    <3>1. Lost \subseteq Nat
      OBVIOUS
    <3> HIDE DEF Lost
    <3> QED
      BY <1>2, <3>1, LeastNumber
  <2>2. CASE m = 0
    <3>1. IsFlat([k \in 1..0 |-> 0], ss, 0)
      BY DEF IsFlat
    <3> QED
      BY <2>2, <3>1
  <2>3. CASE m > 0
    <3>1. m - 1 \in Nat /\ m - 1 \notin Lost
      BY <2>1, <2>3
    <3>2. PICK g : IsFlat(g, ss, m - 1)
      BY <3>1
    <3> DEFINE f == [k \in 1..m |-> IF k < m THEN g[k]
                                     ELSE IF m = 1 THEN ss[m] ELSE g[m - 1] \o ss[m]]
    <3>3. ASSUME NEW k \in 1..m
          PROVE  f[k] = IF k = 1 THEN ss[k] ELSE f[k - 1] \o ss[k]
      <4>1. CASE k < m
        <5>1. k \in 1..(m - 1) /\ f[k] = g[k]
          BY <4>1
        <5>2. g[k] = IF k = 1 THEN ss[k] ELSE g[k - 1] \o ss[k]
          BY <3>2, <5>1 DEF IsFlat
        <5>3. k # 1 => f[k - 1] = g[k - 1]
          BY <4>1
        <5> HIDE DEF f
        <5> QED
          BY <5>1, <5>2, <5>3
      <4>2. CASE k = m
        <5>1. k # 1 => f[k - 1] = g[k - 1]
          BY <4>2
        <5>2. f[k] = IF m = 1 THEN ss[m] ELSE g[m - 1] \o ss[m]
          BY <4>2
        <5> HIDE DEF f
        <5> QED
          BY <4>2, <5>1, <5>2
      <4> QED
        BY <4>1, <4>2
    <3>4. f = [k \in 1..m |-> f[k]]
      OBVIOUS
    <3>5. IsFlat(f, ss, m)
      <4> HIDE DEF f
      <4> QED
        BY <3>3, <3>4 DEF IsFlat
    <3> QED
      BY <3>5
  <2> QED
    BY <2>1, <2>2, <2>3
<1> QED
  BY <1>1, <1>2

LEMMA FlattenContents ==
  ASSUME NEW F, NEW ss \in Seq(Seq(F))
  PROVE  /\ FlattenSeq(ss) \in Seq(F)
         /\ Range(FlattenSeq(ss)) = UNION {Range(ss[p]) : p \in DOMAIN ss}
<1>0. Len(ss) \in Nat /\ DOMAIN ss = 1..Len(ss) /\ \A p \in 1..Len(ss) : ss[p] \in Seq(F)
  OBVIOUS
<1>1. CASE Len(ss) = 0
  <2>1. ss = << >> /\ FlattenSeq(ss) = << >>
    BY <1>1 DEF FlattenSeq
  <2>2. << >> \in Seq(F) /\ DOMAIN << >> = {} /\ DOMAIN ss = {}
    BY <1>0, <1>1
  <2>3. Range(<< >>) = {}
    BY <2>2 DEF Range
  <2> QED
    BY <2>1, <2>2, <2>3
<1>2. CASE Len(ss) > 0
  <2>1. PICK f : IsFlat(f, ss, Len(ss)) /\ FlattenSeq(ss) = f[Len(ss)]
    <3> DEFINE g == CHOOSE f : IsFlat(f, ss, Len(ss))
    <3>1. IsFlat(g, ss, Len(ss))
      BY <1>0, FlatExists
    <3>2. FlattenSeq(ss) = g[Len(ss)]
      BY <1>2 DEF FlattenSeq, IsFlat
    <3> QED
      BY <3>1, <3>2
  <2>0. \A k \in 1..Len(ss) : f[k] = IF k = 1 THEN ss[k] ELSE f[k - 1] \o ss[k]
    BY <2>1 DEF IsFlat
  <2> DEFINE Parts(n) == UNION {Range(ss[p]) : p \in 1..n}
             Wrong == {n \in 1..Len(ss) : ~(f[n] \in Seq(F) /\ Range(f[n]) = Parts(n))}
  <2>2. CASE Wrong = {}
    <3>1. Len(ss) \in 1..Len(ss)
      BY <1>0, <1>2
    <3> QED
      BY <1>0, <2>1, <2>2, <3>1
  <2>3. CASE Wrong # {}
    <3>1. PICK m \in Wrong : \A k \in Wrong : m <= k
      <4>1. Wrong \subseteq Nat
        BY <1>0
      <4> HIDE DEF Wrong
      <4> QED
        BY <2>3, <4>1, LeastNumber
    <3>2. m \in 1..Len(ss) /\ ~(f[m] \in Seq(F) /\ Range(f[m]) = Parts(m))
      OBVIOUS
    <3>3. CASE m = 1
      <4>1. f[m] = ss[m]
        BY <2>1, <3>2, <3>3 DEF IsFlat
      <4>2. Parts(m) = Range(ss[m])
        BY <3>3
      <4> HIDE DEF Parts
      <4> QED
        BY <1>0, <3>2, <4>1, <4>2
    <3>4. CASE m > 1
      <4>1. f[m] = f[m - 1] \o ss[m]
        <5> HIDE DEF Wrong, Parts
        <5>1. m \in 1..Len(ss) /\ m # 1
          BY <3>2, <3>4
        <5> QED
          BY <2>0, <5>1
      <4>2. m - 1 \in 1..Len(ss) /\ m - 1 \notin Wrong
        <5> HIDE DEF Wrong, Parts
        <5>1. m \in Int /\ Len(ss) \in Int /\ m <= Len(ss)
          BY <1>0, <3>2
        <5>2. m - 1 \in 1..Len(ss) /\ ~(m <= m - 1)
          BY <3>4, <5>1
        <5> QED
          BY <3>1, <5>2
      <4>3. f[m - 1] \in Seq(F) /\ Range(f[m - 1]) = Parts(m - 1)
        BY <4>2
      <4>4. Parts(m) = Parts(m - 1) \cup Range(ss[m])
        <5>1. 1..m = 1..(m - 1) \cup {m}
          BY <1>0, <3>2, <3>4
        <5> QED
          BY <5>1
      <4> HIDE DEF Parts, Wrong
      <4> QED
        BY <1>0, <3>2, <4>1, <4>3, <4>4, ConcatParts
    <3> QED
      BY <1>0, <3>2, <3>3, <3>4
  <2> QED
    BY <2>2, <2>3
<1> QED
  BY <1>0, <1>1, <1>2

(***************************************************************************)
(* Pages, and the variables of the caller.                                 *)
(***************************************************************************)

\* The pages of a form.
LEMMA PagesAre ==
  ASSUME NEW F, NEW ps \in Seq(PageOf(F))
  PROVE  /\ Len(ps) \in Nat /\ DOMAIN ps = 1..Len(ps)
         /\ \A p \in 1..Len(ps) : ps[p] \in PageOf(F) /\ ps[p].fields \in Seq(F)
<1>1. /\ Len(ps) \in Nat /\ DOMAIN ps = 1..Len(ps)
      /\ \A p \in 1..Len(ps) : ps[p] \in PageOf(F)
  OBVIOUS
<1>2. \A g \in PageOf(F) : g.fields \in Seq(F)
  BY DEF PageOf
<1> QED
  BY <1>1, <1>2

\* A field more on the first page, and a page more.
LEMMA FirstPage ==
  ASSUME NEW F, NEW ps \in Seq(PageOf(F)), NEW e \in F
  PROVE  /\ OnFirstPage(ps, e) \in Seq(PageOf(F))
         /\ EntriesOn(OnFirstPage(ps, e)) = EntriesOn(ps) \cup {e}
<1>0. /\ Len(ps) \in Nat /\ DOMAIN ps = 1..Len(ps)
      /\ \A p \in 1..Len(ps) : ps[p] \in PageOf(F) /\ ps[p].fields \in Seq(F)
  BY PagesAre
<1>1. CASE ps = <<>>
  <2>1. OnFirstPage(ps, e) = <<Page(0, <<e>>)>>
    BY <1>1 DEF OnFirstPage
  <2>2. <<e>> \in Seq(F) /\ Range(<<e>>) = {e}
    BY DEF Range
  <2>3. Page(0, <<e>>) \in PageOf(F) /\ Page(0, <<e>>).fields = <<e>>
    BY <2>2 DEF Page, PageOf
  <2>4. PICK g : g = Page(0, <<e>>)
    OBVIOUS
  <2>5. <<g>> \in Seq(PageOf(F)) /\ EntriesOn(<<g>>) = Range(g.fields)
    BY <2>3, <2>4 DEF EntriesOn
  <2>6. EntriesOn(ps) = {}
    BY <1>1 DEF EntriesOn
  <2> QED
    BY <2>1, <2>2, <2>3, <2>4, <2>5, <2>6
<1>2. CASE ps # <<>>
  <2>0. 1 \in 1..Len(ps)
    BY <1>0, <1>2
  <2>1. PICK a : a = Append(ps[1].fields, e)
    OBVIOUS
  <2>2. a \in Seq(F) /\ Range(a) = Range(ps[1].fields) \cup {e}
    BY <1>0, <2>0, <2>1, AppendParts
  <2>3. PICK qs : qs = OnFirstPage(ps, e)
    OBVIOUS
  <2>4. qs = [ps EXCEPT ![1].fields = a]
    BY <1>2, <2>1, <2>3 DEF OnFirstPage
  <2>5. /\ qs \in Seq(PageOf(F)) /\ DOMAIN qs = 1..Len(ps)
        /\ qs[1].fields = a /\ \A p \in 2..Len(ps) : qs[p] = ps[p]
    <3>1. [ps[1] EXCEPT !.fields = a] \in PageOf(F)
      BY <1>0, <2>0, <2>2 DEF PageOf
    <3>2. [ps[1] EXCEPT !.fields = a].fields = a
      BY <1>0, <2>0 DEF PageOf
    <3>3. PICK g : g = [ps[1] EXCEPT !.fields = a]
      OBVIOUS
    <3>4. qs = [ps EXCEPT ![1] = g]
      BY <2>4, <3>3
    <3>5. g \in PageOf(F) /\ g.fields = a
      BY <3>1, <3>2, <3>3
    <3> QED
      BY <1>0, <2>0, <3>4, <3>5
  <2>6. EntriesOn(qs) = EntriesOn(ps) \cup {e}
    <3>1. ASSUME NEW x, x \in EntriesOn(qs) PROVE x \in EntriesOn(ps) \cup {e}
      <4>1. PICK p \in 1..Len(ps) : x \in Range(qs[p].fields)
        BY <2>5, <3>1 DEF EntriesOn
      <4>2. CASE p = 1
        BY <1>0, <2>0, <2>2, <2>5, <4>1, <4>2 DEF EntriesOn
      <4>3. CASE p # 1
        BY <1>0, <2>5, <4>1, <4>3 DEF EntriesOn
      <4> QED
        BY <4>2, <4>3
    <3>2. ASSUME NEW x, x \in EntriesOn(ps) PROVE x \in EntriesOn(qs)
      <4>1. PICK p \in 1..Len(ps) : x \in Range(ps[p].fields)
        BY <1>0, <3>2 DEF EntriesOn
      <4>2. x \in Range(qs[p].fields)
        <5>1. CASE p = 1
          BY <2>2, <2>5, <4>1, <5>1
        <5>2. CASE p # 1
          BY <1>0, <2>5, <4>1, <5>2
        <5> QED
          BY <5>1, <5>2
      <4> QED
        BY <2>5, <4>1, <4>2 DEF EntriesOn
    <3>3. e \in EntriesOn(qs)
      BY <2>0, <2>2, <2>5 DEF EntriesOn
    <3> QED
      BY <3>1, <3>2, <3>3
  <2> QED
    BY <2>3, <2>5, <2>6
<1> QED
  BY <1>1, <1>2

LEMMA LastPage ==
  ASSUME NEW F, NEW ps \in Seq(PageOf(F)), NEW g \in PageOf(F)
  PROVE  /\ Append(ps, g) \in Seq(PageOf(F))
         /\ EntriesOn(Append(ps, g)) = EntriesOn(ps) \cup Range(g.fields)
<1>1. PICK qs : qs = Append(ps, g)
  OBVIOUS
<1>2. /\ Len(ps) \in Nat /\ DOMAIN ps = 1..Len(ps) /\ DOMAIN qs = 1..(Len(ps) + 1)
      /\ qs \in Seq(PageOf(F)) /\ qs[Len(ps) + 1] = g
      /\ \A p \in 1..Len(ps) : qs[p] = ps[p]
  BY <1>1
<1>3. DOMAIN qs = DOMAIN ps \cup {Len(ps) + 1}
  BY <1>2
<1>4. EntriesOn(qs) = EntriesOn(ps) \cup Range(g.fields)
  BY <1>2, <1>3 DEF EntriesOn
<1> QED
  BY <1>1, <1>2, <1>4

\* The fields of all pages are the entries on them.
LEMMA FieldsOfPages ==
  ASSUME NEW F, NEW ps \in Seq(PageOf(F))
  PROVE  FieldsOf(ps) \in Seq(F) /\ Range(FieldsOf(ps)) = EntriesOn(ps)
<1>1. PICK ss : ss = [p \in DOMAIN ps |-> ps[p].fields]
  OBVIOUS
<1>2. /\ Len(ps) \in Nat /\ DOMAIN ps = 1..Len(ps)
      /\ \A p \in 1..Len(ps) : ps[p].fields \in Seq(F)
  BY PagesAre
<1>3. ss \in Seq(Seq(F)) /\ DOMAIN ss = DOMAIN ps /\ \A p \in DOMAIN ps : ss[p] = ps[p].fields
  BY <1>1, <1>2
<1>4. FieldsOf(ps) = FlattenSeq(ss)
  BY <1>1 DEF FieldsOf
<1>5. UNION {Range(ss[p]) : p \in DOMAIN ss} = EntriesOn(ps)
  BY <1>3 DEF EntriesOn
<1> QED
  BY <1>3, <1>4, <1>5, FlattenContents

\* What an assignment to a variable of the caller changes.
Assigned(ts, x, v) == [ts EXCEPT ![x] = v]

LEMMA AssignedTo ==
  ASSUME NEW ts, OnTargets(ts), NEW x, NEW v,
         NEW us, us = Assigned(ts, x, v)
  PROVE  /\ OnTargets(us)
         /\ \A t \in Targets : us[t] = IF t = x THEN v ELSE ts[t]
  BY DEF OnTargets, Assigned

\* What a starting value and a fallback change.
LEMMA SeededTargets ==
  ASSUME NEW ts, OnTargets(ts), NEW e,
         NEW us, us = Seeded(ts, e)
  PROVE  /\ OnTargets(us)
         /\ \A t \in Targets :
              us[t] = IF e.initial # None /\ t = e.target THEN e.initial ELSE ts[t]
<1>1. CASE e.initial = None
  BY <1>1 DEF Seeded
<1>2. CASE e.initial # None
  <2>1. us = Assigned(ts, e.target, e.initial)
    BY <1>2 DEF Seeded, Assigned
  <2> QED
    BY <1>2, <2>1, AssignedTo
<1> QED
  BY <1>1, <1>2

LEMMA FellBackTargets ==
  ASSUME NEW ts, OnTargets(ts), NEW e,
         NEW us, us = FellBack(ts, e)
  PROVE  /\ OnTargets(us)
         /\ \A t \in Targets :
              us[t] = IF e.kind # "note" /\ e.fallback # None /\ t = e.target
                      THEN e.fallback ELSE ts[t]
<1>1. CASE e.kind = "note" \/ e.fallback = None
  BY <1>1 DEF FellBack
<1>2. CASE ~(e.kind = "note" \/ e.fallback = None)
  <2>1. us = Assigned(ts, e.target, e.fallback)
    BY <1>2 DEF FellBack, Assigned
  <2> QED
    BY <1>2, <2>1, AssignedTo
<1> QED
  BY <1>1, <1>2

(***************************************************************************)
(* The options of a form and the fields they make.                         *)
(***************************************************************************)

\* No step changes the call, nor what is made of its options alone.
LEMMA SetupKept == [Next]_vars => UNCHANGED setup
  BY DEF Next, Own, User, vars, setup,
         NilFormOption, WithFormTimeout, LooseField, WithFormGroup, GroupOption, GroupDone,
         FormRefused, FallbackWalk, Fallback, FallbackDone, ShowForm, BuildWidget, RunForm,
         ApplyOption, PromptRefused, ConfirmBypassed, ConfirmRequired, ConfirmAsks, Ask,
         Choose, EditField, LeaveField, EditPrompt, SubmitPrompt, GiveUp

LEMMA EntriesKept ==
  ASSUME UNCHANGED setup
  PROVE  Entries' = Entries /\ Places' = Places /\ Formed' = Formed
  BY DEF Entries, Places, FieldAt, setup, Formed

\* The options of a form are what they are assumed to be.
LEMMA OptionsOfForm ==
  ASSUME call \in Calls, Formed
  PROVE  /\ Len(call.opts) \in Nat /\ DOMAIN call.opts = 1..Len(call.opts)
         /\ \A k \in DOMAIN call.opts :
              /\ call.opts[k].opt \in {"nil", "timeout", "field", "group"}
              /\ call.opts[k].opt = "field" => Declares(call.opts[k].field)
              /\ call.opts[k].opt = "group" =>
                   /\ Len(call.opts[k].opts) \in Nat
                   /\ DOMAIN call.opts[k].opts = 1..Len(call.opts[k].opts)
                   /\ \A l \in DOMAIN call.opts[k].opts :
                        /\ call.opts[k].opts[l].opt \in {"nil", "field"}
                        /\ call.opts[k].opts[l].opt = "field" =>
                             Declares(call.opts[k].opts[l].field)
<1>1. PICK os : os = call.opts
  OBVIOUS
<1>2. /\ os \in Seq(Range(os))
      /\ \A o \in Range(os) :
           /\ o.opt \in {"nil", "timeout", "field", "group"}
           /\ o.opt = "field" => Declares(o.field)
           /\ o.opt = "group" =>
                /\ o.opts \in Seq(Range(o.opts))
                /\ \A p \in Range(o.opts) :
                     p.opt \in {"nil", "field"} /\ (p.opt = "field" => Declares(p.field))
  BY <1>1, CallsAssumption DEF Formed
<1>3. Len(os) \in Nat /\ DOMAIN os = 1..Len(os)
  BY <1>2
<1>4. ASSUME NEW k \in DOMAIN os
      PROVE  /\ os[k].opt \in {"nil", "timeout", "field", "group"}
             /\ os[k].opt = "field" => Declares(os[k].field)
             /\ os[k].opt = "group" =>
                  /\ Len(os[k].opts) \in Nat
                  /\ DOMAIN os[k].opts = 1..Len(os[k].opts)
                  /\ \A l \in DOMAIN os[k].opts :
                       /\ os[k].opts[l].opt \in {"nil", "field"}
                       /\ os[k].opts[l].opt = "field" => Declares(os[k].opts[l].field)
  <2>1. os[k] \in Range(os)
    BY DEF Range
  <2>2. ASSUME os[k].opt = "group"
        PROVE  /\ Len(os[k].opts) \in Nat
               /\ DOMAIN os[k].opts = 1..Len(os[k].opts)
               /\ \A l \in DOMAIN os[k].opts :
                    /\ os[k].opts[l].opt \in {"nil", "field"}
                    /\ os[k].opts[l].opt = "field" => Declares(os[k].opts[l].field)
    <3>1. PICK ps : ps = os[k].opts
      OBVIOUS
    <3>2. /\ ps \in Seq(Range(ps))
          /\ \A p \in Range(ps) :
               p.opt \in {"nil", "field"} /\ (p.opt = "field" => Declares(p.field))
      BY <1>2, <2>1, <2>2, <3>1
    <3>3. Len(ps) \in Nat /\ DOMAIN ps = 1..Len(ps)
      BY <3>2
    <3>4. \A l \in DOMAIN ps : ps[l] \in Range(ps)
      BY DEF Range
    <3> QED
      BY <3>1, <3>2, <3>3, <3>4
  <2> QED
    BY <1>2, <2>1, <2>2
<1> QED
  BY <1>1, <1>3, <1>4

\* The places of the fields, outside groups and in them.
LEMMA LoosePlace ==
  ASSUME call \in Calls, Formed, NEW k \in DOMAIN call.opts, call.opts[k].opt = "field"
  PROVE  <<k, 0>> \in Places /\ FieldAt(<<k, 0>>) = call.opts[k].field
  BY DEF Places, FieldAt

LEMMA GroupPlace ==
  ASSUME call \in Calls, Formed, NEW k \in DOMAIN call.opts, call.opts[k].opt = "group",
         NEW l \in DOMAIN call.opts[k].opts, call.opts[k].opts[l].opt = "field"
  PROVE  <<k, l>> \in Places /\ FieldAt(<<k, l>>) = call.opts[k].opts[l].field
<1>1. l # 0
  BY OptionsOfForm
<1>2. <<k, l>> \in Places
  BY DEF Places
<1>3. FieldAt(<<k, l>>) = call.opts[k].opts[l].field
  BY <1>1 DEF FieldAt
<1> QED
  BY <1>2, <1>3

LEMMA PlacesAre ==
  ASSUME call \in Calls, Formed, NEW at \in Places
  PROVE  \/ \E k \in DOMAIN call.opts :
              call.opts[k].opt = "field" /\ at = <<k, 0>> /\ FieldAt(at) = call.opts[k].field
         \/ \E k \in DOMAIN call.opts : \E l \in DOMAIN call.opts[k].opts :
              /\ call.opts[k].opt = "group" /\ call.opts[k].opts[l].opt = "field"
              /\ at = <<k, l>> /\ FieldAt(at) = call.opts[k].opts[l].field
<1>1. CASE at \in {<<k, 0>> : k \in {n \in DOMAIN call.opts : call.opts[n].opt = "field"}}
  BY <1>1, LoosePlace
<1>2. CASE \E k \in {n \in DOMAIN call.opts : call.opts[n].opt = "group"} :
             at \in {<<k, l>> : l \in {n \in DOMAIN call.opts[k].opts : call.opts[k].opts[n].opt = "field"}}
  BY <1>2, GroupPlace
<1> QED
  BY <1>1, <1>2 DEF Places

\* What stands at a place is the declaration of a field.
LEMMA PlaceDeclares ==
  ASSUME call \in Calls, Formed, NEW at \in Places
  PROVE  Declares(FieldAt(at))
  BY PlacesAre, OptionsOfForm

\* What an entry is.
LEMMA EntryShape ==
  ASSUME call \in Calls, Formed, NEW e \in Entries
  PROVE  /\ e.kind \in Kinds
         /\ e.kind # "note" => e.target \in Targets
         /\ e.kind = "note" => e.initial = None
         /\ \E at \in Places : /\ ~Declined(FieldAt(at)) /\ FieldAt(at).target = e.target
                               /\ e.initial = Entry(FieldAt(at), at).initial
<1>1. PICK at \in Places : ~Declined(FieldAt(at)) /\ e = Entry(FieldAt(at), at)
  BY DEF Entries
<1>2. PICK f : f = FieldAt(at)
  OBVIOUS
<1>3. Declares(f) /\ ~Declined(f) /\ e = Entry(f, at)
  BY <1>1, <1>2, PlaceDeclares
<1>4. /\ e.kind = f.kind /\ e.target = f.target
      /\ f.kind = "note" => e.initial = None
  BY <1>3 DEF Entry
<1>5. f.kind # "note" => f.target \in Targets
  BY <1>3 DEF Declares, Declined
<1>6. e.initial = Entry(FieldAt(at), at).initial
  BY <1>1
<1> QED
  BY <1>1, <1>2, <1>3, <1>4, <1>5, <1>6 DEF Declares

\* The entry an option of the form or of a group makes.
LEMMA EntryMade ==
  ASSUME NEW at \in Places, ~Declined(FieldAt(at))
  PROVE  Entry(FieldAt(at), at) \in Entries
  BY DEF Entries

(***************************************************************************)
(* Types and places.                                                       *)
(***************************************************************************)

\* The values, given what an action makes of them.
LEMMA TypeKept ==
  ASSUME FormType, UNCHANGED setup,
         i' \in Nat, j' \in Nat, issues' \in Nat, cur' \in Nat \ {0},
         pages' \in Seq(PageOf(Entries)),
         page' \in DraftOf(Entries),
         fields' \in Seq(Entries),
         OnTargets(targets')
  PROVE  FormType'
<1>1. call' = call /\ interactive' = interactive /\ Entries' = Entries
  BY EntriesKept DEF setup
<1> QED
  BY <1>1 DEF FormType

\* A field comes onto the page of its group.
Grown(p, e) == [p EXCEPT !.fields = Append(@, e)]

\* What LooseField and GroupOption make of a field.
LEMMA LooseFieldMade ==
  ASSUME FormType, LooseField, ~Declined(call.opts[i + 1].field)
  PROVE  /\ <<i + 1, 0>> \in Places
         /\ FieldAt(<<i + 1, 0>>) = call.opts[i + 1].field
         /\ Entry(call.opts[i + 1].field, <<i + 1, 0>>) \in Entries
         /\ pages' = OnFirstPage(pages, Entry(call.opts[i + 1].field, <<i + 1, 0>>))
         /\ targets' = Seeded(targets, Entry(call.opts[i + 1].field, <<i + 1, 0>>))
         /\ issues' = issues
<1>1. Formed /\ call \in Calls /\ call.opts[i + 1].opt = "field" /\ i + 1 \in DOMAIN call.opts
  BY OptionsOfForm DEF FormType, LooseField, FormOption, Formed
<1>2. <<i + 1, 0>> \in Places /\ FieldAt(<<i + 1, 0>>) = call.opts[i + 1].field
  BY <1>1, LoosePlace
<1> QED
  BY <1>2, EntryMade DEF LooseField

LEMMA GroupFieldMade ==
  ASSUME FormType, PlaceOK, GroupOption,
         NEW o, o = call.opts[i].opts[j + 1], o.opt # "nil", ~Declined(o.field)
  PROVE  /\ <<i, j + 1>> \in Places
         /\ FieldAt(<<i, j + 1>>) = o.field
         /\ Entry(o.field, <<i, j + 1>>) \in Entries
         /\ page' = Grown(page, Entry(o.field, <<i, j + 1>>))
         /\ targets' = Seeded(targets, Entry(o.field, <<i, j + 1>>))
<1>1. Formed /\ call \in Calls /\ call.opts[i].opt = "group" /\ i \in DOMAIN call.opts
  <2>1. Formed /\ call \in Calls /\ call.opts[i].opt = "group"
        /\ i > 0 /\ i <= Len(call.opts) /\ i \in Nat
    BY DEF FormType, PlaceOK, GroupOption, Formed
  <2> QED
    BY <2>1, OptionsOfForm
<1>2. j + 1 \in DOMAIN call.opts[i].opts /\ o.opt = "field"
  <2>1. /\ Len(call.opts[i].opts) \in Nat
        /\ DOMAIN call.opts[i].opts = 1..Len(call.opts[i].opts)
        /\ \A l \in DOMAIN call.opts[i].opts : call.opts[i].opts[l].opt \in {"nil", "field"}
    BY <1>1, OptionsOfForm
  <2>2. j \in Nat /\ j < Len(call.opts[i].opts)
    BY DEF GroupOption, FormType
  <2>3. j + 1 \in DOMAIN call.opts[i].opts
    BY <2>1, <2>2
  <2> QED
    BY <2>1, <2>3
<1>3. <<i, j + 1>> \in Places /\ FieldAt(<<i, j + 1>>) = o.field
  BY <1>1, <1>2, GroupPlace
<1>4. Entry(o.field, <<i, j + 1>>) \in Entries
  BY <1>3, EntryMade
<1> QED
  BY <1>3, <1>4 DEF GroupOption, Grown

\* One field more on the page that is being made.
LEMMA PageGrown ==
  ASSUME NEW F, NEW p \in DraftOf(F), NEW e \in F
  PROVE  /\ Grown(p, e) \in DraftOf(F)
         /\ Range(Grown(p, e).fields) = Range(p.fields) \cup {e}
         /\ Grown(p, e).issues = p.issues
<1>1. PICK a : a = Append(p.fields, e)
  OBVIOUS
<1>2. a \in Seq(F) /\ Range(a) = Range(p.fields) \cup {e}
  BY <1>1, AppendParts DEF DraftOf
<1>3. Grown(p, e) = [p EXCEPT !.fields = a]
  BY <1>1 DEF Grown
<1>4. PICK q : q = [p EXCEPT !.fields = a]
  OBVIOUS
<1>5. q \in DraftOf(F) /\ q.fields = a /\ q.issues = p.issues
  BY <1>2, <1>4 DEF DraftOf
<1> QED
  BY <1>2, <1>3, <1>4, <1>5

\* The types and places hold at the start, and each step keeps them.
LEMMA InitType == Init => FormType /\ PlaceOK
<1> SUFFICES ASSUME Init PROVE FormType /\ PlaceOK
  OBVIOUS
<1>1. << >> \in Seq(Entries) /\ << >> \in Seq(PageOf(Entries))
  OBVIOUS
<1>2. page \in DraftOf(Entries)
  BY <1>1 DEF Init, NoPage, DraftOf
<1>3. OnTargets(targets)
  BY StartAssumption DEF Init, OnTargets
<1>4. FormType
  BY <1>1, <1>2, <1>3 DEF Init, FormType
<1>5. Formed => i <= Len(call.opts)
  <2>1. ASSUME Formed PROVE Len(call.opts) \in Nat
    BY <2>1, OptionsOfForm DEF Init
  <2> QED
    BY <2>1 DEF Init
<1>6. PlaceOK
  BY <1>5 DEF Init, PlaceOK, Nothing
<1> QED
  BY <1>4, <1>6

LEMMA TypeStep ==
  ASSUME FormType, PlaceOK, Next
  PROVE  FormType'
<1>0. /\ UNCHANGED setup
      /\ i \in Nat /\ j \in Nat /\ issues \in Nat /\ cur \in Nat \ {0}
      /\ pages \in Seq(PageOf(Entries))
      /\ page \in DraftOf(Entries)
      /\ fields \in Seq(Entries)
      /\ OnTargets(targets)
  BY SetupKept DEF FormType
<1>1. CASE NilFormOption \/ WithFormTimeout
  BY <1>0, <1>1, TypeKept DEF NilFormOption, WithFormTimeout, FormOption, formVars
<1>2. CASE LooseField
  <2>1. i' \in Nat /\ UNCHANGED <<setup, j, page, fields, cur>>
    BY <1>0, <1>2 DEF LooseField, FormOption
  <2>2. CASE Declined(call.opts[i + 1].field)
    BY <1>0, <1>2, <2>1, <2>2, TypeKept DEF LooseField
  <2>3. CASE ~Declined(call.opts[i + 1].field)
    <3>1. PICK e \in Entries :
            pages' = OnFirstPage(pages, e) /\ targets' = Seeded(targets, e) /\ issues' = issues
      BY <1>2, <2>3, LooseFieldMade
    <3>2. pages' \in Seq(PageOf(Entries))
      BY <1>0, <3>1, FirstPage
    <3>3. OnTargets(targets')
      BY <1>0, <3>1, SeededTargets
    <3> QED
      BY <1>0, <2>1, <3>1, <3>2, <3>3, TypeKept
  <2> QED
    BY <2>2, <2>3
<1>3. CASE WithFormGroup
  <2>1. NoPage \in DraftOf(Entries)
    BY DEF NoPage, DraftOf
  <2> QED
    BY <1>0, <1>3, <2>1, TypeKept DEF WithFormGroup, FormOption
<1>4. CASE GroupOption
  <2>1. j' \in Nat /\ UNCHANGED <<setup, i, issues, pages, fields, cur>>
    BY <1>0, <1>4 DEF GroupOption
  <2> DEFINE o == call.opts[i].opts[j + 1]
  <2>2. CASE o.opt = "nil" \/ Declined(o.field)
    <3>1. page' = [page EXCEPT !.issues = @ + 1] /\ targets' = targets
      BY <1>4, <2>2 DEF GroupOption
    <3>2. page' \in DraftOf(Entries)
      BY <1>0, <3>1 DEF DraftOf
    <3> QED
      BY <1>0, <2>1, <3>1, <3>2, TypeKept
  <2>3. CASE ~(o.opt = "nil" \/ Declined(o.field))
    <3>1. PICK e \in Entries :
            page' = Grown(page, e) /\ targets' = Seeded(targets, e)
      BY <1>4, <2>3, GroupFieldMade
    <3>2. page' \in DraftOf(Entries)
      BY <1>0, <3>1, PageGrown
    <3>3. OnTargets(targets')
      BY <1>0, <3>1, SeededTargets
    <3> QED
      BY <1>0, <2>1, <3>2, <3>3, TypeKept
  <2> QED
    BY <2>2, <2>3
<1>5. CASE GroupDone
  <2>1. Page(i, page.fields) \in PageOf(Entries)
    BY <1>0 DEF Page, PageOf, DraftOf
  <2>2. pages' \in Seq(PageOf(Entries)) /\ issues' \in Nat
    <3>1. CASE page.issues > 0
      BY <1>0, <1>5, <3>1 DEF GroupDone
    <3>2. CASE ~(page.issues > 0)
      <4>1. pages' = Append(pages, Page(i, page.fields)) /\ issues' = issues
        BY <1>5, <3>2 DEF GroupDone
      <4> QED
        BY <1>0, <2>1, <4>1, LastPage
    <3> QED
      BY <3>1, <3>2
  <2> QED
    BY <1>0, <1>5, <2>2, TypeKept DEF GroupDone
<1>6. CASE FormRefused \/ FallbackDone
  BY <1>0, <1>6, TypeKept DEF FormRefused, FallbackDone, formVars
<1>7. CASE FallbackWalk \/ ShowForm
  <2>1. fields' = FieldsOf(pages)
    BY <1>7 DEF FallbackWalk, ShowForm
  <2>2. fields' \in Seq(Entries)
    BY <1>0, <2>1, FieldsOfPages
  <2> QED
    BY <1>0, <1>7, <2>2, TypeKept DEF FallbackWalk, ShowForm
<1>8. CASE Fallback
  <2>1. targets' = FellBack(targets, fields[cur])
    BY <1>8 DEF Fallback
  <2>2. OnTargets(targets')
    BY <1>0, <2>1, FellBackTargets
  <2> QED
    BY <1>0, <1>8, <2>2, TypeKept DEF Fallback
<1>9. CASE BuildWidget
  <2>1. targets' = targets \/ targets' = Seeded(targets, fields[cur])
    BY <1>9 DEF BuildWidget
  <2>2. OnTargets(targets')
    BY <1>0, <2>1, SeededTargets
  <2>3. cur' \in Nat \ {0}
    BY <1>0, <1>9 DEF BuildWidget
  <2> QED
    BY <1>0, <1>9, <2>2, <2>3, TypeKept DEF BuildWidget
<1>10. CASE RunForm
  BY <1>0, <1>10, TypeKept DEF RunForm
<1>11. CASE EditField
  <2>1. \/ targets' = targets
        \/ \E v \in Values : targets' = Assigned(targets, fields[cur].target, v)
    BY <1>11 DEF EditField, Assigned
  <2>2. OnTargets(targets')
    BY <1>0, <2>1, AssignedTo
  <2> QED
    BY <1>0, <1>11, <2>2, TypeKept DEF EditField
<1>12. CASE LeaveField
  <2>1. \/ targets' = targets
        \/ targets' = Assigned(targets, fields[cur].target, raw[cur])
    BY <1>12 DEF LeaveField, Committed, Assigned
  <2>2. OnTargets(targets')
    BY <1>0, <2>1, AssignedTo
  <2>3. cur' \in Nat \ {0}
    BY <1>0, <1>12 DEF LeaveField
  <2> QED
    BY <1>0, <1>12, <2>2, <2>3, TypeKept DEF LeaveField
<1>13. CASE ApplyOption
  BY <1>0, <1>13, TypeKept DEF ApplyOption, formVars
<1>14. CASE \/ PromptRefused \/ ConfirmBypassed \/ ConfirmRequired \/ ConfirmAsks
            \/ Ask \/ Choose \/ EditPrompt \/ SubmitPrompt \/ GiveUp
  <2>1. UNCHANGED <<setup, formVars, i, issues>>
    BY <1>14 DEF PromptRefused, ConfirmBypassed, ConfirmRequired, ConfirmAsks, Ask, Choose,
                 EditPrompt, SubmitPrompt, GiveUp
  <2> QED
    BY <1>0, <2>1, TypeKept DEF formVars
<1> QED
  BY <1>1, <1>2, <1>3, <1>4, <1>5, <1>6, <1>7, <1>8, <1>9, <1>10, <1>11, <1>12, <1>13, <1>14
  DEF Next, Own, User

\* The options of a form, its end, and its fields.
Options == NilFormOption \/ WithFormTimeout \/ LooseField \/ WithFormGroup
           \/ GroupOption \/ GroupDone
Filling == Fallback \/ BuildWidget \/ RunForm \/ EditField \/ LeaveField \/ GiveUp

\* A form takes no step of a single prompt.
LEMMA FormSteps ==
  ASSUME PlaceOK, Formed, Next
  PROVE  Options \/ FormRefused \/ FallbackWalk \/ ShowForm \/ FallbackDone \/ Filling
  BY DEF PlaceOK, Formed, Next, Own, User, Options, Filling, ApplyOption, PromptRefused, Applied,
         Asks, Chooses, ConfirmBypassed, ConfirmRequired, ConfirmAsks, Ask, Choose, EditPrompt, SubmitPrompt

\* Each step leads to a place that is allowed.
LEMMA PlaceStep ==
  ASSUME FormType, PlaceOK, Next
  PROVE  PlaceOK'
<1>0. /\ call' = call /\ interactive' = interactive /\ (Formed <=> Formed')
      /\ i \in Nat /\ j \in Nat
  BY SetupKept DEF setup, Formed, FormType
<1>1. CASE Formed
  <2>0. /\ call.fn = "Form"
        /\ pc \in {"options", "group", "fallback", "build", "form", "returned"}
        /\ pc \in {"options", "group"} => cur = 1 /\ fields = <<>> /\ i <= Len(call.opts)
        /\ pc = "group" => /\ i > 0 /\ call.opts[i].opt = "group"
                           /\ j <= Len(call.opts[i].opts)
        /\ pc \in {"build", "form"} => interactive
        /\ pc = "fallback" => ~interactive
        /\ ret.err \in {None} \cup Errors
    BY <1>1 DEF PlaceOK, Formed
  <2>1. /\ Len(call.opts) \in Nat
        /\ \A k \in 1..Len(call.opts) : call.opts[k].opt = "group" => Len(call.opts[k].opts) \in Nat
    BY <1>1, OptionsOfForm DEF FormType
  <2>2. CASE NilFormOption \/ WithFormTimeout \/ LooseField
    <3>1. pc' = pc /\ pc = "options" /\ i' = i + 1 /\ i < Len(call.opts) /\ UNCHANGED <<cur, fields, ret>>
      BY <2>2 DEF NilFormOption, WithFormTimeout, LooseField, FormOption, formVars
    <3> QED
      BY <1>0, <1>1, <2>0, <2>1, <3>1 DEF PlaceOK
  <2>3. CASE WithFormGroup
    <3>1. /\ pc' = "group" /\ pc = "options" /\ i' = i + 1 /\ i < Len(call.opts) /\ j' = 0
          /\ call.opts[i + 1].opt = "group"
          /\ UNCHANGED <<cur, fields, ret>>
      BY <2>3 DEF WithFormGroup, FormOption
    <3>2. i + 1 \in 1..Len(call.opts)
      BY <1>0, <2>1, <3>1
    <3> QED
      BY <1>0, <1>1, <2>0, <2>1, <3>1, <3>2 DEF PlaceOK
  <2>4. CASE GroupOption
    <3>1. /\ pc' = "group" /\ pc = "group" /\ i' = i /\ j' = j + 1 /\ j < Len(call.opts[i].opts)
          /\ UNCHANGED <<cur, fields, ret>>
      BY <2>4 DEF GroupOption
    <3>2. i \in 1..Len(call.opts)
      BY <1>0, <2>0, <2>1, <3>1
    <3>3. Len(call.opts[i].opts) \in Nat
      BY <2>0, <2>1, <3>1, <3>2
    <3> QED
      BY <1>0, <1>1, <2>0, <2>1, <3>1, <3>3 DEF PlaceOK
  <2>5. CASE GroupDone
    <3>1. pc' = "options" /\ pc = "group" /\ i' = i /\ UNCHANGED <<cur, fields, ret>>
      BY <2>5 DEF GroupDone
    <3> QED
      BY <1>0, <1>1, <2>0, <3>1 DEF PlaceOK
  <2>6. CASE FormRefused \/ FallbackDone \/ GiveUp
    <3>1. pc' = "returned" /\ ret'.err \in {None} \cup Errors
      BY <2>6 DEF FormRefused, FallbackDone, GiveUp, Fail, Return, Errors
    <3> QED
      BY <1>0, <1>1, <3>1 DEF PlaceOK
  <2>7. CASE FallbackWalk \/ ShowForm
    <3>1. /\ ret' = ret
          /\ (pc' = "fallback" /\ ~interactive) \/ (pc' = "build" /\ interactive)
      BY <2>7 DEF FallbackWalk, ShowForm
    <3> QED
      BY <1>0, <1>1, <2>0, <3>1 DEF PlaceOK
  <2>8. CASE Fallback \/ RunForm \/ EditField
    <3>1. /\ ret' = ret
          /\ (pc' = "fallback" /\ pc = "fallback") \/ (pc' = "form" /\ pc \in {"build", "form"})
      BY <2>8 DEF Fallback, RunForm, EditField
    <3> QED
      BY <1>0, <1>1, <2>0, <3>1 DEF PlaceOK
  <2>9. CASE BuildWidget \/ LeaveField
    <3>1. /\ pc \in {"build", "form"}
          /\ (ret' = ret /\ pc' = pc) \/ (pc' = "returned" /\ ret'.err \in {None} \cup Errors)
      BY <2>9 DEF BuildWidget, LeaveField, Fail, Return, Errors
    <3> QED
      BY <1>0, <1>1, <2>0, <3>1 DEF PlaceOK
  <2> QED
    BY <1>1, <2>2, <2>3, <2>4, <2>5, <2>6, <2>7, <2>8, <2>9, FormSteps DEF Options, Filling
<1>2. CASE ~Formed
  <2>0. call.fn # "Form" /\ pc \in {"options", "widget", "type", "returned"}
    BY <1>2 DEF PlaceOK, Formed
  <2>1. pc' \in {"options", "widget", "type", "returned"}
    BY <2>0 DEF Next, Own, User, FormOption, OptionsDone, NilFormOption, WithFormTimeout, LooseField,
       WithFormGroup, GroupOption, GroupDone, FormRefused, FallbackWalk, Fallback, FallbackDone,
       ShowForm, BuildWidget, RunForm,
       ApplyOption, PromptRefused, ConfirmBypassed, ConfirmRequired, ConfirmAsks, Ask, Choose,
       EditField, LeaveField, EditPrompt, SubmitPrompt, GiveUp, Fail, Return
  <2> QED
    BY <1>0, <1>2, <2>1 DEF PlaceOK
<1> QED
  BY <1>1, <1>2

(***************************************************************************)
(* Faults: each one is counted.                                            *)
(***************************************************************************)

\* One option more without a fault.
LEMMA OneMoreSound ==
  ASSUME NEW n \in Nat, NEW os
  PROVE  /\ (\A k \in 1..(n + 1) : ~Faulty(os[k]))
              <=> (\A k \in 1..n : ~Faulty(os[k])) /\ ~Faulty(os[n + 1])
         /\ (\A k \in 1..(n + 1) : ~FaultyIn(os[k]))
              <=> (\A k \in 1..n : ~FaultyIn(os[k])) /\ ~FaultyIn(os[n + 1])
<1>1. 1..(n + 1) = 1..n \cup {n + 1}
  OBVIOUS
<1> QED
  BY <1>1

\* FaultsCounted holds at the start, and each step keeps it.
LEMMA InitFaults == Init => FaultsCounted
  BY DEF Init, FaultsCounted

LEMMA FaultsStep ==
  ASSUME FormType, PlaceOK, FaultsCounted, Next
  PROVE  FaultsCounted'
<1> SUFFICES ASSUME Formed PROVE FaultsCounted'
  BY SetupKept DEF FaultsCounted, Formed, setup
<1>0. /\ call' = call /\ interactive' = interactive /\ Formed'
      /\ i \in Nat /\ j \in Nat /\ issues \in Nat /\ page.issues \in Nat
      /\ page \in DraftOf(Entries)
  BY SetupKept DEF setup, Formed, FormType, DraftOf
<1>1. /\ pc = "options" => (issues = 0 <=> \A k \in 1..i : ~Faulty(call.opts[k]))
      /\ pc = "group" =>
           /\ issues = 0 <=> \A k \in 1..(i - 1) : ~Faulty(call.opts[k])
           /\ page.issues = 0 <=> \A l \in 1..j : ~FaultyIn(call.opts[i].opts[l])
      /\ pc \in {"fallback", "build", "form"} => \A k \in DOMAIN call.opts : ~Faulty(call.opts[k])
  BY DEF FaultsCounted
<1>2. None \notin Errors
  BY CallsAssumption
<1>3. Len(call.opts) \in Nat /\ DOMAIN call.opts = 1..Len(call.opts)
  BY OptionsOfForm DEF FormType
<1>4. CASE NilFormOption \/ WithFormTimeout \/ LooseField
  <2>1. pc' = "options" /\ pc = "options" /\ i' = i + 1
    BY <1>4 DEF NilFormOption, WithFormTimeout, LooseField, FormOption
  <2>2. issues' = IF Faulty(call.opts[i + 1]) THEN issues + 1 ELSE issues
    <3>1. CASE NilFormOption
      BY <3>1 DEF NilFormOption, FormOption, Faulty
    <3>2. CASE WithFormTimeout
      BY <3>2 DEF WithFormTimeout, FormOption, Faulty
    <3>3. CASE LooseField
      BY <3>3 DEF LooseField, FormOption, Faulty
    <3> QED
      BY <1>4, <3>1, <3>2, <3>3
  <2>3. issues' = 0 <=> issues = 0 /\ ~Faulty(call.opts[i + 1])
    BY <1>0, <2>2
  <2>4. issues' = 0 <=> \A k \in 1..(i + 1) : ~Faulty(call.opts[k])
    BY <1>0, <1>1, <2>1, <2>3, OneMoreSound
  <2> QED
    BY <1>0, <2>1, <2>4 DEF FaultsCounted
<1>5. CASE WithFormGroup
  <2>1. /\ pc' = "group" /\ pc = "options" /\ i' = i + 1 /\ j' = 0 /\ issues' = issues
        /\ page'.issues = 0
    BY <1>5 DEF WithFormGroup, FormOption, NoPage
  <2>2. i' - 1 = i /\ \A l \in 1..j' : FALSE
    BY <1>0, <2>1
  <2> QED
    BY <1>0, <1>1, <2>1, <2>2 DEF FaultsCounted
<1>6. CASE GroupOption
  <2> DEFINE o == call.opts[i].opts[j + 1]
  <2>1. pc' = "group" /\ pc = "group" /\ i' = i /\ j' = j + 1 /\ issues' = issues
    BY <1>6 DEF GroupOption
  <2>2. o.opt \in {"nil", "field"}
    <3>1. i \in 1..Len(call.opts) /\ call.opts[i].opt = "group"
      BY <1>0, <1>3, <2>1 DEF PlaceOK
    <3>2. /\ Len(call.opts[i].opts) \in Nat
          /\ DOMAIN call.opts[i].opts = 1..Len(call.opts[i].opts)
          /\ \A l \in DOMAIN call.opts[i].opts : call.opts[i].opts[l].opt \in {"nil", "field"}
      BY <1>3, <3>1, OptionsOfForm DEF FormType
    <3>3. j + 1 \in DOMAIN call.opts[i].opts
      BY <1>0, <1>6, <3>2 DEF GroupOption
    <3> QED
      BY <3>2, <3>3
  <2>3. FaultyIn(o) <=> o.opt = "nil" \/ Declined(o.field)
    BY <2>2 DEF FaultyIn
  <2>4. page'.issues = IF FaultyIn(o) THEN page.issues + 1 ELSE page.issues
    <3>1. CASE FaultyIn(o)
      <4>1. page' = [page EXCEPT !.issues = @ + 1]
        BY <1>6, <2>3, <3>1 DEF GroupOption
      <4> QED
        BY <1>0, <3>1, <4>1
    <3>2. CASE ~FaultyIn(o)
      <4>1. \E e : page' = [page EXCEPT !.fields = Append(@, e)]
        BY <1>6, <2>3, <3>2 DEF GroupOption
      <4> QED
        BY <1>0, <3>2, <4>1
    <3> QED
      BY <3>1, <3>2
  <2>5. page'.issues = 0 <=> page.issues = 0 /\ ~FaultyIn(o)
    BY <1>0, <2>4
  <2>6. page'.issues = 0 <=> \A l \in 1..(j + 1) : ~FaultyIn(call.opts[i].opts[l])
    BY <1>0, <1>1, <2>1, <2>5, OneMoreSound
  <2> QED
    BY <1>0, <1>1, <2>1, <2>6 DEF FaultsCounted
<1>7. CASE GroupDone
  <2>1. /\ pc' = "options" /\ pc = "group" /\ i' = i /\ j = Len(call.opts[i].opts)
        /\ issues' = IF page.issues > 0 THEN issues + 1 ELSE issues
    BY <1>7 DEF GroupDone
  <2>2. i \in 1..Len(call.opts) /\ call.opts[i].opt = "group"
    BY <1>0, <1>3, <2>1 DEF PlaceOK
  <2>3. DOMAIN call.opts[i].opts = 1..j
    BY <1>3, <2>1, <2>2, OptionsOfForm DEF FormType
  <2>4. Faulty(call.opts[i]) <=> \E l \in 1..j : FaultyIn(call.opts[i].opts[l])
    BY <2>2, <2>3 DEF Faulty
  <2>5. issues' = 0 <=> issues = 0 /\ ~Faulty(call.opts[i])
    BY <1>0, <1>1, <2>1, <2>4
  <2>6. i - 1 \in Nat /\ (i - 1) + 1 = i
    BY <1>0, <2>2
  <2>7. issues' = 0 <=> \A k \in 1..i : ~Faulty(call.opts[k])
    BY <1>1, <2>1, <2>5, <2>6, OneMoreSound
  <2> QED
    BY <1>0, <2>1, <2>7 DEF FaultsCounted
<1>8. CASE FormRefused
  <2>1. /\ pc' = "returned" /\ pc = "options" /\ i = Len(call.opts)
        /\ (issues > 0 /\ ret'.err = "options") \/ (issues = 0 /\ ret'.err = None)
    BY <1>8 DEF FormRefused, OptionsDone, Fail, Return
  <2>2. None # "options"
    BY <1>2 DEF Errors
  <2>3. ret'.err = "options" <=> \E k \in DOMAIN call.opts : Faulty(call.opts[k])
    BY <1>0, <1>1, <1>3, <2>1, <2>2
  <2> QED
    BY <1>0, <2>1, <2>3 DEF FaultsCounted
<1>9. CASE FallbackWalk \/ ShowForm
  <2>1. /\ pc' \in {"fallback", "build"} /\ pc = "options" /\ i = Len(call.opts) /\ issues = 0
    BY <1>9 DEF FallbackWalk, ShowForm, OptionsDone
  <2>2. \A k \in DOMAIN call.opts : ~Faulty(call.opts[k])
    BY <1>1, <1>3, <2>1
  <2> QED
    BY <1>0, <2>1, <2>2 DEF FaultsCounted
<1>10. CASE FallbackDone \/ Filling
  <2>1. /\ pc \in {"fallback", "build", "form"}
        /\ \/ pc' \in {"fallback", "build", "form"}
           \/ pc' = "returned" /\ ret'.err \in {None, "missing", "build", "aborted", "timeout"}
    BY <1>10 DEF Filling, FallbackDone, Fallback, BuildWidget, RunForm, EditField, LeaveField, GiveUp,
                 Fail, Return, PlaceOK, Formed
  <2>2. None # "options"
    BY <1>2 DEF Errors
  <2>3. \A k \in DOMAIN call.opts : ~Faulty(call.opts[k])
    BY <1>1, <2>1
  <2>4. pc' = "returned" => ret'.err # "options"
    BY <2>1, <2>2
  <2> QED
    BY <1>0, <2>1, <2>3, <2>4 DEF FaultsCounted
<1> QED
  BY <1>4, <1>5, <1>6, <1>7, <1>8, <1>9, <1>10, FormSteps DEF Options

(***************************************************************************)
(* Starting values.                                                        *)
(***************************************************************************)

\* OnlySeeded and SeedsKept hold at the start, and each step keeps them.
LEMMA InitSeeds == Init => OnlySeeded /\ SeedsKept
  BY DEF Init, OnlySeeded, SeedsKept, Seed, SeedKept

LEMMA SeedsStep ==
  ASSUME FormType, PlaceOK, OnlySeeded, Next
  PROVE  OnlySeeded'
<1> SUFFICES ASSUME Formed,
                    pc' \in {"options", "group"} \/ (pc' = "returned" /\ ret'.err = "options"),
                    NEW t \in Targets
             PROVE  Seed(t)'
  BY SetupKept DEF OnlySeeded, Formed, setup
<1>0. call' = call /\ Places' = Places
  BY SetupKept, EntriesKept DEF setup
<1>1. ASSUME targets' = targets, pc \in {"options", "group"}
      PROVE  Seed(t)'
  BY <1>0, <1>1 DEF OnlySeeded, Seed, FieldAt
<1>2. ASSUME NEW at \in Places, targets' = Seeded(targets, Entry(FieldAt(at), at)),
             pc \in {"options", "group"}
      PROVE  Seed(t)'
  <2>1. PICK e : e = Entry(FieldAt(at), at)
    OBVIOUS
  <2>2. targets'[t] = IF e.initial # None /\ t = e.target THEN e.initial ELSE targets[t]
    <3>1. OnTargets(targets)
      BY DEF FormType
    <3> QED
      BY <1>2, <2>1, <3>1 DEF Seeded, OnTargets
  <2>3. e.target = FieldAt(at).target
    BY <2>1 DEF Entry
  <2>4. Seed(t)
    BY <1>2 DEF OnlySeeded
  <2>5. CASE e.initial # None /\ t = e.target
    <3>1. FieldAt(at).target = t /\ targets'[t] = Entry(FieldAt(at), at).initial
      BY <2>1, <2>2, <2>3, <2>5
    <3> QED
      BY <1>0, <3>1 DEF Seed, FieldAt
  <2>6. CASE ~(e.initial # None /\ t = e.target)
    BY <1>0, <2>2, <2>4, <2>6 DEF Seed, FieldAt
  <2> QED
    BY <2>5, <2>6
<1>3. CASE NilFormOption \/ WithFormTimeout \/ WithFormGroup \/ GroupDone \/ FormRefused
  BY <1>1, <1>3 DEF NilFormOption, WithFormTimeout, WithFormGroup, GroupDone, FormRefused, FormOption,
                    OptionsDone, formVars
<1>4. CASE LooseField
  <2>1. CASE Declined(call.opts[i + 1].field)
    BY <1>1, <1>4, <2>1 DEF LooseField, FormOption
  <2>2. CASE ~Declined(call.opts[i + 1].field)
    <3>1. \E at \in Places : targets' = Seeded(targets, Entry(FieldAt(at), at))
      BY <1>4, <2>2, LooseFieldMade
    <3> QED
      BY <1>2, <1>4, <3>1 DEF LooseField, FormOption
  <2> QED
    BY <2>1, <2>2
<1>5. CASE GroupOption
  <2> DEFINE o == call.opts[i].opts[j + 1]
  <2>1. CASE o.opt = "nil" \/ Declined(o.field)
    BY <1>1, <1>5, <2>1 DEF GroupOption
  <2>2. CASE ~(o.opt = "nil" \/ Declined(o.field))
    <3>1. \E at \in Places : targets' = Seeded(targets, Entry(FieldAt(at), at))
      BY <1>5, <2>2, GroupFieldMade
    <3> QED
      BY <1>2, <1>5, <3>1 DEF GroupOption
  <2> QED
    BY <2>1, <2>2
<1>6. ~(FallbackWalk \/ ShowForm)
  BY DEF FallbackWalk, ShowForm
<1>7. ~(FallbackDone \/ Filling)
  <2>1. ASSUME FallbackDone \/ Filling
        PROVE  pc' \in {"fallback", "build", "form"}
               \/ (pc' = "returned" /\ ret'.err \in {None, "missing", "build", "aborted", "timeout"})
    BY <2>1 DEF Filling, FallbackDone, Fallback, BuildWidget, RunForm, EditField, LeaveField, GiveUp,
                Fail, Return
  <2>2. None # "options"
    BY CallsAssumption DEF Errors
  <2> QED
    BY <2>1, <2>2
<1> QED
  BY <1>3, <1>4, <1>5, <1>6, <1>7, FormSteps DEF Options

LEMMA SeedKeptStep ==
  ASSUME FormType, PlaceOK, SeedsKept, Next
  PROVE  SeedsKept'
<1> SUFFICES ASSUME Formed, pc' \in {"options", "group"}, issues' = 0,
                    pc' = "group" => page'.issues = 0,
                    NEW t \in Targets
             PROVE  SeedKept(t)'
  BY SetupKept DEF SeedsKept, Formed, setup
<1>0. /\ call' = call /\ Places' = Places
      /\ pages \in Seq(PageOf(Entries)) /\ page \in DraftOf(Entries)
      /\ issues \in Nat /\ page.issues \in Nat
  BY SetupKept, EntriesKept DEF setup, FormType, DraftOf
<1>1. ASSUME targets'[t] = targets[t], Kept \subseteq Kept', SeedKept(t)
      PROVE  SeedKept(t)'
  BY <1>1 DEF SeedKept
<1>2. ASSUME NEW e \in Entries, targets' = Seeded(targets, e), Kept \subseteq Kept',
             e \in Kept', SeedKept(t)
      PROVE  SeedKept(t)'
  <2>1. targets'[t] = IF e.initial # None /\ t = e.target THEN e.initial ELSE targets[t]
    <3>1. OnTargets(targets)
      BY DEF FormType
    <3> QED
      BY <1>2, <3>1 DEF Seeded, OnTargets
  <2>2. e.initial # None => e.kind # "note"
    BY EntryShape DEF FormType
  <2>3. CASE e.initial # None /\ t = e.target
    BY <1>2, <2>1, <2>2, <2>3 DEF SeedKept
  <2>4. CASE ~(e.initial # None /\ t = e.target)
    BY <1>1, <1>2, <2>1, <2>4
  <2> QED
    BY <2>3, <2>4
<1>3. CASE WithFormTimeout
  <2>1. UNCHANGED <<pages, page, targets, pc, issues>> /\ pc = "options"
    BY <1>3 DEF WithFormTimeout, FormOption
  <2> QED
    BY <1>1, <2>1 DEF Kept, SeedsKept
<1>4. CASE NilFormOption
  BY <1>0, <1>4 DEF NilFormOption
<1>5. CASE LooseField
  <2>1. pc = "options" /\ pc' = "options"
    BY <1>5 DEF LooseField, FormOption
  <2>2. CASE Declined(call.opts[i + 1].field)
    BY <1>0, <1>5, <2>2 DEF LooseField
  <2>3. CASE ~Declined(call.opts[i + 1].field)
    <3>1. PICK e \in Entries :
            pages' = OnFirstPage(pages, e) /\ targets' = Seeded(targets, e) /\ issues' = issues
      BY <1>5, <2>3, LooseFieldMade
    <3>2. EntriesOn(pages') = EntriesOn(pages) \cup {e}
      BY <1>0, <3>1, FirstPage
    <3>3. Kept \subseteq Kept' /\ e \in Kept'
      BY <2>1, <3>2 DEF Kept
    <3>4. SeedKept(t)
      BY <2>1, <3>1 DEF SeedsKept
    <3> QED
      BY <1>2, <3>1, <3>3, <3>4
  <2> QED
    BY <2>2, <2>3
<1>6. CASE WithFormGroup
  <2>1. UNCHANGED <<pages, targets, issues>> /\ pc = "options"
    BY <1>6 DEF WithFormGroup, FormOption
  <2> QED
    BY <1>1, <2>1 DEF Kept, SeedsKept
<1>7. CASE GroupOption
  <2> DEFINE o == call.opts[i].opts[j + 1]
  <2>1. pc = "group" /\ pc' = "group" /\ UNCHANGED <<pages, issues>>
    BY <1>7 DEF GroupOption
  <2>2. CASE o.opt = "nil" \/ Declined(o.field)
    <3>1. page' = [page EXCEPT !.issues = @ + 1]
      BY <1>7, <2>2 DEF GroupOption
    <3>2. page'.issues = page.issues + 1
      BY <1>0, <3>1
    <3> QED
      BY <1>0, <2>1, <3>2
  <2>3. CASE ~(o.opt = "nil" \/ Declined(o.field))
    <3>1. PICK e \in Entries :
            page' = Grown(page, e) /\ targets' = Seeded(targets, e)
      BY <1>7, <2>3, GroupFieldMade
    <3>2. Range(page'.fields) = Range(page.fields) \cup {e} /\ page'.issues = page.issues
      <4>1. PICK p : p = Grown(page, e)
        OBVIOUS
      <4>2. Range(p.fields) = Range(page.fields) \cup {e} /\ p.issues = page.issues
        BY <1>0, <4>1, PageGrown
      <4> QED
        BY <3>1, <4>1, <4>2
    <3>3. Kept \subseteq Kept' /\ e \in Kept'
      BY <2>1, <3>2 DEF Kept
    <3>4. SeedKept(t)
      BY <2>1, <3>2 DEF SeedsKept
    <3> QED
      BY <1>2, <3>1, <3>3, <3>4
  <2> QED
    BY <2>2, <2>3
<1>8. CASE GroupDone
  <2>1. pc = "group" /\ pc' = "options" /\ targets' = targets
    BY <1>8 DEF GroupDone
  <2>2. CASE page.issues > 0
    BY <1>0, <1>8, <2>2 DEF GroupDone
  <2>3. CASE ~(page.issues > 0)
    <3>1. pages' = Append(pages, Page(i, page.fields)) /\ issues' = issues
      BY <1>8, <2>3 DEF GroupDone
    <3>2. Page(i, page.fields) \in PageOf(Entries) /\ Page(i, page.fields).fields = page.fields
      BY <1>0 DEF Page, PageOf, FormType, DraftOf
    <3>3. EntriesOn(pages') = EntriesOn(pages) \cup Range(page.fields)
      BY <1>0, <3>1, <3>2, LastPage
    <3>4. Kept \subseteq Kept'
      BY <2>1, <3>3 DEF Kept
    <3>5. SeedKept(t)
      BY <1>0, <2>1, <2>3, <3>1 DEF SeedsKept
    <3> QED
      BY <1>1, <2>1, <3>4, <3>5
  <2> QED
    BY <2>2, <2>3
<1>9. ~(FormRefused \/ FallbackWalk \/ ShowForm \/ FallbackDone \/ Filling)
  BY DEF FormRefused, FallbackWalk, ShowForm, FallbackDone, Filling, Fallback, BuildWidget, RunForm,
         EditField, LeaveField, GiveUp, Fail, Return
<1> QED
  BY <1>3, <1>4, <1>5, <1>6, <1>7, <1>8, <1>9, FormSteps DEF Options

(***************************************************************************)
(* The walk over the fallbacks.                                            *)
(***************************************************************************)

\* One field more, without a default or not.
LEMMA FiniteLacking ==
  ASSUME NEW n \in Nat
  PROVE  IsFiniteSet(Lacking(n))
<1>1. IsFiniteSet(1..n) /\ Lacking(n) \subseteq 1..n
  BY FS_Interval DEF Lacking
<1> QED
  BY <1>1, FS_Subset

LEMMA LackingNext ==
  ASSUME NEW n \in Nat
  PROVE  Cardinality(Lacking(n + 1)) =
           Cardinality(Lacking(n)) + IF Content(fields[n + 1]) THEN 0 ELSE 1
<1> DEFINE P == {k \in Nat : ~Content(fields[k])}
<1>1. Lacking(n) = {k \in 1..n : k \in P} /\ Lacking(n + 1) = {k \in 1..(n + 1) : k \in P}
  BY DEF Lacking
<1>2. n + 1 \in P <=> ~Content(fields[n + 1])
  OBVIOUS
<1> HIDE DEF P
<1>3. /\ n + 1 \in P => Lacking(n + 1) = Lacking(n) \cup {n + 1} /\ n + 1 \notin Lacking(n)
      /\ n + 1 \notin P => Lacking(n + 1) = Lacking(n)
  BY <1>1, OneMorePlace
<1>4. Cardinality(Lacking(n)) \in Nat
  BY FiniteLacking, FS_CardinalityType
<1>5. CASE n + 1 \in P
  <2>1. Cardinality(Lacking(n) \cup {n + 1}) = Cardinality(Lacking(n)) + 1
    BY <1>3, <1>5, FiniteLacking, FS_AddElement
  <2> QED
    BY <1>2, <1>3, <1>5, <2>1
<1>6. CASE n + 1 \notin P
  BY <1>2, <1>3, <1>4, <1>6
<1> QED
  BY <1>5, <1>6

\* The fallback of the field e goes to t.
Writes(e, t) == e.kind # "note" /\ e.fallback # None /\ t = e.target

\* One field more that writes t or not.
LEMMA WritersNext ==
  ASSUME NEW n \in Nat, NEW t
  PROVE  /\ Writes(fields[n + 1], t) => Writers(t, n + 1) # {} /\ Max(Writers(t, n + 1)) = n + 1
         /\ ~Writes(fields[n + 1], t) => Writers(t, n + 1) = Writers(t, n)
<1> DEFINE P == {k \in Nat : Writes(fields[k], t)}
<1>1. Writers(t, n) = {k \in 1..n : k \in P} /\ Writers(t, n + 1) = {k \in 1..(n + 1) : k \in P}
  BY DEF Writers, Writes
<1>2. n + 1 \in P <=> Writes(fields[n + 1], t)
  OBVIOUS
<1> HIDE DEF P
<1>3. /\ n + 1 \in P => /\ Writers(t, n + 1) = Writers(t, n) \cup {n + 1}
                        /\ Max(Writers(t, n + 1)) = n + 1
      /\ n + 1 \notin P => Writers(t, n + 1) = Writers(t, n)
  BY <1>1, OneMorePlace
<1> QED
  BY <1>2, <1>3

\* What the walk has done for the first n fields.
WalkedTo(n) ==
  /\ issues = Cardinality(Lacking(n))
  /\ \A t \in Targets : Writers(t, n) # {} => targets[t] = fields[Max(Writers(t, n))].fallback

\* Walked holds at the start, and each step keeps it.
LEMMA InitWalk == Init => Walked /\ DefaultsTakenOrReported
  BY DEF Init, Walked, DefaultsTakenOrReported

LEMMA WalkStep ==
  ASSUME FormType, PlaceOK, Walked, Next
  PROVE  Walked'
<1> SUFFICES ASSUME pc' = "fallback" PROVE Walked'
  BY DEF Walked
<1>0. /\ call' = call /\ cur \in Nat \ {0} /\ issues \in Nat /\ Len(fields) \in Nat
      /\ OnTargets(targets)
  BY SetupKept DEF setup, FormType
<1>1. FallbackWalk \/ Fallback
  BY DEF PlaceOK, Formed, Next, Own, User, FormOption,
         NilFormOption, WithFormTimeout, LooseField, WithFormGroup, GroupOption, GroupDone,
         FormRefused, FallbackDone, ShowForm, BuildWidget, RunForm,
         ApplyOption, PromptRefused, ConfirmBypassed, ConfirmRequired, ConfirmAsks, Ask,
         Choose, EditField, LeaveField, EditPrompt, SubmitPrompt, GiveUp, Fail, Return
<1>2. CASE FallbackWalk
  <2>1. cur' = 1 /\ issues' = 0 /\ Len(fields') \in Nat
    <3>1. cur = 1 /\ cur' = cur /\ issues = 0 /\ issues' = issues
      BY <1>2 DEF FallbackWalk, OptionsDone, PlaceOK, Formed
    <3>2. fields' = FieldsOf(pages) /\ pages \in Seq(PageOf(Entries))
      BY <1>2 DEF FallbackWalk, FormType
    <3>3. FieldsOf(pages) \in Seq(Entries)
      BY <3>2, FieldsOfPages
    <3> QED
      BY <3>1, <3>2, <3>3
  <2>2. Lacking(0)' = {} /\ \A t \in Targets : Writers(t, 0)' = {}
    BY DEF Lacking, Writers
  <2>3. cur' - 1 = 0 /\ cur' <= Len(fields') + 1
    BY <2>1
  <2>4. Cardinality({}) = 0
    BY FS_EmptySet
  <2>5. WalkedTo(0)'
    BY <2>1, <2>2, <2>4 DEF WalkedTo
  <2> QED
    BY <2>3, <2>5 DEF Walked, WalkedTo
<1>3. CASE Fallback
  <2>1. /\ pc = "fallback" /\ cur <= Len(fields) /\ cur' = cur + 1 /\ fields' = fields
        /\ targets' = FellBack(targets, fields[cur])
        /\ issues' = issues + IF Content(fields[cur]) THEN 0 ELSE 1
    BY <1>3 DEF Fallback
  <2>2. WalkedTo(cur - 1)
    BY <2>1 DEF Walked, WalkedTo
  <2>3. cur - 1 \in Nat /\ (cur - 1) + 1 = cur
    BY <1>0
  <2>4. issues' = Cardinality(Lacking(cur))
    BY <2>1, <2>2, <2>3, LackingNext DEF WalkedTo
  <2>5. ASSUME NEW t \in Targets, Writers(t, cur) # {}
        PROVE  targets'[t] = fields[Max(Writers(t, cur))].fallback
    <3>1. PICK e : e = fields[cur]
      OBVIOUS
    <3>2. targets'[t] = IF Writes(e, t) THEN e.fallback ELSE targets[t]
      BY <1>0, <2>1, <3>1 DEF FellBack, OnTargets, Writes
    <3>3. CASE Writes(e, t)
      BY <2>3, <3>1, <3>2, <3>3, WritersNext
    <3>4. CASE ~Writes(e, t)
      <4>1. Writers(t, cur) = Writers(t, cur - 1)
        BY <2>3, <3>1, <3>4, WritersNext
      <4> QED
        BY <2>2, <2>5, <3>2, <3>4, <4>1 DEF WalkedTo
    <3> QED
      BY <3>3, <3>4
  <2>6. cur' - 1 = cur /\ cur' <= Len(fields') + 1
    BY <1>0, <2>1
  <2> QED
    BY <2>1, <2>4, <2>5, <2>6 DEF Walked, Lacking, Writers
<1> QED
  BY <1>1, <1>2, <1>3

\* The walk has come to the end, or there was nothing to walk over.
LEMMA WalkEnds ==
  ASSUME FormType, PlaceOK, Walked, DefaultsTakenOrReported, Next
  PROVE  DefaultsTakenOrReported'
<1> SUFFICES ASSUME Formed, ~interactive, pc' = "returned", ret'.err # "options"
             PROVE  DefaultsTakenOrReported'
  BY SetupKept DEF DefaultsTakenOrReported, Formed, setup
<1>0. /\ cur \in Nat \ {0} /\ issues \in Nat /\ Len(fields) \in Nat
      /\ DOMAIN fields = 1..Len(fields)
  BY DEF FormType
<1>1. FormRefused \/ FallbackDone
  BY FormSteps DEF PlaceOK, Formed, Options, Filling, FormOption,
         NilFormOption, WithFormTimeout, LooseField, WithFormGroup, GroupOption, GroupDone,
         FallbackWalk, Fallback, ShowForm, BuildWidget, RunForm,
         EditField, LeaveField, GiveUp, Fail, Return
<1>2. /\ UNCHANGED <<fields, issues, targets>>
      /\ DOMAIN fields = 1..(cur - 1)
      /\ WalkedTo(cur - 1)
      /\ ret'.err = IF issues > 0 THEN "missing" ELSE None
  <2>1. CASE FormRefused
    <3>1. /\ UNCHANGED <<fields, issues, targets>> /\ pc = "options"
          /\ issues = 0 /\ ret'.err = None
      BY <2>1 DEF FormRefused, OptionsDone, Fail, Return, formVars
    <3>2. cur = 1 /\ fields = <<>>
      BY <3>1 DEF PlaceOK
    <3>3. DOMAIN fields = 1..(cur - 1) /\ cur - 1 = 0
      BY <3>2
    <3>4. Lacking(0) = {} /\ \A t \in Targets : Writers(t, 0) = {}
      BY DEF Lacking, Writers
    <3>5. Cardinality({}) = 0
      BY FS_EmptySet
    <3>6. WalkedTo(0)
      BY <3>1, <3>4, <3>5 DEF WalkedTo
    <3> QED
      BY <3>1, <3>3, <3>6
  <2>2. CASE FallbackDone
    <3>1. /\ UNCHANGED <<fields, issues, targets>> /\ pc = "fallback" /\ cur > Len(fields)
          /\ ret'.err = IF issues > 0 THEN "missing" ELSE None
      BY <2>2 DEF FallbackDone, Return, formVars
    <3>2. WalkedTo(cur - 1) /\ cur <= Len(fields) + 1
      BY <3>1 DEF Walked, WalkedTo
    <3>3. cur - 1 = Len(fields)
      BY <1>0, <3>1, <3>2
    <3> QED
      BY <1>0, <3>1, <3>2, <3>3
  <2> QED
    BY <1>1, <2>1, <2>2
<1>3. PICK n \in Nat : n = cur - 1
  BY <1>0
<1>4. issues = Cardinality(Lacking(n)) /\ (issues = 0 <=> Lacking(n) = {})
  BY <1>2, <1>3, FiniteLacking, FS_EmptySet DEF WalkedTo
<1>5. ret'.err = IF Lacking(n) = {} THEN None ELSE "missing"
  BY <1>0, <1>2, <1>4
<1>6. /\ {k \in DOMAIN fields : ~Content(fields[k])} = Lacking(n)
      /\ \A t : {k \in DOMAIN fields : /\ fields[k].kind # "note"
                                       /\ fields[k].target = t
                                       /\ fields[k].fallback # None} = Writers(t, n)
  BY <1>2, <1>3 DEF Lacking, Writers
<1>7. \A t \in Targets : Writers(t, n) # {} => targets[t] = fields[Max(Writers(t, n))].fallback
  BY <1>2, <1>3 DEF WalkedTo
<1> QED
  BY <1>2, <1>4, <1>5, <1>6, <1>7 DEF DefaultsTakenOrReported

(***************************************************************************)
(* What the widgets store.                                                 *)
(***************************************************************************)

\* NumbersOK for one variable.
NumberOK(t) ==
  AllNumbers(t) => targets[t] \in Accepts \cup {Start[t]} \cup {fields[k].initial : k \in On(t)}

\* NumbersOK and Behind hold at the start.
LEMMA InitNumbers == Init => NumbersOK /\ Behind
<1> SUFFICES ASSUME Init PROVE NumbersOK /\ Behind
  OBVIOUS
<1>1. \A t : On(t) = {}
  BY DEF Init, On
<1> QED
  BY <1>1 DEF Init, NumbersOK, Behind, AllNumbers, Validated

\* Without fields there is nothing to validate.
LEMMA NoFields ==
  ASSUME fields = <<>>
  PROVE  \A t : ~Validated(t)
  BY DEF Validated, On

\* The field the user or the loop is at.
LEMMA FieldAtCur ==
  ASSUME FormType, Formed, cur <= Len(fields)
  PROVE  /\ cur \in DOMAIN fields /\ fields[cur] \in Entries
         /\ fields[cur].kind # "note" => fields[cur].target \in Targets
         /\ fields[cur].initial # None => fields[cur].kind # "note"
<1>1. cur \in DOMAIN fields /\ fields[cur] \in Entries
  <2>1. fields \in Seq(Entries) /\ cur \in Nat \ {0}
    BY DEF FormType
  <2> QED
    BY <2>1
<1>2. PICK e : e = fields[cur]
  OBVIOUS
<1> QED
  BY <1>1, <1>2, EntryShape DEF FormType

\* What is left on a variable whose fields are all validated, once one of
\* them has been left.
LEMMA LeftAccepted ==
  ASSUME FormType, Formed, LeaveField, NEW t \in Targets, Validated(t)
  PROVE  /\ cur \in On(t) => targets'[t] \in Accepts
         /\ cur \notin On(t) => targets'[t] = targets[t]
<1>0. /\ cur <= Len(fields) /\ Passes(cur) /\ targets' = Committed(cur) /\ OnTargets(targets)
  BY DEF LeaveField, FormType
<1>1. cur \in DOMAIN fields
  BY <1>0, FieldAtCur
<1>2. cur \in On(t) <=> fields[cur].kind # "note" /\ fields[cur].target = t
  BY <1>1 DEF On
<1>3. targets'[t] = IF fields[cur].kind = "number" /\ fields[cur].target = t
                    THEN raw[cur] ELSE targets[t]
  BY <1>0 DEF Committed, OnTargets
<1>4. ASSUME cur \in On(t) PROVE targets'[t] \in Accepts
  <2>1. fields[cur].kind # "note" /\ fields[cur].target = t /\ fields[cur].validate
    BY <1>2, <1>4 DEF Validated
  <2>2. CASE fields[cur].kind = "number"
    BY <1>0, <1>3, <2>1, <2>2 DEF Passes
  <2>3. CASE fields[cur].kind # "number"
    BY <1>0, <1>3, <2>1, <2>3 DEF Passes
  <2> QED
    BY <2>2, <2>3
<1>5. cur \notin On(t) => targets'[t] = targets[t]
  BY <1>2, <1>3
<1> QED
  BY <1>4, <1>5

\* Each step keeps NumbersOK, and Behind.
LEMMA NumbersStep ==
  ASSUME FormType, PlaceOK, PlaceOK', SeedsKept, NumbersOK, Next
  PROVE  NumbersOK'
<1> SUFFICES ASSUME Formed, interactive, NEW t \in Targets, AllNumbers(t)'
             PROVE  NumberOK(t)'
  BY SetupKept DEF NumbersOK, NumberOK, Formed, setup
<1>0. call' = call /\ interactive' = interactive /\ Formed' /\ OnTargets(targets)
      /\ cur \in Nat \ {0} /\ fields \in Seq(Entries) /\ pages \in Seq(PageOf(Entries))
  BY SetupKept DEF setup, Formed, FormType
<1>1. ASSUME fields' = fields, targets'[t] = targets[t] PROVE NumberOK(t)'
  BY <1>1 DEF NumbersOK, NumberOK, AllNumbers, Validated, On
<1>2. CASE pc' \in {"options", "group"}
  <2>1. fields' = <<>>
    BY <1>0, <1>2 DEF PlaceOK
  <2> QED
    BY <2>1 DEF NumberOK, AllNumbers, Validated, On
<1>3. CASE FormRefused \/ RunForm \/ GiveUp
  BY <1>1, <1>3 DEF FormRefused, RunForm, GiveUp, formVars
<1>4. CASE ShowForm
  <2>1. fields' = FieldsOf(pages) /\ targets' = targets /\ pc = "options" /\ issues = 0
    BY <1>4 DEF ShowForm, OptionsDone
  <2>2. fields' \in Seq(Entries) /\ Range(fields') = EntriesOn(pages)
    BY <1>0, <2>1, FieldsOfPages
  <2>3. SeedKept(t) /\ Kept = EntriesOn(pages)
    BY <2>1 DEF SeedsKept, Kept
  <2>4. CASE targets[t] = Start[t]
    BY <2>1, <2>4 DEF NumberOK
  <2>5. CASE targets[t] # Start[t]
    <3>1. PICK e \in Range(fields') : e.kind # "note" /\ e.target = t /\ e.initial = targets[t]
      BY <2>2, <2>3, <2>5 DEF SeedKept
    <3>2. PICK k \in DOMAIN fields' : fields'[k] = e
      BY <3>1 DEF Range
    <3>3. k \in On(t)' /\ fields'[k].initial = targets'[t]
      BY <2>1, <3>1, <3>2 DEF On
    <3> QED
      BY <3>3 DEF NumberOK
  <2> QED
    BY <2>4, <2>5
<1>5. CASE BuildWidget
  <2>1. cur <= Len(fields) /\ fields' = fields
        /\ (targets' = targets \/ targets' = Seeded(targets, fields[cur]))
    BY <1>5 DEF BuildWidget
  <2>2. PICK e : e = fields[cur]
    OBVIOUS
  <2>3. cur \in DOMAIN fields /\ (e.initial # None => e.kind # "note")
    BY <2>1, <2>2, FieldAtCur
  <2>4. CASE targets'[t] = targets[t]
    BY <1>1, <2>1, <2>4
  <2>5. CASE targets'[t] # targets[t]
    <3>1. e.initial # None /\ t = e.target /\ targets'[t] = e.initial
      BY <1>0, <2>1, <2>2, <2>5 DEF Seeded, OnTargets
    <3>2. cur \in On(t)' /\ fields'[cur].initial = targets'[t]
      BY <2>1, <2>2, <2>3, <3>1 DEF On
    <3> QED
      BY <3>2 DEF NumberOK
  <2> QED
    BY <2>4, <2>5
<1>6. CASE EditField
  <2>1. /\ cur <= Len(fields) /\ fields' = fields /\ fields[cur].kind # "note"
        /\ \/ targets' = targets
           \/ /\ fields[cur].kind # "number"
              /\ \E v \in Values : targets' = [targets EXCEPT ![fields[cur].target] = v]
    BY <1>6 DEF EditField
  <2>2. CASE targets'[t] = targets[t]
    BY <1>1, <2>1, <2>2
  <2>3. CASE targets'[t] # targets[t]
    <3>1. fields[cur].kind # "number" /\ fields[cur].target = t
      BY <1>0, <2>1, <2>3 DEF OnTargets
    <3>2. cur \in On(t)' /\ fields'[cur].kind # "number"
      BY <2>1, <3>1, FieldAtCur DEF On
    <3> QED
      BY <3>2 DEF AllNumbers
  <2> QED
    BY <2>2, <2>3
<1>7. CASE LeaveField
  <2>1. fields' = fields
    BY <1>7 DEF LeaveField
  <2>2. Validated(t)
    BY <2>1 DEF AllNumbers, Validated, On
  <2>3. CASE cur \in On(t)
    BY <1>7, <2>2, <2>3, LeftAccepted DEF NumberOK
  <2>4. CASE cur \notin On(t)
    BY <1>1, <1>7, <2>1, <2>2, <2>4, LeftAccepted
  <2> QED
    BY <2>3, <2>4
<1>8. ~(FallbackWalk \/ FallbackDone \/ Fallback)
  BY DEF FallbackWalk, FallbackDone, Fallback, PlaceOK
<1>9. Options => pc' \in {"options", "group"}
  BY DEF Options, NilFormOption, WithFormTimeout, LooseField, WithFormGroup, GroupOption,
         GroupDone, FormOption
<1> QED
  BY <1>2, <1>3, <1>4, <1>5, <1>6, <1>7, <1>8, <1>9, FormSteps DEF Filling

LEMMA BehindStep ==
  ASSUME FormType, PlaceOK, Behind, Next
  PROVE  Behind'
<1>0. /\ call' = call /\ interactive' = interactive /\ (Formed <=> Formed')
      /\ cur \in Nat \ {0} /\ fields \in Seq(Entries) /\ Len(fields) \in Nat
      /\ DOMAIN fields = 1..Len(fields) /\ OnTargets(targets)
  BY SetupKept DEF setup, Formed, FormType
<1>1. CASE ~Formed
  <2>1. PlaceOK'
    BY PlaceStep
  <2>2. pc' # "form" /\ ~Formed'
    BY <1>0, <1>1, <2>1 DEF PlaceOK
  <2> QED
    BY <2>2 DEF Behind
<1>2. CASE Formed
  <2>1. CASE RunForm
    <3>1. cur' = 1 /\ fields' = fields /\ pc' = "form" /\ pc = "build"
      BY <2>1 DEF RunForm
    <3>2. \A t : \A k \in On(t)' : ~(k < cur')
      BY <1>0, <3>1 DEF On
    <3>3. cur' <= Len(fields') \/ fields' = <<>>
      BY <1>0, <3>1
    <3> QED
      BY <3>1, <3>2, <3>3 DEF Behind
  <2>2. CASE EditField
    <3>1. /\ cur <= Len(fields) /\ fields' = fields /\ cur' = cur /\ pc' = "form" /\ pc = "form"
          /\ fields[cur].kind # "note"
          /\ \/ targets' = targets
             \/ \E v \in Values : targets' = [targets EXCEPT ![fields[cur].target] = v]
      BY <2>2 DEF EditField
    <3>2. ASSUME NEW t \in Targets, cur \notin On(t) PROVE targets'[t] = targets[t]
      <4>1. fields[cur].target # t
        BY <1>0, <3>1, <3>2 DEF On
      <4> QED
        BY <1>0, <3>1, <4>1 DEF OnTargets
    <3>3. ASSUME NEW t \in Targets, Validated(t)', cur' \notin On(t)', \E k \in On(t)' : k < cur'
          PROVE  targets'[t] \in Accepts
      <4>1. Validated(t) /\ cur \notin On(t) /\ \E k \in On(t) : k < cur
        BY <3>1, <3>3 DEF Validated, On
      <4> QED
        BY <3>1, <3>2, <4>1 DEF Behind
    <3> QED
      BY <3>1, <3>3 DEF Behind
  <2>3. CASE LeaveField
    <3>1. /\ cur <= Len(fields) /\ fields' = fields /\ pc = "form"
          /\ \/ cur < Len(fields) /\ cur' = cur + 1 /\ pc' = "form"
             \/ cur > 1 /\ cur' = cur - 1 /\ pc' = "form"
             \/ cur = Len(fields) /\ pc' = "returned" /\ cur' = cur
      BY <2>3 DEF LeaveField, Return
    <3>2. ASSUME NEW t \in Targets, Validated(t), NEW k \in On(t), k <= cur
          PROVE  targets'[t] \in Accepts
      <4>1. CASE cur \in On(t)
        BY <1>2, <2>3, <3>2, <4>1, LeftAccepted
      <4>2. CASE cur \notin On(t)
        <5>1. k < cur
          BY <1>0, <3>2, <4>2 DEF On
        <5>2. targets[t] \in Accepts
          BY <3>1, <3>2, <4>2, <5>1 DEF Behind
        <5> QED
          BY <1>2, <2>3, <3>2, <4>2, <5>2, LeftAccepted
      <4> QED
        BY <4>1, <4>2
    <3>3. ASSUME NEW t \in Targets, Validated(t)', pc' = "form", NEW k \in On(t)', k < cur'
          PROVE  targets'[t] \in Accepts
      <4>1. Validated(t) /\ k \in On(t) /\ k \in Nat
        BY <1>0, <3>1, <3>3 DEF Validated, On
      <4>2. k <= cur
        BY <1>0, <3>1, <3>3, <4>1
      <4> QED
        BY <3>2, <4>1, <4>2
    <3>4. ASSUME NEW t \in Targets, Validated(t)', pc' = "returned"
          PROVE  targets'[t] \in Accepts
      <4>1. Validated(t) /\ cur = Len(fields)
        BY <3>1, <3>4 DEF Validated, On
      <4>2. PICK k \in On(t) : TRUE
        BY <4>1 DEF Validated
      <4>3. k <= cur
        BY <1>0, <4>1 DEF On
      <4> QED
        BY <3>2, <4>1, <4>3
    <3>5. pc' = "form" => cur' <= Len(fields')
      BY <1>0, <3>1
    <3> QED
      BY <3>1, <3>3, <3>4, <3>5 DEF Behind
  <2>4. CASE FormRefused
    <3>1. pc' = "returned" /\ fields' = fields /\ fields = <<>>
      BY <1>2, <2>4 DEF FormRefused, OptionsDone, Fail, Return, formVars, PlaceOK, Formed
    <3> QED
      BY <3>1, NoFields DEF Behind, Validated, On
  <2>5. CASE FallbackDone \/ FallbackWalk \/ Fallback
    <3>1. ~interactive /\ pc' # "form"
      BY <2>5 DEF FallbackDone, FallbackWalk, Fallback, PlaceOK, Return
    <3> QED
      BY <1>0, <3>1 DEF Behind
  <2>6. CASE Options \/ ShowForm \/ BuildWidget \/ GiveUp
    <3>1. pc' # "form" /\ (pc' = "returned" => ret'.err # None)
      <4>1. pc' \in {"options", "group", "build"}
            \/ (pc' = "returned" /\ ret'.err \in {"build", "aborted", "timeout"})
        BY <2>6 DEF Options, NilFormOption, WithFormTimeout, LooseField, WithFormGroup, GroupOption,
               GroupDone, FormOption, ShowForm, BuildWidget, GiveUp, Fail, Return
      <4> QED
        BY <4>1, CallsAssumption DEF Errors
    <3> QED
      BY <3>1 DEF Behind
  <2> QED
    BY <1>2, <2>1, <2>2, <2>3, <2>4, <2>5, <2>6, FormSteps DEF Filling
<1> QED
  BY <1>1, <1>2

(***************************************************************************)
(* What bypasses Confirm.                                                  *)
(***************************************************************************)

\* One option more.
LEMMA LastOfNext ==
  ASSUME NEW n \in Nat, NEW names, NEW otherwise
  PROVE  /\ call.opts[n + 1].opt \in names =>
              LastOf(names, otherwise, n + 1) = call.opts[n + 1].value
         /\ call.opts[n + 1].opt \notin names =>
              LastOf(names, otherwise, n + 1) = LastOf(names, otherwise, n)
<1> DEFINE P == {k \in Nat : call.opts[k].opt \in names}
           S(m) == {k \in 1..m : call.opts[k].opt \in names}
<1>1. S(n) = {k \in 1..n : k \in P} /\ S(n + 1) = {k \in 1..(n + 1) : k \in P}
  OBVIOUS
<1>2. n + 1 \in P <=> call.opts[n + 1].opt \in names
  OBVIOUS
<1>3. \A m : LastOf(names, otherwise, m) =
             IF S(m) = {} THEN otherwise ELSE call.opts[Max(S(m))].value
  BY DEF LastOf
<1> HIDE DEF P, S
<1>4. /\ n + 1 \in P => S(n + 1) = S(n) \cup {n + 1} /\ Max(S(n + 1)) = n + 1
      /\ n + 1 \notin P => S(n + 1) = S(n)
  BY <1>1, OneMorePlace
<1>5. ASSUME n + 1 \in P PROVE LastOf(names, otherwise, n + 1) = call.opts[n + 1].value
  <2>1. S(n + 1) # {} /\ Max(S(n + 1)) = n + 1
    BY <1>4, <1>5
  <2> QED
    BY <1>3, <2>1
<1>6. ASSUME n + 1 \notin P PROVE LastOf(names, otherwise, n + 1) = LastOf(names, otherwise, n)
  BY <1>3, <1>4, <1>6
<1> QED
  BY <1>2, <1>5, <1>6

\* What an option writes.
LEMMA ApplyFields ==
  ASSUME NEW V, NEW c \in ConfOf(V), NEW o, o.value \in V
  PROVE  /\ Apply(c, o) \in ConfOf(V)
         /\ Apply(c, o).bypassYes = IF o.opt \in {"WithYes"} THEN o.value ELSE c.bypassYes
         /\ Apply(c, o).confirmValue = IF o.opt \in {"WithConfirmValue"} THEN o.value ELSE c.confirmValue
         /\ Apply(c, o).confirmInput = IF o.opt \in {"WithConfirmInput"} THEN o.value ELSE c.confirmInput
         /\ Apply(c, o).fallback = IF o.opt \in {"WithDefault", "WithPrefill"} THEN o.value ELSE c.fallback
<1>1. PICK t : t = TextOption(c, o)
  OBVIOUS
<1>2. /\ t \in ConfOf(V) /\ t.bypassYes = c.bypassYes /\ t.confirmValue = c.confirmValue
      /\ t.confirmInput = c.confirmInput /\ t.fallback = c.fallback
  <2>1. t = c \/ t = [c EXCEPT !.mode = "multiline"] \/ t = [c EXCEPT !.mode = "picker"]
    BY <1>1 DEF TextOption
  <2>2. ASSUME NEW m \in Modes, t = [c EXCEPT !.mode = m]
        PROVE  /\ t \in ConfOf(V) /\ t.bypassYes = c.bypassYes /\ t.confirmValue = c.confirmValue
               /\ t.confirmInput = c.confirmInput /\ t.fallback = c.fallback
    BY <2>2 DEF ConfOf
  <2>3. "multiline" \in Modes /\ "picker" \in Modes
    BY DEF Modes
  <2> QED
    BY <2>1, <2>2, <2>3
<1>3. PICK v : v = ValueOption(t, o)
  OBVIOUS
<1>4. /\ v \in ConfOf(V) /\ v.bypassYes = t.bypassYes /\ v.confirmValue = t.confirmValue
      /\ v.confirmInput = t.confirmInput
      /\ v.fallback = IF o.opt \in {"WithDefault", "WithPrefill"} THEN o.value ELSE t.fallback
  BY <1>2, <1>3 DEF ValueOption, ConfOf
<1>5. PICK d : d = ConfirmOption(v, o)
  OBVIOUS
<1>6. /\ d \in ConfOf(V) /\ d.fallback = v.fallback
      /\ d.bypassYes = IF o.opt \in {"WithYes"} THEN o.value ELSE v.bypassYes
      /\ d.confirmValue = IF o.opt \in {"WithConfirmValue"} THEN o.value ELSE v.confirmValue
      /\ d.confirmInput = IF o.opt \in {"WithConfirmInput"} THEN o.value ELSE v.confirmInput
  BY <1>4, <1>5 DEF ConfirmOption, ConfOf
<1>7. Apply(c, o) = IF Refuses(c, o) THEN c ELSE d
  BY <1>1, <1>3, <1>5 DEF Apply
<1>8. Refuses(c, o) =>
        o.opt \notin {"WithYes", "WithConfirmValue", "WithConfirmInput", "WithDefault", "WithPrefill"}
  BY DEF Refuses, Checked, Shows
<1>9. CASE Refuses(c, o)
  BY <1>7, <1>8, <1>9
<1>10. CASE ~Refuses(c, o)
  BY <1>2, <1>4, <1>6, <1>7, <1>10
<1> QED
  BY <1>9, <1>10

\* Confirm takes no step of a form or of another prompt.
LEMMA ConfirmSteps ==
  ASSUME PlaceOK, call.fn = "Confirm", Next
  PROVE  \/ ApplyOption \/ PromptRefused \/ ConfirmBypassed \/ ConfirmRequired \/ ConfirmAsks
         \/ EditPrompt \/ SubmitPrompt \/ GiveUp
<1>1. ~Formed /\ pc \in {"options", "widget", "type", "returned"}
  BY DEF PlaceOK, Formed
<1> QED
  BY <1>1 DEF Next, Own, User, Formed, NilFormOption, WithFormTimeout, LooseField, WithFormGroup,
         FormOption, GroupOption, GroupDone, FormRefused, OptionsDone, FallbackWalk, Fallback,
         FallbackDone, ShowForm, BuildWidget, RunForm, EditField, LeaveField, Applied, Asks, Chooses,
         Ask, Choose

\* The options of Confirm.
LEMMA ConfirmOptions ==
  ASSUME FormType, call.fn = "Confirm"
  PROVE  /\ Opts = call.opts /\ Len(call.opts) \in Nat /\ DOMAIN call.opts = 1..Len(call.opts)
         /\ \A k \in DOMAIN call.opts : call.opts[k].value \in ValuesGiven
         /\ NoAnswer = FALSE
<1>1. call \in Calls
  BY DEF FormType
<1>2. call.opts \in Seq(Range(call.opts))
  BY <1>1, CallsAssumption
<1> QED
  BY <1>2 DEF Opts, ValuesGiven, NoAnswer

\* ConfInv and ConfirmIsEarned hold at the start, and each step keeps them.
LEMMA InitConf == Init => ConfInv /\ ConfirmIsEarned
<1> SUFFICES ASSUME Init, call.fn = "Confirm" PROVE ConfInv /\ ConfirmIsEarned
  BY DEF ConfInv, ConfirmIsEarned
<1>1. FormType
  BY InitType
<1>2. Len(call.opts) \in Nat
  BY <1>1, ConfirmOptions
<1>3. ret.value # TRUE /\ pc = "options" /\ i = 0 /\ conf = EmptyConfig
  BY ValuesAssumption DEF Init, Nothing
<1>4. EmptyConfig \in ConfOf(ValuesGiven)
  <2>1. "input" \in Modes /\ {None, Zero, FALSE} \subseteq ValuesGiven /\ FALSE \in BOOLEAN
    BY DEF Modes, ValuesGiven
  <2> QED
    BY <2>1 DEF EmptyConfig, ConfOf
<1>5. \A names, otherwise : LastOf(names, otherwise, 0) = otherwise
  BY DEF LastOf
<1>6. /\ EmptyConfig.bypassYes = FALSE /\ EmptyConfig.confirmValue = Zero
      /\ EmptyConfig.confirmInput = Zero /\ EmptyConfig.fallback = None
  BY DEF EmptyConfig
<1>7. /\ conf.bypassYes = LastOf({"WithYes"}, FALSE, i)
      /\ conf.confirmValue = LastOf({"WithConfirmValue"}, Zero, i)
      /\ conf.confirmInput = LastOf({"WithConfirmInput"}, Zero, i)
      /\ conf.fallback = LastOf({"WithDefault", "WithPrefill"}, None, i)
  BY <1>3, <1>5, <1>6, Zenon
<1>8. conf \in ConfOf(ValuesGiven) /\ i <= Len(call.opts)
  BY <1>2, <1>3, <1>4
<1> QED
  BY <1>3, <1>7, <1>8 DEF ConfInv, ConfirmIsEarned

LEMMA ConfStep ==
  ASSUME FormType, PlaceOK, ConfInv, Next
  PROVE  ConfInv'
<1> SUFFICES ASSUME call.fn = "Confirm" PROVE ConfInv'
  BY SetupKept DEF setup, ConfInv
<1>0. /\ call' = call /\ interactive' = interactive /\ ValuesGiven' = ValuesGiven
      /\ \A names, otherwise, n : LastOf(names, otherwise, n)' = LastOf(names, otherwise, n)
      /\ i \in Nat /\ issues \in Nat
  BY SetupKept DEF setup, ValuesGiven, LastOf, FormType
<1>1. /\ Opts = call.opts /\ Len(call.opts) \in Nat /\ DOMAIN call.opts = 1..Len(call.opts)
      /\ \A k \in DOMAIN call.opts : call.opts[k].value \in ValuesGiven
      /\ NoAnswer = FALSE
  BY ConfirmOptions
<1>2. CASE ApplyOption
  <2>1. /\ pc = "options" /\ pc' = pc /\ i < Len(call.opts) /\ i' = i + 1 /\ ret' = ret
        /\ conf' = Apply(conf, call.opts[i + 1])
    BY <1>1, <1>2 DEF ApplyOption
  <2>2. PICK o : o = call.opts[i + 1]
    OBVIOUS
  <2>3. o.value \in ValuesGiven /\ i + 1 <= Len(call.opts)
    BY <1>0, <1>1, <2>1, <2>2
  <2>4. conf \in ConfOf(ValuesGiven)
    BY DEF ConfInv
  <2>5. /\ conf' \in ConfOf(ValuesGiven)
        /\ conf'.bypassYes = IF o.opt \in {"WithYes"} THEN o.value ELSE conf.bypassYes
        /\ conf'.confirmValue = IF o.opt \in {"WithConfirmValue"} THEN o.value ELSE conf.confirmValue
        /\ conf'.confirmInput = IF o.opt \in {"WithConfirmInput"} THEN o.value ELSE conf.confirmInput
        /\ conf'.fallback = IF o.opt \in {"WithDefault", "WithPrefill"} THEN o.value ELSE conf.fallback
    BY <2>1, <2>2, <2>3, <2>4, ApplyFields
  <2>6. \A names, otherwise : LastOf(names, otherwise, i + 1) =
           IF o.opt \in names THEN o.value ELSE LastOf(names, otherwise, i)
    BY <1>0, <2>2, LastOfNext
  <2>7. /\ conf'.bypassYes = LastOf({"WithYes"}, FALSE, i + 1)
        /\ conf'.confirmValue = LastOf({"WithConfirmValue"}, Zero, i + 1)
        /\ conf'.confirmInput = LastOf({"WithConfirmInput"}, Zero, i + 1)
        /\ conf'.fallback = LastOf({"WithDefault", "WithPrefill"}, None, i + 1)
    BY <2>1, <2>5, <2>6 DEF ConfInv
  <2>8. ret'.value # TRUE
    BY <2>1 DEF ConfInv
  <2> QED
    BY <1>0, <2>1, <2>3, <2>5, <2>7, <2>8 DEF ConfInv
<1>3. CASE ConfirmAsks
  <2>1. /\ pc = "options" /\ i = Len(call.opts) /\ issues = 0 /\ interactive
        /\ conf' = conf /\ ret' = ret /\ issues' = issues
        /\ IF Severe THEN pc' = "type" ELSE pc' = "widget"
    BY <1>1, <1>3 DEF ConfirmAsks, Applied
  <2>2. Severe' <=> Severe
    BY <2>1 DEF Severe
  <2>3. ret'.value # TRUE
    BY <2>1 DEF ConfInv
  <2> QED
    BY <1>0, <2>1, <2>2, <2>3 DEF ConfInv
<1>4. CASE EditPrompt
  <2>1. /\ pc \in {"widget", "type"} /\ UNCHANGED <<pc, i, issues, conf, ret>>
    BY <1>4 DEF EditPrompt
  <2>2. Severe' <=> Severe
    BY <2>1 DEF Severe
  <2> QED
    BY <1>0, <2>1, <2>2 DEF ConfInv
<1>5. CASE PromptRefused \/ ConfirmBypassed \/ ConfirmRequired \/ SubmitPrompt \/ GiveUp
  <2>1. pc' = "returned" /\ conf' = conf
    BY <1>5 DEF PromptRefused, ConfirmBypassed, ConfirmRequired, SubmitPrompt, GiveUp, Fail, Return
  <2> QED
    BY <1>0, <2>1 DEF ConfInv
<1> QED
  BY <1>2, <1>3, <1>4, <1>5, ConfirmSteps

LEMMA ConfirmEarnedStep ==
  ASSUME FormType, PlaceOK, ConfInv, ConfirmIsEarned, Next
  PROVE  ConfirmIsEarned'
<1> SUFFICES ASSUME call.fn = "Confirm", ret'.value = TRUE PROVE ConfirmIsEarned'
  BY SetupKept DEF setup, ConfirmIsEarned
<1>0. /\ call' = call /\ interactive' = interactive
      /\ \A names, otherwise : LastGiven(names, otherwise)' = LastGiven(names, otherwise)
  BY SetupKept DEF setup, LastGiven
<1>1. /\ Opts = call.opts /\ DOMAIN call.opts = 1..Len(call.opts) /\ NoAnswer = FALSE
  BY ConfirmOptions
<1>2. \A names, otherwise : LastGiven(names, otherwise) = LastOf(names, otherwise, Len(call.opts))
  BY <1>1 DEF LastGiven, LastOf
<1> DEFINE expected == LastGiven({"WithConfirmValue"}, Zero)
<1>3. CASE ConfirmBypassed
  <2>1. /\ pc = "options" /\ i = Len(call.opts) /\ issues = 0 /\ issues' = 0
        /\ IF Severe
           THEN conf.confirmInput = conf.confirmValue
           ELSE conf.bypassYes \/ (~interactive /\ conf.fallback = TRUE)
    BY <1>1, <1>3 DEF ConfirmBypassed, Applied, Return
  <2>2. /\ conf.bypassYes = LastGiven({"WithYes"}, FALSE)
        /\ conf.confirmValue = expected
        /\ conf.confirmInput = LastGiven({"WithConfirmInput"}, Zero)
        /\ conf.fallback = LastGiven({"WithDefault", "WithPrefill"}, None)
    BY <1>2, <2>1 DEF ConfInv
  <2> QED
    BY <1>0, <2>1, <2>2 DEF ConfirmIsEarned, Severe
<1>4. CASE SubmitPrompt
  <2>1. /\ interactive /\ issues = 0 /\ issues' = 0 /\ out' = out /\ conf.confirmValue = expected
        /\ IF Severe THEN out = conf.confirmValue ELSE out = TRUE
    BY <1>2, <1>4 DEF SubmitPrompt, Return, ConfInv
  <2> QED
    BY <1>0, <2>1 DEF ConfirmIsEarned, Severe
<1>5. ~(PromptRefused \/ ConfirmRequired \/ GiveUp)
  BY <1>1 DEF PromptRefused, ConfirmRequired, GiveUp, Fail, Return
<1>6. ~(ApplyOption \/ ConfirmAsks \/ EditPrompt)
  <2>1. SUFFICES ASSUME ApplyOption \/ ConfirmAsks \/ EditPrompt PROVE FALSE
    OBVIOUS
  <2>2. ret' = ret /\ pc # "returned"
    BY <2>1 DEF ApplyOption, ConfirmAsks, EditPrompt, Applied
  <2> QED
    BY <2>2 DEF ConfInv
<1> QED
  BY <1>3, <1>4, <1>5, <1>6, ConfirmSteps

(***************************************************************************)
(* The inductive invariant and the theorems.                               *)
(***************************************************************************)

\* The inductive invariant.
Inv ==
  /\ FormType /\ PlaceOK
  /\ FaultsCounted /\ OnlySeeded /\ SeedsKept
  /\ Walked /\ DefaultsTakenOrReported
  /\ NumbersOK /\ Behind
  /\ ConfInv /\ ConfirmIsEarned

\* It holds at the start, and each step keeps it.
LEMMA InitInv == Init => Inv
<1> SUFFICES ASSUME Init PROVE Inv
  OBVIOUS
<1>1. Formed => ret.value # TRUE
  BY ValuesAssumption DEF Init, Nothing
<1> QED
  BY InitType, InitFaults, InitSeeds, InitWalk, InitNumbers, InitConf DEF Inv

LEMMA NextInv == Inv /\ [Next]_vars => Inv'
<1> SUFFICES ASSUME Inv, [Next]_vars PROVE Inv'
  OBVIOUS
<1>1. CASE Next
  <2>1. FormType' /\ PlaceOK'
    BY <1>1, TypeStep, PlaceStep DEF Inv
  <2>2. FaultsCounted' /\ OnlySeeded' /\ SeedsKept'
    BY <1>1, FaultsStep, SeedsStep, SeedKeptStep DEF Inv
  <2>3. Walked' /\ DefaultsTakenOrReported'
    BY <1>1, WalkStep, WalkEnds DEF Inv
  <2>4. NumbersOK' /\ Behind'
    BY <1>1, <2>1, NumbersStep, BehindStep DEF Inv
  <2>5. ConfInv' /\ ConfirmIsEarned'
    BY <1>1, ConfStep, ConfirmEarnedStep DEF Inv
  <2> QED
    BY <2>1, <2>2, <2>3, <2>4, <2>5 DEF Inv
<1>2. CASE UNCHANGED vars
  <2>1. /\ UNCHANGED <<call, interactive, pc, i, j, issues, conf, pages, page, timeout>>
        /\ UNCHANGED <<fields, targets, raw, cur, out, ret>>
    BY <1>2 DEF vars, setup, formVars
  <2>2. FormType'
    <3>1. OnTargets(targets')
      BY <2>1 DEF Inv, FormType, OnTargets
    <3>2. UNCHANGED setup
      BY <1>2 DEF vars
    <3> QED
      BY <2>1, <3>1, <3>2, TypeKept DEF Inv, FormType
  <2>3. PlaceOK'
    BY <2>1 DEF Inv, PlaceOK, Formed
  <2>4. FaultsCounted'
    BY <2>1 DEF Inv, FaultsCounted, Formed
  <2>5. OnlySeeded' /\ SeedsKept'
    BY <2>1 DEF Inv, OnlySeeded, SeedsKept, Formed, Seed, SeedKept, Kept, EntriesOn, Places, FieldAt
  <2>6. Walked' /\ DefaultsTakenOrReported'
    BY <2>1 DEF Inv, Walked, DefaultsTakenOrReported, Lacking, Writers
  <2>7. NumbersOK' /\ Behind'
    BY <2>1 DEF Inv, NumbersOK, Behind, Formed, AllNumbers, Validated, On
  <2>8. ConfInv'
    <3>1. /\ ValuesGiven' = ValuesGiven /\ (Severe' <=> Severe)
          /\ \A names, otherwise, n : LastOf(names, otherwise, n)' = LastOf(names, otherwise, n)
      BY <2>1 DEF ValuesGiven, Severe, LastOf
    <3> QED
      BY <2>1, <3>1 DEF Inv, ConfInv
  <2>9. ConfirmIsEarned'
    <3>1. \A names, otherwise : LastGiven(names, otherwise)' = LastGiven(names, otherwise)
      BY <2>1 DEF LastGiven
    <3> QED
      BY <2>1, <3>1 DEF Inv, ConfirmIsEarned
  <2> QED
    BY <2>2, <2>3, <2>4, <2>5, <2>6, <2>7, <2>8, <2>9 DEF Inv
<1> QED
  BY <1>1, <1>2

\* In every state the invariant holds.
THEOREM PromptsInvariant == Spec => []Inv
<1>1. Inv /\ [Next]_vars => Inv'
  BY NextInv
<1> QED
  BY <1>1, InitInv, PTL DEF Spec

\* A faulty option, put the way the property puts it.
LEMMA FaultySomewhere ==
  ASSUME FormType, Formed
  PROVE  (\E k \in DOMAIN call.opts : Faulty(call.opts[k]))
         <=> \/ \E at \in Places : Declined(FieldAt(at))
             \/ \E k \in DOMAIN call.opts :
                  \/ call.opts[k].opt = "nil"
                  \/ /\ call.opts[k].opt = "group"
                     /\ \E l \in DOMAIN call.opts[k].opts : call.opts[k].opts[l].opt = "nil"
<1>0. call \in Calls
  BY DEF FormType
<1>1. ASSUME NEW k \in DOMAIN call.opts, call.opts[k].opt = "field", Declined(call.opts[k].field)
      PROVE  \E at \in Places : Declined(FieldAt(at))
  BY <1>0, <1>1, LoosePlace
<1>2. ASSUME NEW k \in DOMAIN call.opts, call.opts[k].opt = "group",
             NEW l \in DOMAIN call.opts[k].opts,
             call.opts[k].opts[l].opt = "field", Declined(call.opts[k].opts[l].field)
      PROVE  \E at \in Places : Declined(FieldAt(at))
  BY <1>0, <1>2, GroupPlace
<1>3. ASSUME NEW at \in Places, Declined(FieldAt(at))
      PROVE  \E k \in DOMAIN call.opts : Faulty(call.opts[k])
  <2>1. CASE \E k \in DOMAIN call.opts :
               call.opts[k].opt = "field" /\ at = <<k, 0>> /\ FieldAt(at) = call.opts[k].field
    BY <1>3, <2>1 DEF Faulty
  <2>2. CASE \E k \in DOMAIN call.opts : \E l \in DOMAIN call.opts[k].opts :
               /\ call.opts[k].opt = "group" /\ call.opts[k].opts[l].opt = "field"
               /\ at = <<k, l>> /\ FieldAt(at) = call.opts[k].opts[l].field
    BY <1>3, <2>2 DEF Faulty, FaultyIn
  <2> QED
    BY <1>0, <2>1, <2>2, PlacesAre
<1> QED
  BY <1>1, <1>2, <1>3 DEF Faulty, FaultyIn

\* A form fails for its options exactly if one of them is faulty, and the
\* caller's variables then hold what they held or a starting value.
THEOREM PromptsFaultyFormOnlySeeds == Spec => []FaultyFormOnlySeeds
<1>1. ASSUME Inv PROVE FaultyFormOnlySeeds
  <2> SUFFICES ASSUME Formed, pc = "returned" PROVE FaultyFormOnlySeeds
    BY DEF FaultyFormOnlySeeds, Formed
  <2>1. ret.err = "options" <=> \E k \in DOMAIN call.opts : Faulty(call.opts[k])
    BY <1>1 DEF Inv, FaultsCounted
  <2>2. ret.err = "options" => \A t \in Targets : Seed(t)
    BY <1>1 DEF Inv, OnlySeeded
  <2> QED
    BY <1>1, <2>1, <2>2, FaultySomewhere DEF Inv, FaultyFormOnlySeeds, Seed
<1> QED
  BY <1>1, PromptsInvariant, PTL

\* Without a terminal every field takes its default or is counted in the error.
THEOREM PromptsDefaultsTakenOrReported == Spec => []DefaultsTakenOrReported
<1>1. Inv => DefaultsTakenOrReported
  BY DEF Inv
<1> QED
  BY <1>1, PromptsInvariant, PTL

\* A submitted form leaves validated values only, and a number that fails its
\* validation is never stored.
THEOREM PromptsOnlyAcceptedStored == Spec => []OnlyAcceptedStored
<1>1. Inv => OnlyAcceptedStored
  BY DEF Inv, OnlyAcceptedStored, NumbersOK, Behind, AllNumbers, Validated, Formed
<1> QED
  BY <1>1, PromptsInvariant, PTL

\* Confirm is true only if somebody said so, in the way the options ask for.
THEOREM PromptsConfirmIsEarned == Spec => []ConfirmIsEarned
<1>1. Inv => ConfirmIsEarned
  BY DEF Inv
<1> QED
  BY <1>1, PromptsInvariant, PTL
=============================================================================
