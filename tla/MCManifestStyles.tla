-------------------------- MODULE MCManifestStyles --------------------------
(* TLC instances of ManifestStyles: every manifest of one variant with two  *)
(* or three tokens whose bases and foregrounds name each other in any way,  *)
(* every faulty reference beside a sound token, and manifests of two        *)
(* variants or with a faulty head.                                          *)
EXTENDS ManifestStyles, TLC

CONSTANTS a, b, c, x, p, q, h1, h2, name1, bold

BoldOnly == {bold}

Ref(f, t) == [form |-> f, to |-> t]
None == Ref("none", Absent)
TokenRefs(T) == {Ref("token", t) : t \in T}
Colors(fg, bg) == <<fg, bg, None, None>>
Style(base, fg, bg, border, look) ==
  [base |-> base, color |-> Colors(fg, bg), border |-> border, look |-> [s \in Settings |-> look]]

SliceOf(tokens) ==
  [primitives |-> (p :> h1), tokens |-> tokens, chroma |-> Absent, glamour |-> Absent, huh |-> Absent]
Themed(default, variants) ==
  [name |-> name1, default |-> default, variants |-> variants, knobs |-> Absent]
One(tokens) == Themed(Absent, "dark" :> SliceOf(tokens))

\* Three tokens naming each other; one of them bold, one of them not.
Linked(T, looks) ==
  {Style(base, fg, None, "none", look) :
     base \in {None, Ref("primitive", p)} \cup TokenRefs(T),
     fg \in {None} \cup TokenRefs(T), look \in looks}
Webs == {One((a :> s) @@ (b :> t) @@ (c :> u)) :
           s \in Linked({a, b, c}, {Unset}), t \in Linked({a, b, c}, {TRUE}),
           u \in Linked({a, b, c}, {FALSE})}

\* One token of every form, faults included, that another one builds on.
AnyRef == {None, Ref("hex", h2), Ref("several", Absent)}
            \cup {Ref("primitive", r) : r \in {p, q}} \cup TokenRefs({b, x})
Odd == {One((a :> Style(base, fg, bg, border, Unset))
              @@ (b :> Style(Ref("primitive", p), None, Ref("hex", h2), "none", TRUE))
              @@ (c :> Style(Ref("token", a), None, Ref("token", a), "none", FALSE))) :
          base \in {None} \cup {Ref("primitive", r) : r \in {p, q}} \cup TokenRefs({b, x}),
          fg \in AnyRef, bg \in AnyRef, border \in {"none", "unknown"}}

Small == (a :> Style(Ref("primitive", p), None, None, "none", Unset))
Cyclic == (a :> Style(None, Ref("token", a), None, "none", Unset))
TwoVariants == {Themed(d, ("dark" :> SliceOf(s)) @@ (v :> SliceOf(t))) :
                  d \in {Absent, "dark", "light"}, v \in {"light", "sepia"},
                  s \in {Small, Empty}, t \in {Small, Cyclic}}
Heads == {[One(Small) EXCEPT !.name = n, !.knobs = k] :
            n \in {Absent, name1},
            k \in {Absent} \cup [border : {"none", "preset", "unknown"},
                               borderColor : {None, Ref("hex", h1), Ref("primitive", p)}]}
Adapters == {Themed(Absent, "notty" :> [SliceOf(Small) EXCEPT !.chroma = ch, !.huh = hu]) :
               ch \in {Absent, "known", "unknown"}, hu \in {Absent, "known", "unknown"}}

SomeManifests == Webs \cup Odd \cup TwoVariants \cup Heads \cup Adapters
=============================================================================
