---------------------------- MODULE ThemeCatalog ----------------------------
(* The catalog of built-in themes: Get with its sync.Map, Manifest with its *)
(* RWMutex, called by any number of goroutines that change what they are    *)
(* given. Maps and slices are references: a Theme leads to its Variants map *)
(* and from there to maps of tokens, and assigning a Theme copies none of   *)
(* them.                                                                    *)
EXTENDS Naturals

CONSTANTS Callers,
          Names,        \* every name a caller may ask for
          Calls,        \* the calls made: [op, name]
          rawCatalog,   \* the names with an embedded manifest
          Sound,        \* those of them Parse accepts
          Nil, Edited

Ops == {"Get", "Manifest"}

\* Manifest decodes less than Parse does and has no sound manifest refused.
Says(op, n) == IF n \in (IF op = "Get" THEN Sound ELSE rawCatalog) THEN n ELSE Nil

\* Where a reference was made: by the parse of a call, by the copy given to
\* a caller, or by a caller for itself.
Parsed(g, c) == <<"parsed", g, c.op, c.name>>
Copied(g) == <<"copied", g>>
Own(g) == <<"own", g>>
Refs == {Parsed(g, c) : g \in Callers, c \in Calls}
          \cup {Copied(g) : g \in Callers} \cup {Own(g) : g \in Callers}

ASSUME CatalogAssumption ==
  /\ Sound \subseteq rawCatalog /\ rawCatalog \subseteq Names
  /\ Calls \subseteq [op : Ops, name : Names]
  /\ Edited \notin Names \cup {Nil}
  /\ Nil \notin Names /\ Nil \notin Calls /\ Nil \notin Refs
  /\ Nil \notin [op : Ops, name : Names, ref : Refs \cup {Nil}]
  /\ Nil \notin [op : Ops, name : Names, value : Names \cup {Nil, Edited}]

VARIABLES parsedCatalog,      \* name -> reference, or Nil
          manifestMetaCache,
          tokensOf,   \* the token map a Variants map leads to
          content,    \* what a token map (or the slices of a Metadata) says
          call,       \* the call of each goroutine: [op, name], or Nil
          at,         \* and where it is
          ref,        \* the Theme or Metadata it has its hands on
          got         \* what the last call returned: [op, name, ref], or Nil

vars == <<parsedCatalog, manifestMetaCache, tokensOf, content, call, at, ref, got>>
caches == <<parsedCatalog, manifestMetaCache>>
heap == <<tokensOf, content>>

Init ==
  /\ parsedCatalog = [n \in Names |-> Nil]
  /\ manifestMetaCache = [n \in Names |-> Nil]
  /\ tokensOf = [r \in Refs |-> r]
  /\ content = [r \in Refs |-> Nil]
  /\ call = [g \in Callers |-> Nil]
  /\ at = [g \in Callers |-> "idle"]
  /\ ref = [g \in Callers |-> Nil]
  /\ got = [g \in Callers |-> Nil]

-----------------------------------------------------------------------------

\* A goroutine calls Get or Manifest and forgets what it had, which nobody
\* else can reach.
Ask(g, c) ==
  /\ call[g] = Nil
  /\ call' = [call EXCEPT ![g] = c]
  /\ at' = [at EXCEPT ![g] = "load"]
  /\ got' = [got EXCEPT ![g] = Nil]
  /\ tokensOf' = [tokensOf EXCEPT ![Copied(g)] = Copied(g)]
  /\ content' = [content EXCEPT ![Copied(g)] = Nil, ![Own(g)] = Nil]
  /\ UNCHANGED <<caches, ref>>

Goes(g, where, r) ==
  /\ at' = [at EXCEPT ![g] = where]
  /\ ref' = [ref EXCEPT ![g] = r]

Returns(g, r) ==
  /\ got' = [got EXCEPT ![g] = [op |-> call[g].op, name |-> call[g].name, ref |-> r]]
  /\ call' = [call EXCEPT ![g] = Nil]
  /\ Goes(g, "idle", Nil)

Looked(g, cache) ==
  LET n == call[g].name
  IN  IF cache[n] # Nil THEN Goes(g, "copy", cache[n]) /\ UNCHANGED <<call, got>>
      ELSE IF n \in rawCatalog THEN Goes(g, "parse", Nil) /\ UNCHANGED <<call, got>>
      ELSE Returns(g, Nil)

GetLoad(g) ==
  /\ at[g] = "load" /\ call[g].op = "Get"
  /\ Looked(g, parsedCatalog)
  /\ UNCHANGED <<caches, heap>>

ManifestRead(g) ==
  /\ at[g] = "load" /\ call[g].op = "Manifest"
  /\ Looked(g, manifestMetaCache)
  /\ UNCHANGED <<caches, heap>>

\* manifest.Parse and themeFromCompiled, or loadManifestMeta: every map is
\* new. Neither is under a lock.
Parse(g) ==
  /\ at[g] = "parse"
  /\ LET r == Parsed(g, call[g])
         v == Says(call[g].op, call[g].name)
     IN  IF v = Nil
           THEN Returns(g, Nil) /\ UNCHANGED heap
           ELSE /\ tokensOf' = [tokensOf EXCEPT ![r] = r]
                /\ content' = [content EXCEPT ![r] = v]
                /\ Goes(g, "store", r)
                /\ UNCHANGED <<call, got>>
  /\ UNCHANGED caches

\* The last of several goroutines that parsed one manifest wins.
GetStore(g) ==
  /\ at[g] = "store" /\ call[g].op = "Get"
  /\ parsedCatalog' = [parsedCatalog EXCEPT ![call[g].name] = ref[g]]
  /\ Goes(g, "copy", ref[g])
  /\ UNCHANGED <<manifestMetaCache, heap, call, got>>

ManifestStore(g) ==
  /\ at[g] = "store" /\ call[g].op = "Manifest"
  /\ manifestMetaCache' = [manifestMetaCache EXCEPT ![call[g].name] = ref[g]]
  /\ Goes(g, "copy", ref[g])
  /\ UNCHANGED <<parsedCatalog, heap, call, got>>

\* Theme.Clone, which is documented to share the palettes.
cloneThemeShallow(g) ==
  /\ tokensOf' = [tokensOf EXCEPT ![Copied(g)] = tokensOf[ref[g]]]
  /\ UNCHANGED content

\* cloneTheme copies the Variants map and, by clonePalette, every token map.
cloneTheme(g) ==
  /\ tokensOf' = [tokensOf EXCEPT ![Copied(g)] = Copied(g)]
  /\ content' = [content EXCEPT ![Copied(g)] = content[tokensOf[ref[g]]]]

\* The Metadata itself is returned.
copyMetadataShares(g) ==
  /\ tokensOf' = [tokensOf EXCEPT ![Copied(g)] = ref[g]]
  /\ UNCHANGED content

copyMetadata(g) ==
  /\ content' = [content EXCEPT ![Copied(g)] = content[ref[g]]]
  /\ tokensOf' = [tokensOf EXCEPT ![Copied(g)] = Copied(g)]

Copy(g) ==
  /\ at[g] = "copy"
  /\ IF call[g].op = "Get" THEN cloneTheme(g) ELSE copyMetadata(g)
  /\ Returns(g, Copied(g))
  /\ UNCHANGED caches

Holds(g) == got[g] # Nil /\ got[g].ref # Nil

\* The caller writes a token of a palette it was given, or a name of the
\* slices of a Metadata.
Write(g) ==
  /\ Holds(g)
  /\ content' = [content EXCEPT ![tokensOf[got[g].ref]] = Edited]
  /\ UNCHANGED <<caches, tokensOf, call, at, ref, got>>

\* The caller puts a palette of its own into the Variants map.
Replace(g) ==
  /\ Holds(g)
  /\ content' = [content EXCEPT ![Own(g)] = Edited]
  /\ tokensOf' = [tokensOf EXCEPT ![got[g].ref] = Own(g)]
  /\ UNCHANGED <<caches, call, at, ref, got>>

CallStep(g) ==
  \/ GetLoad(g) \/ ManifestRead(g) \/ Parse(g)
  \/ GetStore(g) \/ ManifestStore(g) \/ Copy(g)

Next ==
  \E g \in Callers :
    (\E c \in Calls : Ask(g, c)) \/ CallStep(g) \/ Write(g) \/ Replace(g)

\* A goroutine inside Get or Manifest goes on.
Spec == Init /\ [][Next]_vars /\ \A g \in Callers : WF_vars(CallStep(g))

-----------------------------------------------------------------------------
(* Properties.                                                             *)

\* What a reference says to whoever has it.
Value(r) == IF r = Nil THEN Nil ELSE content[tokensOf[r]]

TypeOK ==
  /\ parsedCatalog \in [Names -> Refs \cup {Nil}]
  /\ manifestMetaCache \in [Names -> Refs \cup {Nil}]
  /\ tokensOf \in [Refs -> Refs]
  /\ content \in [Refs -> Names \cup {Nil, Edited}]
  /\ call \in [Callers -> Calls \cup {Nil}]
  /\ at \in [Callers -> {"idle", "load", "parse", "store", "copy"}]
  /\ ref \in [Callers -> Refs \cup {Nil}]
  /\ got \in [Callers -> [op : Ops, name : Names, ref : Refs \cup {Nil}] \cup {Nil}]

\* Whatever callers do with the maps and slices they were given, and however
\* many of them parsed a manifest at the same time, the caches say what the
\* manifests say (catalog.go:79-84, 230-232).
RegistryKept ==
  \A n \in Names :
    /\ parsedCatalog[n] # Nil => Value(parsedCatalog[n]) = Says("Get", n)
    /\ manifestMetaCache[n] # Nil => Value(manifestMetaCache[n]) = Says("Manifest", n)

\* Callers cannot tell the caches from a registry that answers each of them
\* with a value of its own: no first, second or simultaneous call differs,
\* no caller sees what another wrote, and every call returns.
Registry ==
  INSTANCE ThemeRegistry
    WITH Callers <- Callers, Calls <- Calls, Says <- Says, Nil <- Nil,
         Edited <- Edited, asked <- call,
         held <- [g \in Callers |->
                    IF got[g] = Nil THEN Nil
                    ELSE [op |-> got[g].op, name |-> got[g].name, value |-> Value(got[g].ref)]]
ImplementsRegistry == Registry!Spec
=============================================================================
