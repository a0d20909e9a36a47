----------------------------- MODULE ThemeProofs -----------------------------
(* Proofs about ThemeCatalog for every set of goroutines and of names, and,  *)
(* below, about ManifestStyles for every manifest. The argument about the    *)
(* catalog is one of ownership: a goroutine writes only the copy it was      *)
(* given and what it made itself, a reference that a parse made leads to its *)
(* own tokens for ever and says what the manifest says, and the caches and   *)
(* the calls under way hold only such references.                            *)
(*                                                                           *)
(* The resolver of manifests is compared with rounds that each add the       *)
(* styles whose references have one by now. Rounds only add (MeansMore), so  *)
(* as many as there are tokens add all there is to add (MeaningIsFixed), and *)
(* tokens that need each other are never added (NobodyFirst). Each call      *)
(* under way has done what the manifest means by the parts behind it         *)
(* (CallOK), and the calls on the stack ask for each other (ResolverInv).    *)
EXTENDS ThemeCatalog, ManifestStyles, FiniteSetTheorems, SequenceTheorems, WellFoundedInduction, TLAPS

\* A reference made by a parse of n for op, with what the manifest says.
Entry(r, op, n) ==
  /\ \E g \in Callers, c \in Calls : c.op = op /\ c.name = n /\ r = Parsed(g, c)
  /\ tokensOf[r] = r
  /\ content[r] = Says(op, n)
  /\ Says(op, n) # Nil

CacheInv ==
  \A n \in Names :
    /\ parsedCatalog[n] # Nil => Entry(parsedCatalog[n], "Get", n)
    /\ manifestMetaCache[n] # Nil => Entry(manifestMetaCache[n], "Manifest", n)

CallInv(g) ==
  /\ at[g] = "idle" <=> call[g] = Nil
  /\ at[g] \in {"store", "copy"} => Entry(ref[g], call[g].op, call[g].name)

\* What a caller holds is its copy, which leads to tokens of its own.
HeldInv(g) ==
  /\ tokensOf[Copied(g)] \in {Copied(g), Own(g)}
  /\ got[g] # Nil => got[g].ref \in {Nil, Copied(g)}
  /\ Holds(g) => content[tokensOf[Copied(g)]] # Nil

Inv == TypeOK /\ CacheInv /\ \A g \in Callers : CallInv(g) /\ HeldInv(g)

\* A step of g writes what is g's alone, or parses a manifest once more.
OwnHeap(g) ==
  \A r \in Refs :
    \/ r \in {Copied(g), Own(g)}
    \/ tokensOf'[r] = tokensOf[r] /\ content'[r] = content[r]
    \/ \E c \in Calls : /\ r = Parsed(g, c)
                        /\ tokensOf'[r] = r
                        /\ content'[r] = Says(c.op, c.name)

-----------------------------------------------------------------------------

\* References of different origin differ.
LEMMA Apart ==
  ASSUME NEW g \in Callers, NEW h \in Callers, NEW c \in Calls, NEW d \in Calls
  PROVE  /\ Parsed(g, c) \in Refs /\ Copied(g) \in Refs /\ Own(g) \in Refs
         /\ Parsed(g, c) # Copied(h) /\ Parsed(g, c) # Own(h) /\ Copied(g) # Own(h)
         /\ Copied(g) = Copied(h) => g = h
         /\ Own(g) = Own(h) => g = h
         /\ Parsed(g, c) = Parsed(h, d) => c.op = d.op /\ c.name = d.name
<1>1. Parsed(g, c) \in Refs /\ Copied(g) \in Refs /\ Own(g) \in Refs
  BY DEF Refs
<1>2. Parsed(g, c) # Copied(h) /\ Parsed(g, c) # Own(h) /\ Copied(g) # Own(h)
  BY DEF Parsed, Copied, Own
<1>3. (Copied(g) = Copied(h) => g = h) /\ (Own(g) = Own(h) => g = h)
  BY DEF Copied, Own
<1>4. Parsed(g, c) = Parsed(h, d) => c.op = d.op /\ c.name = d.name
  BY DEF Parsed
<1>5. QED
  BY <1>1, <1>2, <1>3, <1>4

\* The same without calls.
LEMMA ApartCallers ==
  ASSUME NEW g \in Callers, NEW h \in Callers
  PROVE  /\ Copied(g) \in Refs /\ Own(g) \in Refs
         /\ Copied(g) # Own(h)
         /\ Copied(g) = Copied(h) => g = h
         /\ Own(g) = Own(h) => g = h
<1>1. Copied(g) \in Refs /\ Own(g) \in Refs
  BY DEF Refs
<1>2. QED
  BY <1>1 DEF Copied, Own

\* Such a step disturbs no entry of a cache.
LEMMA EntriesStay ==
  ASSUME NEW g \in Callers, OwnHeap(g), NEW r, NEW op, NEW n, Entry(r, op, n)
  PROVE  Entry(r, op, n)'
<1>1. PICK h \in Callers, c \in Calls : c.op = op /\ c.name = n /\ r = Parsed(h, c)
  BY DEF Entry
<1>2. r \in Refs /\ r \notin {Copied(g), Own(g)}
  BY <1>1, Apart
<1>3. CASE tokensOf'[r] = tokensOf[r] /\ content'[r] = content[r]
  BY <1>3 DEF Entry
<1>4. ASSUME NEW d \in Calls, r = Parsed(g, d), tokensOf'[r] = r,
             content'[r] = Says(d.op, d.name)
      PROVE  Entry(r, op, n)'
  <2>1. d.op = op /\ d.name = n
    <3>1. Parsed(h, c) = Parsed(g, d)
      BY <1>1, <1>4
    <3>2. QED
      BY <1>1, <3>1, Apart
  <2>2. QED
    BY <1>1, <1>4, <2>1 DEF Entry
<1>5. QED
  BY <1>2, <1>3, <1>4 DEF OwnHeap

\* Nor anything of another goroutine's.
LEMMA OthersStay ==
  ASSUME NEW g \in Callers, OwnHeap(g), NEW h \in Callers, h # g,
         tokensOf[Copied(h)] \in {Copied(h), Own(h)}
  PROVE  /\ tokensOf'[Copied(h)] = tokensOf[Copied(h)]
         /\ content'[tokensOf[Copied(h)]] = content[tokensOf[Copied(h)]]
<1>1. /\ Copied(h) \in Refs \ {Copied(g), Own(g)}
      /\ Own(h) \in Refs \ {Copied(g), Own(g)}
  BY ApartCallers
<1>2. \A c \in Calls : Copied(h) # Parsed(g, c) /\ Own(h) # Parsed(g, c)
  BY Apart
<1>3. /\ tokensOf'[Copied(h)] = tokensOf[Copied(h)]
      /\ content'[Copied(h)] = content[Copied(h)]
      /\ content'[Own(h)] = content[Own(h)]
  BY <1>1, <1>2 DEF OwnHeap
<1>4. QED
  BY <1>3

\* What is left to show of a step of g: types, caches and g's own state.
LEMMA StepInv ==
  ASSUME Inv, NEW g \in Callers, OwnHeap(g), TypeOK',
         \A n \in Names :
           /\ \/ parsedCatalog'[n] = parsedCatalog[n]
              \/ Entry(parsedCatalog[n], "Get", n)'
           /\ \/ manifestMetaCache'[n] = manifestMetaCache[n]
              \/ Entry(manifestMetaCache[n], "Manifest", n)',
         \A h \in Callers \ {g} : /\ call'[h] = call[h] /\ at'[h] = at[h]
                                  /\ ref'[h] = ref[h] /\ got'[h] = got[h],
         CallInv(g)', HeldInv(g)'
  PROVE  Inv'
<1>1. CacheInv'
  <2> SUFFICES ASSUME NEW n \in Names
               PROVE  /\ parsedCatalog'[n] # Nil => Entry(parsedCatalog[n], "Get", n)'
                      /\ manifestMetaCache'[n] # Nil =>
                           Entry(manifestMetaCache[n], "Manifest", n)'
    BY DEF CacheInv
  <2>1. ASSUME parsedCatalog'[n] # Nil, parsedCatalog'[n] = parsedCatalog[n]
        PROVE  Entry(parsedCatalog[n], "Get", n)'
    <3>1. Entry(parsedCatalog[n], "Get", n)
      BY <2>1 DEF Inv, CacheInv
    <3>2. QED
      BY <2>1, <3>1, EntriesStay DEF Entry
  <2>2. ASSUME manifestMetaCache'[n] # Nil, manifestMetaCache'[n] = manifestMetaCache[n]
        PROVE  Entry(manifestMetaCache[n], "Manifest", n)'
    <3>1. Entry(manifestMetaCache[n], "Manifest", n)
      BY <2>2 DEF Inv, CacheInv
    <3>2. QED
      BY <2>2, <3>1, EntriesStay DEF Entry
  <2>3. QED
    BY <2>1, <2>2
<1>2. ASSUME NEW h \in Callers, h # g PROVE CallInv(h)' /\ HeldInv(h)'
  <2>1. CallInv(h) /\ HeldInv(h)
    BY DEF Inv
  <2>2. call'[h] = call[h] /\ at'[h] = at[h] /\ ref'[h] = ref[h] /\ got'[h] = got[h]
    BY <1>2
  <2>3. CallInv(h)'
    BY <2>1, <2>2, EntriesStay DEF CallInv, Entry
  <2>4. HeldInv(h)'
    BY <1>2, <2>1, <2>2, OthersStay DEF HeldInv, Holds
  <2>5. QED
    BY <2>3, <2>4
<1>3. QED
  BY <1>1, <1>2 DEF Inv

-----------------------------------------------------------------------------

LEMMA InitInv == Init => Inv
<1> SUFFICES ASSUME Init PROVE Inv
  OBVIOUS
<1>1. TypeOK
  BY DEF Init, TypeOK
<1>2. CacheInv
  BY DEF Init, CacheInv
<1>3. ASSUME NEW g \in Callers PROVE CallInv(g) /\ HeldInv(g)
  BY ApartCallers DEF Init, CallInv, HeldInv, Holds
<1>4. QED
  BY <1>1, <1>2, <1>3 DEF Inv

\* Where a goroutine inside a call is, and what the call is of.
LEMMA InCall ==
  ASSUME Inv, NEW g \in Callers, at[g] # "idle"
  PROVE  /\ call[g] \in Calls /\ call[g] # Nil
         /\ call[g].op \in Ops /\ call[g].name \in Names
  BY CatalogAssumption DEF Inv, TypeOK, CallInv

LEMMA AskInv ==
  ASSUME Inv, NEW g \in Callers, NEW c \in Calls, Ask(g, c)
  PROVE  Inv'
<1> USE DEF Ask, caches
<1>1. TypeOK'
  BY ApartCallers DEF Inv, TypeOK
<1>2. OwnHeap(g)
  BY DEF OwnHeap, Inv, TypeOK
<1>3. CallInv(g)'
  BY CatalogAssumption DEF CallInv, Inv, TypeOK
<1>4. HeldInv(g)'
  BY ApartCallers DEF HeldInv, Holds, Inv, TypeOK
<1>5. QED
  BY <1>1, <1>2, <1>3, <1>4, StepInv DEF Inv, TypeOK

\* A call ends, and g holds nothing or its copy.
LEMMA ReturnsInv ==
  ASSUME Inv, NEW g \in Callers, NEW r \in {Nil, Copied(g)}, at[g] # "idle",
         Returns(g, r), UNCHANGED caches, OwnHeap(g),
         tokensOf' \in [Refs -> Refs],
         content' \in [Refs -> Names \cup {Nil, Edited}],
         tokensOf'[Copied(g)] \in {Copied(g), Own(g)},
         r # Nil => content'[tokensOf'[Copied(g)]] # Nil
  PROVE  Inv'
<1> USE DEF Returns, Goes, caches
<1>1. got' \in [Callers -> [op : Ops, name : Names, ref : Refs \cup {Nil}] \cup {Nil}]
  BY ApartCallers, InCall DEF Inv, TypeOK
<1>2. TypeOK'
  BY <1>1 DEF Inv, TypeOK
<1>3. CallInv(g)'
  BY DEF CallInv, Inv, TypeOK
<1>4. got'[g] # Nil => got'[g].ref = r
  BY DEF Inv, TypeOK
<1>5. HeldInv(g)'
  BY <1>4 DEF HeldInv, Holds
<1>6. QED
  BY <1>2, <1>3, <1>5, StepInv DEF Inv, TypeOK

\* A call goes on, with an entry in its hands if it is to store or copy one.
LEMMA GoesInv ==
  ASSUME Inv, NEW g \in Callers, at[g] # "idle",
         NEW where \in {"parse", "store", "copy"}, NEW r \in Refs \cup {Nil},
         Goes(g, where, r), UNCHANGED <<call, got>>, OwnHeap(g),
         \A o \in {Copied(g), Own(g)} : tokensOf'[o] = tokensOf[o] /\ content'[o] = content[o],
         tokensOf' \in [Refs -> Refs],
         content' \in [Refs -> Names \cup {Nil, Edited}],
         where # "parse" => /\ tokensOf'[r] = r
                            /\ content'[r] = Says(call[g].op, call[g].name)
                            /\ Says(call[g].op, call[g].name) # Nil
                            /\ \E h \in Callers, c \in Calls :
                                 c.op = call[g].op /\ c.name = call[g].name /\ r = Parsed(h, c),
         parsedCatalog' \in [Names -> Refs \cup {Nil}],
         manifestMetaCache' \in [Names -> Refs \cup {Nil}],
         \A n \in Names :
           /\ \/ parsedCatalog'[n] = parsedCatalog[n]
              \/ parsedCatalog'[n] = r /\ where = "copy" /\ call[g].op = "Get" /\ call[g].name = n
           /\ \/ manifestMetaCache'[n] = manifestMetaCache[n]
              \/ /\ manifestMetaCache'[n] = r /\ where = "copy"
                 /\ call[g].op = "Manifest" /\ call[g].name = n
  PROVE  Inv'
<1> USE DEF Goes
<1>1. TypeOK'
  BY DEF Inv, TypeOK
<1>2. CallInv(g)'
  BY InCall DEF CallInv, Entry, Inv, TypeOK
<1>3. HeldInv(g)'
  <2>1. got[g] = got'[g] /\ HeldInv(g)
    BY DEF Inv
  <2>2. QED
    BY <2>1 DEF HeldInv, Holds
<1>4. QED
  BY <1>1, <1>2, <1>3, StepInv DEF Inv, TypeOK, Entry

LEMMA LookedInv ==
  ASSUME Inv, NEW g \in Callers, GetLoad(g) \/ ManifestRead(g)
  PROVE  Inv'
<1> DEFINE n == call[g].name
           served == IF call[g].op = "Get" THEN parsedCatalog ELSE manifestMetaCache
<1>1. /\ at[g] = "load" /\ Looked(g, served) /\ UNCHANGED <<caches, heap>>
      /\ n \in Names /\ call[g].op \in Ops
  BY InCall DEF GetLoad, ManifestRead
<1>2. OwnHeap(g)
  BY <1>1 DEF heap, OwnHeap
<1>3. TypeOK
  BY DEF Inv
<1>4. CASE served[n] # Nil
  <2>1. Goes(g, "copy", served[n]) /\ UNCHANGED <<call, got>>
    BY <1>1, <1>4 DEF Looked
  <2>2. Entry(served[n], call[g].op, n)
    BY <1>1, <1>4 DEF Inv, CacheInv, Ops
  <2>3. served[n] \in Refs
    BY <1>1, <1>3, <1>4 DEF TypeOK
  <2> HIDE DEF served
  <2>4. QED
    BY <1>1, <1>2, <1>3, <2>1, <2>2, <2>3, GoesInv DEF Entry, TypeOK, caches, heap
<1>5. CASE served[n] = Nil /\ n \in rawCatalog
  <2>1. Goes(g, "parse", Nil) /\ UNCHANGED <<call, got>>
    BY <1>1, <1>5 DEF Looked
  <2>2. QED
    BY <1>1, <1>2, <1>3, <2>1, GoesInv DEF TypeOK, caches, heap
<1>6. CASE served[n] = Nil /\ n \notin rawCatalog
  <2>1. Returns(g, Nil)
    BY <1>1, <1>6 DEF Looked
  <2>2. tokensOf[Copied(g)] \in {Copied(g), Own(g)}
    BY DEF Inv, HeldInv
  <2>3. QED
    BY <1>1, <1>2, <1>3, <2>1, <2>2, ReturnsInv DEF TypeOK, caches, heap
<1>7. QED
  BY <1>4, <1>5, <1>6

LEMMA ParseInv ==
  ASSUME Inv, NEW g \in Callers, Parse(g)
  PROVE  Inv'
<1> DEFINE r == Parsed(g, call[g])
           v == Says(call[g].op, call[g].name)
<1>1. at[g] = "parse" /\ call[g] \in Calls /\ UNCHANGED caches
  BY InCall DEF Parse
<1>2. TypeOK /\ tokensOf[Copied(g)] \in {Copied(g), Own(g)}
  BY DEF Inv, HeldInv
<1>3. CASE v = Nil
  <2>1. Returns(g, Nil) /\ UNCHANGED heap
    BY <1>3 DEF Parse
  <2>2. OwnHeap(g)
    BY <2>1 DEF heap, OwnHeap
  <2>3. QED
    BY <1>1, <1>2, <2>1, <2>2, ReturnsInv DEF TypeOK, heap
<1>4. CASE v # Nil
  <2>1. /\ tokensOf' = [tokensOf EXCEPT ![r] = r]
        /\ content' = [content EXCEPT ![r] = v]
        /\ Goes(g, "store", r)
        /\ UNCHANGED <<call, got>>
    BY <1>4 DEF Parse
  <2>2. r \in Refs /\ r # Copied(g) /\ r # Own(g) /\ Copied(g) \in Refs /\ Own(g) \in Refs
    BY <1>1, Apart
  <2>3. v \in Names \cup {Nil, Edited}
    BY <1>1, InCall DEF Says
  <2>4. tokensOf' \in [Refs -> Refs] /\ content' \in [Refs -> Names \cup {Nil, Edited}]
    BY <1>2, <2>1, <2>2, <2>3 DEF TypeOK
  <2>5. tokensOf'[r] = r /\ content'[r] = v
    BY <1>2, <2>1, <2>2 DEF TypeOK
  <2>6. \A o \in Refs \ {r} : tokensOf'[o] = tokensOf[o] /\ content'[o] = content[o]
    BY <1>2, <2>1 DEF TypeOK
  <2>7. OwnHeap(g)
    BY <1>1, <2>5, <2>6 DEF OwnHeap
  <2> HIDE DEF r, v
  <2>8. \E h \in Callers, c \in Calls :
          c.op = call[g].op /\ c.name = call[g].name /\ r = Parsed(h, c)
    BY <1>1 DEF r
  <2>9. QED
    BY <1>1, <1>2, <1>4, <2>1, <2>2, <2>4, <2>5, <2>6, <2>7, <2>8, GoesInv
       DEF TypeOK, caches, v
<1>5. QED
  BY <1>3, <1>4

LEMMA StoreInv ==
  ASSUME Inv, NEW g \in Callers, GetStore(g) \/ ManifestStore(g)
  PROVE  Inv'
<1>1. /\ at[g] = "store" /\ Goes(g, "copy", ref[g]) /\ UNCHANGED <<heap, call, got>>
  BY DEF GetStore, ManifestStore
<1>2. TypeOK /\ Entry(ref[g], call[g].op, call[g].name)
  BY <1>1 DEF Inv, CallInv
<1>3. ref[g] \in Refs \cup {Nil} /\ call[g].name \in Names
  BY <1>1, <1>2, InCall DEF TypeOK
<1>4. OwnHeap(g)
  BY <1>1 DEF heap, OwnHeap
<1>5. /\ parsedCatalog' \in [Names -> Refs \cup {Nil}]
      /\ manifestMetaCache' \in [Names -> Refs \cup {Nil}]
      /\ \A n \in Names :
           /\ \/ parsedCatalog'[n] = parsedCatalog[n]
              \/ parsedCatalog'[n] = ref[g] /\ call[g].op = "Get" /\ call[g].name = n
           /\ \/ manifestMetaCache'[n] = manifestMetaCache[n]
              \/ manifestMetaCache'[n] = ref[g] /\ call[g].op = "Manifest" /\ call[g].name = n
  BY <1>2, <1>3 DEF GetStore, ManifestStore, TypeOK
<1>6. QED
  BY <1>1, <1>2, <1>3, <1>4, <1>5, GoesInv DEF Entry, TypeOK, heap

\* What the copy of an entry says.
LEMMA CopySays ==
  ASSUME Inv, NEW g \in Callers, Copy(g)
  PROVE  /\ tokensOf' = [tokensOf EXCEPT ![Copied(g)] = Copied(g)]
         /\ content' = [content EXCEPT ![Copied(g)] = Says(call[g].op, call[g].name)]
         /\ Says(call[g].op, call[g].name) \in Names
         /\ Returns(g, Copied(g)) /\ UNCHANGED caches
<1>1. Entry(ref[g], call[g].op, call[g].name)
  BY DEF Copy, Inv, CallInv
<1>2. Says(call[g].op, call[g].name) \in Names
  BY <1>1, InCall DEF Entry, Says, Copy
<1>3. QED
  BY <1>1, <1>2 DEF Entry, Copy, cloneTheme, copyMetadata

LEMMA CopyInv ==
  ASSUME Inv, NEW g \in Callers, Copy(g)
  PROVE  Inv'
<1>1. Copied(g) \in Refs /\ TypeOK
  BY ApartCallers DEF Inv
<1>2. OwnHeap(g)
  BY <1>1, CopySays DEF OwnHeap, TypeOK
<1>3. /\ tokensOf' \in [Refs -> Refs] /\ content' \in [Refs -> Names \cup {Nil, Edited}]
      /\ tokensOf'[Copied(g)] = Copied(g)
      /\ content'[Copied(g)] \in Names
  BY <1>1, CopySays DEF TypeOK
<1>4. Nil \notin Names /\ at[g] # "idle"
  BY CatalogAssumption DEF Copy
<1>5. QED
  BY <1>2, <1>3, <1>4, CopySays, ReturnsInv

\* What a caller that holds something holds.
LEMMA HoldsCopy ==
  ASSUME Inv, NEW g \in Callers, Holds(g)
  PROVE  /\ got[g] \in [op : Ops, name : Names, ref : Refs \cup {Nil}]
         /\ got[g].ref = Copied(g)
         /\ tokensOf[Copied(g)] \in {Copied(g), Own(g)}
         /\ Copied(g) \in Refs /\ Own(g) \in Refs /\ Copied(g) # Own(g)
  BY ApartCallers DEF Inv, TypeOK, HeldInv, Holds

LEMMA EditInv ==
  ASSUME Inv, NEW g \in Callers, Write(g) \/ Replace(g)
  PROVE  Inv'
<1>1. Holds(g) /\ UNCHANGED <<caches, call, at, ref, got>> /\ TypeOK
  BY DEF Write, Replace, Inv
<1>2. /\ tokensOf' \in [Refs -> Refs] /\ content' \in [Refs -> Names \cup {Nil, Edited}]
      /\ tokensOf'[Copied(g)] \in {Copied(g), Own(g)}
      /\ content'[tokensOf'[Copied(g)]] = Edited
      /\ OwnHeap(g)
  BY <1>1, HoldsCopy DEF Write, Replace, TypeOK, OwnHeap
<1>3. TypeOK'
  BY <1>1, <1>2 DEF TypeOK, caches
<1>4. CallInv(g)'
  BY <1>1, <1>2, EntriesStay DEF Inv, CallInv, Entry
<1>5. HeldInv(g)'
  BY <1>1, <1>2, HoldsCopy, CatalogAssumption DEF HeldInv
<1>6. QED
  BY <1>1, <1>2, <1>3, <1>4, <1>5, StepInv DEF caches

\* Every step keeps the invariant.
LEMMA NextInv == Inv /\ [Next]_vars => Inv'
<1> SUFFICES ASSUME Inv, [Next]_vars PROVE Inv'
  OBVIOUS
<1>1. ASSUME NEW g \in Callers, NEW c \in Calls, Ask(g, c) PROVE Inv'
  BY <1>1, AskInv
<1>2. ASSUME NEW g \in Callers, CallStep(g) PROVE Inv'
  BY <1>2, LookedInv, ParseInv, StoreInv, CopyInv DEF CallStep
<1>3. ASSUME NEW g \in Callers, Write(g) \/ Replace(g) PROVE Inv'
  BY <1>3, EditInv
<1>4. CASE UNCHANGED vars
  BY <1>4 DEF vars, Inv, TypeOK, CacheInv, CallInv, HeldInv, Holds, Entry
<1>5. QED
  BY <1>1, <1>2, <1>3, <1>4 DEF Next

-----------------------------------------------------------------------------
(* The refinement.                                                           *)

HeldOf(h) ==
  IF got[h] = Nil THEN Nil
  ELSE [op |-> got[h].op, name |-> got[h].name, value |-> Value(got[h].ref)]
held == [h \in Callers |-> HeldOf(h)]

\* No step of another changes what a caller holds.
LEMMA HeldStays ==
  ASSUME Inv, NEW g \in Callers, OwnHeap(g), NEW h \in Callers, h # g, got'[h] = got[h]
  PROVE  HeldOf(h)' = HeldOf(h)
<1>1. HeldInv(h)
  BY DEF Inv
<1>2. /\ tokensOf'[Copied(h)] = tokensOf[Copied(h)]
      /\ content'[tokensOf[Copied(h)]] = content[tokensOf[Copied(h)]]
  BY <1>1, OthersStay DEF HeldInv
<1>3. CASE got[h] = Nil
  BY <1>3 DEF HeldOf
<1>4. CASE got[h] # Nil
  <2>1. got[h].ref \in {Nil, Copied(h)}
    BY <1>1, <1>4 DEF HeldInv
  <2>2. Value(got[h].ref)' = Value(got[h].ref)
    BY <1>2, <2>1 DEF Value
  <2>3. QED
    BY <1>4, <2>2 DEF HeldOf
<1>5. QED
  BY <1>3, <1>4

\* A step of g that leaves the heap of g's own alone as well changes nothing
\* that is held, if g keeps what it got.
LEMMA NothingHeldChanges ==
  ASSUME Inv, NEW g \in Callers, OwnHeap(g), got' = got,
         \A o \in {Copied(g), Own(g)} : tokensOf'[o] = tokensOf[o] /\ content'[o] = content[o]
  PROVE  held' = held
<1>1. HeldInv(g)
  BY DEF Inv
<1>2. HeldOf(g)' = HeldOf(g)
  <2>1. CASE got[g] = Nil
    BY <2>1 DEF HeldOf
  <2>2. CASE got[g] # Nil
    <3>1. got[g].ref \in {Nil, Copied(g)}
      BY <1>1, <2>2 DEF HeldInv
    <3>2. Value(got[g].ref)' = Value(got[g].ref)
      BY <1>1, <3>1 DEF Value, HeldInv
    <3>3. QED
      BY <2>2, <3>2 DEF HeldOf
  <2>3. QED
    BY <2>1, <2>2
<1>3. \A h \in Callers : HeldOf(h)' = HeldOf(h)
  BY <1>2, HeldStays
<1>4. QED
  BY <1>3 DEF held

\* What is held after a step of g that gives g or changes g's something.
LEMMA HeldChanges ==
  ASSUME Inv, NEW g \in Callers, OwnHeap(g), \A h \in Callers \ {g} : got'[h] = got[h]
  PROVE  held' = [held EXCEPT ![g] = HeldOf(g)']
<1>1. \A h \in Callers \ {g} : HeldOf(h)' = HeldOf(h)
  BY HeldStays
<1>2. QED
  BY <1>1 DEF held

LEMMA AskStep ==
  ASSUME Inv, NEW g \in Callers, NEW c \in Calls, Ask(g, c)
  PROVE  call[g] = Nil /\ call' = [call EXCEPT ![g] = c] /\ held' = [held EXCEPT ![g] = Nil]
<1>1. TypeOK
  BY DEF Inv
<1>2. OwnHeap(g)
  BY <1>1 DEF Ask, TypeOK, OwnHeap
<1>3. got'[g] = Nil /\ \A h \in Callers \ {g} : got'[h] = got[h]
  BY <1>1 DEF Ask, TypeOK
<1>4. HeldOf(g)' = Nil
  BY <1>3 DEF HeldOf
<1>5. QED
  BY <1>2, <1>3, <1>4, HeldChanges DEF Ask

\* Returning r is answering, when r says what the manifest says.
LEMMA ReturnsStep ==
  ASSUME Inv, NEW g \in Callers, NEW r \in Refs \cup {Nil}, at[g] # "idle",
         Returns(g, r), OwnHeap(g), Value(r)' = Says(call[g].op, call[g].name)
  PROVE  /\ call[g] # Nil /\ call' = [call EXCEPT ![g] = Nil]
         /\ held' = [held EXCEPT ![g] = [op |-> call[g].op, name |-> call[g].name,
                                         value |-> Says(call[g].op, call[g].name)]]
<1>1. /\ TypeOK /\ call[g] # Nil /\ call[g].op \in Ops /\ call[g].name \in Names
  BY InCall DEF Inv
<1>2. /\ got'[g] = [op |-> call[g].op, name |-> call[g].name, ref |-> r]
      /\ \A h \in Callers \ {g} : got'[h] = got[h]
  BY <1>1 DEF Returns, TypeOK
<1>3. got'[g] # Nil
  BY <1>1, <1>2, CatalogAssumption
<1>4. HeldOf(g)' = [op |-> call[g].op, name |-> call[g].name,
                    value |-> Says(call[g].op, call[g].name)]
  BY <1>2, <1>3 DEF HeldOf, Value
<1>5. QED
  BY <1>1, <1>2, <1>4, HeldChanges DEF Returns

LEMMA LookedStep ==
  ASSUME Inv, NEW g \in Callers, GetLoad(g) \/ ManifestRead(g)
  PROVE  \/ call' = call /\ held' = held
         \/ /\ call[g] # Nil /\ call' = [call EXCEPT ![g] = Nil]
            /\ held' = [held EXCEPT ![g] = [op |-> call[g].op, name |-> call[g].name,
                                            value |-> Says(call[g].op, call[g].name)]]
<1>1. /\ at[g] = "load" /\ UNCHANGED <<caches, heap>>
      /\ call[g].name \in Names /\ call[g].op \in Ops
  BY InCall DEF GetLoad, ManifestRead
<1>2. OwnHeap(g)
  BY <1>1 DEF heap, OwnHeap
<1>3. CASE UNCHANGED <<call, got>>
  BY <1>1, <1>2, <1>3, NothingHeldChanges DEF heap
<1>4. CASE Returns(g, Nil) /\ call[g].name \notin rawCatalog
  <2>1. Says(call[g].op, call[g].name) = Nil
    BY <1>4, CatalogAssumption DEF Says
  <2>2. QED
    BY <1>1, <1>2, <1>4, <2>1, ReturnsStep DEF Value
<1>5. QED
  BY <1>3, <1>4 DEF GetLoad, ManifestRead, Looked

LEMMA ParseStep ==
  ASSUME Inv, NEW g \in Callers, Parse(g)
  PROVE  \/ call' = call /\ held' = held
         \/ /\ call[g] # Nil /\ call' = [call EXCEPT ![g] = Nil]
            /\ held' = [held EXCEPT ![g] = [op |-> call[g].op, name |-> call[g].name,
                                            value |-> Says(call[g].op, call[g].name)]]
<1> DEFINE r == Parsed(g, call[g])
<1>1. at[g] = "parse" /\ call[g] \in Calls /\ TypeOK
  BY InCall DEF Parse, Inv
<1>2. CASE Says(call[g].op, call[g].name) = Nil
  <2>1. Returns(g, Nil) /\ UNCHANGED heap
    BY <1>2 DEF Parse
  <2>2. OwnHeap(g)
    BY <2>1 DEF heap, OwnHeap
  <2>3. QED
    BY <1>1, <1>2, <2>1, <2>2, ReturnsStep DEF Value
<1>3. CASE Says(call[g].op, call[g].name) # Nil
  <2>1. /\ tokensOf' = [tokensOf EXCEPT ![r] = r]
        /\ content' = [content EXCEPT ![r] = Says(call[g].op, call[g].name)]
        /\ UNCHANGED <<call, got>>
    BY <1>3 DEF Parse
  <2>2. r \in Refs /\ r # Copied(g) /\ r # Own(g) /\ Copied(g) \in Refs /\ Own(g) \in Refs
    BY <1>1, Apart
  <2>3. tokensOf'[r] = r /\ content'[r] = Says(call[g].op, call[g].name)
    BY <1>1, <2>1, <2>2 DEF TypeOK
  <2>4. \A o \in Refs \ {r} : tokensOf'[o] = tokensOf[o] /\ content'[o] = content[o]
    BY <1>1, <2>1 DEF TypeOK
  <2>5. OwnHeap(g)
    BY <1>1, <2>3, <2>4 DEF OwnHeap
  <2>6. QED
    BY <2>1, <2>2, <2>4, <2>5, NothingHeldChanges
<1>4. QED
  BY <1>2, <1>3

LEMMA StoreStep ==
  ASSUME Inv, NEW g \in Callers, GetStore(g) \/ ManifestStore(g)
  PROVE  call' = call /\ held' = held
<1>1. UNCHANGED <<heap, call, got>>
  BY DEF GetStore, ManifestStore
<1>2. OwnHeap(g)
  BY <1>1 DEF heap, OwnHeap
<1>3. QED
  BY <1>1, <1>2, NothingHeldChanges DEF heap

LEMMA CopyStep ==
  ASSUME Inv, NEW g \in Callers, Copy(g)
  PROVE  /\ call[g] # Nil /\ call' = [call EXCEPT ![g] = Nil]
         /\ held' = [held EXCEPT ![g] = [op |-> call[g].op, name |-> call[g].name,
                                         value |-> Says(call[g].op, call[g].name)]]
<1>1. Copied(g) \in Refs /\ TypeOK /\ at[g] # "idle"
  BY ApartCallers DEF Inv, Copy
<1>2. OwnHeap(g)
  BY <1>1, CopySays DEF OwnHeap, TypeOK
<1>3. /\ tokensOf'[Copied(g)] = Copied(g)
      /\ content'[Copied(g)] = Says(call[g].op, call[g].name)
  BY <1>1, CopySays DEF TypeOK
<1>4. Value(Copied(g))' = Says(call[g].op, call[g].name)
  BY <1>1, <1>3, CatalogAssumption DEF Value, Copied
<1>5. QED
  BY <1>1, <1>2, <1>4, CopySays, ReturnsStep

LEMMA EditStep ==
  ASSUME Inv, NEW g \in Callers, Write(g) \/ Replace(g)
  PROVE  /\ held[g] # Nil /\ held[g].value # Nil /\ call' = call
         /\ held' = [held EXCEPT ![g].value = Edited]
<1>1. /\ Holds(g) /\ TypeOK /\ UNCHANGED <<call, got>> /\ HeldInv(g)
  BY DEF Write, Replace, Inv
<1>2. /\ tokensOf'[Copied(g)] \in {Copied(g), Own(g)}
      /\ content'[tokensOf'[Copied(g)]] = Edited
      /\ OwnHeap(g)
  BY <1>1, HoldsCopy DEF Write, Replace, TypeOK, OwnHeap
<1>3. Copied(g) # Nil /\ got[g] # Nil
  BY <1>1, HoldsCopy, CatalogAssumption DEF Holds
<1>4. /\ Value(got[g].ref) = content[tokensOf[Copied(g)]]
      /\ Value(got[g].ref)' = Edited
  BY <1>1, <1>2, <1>3, HoldsCopy DEF Value
<1>5. /\ held[g] = [op |-> got[g].op, name |-> got[g].name, value |-> Value(got[g].ref)]
      /\ HeldOf(g)' = [op |-> got[g].op, name |-> got[g].name, value |-> Edited]
  BY <1>1, <1>3, <1>4 DEF held, HeldOf
<1>6. /\ got[g].op \in Ops /\ got[g].name \in Names
      /\ Value(got[g].ref) \in Names \cup {Nil, Edited} /\ Value(got[g].ref) # Nil
  BY <1>1, <1>4, HoldsCopy DEF TypeOK, HeldInv
<1>7. held[g] # Nil /\ held[g].value # Nil
  BY <1>5, <1>6, CatalogAssumption
<1>8. HeldOf(g)' = [held[g] EXCEPT !.value = Edited]
  BY <1>5
<1>9. held' = [held EXCEPT ![g] = HeldOf(g)']
  BY <1>1, <1>2, HeldChanges
<1>10. QED
  BY <1>1, <1>7, <1>8, <1>9

LEMMA NextRegistry == Inv /\ [Next]_vars => [Registry!Next]_<<call, held>>
<1> SUFFICES ASSUME Inv, [Next]_vars PROVE [Registry!Next]_<<call, held>>
  OBVIOUS
<1> USE DEF Registry!Next, Registry!Ask, Registry!Answer, Registry!Answered,
            Registry!Edit, HeldOf, held
<1>1. ASSUME NEW g \in Callers, NEW c \in Calls, Ask(g, c) PROVE Registry!Ask(g, c)
  BY <1>1, AskStep
<1>2. ASSUME NEW g \in Callers, CallStep(g)
      PROVE  Registry!Answer(g) \/ UNCHANGED <<call, held>>
  BY <1>2, LookedStep, ParseStep, StoreStep, CopyStep DEF CallStep
<1>3. ASSUME NEW g \in Callers, Write(g) \/ Replace(g) PROVE Registry!Edit(g)
  BY <1>3, EditStep
<1>4. CASE UNCHANGED vars
  BY <1>4 DEF vars, Value
<1>5. QED
  BY <1>1, <1>2, <1>3, <1>4 DEF Next

-----------------------------------------------------------------------------

\* The variables of the catalog keep their types.
THEOREM CatalogTypeOK == Spec => []TypeOK
<1>1. Inv => TypeOK
  BY DEF Inv
<1>2. QED
  BY InitInv, NextInv, <1>1, PTL DEF Spec

\* Any number of goroutines, whatever they write into what they were given,
\* leave the caches saying what the manifests say.
THEOREM CatalogRegistryKept == Spec => []RegistryKept
<1>1. Inv => RegistryKept
  BY CatalogAssumption DEF Inv, CacheInv, RegistryKept, Value, Entry
<1>2. QED
  BY InitInv, NextInv, <1>1, PTL DEF Spec

\* The safety part of ThemeRegistry: every step of a goroutine in the catalog
\* asks, answers with what the manifest says, edits what that goroutine alone
\* holds, or is not seen by any caller.
THEOREM CatalogRefinesRegistry ==
  Spec => Registry!Init /\ [][Registry!Next]_<<call, held>>
<1>1. Init => Registry!Init
  BY DEF Init, Registry!Init
<1>2. QED
  BY InitInv, NextInv, NextRegistry, <1>1, PTL DEF Spec

-----------------------------------------------------------------------------
(* The manifests. The in-flight set of the styleResolver is the path of the  *)
(* calls under way, no token is twice on it, and none of them is in the      *)
(* cache. Nothing is assumed of the manifest, so the references may form any *)
(* graph.                                                                    *)

Frame(f) == "tok" \in DOMAIN f /\ f = [x \in DOMAIN f |-> f[x]]

StackOK ==
  /\ \E S : stack \in Seq(S)
  /\ \A i \in DOMAIN stack : Frame(stack[i])

PathInv == StackOK /\ VisitingIsPath

-----------------------------------------------------------------------------

LEMMA EmptyInv ==
  ASSUME stack' = <<>>, visiting' = {}
  PROVE  PathInv'
<1>1. <<>> \in Seq({})
  OBVIOUS
<1>2. StackOK'
  BY <1>1 DEF StackOK
<1>3. VisitingIsPath'
  BY DEF VisitingIsPath
<1>4. QED
  BY <1>2, <1>3 DEF PathInv

LEMMA SameInv ==
  ASSUME PathInv, UNCHANGED <<stack, visiting, cache>>
  PROVE  PathInv'
  BY DEF PathInv, StackOK, VisitingIsPath

\* A call is made for a token that is neither cached nor under way.
LEMMA PushInv ==
  ASSUME PathInv, NEW t, t \notin visiting, t \notin DOMAIN cache,
         stack' = Append(stack, Call(t)), visiting' = visiting \cup {t}, cache' = cache
  PROVE  PathInv'
<1>1. PICK S : stack \in Seq(S)
  BY DEF PathInv, StackOK
<1> DEFINE U == S \cup {Call(t)}
           m == Len(stack) + 1
<1>2. stack \in Seq(U) /\ Call(t) \in U
  BY <1>1
<1>3. /\ stack' \in Seq(U) /\ DOMAIN stack = 1..Len(stack) /\ DOMAIN stack' = 1..m
      /\ Len(stack) \in Nat
      /\ stack'[m] = Call(t)
      /\ \A i \in 1..Len(stack) : stack'[i] = stack[i]
  BY <1>2
<1>4. Frame(Call(t)) /\ Call(t).tok = t
  BY DEF Frame, Call
<1>5. StackOK'
  BY <1>3, <1>4 DEF PathInv, StackOK
<1> HIDE DEF U
<1>6. /\ \A i \in 1..m : i = m \/ i \in 1..Len(stack)
      /\ m \in 1..m /\ m \notin 1..Len(stack) /\ 1..Len(stack) \subseteq 1..m
  BY <1>3
<1> HIDE DEF m
<1>7. visiting' = {stack'[i].tok : i \in DOMAIN stack'}
  BY <1>3, <1>4, <1>6 DEF PathInv, VisitingIsPath
<1>8. \A i \in 1..Len(stack) : stack[i].tok \in visiting
  BY <1>3 DEF PathInv, VisitingIsPath
<1>9. \A i, j \in DOMAIN stack' : stack'[i].tok = stack'[j].tok => i = j
  BY <1>3, <1>4, <1>6, <1>8 DEF PathInv, VisitingIsPath
<1>10. visiting' \cap DOMAIN cache' = {}
  BY DEF PathInv, VisitingIsPath
<1>11. QED
  BY <1>5, <1>7, <1>9, <1>10 DEF PathInv, VisitingIsPath

\* The innermost call goes on.
LEMMA AdvanceInv ==
  ASSUME PathInv, stack # <<>>, NEW f, Frame(f), f.tok = Top.tok,
         stack' = WithTop(f), visiting' = visiting, cache' = cache
  PROVE  PathInv'
<1>1. PICK S : stack \in Seq(S)
  BY DEF PathInv, StackOK
<1> DEFINE U == S \cup {f}
<1>2. stack \in Seq(U) /\ f \in U /\ Len(stack) \in 1..Len(stack)
  BY <1>1
<1>3. /\ stack' \in Seq(U) /\ DOMAIN stack' = DOMAIN stack
      /\ stack'[Len(stack)] = f
      /\ \A i \in DOMAIN stack : i # Len(stack) => stack'[i] = stack[i]
  BY <1>2 DEF WithTop
<1>4. StackOK'
  BY <1>3 DEF PathInv, StackOK
<1>5. \A i \in DOMAIN stack : stack'[i].tok = stack[i].tok
  BY <1>3 DEF Top
<1>6. VisitingIsPath'
  BY <1>3, <1>5 DEF PathInv, VisitingIsPath
<1>7. QED
  BY <1>4, <1>6 DEF PathInv

\* The innermost call returns, and the one below it goes on.
LEMMA PopInv ==
  ASSUME PathInv, stack # <<>>,
         LET callers == SubSeq(stack, 1, Len(stack) - 1)
         IN  IF callers = <<>> THEN stack' = <<>>
             ELSE \E f : /\ Frame(f) /\ f.tok = callers[Len(callers)].tok
                         /\ stack' = [callers EXCEPT ![Len(callers)] = f],
         visiting' = visiting \ {Top.tok},
         DOMAIN cache' = DOMAIN cache \cup {Top.tok}
  PROVE  PathInv'
<1> DEFINE callers == SubSeq(stack, 1, Len(stack) - 1)
           n == Len(stack) - 1
<1>1. PICK S : stack \in Seq(S)
  BY DEF PathInv, StackOK
<1>2. /\ Len(stack) \in Nat /\ n \in Nat /\ Len(stack) = n + 1 /\ DOMAIN stack = 1..(n + 1)
      /\ callers \in Seq(S) /\ Len(callers) = n /\ DOMAIN callers = 1..n
      /\ \A i \in 1..n : callers[i] = stack[i]
  <2>1. /\ Len(stack) \in Nat /\ n \in Nat /\ Len(stack) = n + 1 /\ DOMAIN stack = 1..(n + 1)
        /\ \A i \in 1..n : stack[i] \in S
    BY <1>1
  <2> HIDE DEF n
  <2>2. callers = SubSeq(stack, 1, n)
    BY DEF n
  <2>3. /\ SubSeq(stack, 1, n) \in Seq(S)
        /\ Len(SubSeq(stack, 1, n)) = n
        /\ \A i \in 1..n : SubSeq(stack, 1, n)[i] = stack[i]
    BY <2>1, SubSeqProperties
  <2> HIDE DEF callers
  <2>4. QED
    BY <2>1, <2>2, <2>3
<1>3. /\ \E U : stack' \in Seq(U)
      /\ DOMAIN stack' = 1..n
      /\ \A i \in 1..n : Frame(stack'[i]) /\ stack'[i].tok = stack[i].tok
  <2>1. CASE callers = <<>>
    <3> HIDE DEF n
    <3>1. stack' = <<>> /\ n = 0
      BY <1>2, <2>1, EmptySeq
    <3>2. <<>> \in Seq(S) /\ DOMAIN <<>> = 1..0
      BY EmptySeq
    <3>3. QED
      BY <3>1, <3>2
  <2>2. CASE callers # <<>>
    <3>1. PICK f : /\ Frame(f) /\ f.tok = callers[Len(callers)].tok
                   /\ stack' = [callers EXCEPT ![Len(callers)] = f]
      BY <2>2
    <3> HIDE DEF callers, n
    <3>2. callers \in Seq(S \cup {f}) /\ n \in 1..n
      BY <1>2, <2>2, EmptySeq
    <3>3. /\ stack' \in Seq(S \cup {f}) /\ DOMAIN stack' = 1..n /\ stack'[n] = f
          /\ \A i \in 1..n : i # n => stack'[i] = stack[i]
      BY <1>2, <3>1, <3>2, ExceptSeq
    <3>4. \A i \in 1..n : Frame(stack[i])
      BY <1>2 DEF PathInv, StackOK
    <3>5. QED
      BY <1>2, <3>1, <3>2, <3>3, <3>4
  <2>3. QED
    BY <2>1, <2>2
<1> HIDE DEF callers
<1>4. StackOK'
  BY <1>3 DEF StackOK
<1>5. /\ 1..n \subseteq DOMAIN stack /\ n + 1 \in DOMAIN stack /\ n + 1 \notin 1..n
      /\ \A i \in DOMAIN stack : i = n + 1 \/ i \in 1..n
      /\ Top.tok = stack[n + 1].tok
  BY <1>2 DEF Top
<1> HIDE DEF n
<1>6. visiting' = {stack'[i].tok : i \in 1..n}
  BY <1>3, <1>5 DEF PathInv, VisitingIsPath
<1>7. \A i, j \in 1..n : stack'[i].tok = stack'[j].tok => i = j
  BY <1>3, <1>5 DEF PathInv, VisitingIsPath
<1>8. visiting' \cap DOMAIN cache' = {}
  BY DEF PathInv, VisitingIsPath
<1>9. VisitingIsPath'
  BY <1>3, <1>6, <1>7, <1>8 DEF VisitingIsPath
<1>10. QED
  BY <1>4, <1>9 DEF PathInv

-----------------------------------------------------------------------------
(* The actions.                                                              *)

\* The top of the stack is a call.
LEMMA TopFrame ==
  ASSUME PathInv, stack # <<>>
  PROVE  Frame(Top)
<1>1. PICK S : stack \in Seq(S)
  BY DEF PathInv, StackOK
<1>2. Len(stack) \in DOMAIN stack
  BY <1>1
<1>3. QED
  BY <1>2 DEF PathInv, StackOK, Top

LEMMA NextPartFrame ==
  ASSUME NEW f, Frame(f), NEW s
  PROVE  Frame(NextPart(f, s)) /\ NextPart(f, s).tok = f.tok
<1>1. DOMAIN NextPart(f, s) = DOMAIN f
  BY DEF NextPart
<1>2. NextPart(f, s).tok = f.tok
  BY DEF Frame, NextPart
<1>3. NextPart(f, s) = [x \in DOMAIN f |-> NextPart(f, s)[x]]
  BY DEF Frame, NextPart
<1>4. QED
  BY <1>1, <1>2, <1>3 DEF Frame

LEMMA AdvanceStep ==
  ASSUME PathInv, stack # <<>>, NEW s, Advance(s)
  PROVE  PathInv'
  BY TopFrame, NextPartFrame, AdvanceInv DEF Advance

LEMMA FailStep ==
  ASSUME NEW why, Fail(why)
  PROVE  PathInv'
  BY EmptyInv DEF Fail

LEMMA ResolveStep ==
  ASSUME PathInv, stack # <<>>, NEW t, resolveToken(t)
  PROVE  PathInv'
<1>1. CASE Fail("no foreground") \/ Fail("cycle") \/ Fail("unknown token")
  BY <1>1, FailStep
<1>2. CASE stack' = WithTop(Received(Top, cache[t])) /\ UNCHANGED <<visiting, cache>>
  BY <1>2, TopFrame, NextPartFrame, AdvanceInv DEF Received
<1>3. CASE /\ t \notin visiting /\ t \notin DOMAIN cache
           /\ stack' = Append(stack, Call(t)) /\ visiting' = visiting \cup {t}
           /\ cache' = cache
  BY <1>3, PushInv
<1>4. QED
  BY <1>1, <1>2, <1>3 DEF resolveToken

LEMMA BaseStep ==
  ASSUME PathInv, Base
  PROVE  PathInv'
<1>1. stack # <<>>
  BY DEF Base, Running
<1>2. \/ \E t : resolveToken(t)
      \/ \E s : Advance(s)
      \/ \E why : Fail(why)
  BY DEF Base
<1>3. QED
  BY <1>1, <1>2, ResolveStep, AdvanceStep, FailStep

LEMMA ColorStep ==
  ASSUME PathInv, resolveColorRef
  PROVE  PathInv'
<1>1. stack # <<>>
  BY DEF resolveColorRef, Running
<1>2. \/ \E t : resolveToken(t)
      \/ \E s : Advance(s)
      \/ \E why : Fail(why)
  <2> DEFINE asked == Spec0.color[Top.part]
  <2>1. CASE asked.form = "token"
    BY <2>1 DEF resolveColorRef
  <2>2. CASE asked.form = "primitive"
    BY <2>2 DEF resolveColorRef
  <2>3. CASE asked.form \notin {"token", "primitive"}
    BY <2>3 DEF resolveColorRef
  <2>4. QED
    BY <2>1, <2>2, <2>3
<1>3. QED
  BY <1>1, <1>2, ResolveStep, AdvanceStep, FailStep

LEMMA SettleStep ==
  ASSUME PathInv, Settle
  PROVE  PathInv'
<1> DEFINE callers == SubSeq(stack, 1, Len(stack) - 1)
           f == callers[Len(callers)]
           s == Overlay(Top.style, Spec0.look)
<1>1. stack # <<>>
  BY DEF Settle, Running
<1>2. CASE Fail("unknown border") \/ Fail("no foreground")
  BY <1>2, FailStep
<1>3. CASE /\ cache' = Put(cache, Top.tok, s)
           /\ visiting' = visiting \ {Top.tok}
           /\ IF callers = <<>> THEN stack' = <<>>
              ELSE stack' = [callers EXCEPT ![Len(callers)] = Received(f, s)]
  <2>1. DOMAIN cache' = DOMAIN cache \cup {Top.tok}
    BY <1>3 DEF Put
  <2>2. ASSUME callers # <<>>
        PROVE  Frame(Received(f, s)) /\ Received(f, s).tok = f.tok
    <3>1. PICK S : stack \in Seq(S)
      BY DEF PathInv, StackOK
    <3>2. f = stack[Len(stack) - 1] /\ Len(stack) - 1 \in DOMAIN stack
      BY <3>1, <2>2
    <3>3. Frame(f)
      BY <3>2 DEF PathInv, StackOK
    <3> HIDE DEF f
    <3>4. QED
      BY <3>3, NextPartFrame DEF Received
  <2> HIDE DEF s
  <2>3. QED
    BY <1>1, <1>3, <2>1, <2>2, PopInv
<1>4. QED
  BY <1>2, <1>3 DEF Settle

LEMMA NextPath == PathInv /\ [ParseNext]_parseVars => PathInv'
<1> SUFFICES ASSUME PathInv, [ParseNext]_parseVars PROVE PathInv'
  OBVIOUS
<1>1. CASE Validate \/ VariantDone \/ UNCHANGED parseVars
  BY <1>1, SameInv DEF Validate, VariantDone, resolver, parseVars
<1>2. ASSUME NEW v \in left, parseVariant(v) PROVE PathInv'
  BY <1>2, EmptyInv DEF parseVariant
<1>3. ASSUME NEW t \in todo, RangeToken(t) PROVE PathInv'
  <2>1. CASE t \in DOMAIN cache
    BY <1>3, <2>1, SameInv DEF RangeToken
  <2>2. CASE t \notin DOMAIN cache
    <3>1. stack = <<>> /\ visiting = {}
      BY <1>3 DEF RangeToken, PathInv, VisitingIsPath
    <3>2. stack' = Append(stack, Call(t)) /\ visiting' = visiting \cup {t} /\ cache' = cache
      BY <1>3, <2>2, <3>1 DEF RangeToken
    <3>3. QED
      BY <2>2, <3>1, <3>2, PushInv
  <2>3. QED
    BY <2>1, <2>2
<1>4. QED
  BY <1>1, <1>2, <1>3, BaseStep, ColorStep, SettleStep DEF ParseNext

LEMMA InitPath == ParseInit => PathInv
<1> SUFFICES ASSUME ParseInit PROVE PathInv
  OBVIOUS
<1>1. <<>> \in Seq({})
  OBVIOUS
<1>2. QED
  BY <1>1 DEF ParseInit, PathInv, StackOK, VisitingIsPath

\* Whatever a manifest refers to, the resolver visits exactly the tokens of
\* the calls under way, each once, and none it has already resolved: a cycle
\* is always noticed, and nothing else is taken for one.
THEOREM ManifestVisitingIsPath == ParseSpec => []VisitingIsPath
<1>1. PathInv => VisitingIsPath
  BY DEF PathInv
<1>2. QED
  BY InitPath, NextPath, <1>1, PTL DEF ParseSpec

-----------------------------------------------------------------------------
(* The rounds of Meaning.                                                    *)

\* A set of natural numbers that is not empty has a least one.
LEMMA LeastNumber ==
  ASSUME NEW S, S \subseteq Nat, S # {}
  PROVE  \E m \in S : \A k \in S : m <= k
<1>1. PICK m \in S : \A k \in S : ~ (<<k, m>> \in OpToRel(<, Nat))
  BY NatLessThanWellFounded, WFMin
<1>2. ASSUME NEW k \in S PROVE m <= k
  <2>1. m \in Nat /\ k \in Nat
    OBVIOUS
  <2>2. ~(k < m)
    BY <1>1, <2>1 DEF OpToRel
  <2> QED
    BY <2>1, <2>2
<1> QED
  BY <1>2

LEMMA Slots == DOMAIN ColorSlots = 1..4 /\ Len(ColorSlots) = 4
  BY DEF ColorSlots

Step(s, g, n) == IF n = 0 THEN Empty ELSE MeantFrom(s, g[n - 1])

IsRounds(g, s, n) == g = [k \in 0..n |-> Step(s, g, k)]

LEMMA RoundsExist ==
  ASSUME NEW s, NEW n \in Nat
  PROVE  \E g : IsRounds(g, s, n)
<1> DEFINE Lost == {k \in Nat : ~ \E g : IsRounds(g, s, k)}
<1>1. CASE Lost = {}
  BY <1>1
<1>2. CASE Lost # {}
  <2>1. PICK m \in Lost : \A k \in Lost : m <= k
    <3>1. Lost \subseteq Nat
      OBVIOUS
    <3> HIDE DEF Lost
    <3> QED
      BY <1>2, <3>1, LeastNumber
  <2>2. CASE m = 0
    <3>1. IsRounds([k \in 0..0 |-> Empty], s, 0)
      BY DEF IsRounds, Step
    <3> QED
      BY <2>2, <3>1
  <2>3. CASE m > 0
    <3>1. m - 1 \in Nat /\ m - 1 \notin Lost
      BY <2>1, <2>3
    <3>2. PICK g : IsRounds(g, s, m - 1)
      BY <3>1
    <3> DEFINE f == [k \in 0..m |-> IF k < m THEN g[k] ELSE MeantFrom(s, g[m - 1])]
    <3>3. ASSUME NEW k \in 0..m
          PROVE  f[k] = Step(s, f, k)
      <4>1. CASE k < m
        <5>1. k \in 0..(m - 1) /\ f[k] = g[k]
          BY <4>1
        <5>2. g[k] = Step(s, g, k)
          BY <3>2, <5>1 DEF IsRounds
        <5>3. k # 0 => f[k - 1] = g[k - 1]
          BY <4>1
        <5> HIDE DEF f
        <5> QED
          BY <5>1, <5>2, <5>3 DEF Step
      <4>2. CASE k = m
        <5>1. f[k - 1] = g[k - 1]
          BY <4>2, <2>3
        <5>2. f[k] = MeantFrom(s, g[m - 1])
          BY <4>2
        <5> HIDE DEF f
        <5> QED
          BY <4>2, <2>3, <5>1, <5>2 DEF Step
      <4> QED
        BY <4>1, <4>2
    <3>4. f = [k \in 0..m |-> f[k]]
      OBVIOUS
    <3>5. IsRounds(f, s, m)
      <4> HIDE DEF f
      <4> QED
        BY <3>3, <3>4 DEF IsRounds
    <3> QED
      BY <3>5
  <2> QED
    BY <2>1, <2>2, <2>3
<1> QED
  BY <1>1, <1>2

\* Meaning is the last of as many rounds as there are tokens.
LEMMA MeaningRounds ==
  ASSUME NEW s, IsFiniteSet(DOMAIN s.tokens)
  PROVE  \E g : /\ g[0] = Empty
                /\ \A n \in 1..Cardinality(DOMAIN s.tokens) : g[n] = MeantFrom(s, g[n - 1])
                /\ Meaning(s) = g[Cardinality(DOMAIN s.tokens)]
<1> DEFINE N == Cardinality(DOMAIN s.tokens)
           g == CHOOSE f : IsRounds(f, s, N)
<1>1. N \in Nat
  BY FS_CardinalityType
<1>2. IsRounds(g, s, N)
  BY <1>1, RoundsExist
<1>3. Meaning(s) = g[N]
  BY DEF Meaning, IsRounds, Step
<1> HIDE DEF g, N
<1>4. \A n \in 0..N : g[n] = Step(s, g, n)
  BY <1>2 DEF IsRounds
<1>5. g[0] = Empty /\ \A n \in 1..N : g[n] = MeantFrom(s, g[n - 1])
  BY <1>1, <1>4 DEF Step
<1> QED
  BY <1>3, <1>5 DEF N

-----------------------------------------------------------------------------
(* A round adds styles and changes none, so after as many as there are       *)
(* tokens nothing more is added.                                             *)

Extends(f, e) == DOMAIN e \subseteq DOMAIN f /\ \A t \in DOMAIN e : f[t] = e[t]

LEMMA MeantDomain ==
  ASSUME NEW s, NEW e
  PROVE  /\ DOMAIN MeantFrom(s, e) \subseteq DOMAIN s.tokens
         /\ \A t : t \in DOMAIN MeantFrom(s, e) <=>
                     t \in DOMAIN s.tokens /\ Means(s, s.tokens[t], e)
         /\ \A t \in DOMAIN MeantFrom(s, e) :
              MeantFrom(s, e)[t] = StyleMeant(s, s.tokens[t], e)
         /\ MeantFrom(s, e) = [t \in DOMAIN MeantFrom(s, e) |-> MeantFrom(s, e)[t]]
  BY DEF MeantFrom

LEMMA MeansMore ==
  ASSUME NEW s, NEW e, NEW f, Extends(f, e), NEW spec, Means(s, spec, e)
  PROVE  Means(s, spec, f) /\ StyleMeant(s, spec, f) = StyleMeant(s, spec, e)
<1>1. BaseMeans(s, spec.base, f) /\ BaseMeant(s, spec.base, f) = BaseMeant(s, spec.base, e)
  BY DEF Means, BaseMeans, BaseMeant, Extends
<1>2. ASSUME NEW i \in DOMAIN ColorSlots, NEW inherited
      PROVE  /\ ColorMeans(s, spec.color[i], f)
             /\ ColorMeant(s, spec.color[i], inherited, f) = ColorMeant(s, spec.color[i], inherited, e)
  BY DEF Means, ColorMeans, ColorMeant, Extends
<1>3. Means(s, spec, f)
  BY <1>1, <1>2 DEF Means
<1>4. StyleMeant(s, spec, f) = StyleMeant(s, spec, e)
  BY <1>1, <1>2 DEF StyleMeant
<1> QED
  BY <1>3, <1>4

LEMMA RoundExtends ==
  ASSUME NEW s, NEW e, NEW f, Extends(f, e)
  PROVE  Extends(MeantFrom(s, f), MeantFrom(s, e))
<1>1. ASSUME NEW t \in DOMAIN MeantFrom(s, e)
      PROVE  t \in DOMAIN MeantFrom(s, f) /\ MeantFrom(s, f)[t] = MeantFrom(s, e)[t]
  <2>1. /\ t \in DOMAIN s.tokens /\ Means(s, s.tokens[t], e)
        /\ MeantFrom(s, e)[t] = StyleMeant(s, s.tokens[t], e)
    BY MeantDomain
  <2>2. Means(s, s.tokens[t], f) /\ StyleMeant(s, s.tokens[t], f) = StyleMeant(s, s.tokens[t], e)
    BY <2>1, MeansMore
  <2>3. t \in DOMAIN MeantFrom(s, f)
    BY <2>1, <2>2, MeantDomain
  <2>4. MeantFrom(s, f)[t] = StyleMeant(s, s.tokens[t], f)
    BY <2>3, MeantDomain
  <2> QED
    BY <2>1, <2>2, <2>3, <2>4
<1> QED
  BY <1>1 DEF Extends

\* What a manifest means is closed: another round makes the same of it.
LEMMA MeaningIsFixed ==
  ASSUME NEW s, IsFiniteSet(DOMAIN s.tokens)
  PROVE  MeantFrom(s, Meaning(s)) = Meaning(s)
<1> DEFINE T == DOMAIN s.tokens
           N == Cardinality(T)
           Grown(h, n) == MeantFrom(s, h[n]) = h[n] \/ Cardinality(DOMAIN h[n]) >= n
           RoundOK(h, n) == /\ DOMAIN h[n] \subseteq T
                            /\ h[n] = [t \in DOMAIN h[n] |-> h[n][t]]
                            /\ Extends(MeantFrom(s, h[n]), h[n])
<1>1. N \in Nat
  BY FS_CardinalityType
<1>2. PICK g : /\ g[0] = Empty
               /\ \A n \in 1..N : g[n] = MeantFrom(s, g[n - 1])
               /\ Meaning(s) = g[N]
  BY MeaningRounds
<1> HIDE DEF N
<1>3. \A n \in 0..N : RoundOK(g, n)
  <2> DEFINE Bad == {n \in 0..N : ~ RoundOK(g, n)}
  <2> SUFFICES ASSUME Bad # {} PROVE FALSE
    OBVIOUS
  <2>1. PICK m \in Bad : \A k \in Bad : m <= k
    <3>1. Bad \subseteq Nat
      BY <1>1
    <3> HIDE DEF Bad
    <3> QED
      BY <3>1, LeastNumber
  <2>2. CASE m = 0
    <3>1. DOMAIN Empty = {} /\ Empty = [t \in DOMAIN Empty |-> Empty[t]]
      BY DEF Empty
    <3>2. RoundOK(g, 0)
      BY <1>2, <3>1 DEF Extends
    <3> QED
      BY <2>1, <2>2, <3>2
  <2>3. CASE m > 0
    <3>1. m - 1 \in 0..N /\ m \in 1..N /\ m - 1 \notin Bad
      BY <1>1, <2>1, <2>3
    <3>2. RoundOK(g, m - 1) /\ g[m] = MeantFrom(s, g[m - 1])
      BY <1>2, <3>1
    <3>3. Extends(MeantFrom(s, g[m]), g[m])
      BY <3>2, RoundExtends
    <3>4. DOMAIN g[m] \subseteq T /\ g[m] = [t \in DOMAIN g[m] |-> g[m][t]]
      BY <3>2, MeantDomain
    <3> QED
      BY <2>1, <3>3, <3>4
  <2> QED
    BY <1>1, <2>1, <2>2, <2>3
<1>4. ASSUME NEW n \in 0..N, Cardinality(DOMAIN g[n]) >= Cardinality(DOMAIN MeantFrom(s, g[n]))
      PROVE  MeantFrom(s, g[n]) = g[n]
  <2> DEFINE e == g[n]
             f == MeantFrom(s, e)
  <2>1. DOMAIN e \subseteq DOMAIN f /\ DOMAIN f \subseteq T /\ DOMAIN e \subseteq T
    BY <1>3, MeantDomain DEF Extends
  <2>2. IsFiniteSet(DOMAIN f) /\ IsFiniteSet(DOMAIN e)
    BY <2>1, FS_Subset
  <2>3. DOMAIN e = DOMAIN f
    <3> HIDE DEF e, f
    <3>1. Cardinality(DOMAIN e) \in Nat /\ Cardinality(DOMAIN f) \in Nat
      BY <2>2, FS_CardinalityType
    <3>2. Cardinality(DOMAIN e) <= Cardinality(DOMAIN f)
      BY <2>1, <2>2, FS_Subset
    <3>3. Cardinality(DOMAIN f) = Cardinality(DOMAIN e)
      BY <1>4, <3>1, <3>2 DEF e, f
    <3> QED
      BY <2>1, <2>2, <3>3, FS_Subset
  <2>4. /\ e = [t \in DOMAIN e |-> e[t]] /\ f = [t \in DOMAIN f |-> f[t]]
        /\ \A t \in DOMAIN e : f[t] = e[t]
    BY <1>3, MeantDomain DEF Extends
  <2> HIDE DEF e, f
  <2>5. e = f
    BY <2>3, <2>4
  <2> QED
    BY <2>5 DEF e, f
<1>5. \A n \in 0..N : Grown(g, n)
  <2> DEFINE Bad == {n \in 0..N : ~ Grown(g, n)}
  <2> SUFFICES ASSUME Bad # {} PROVE FALSE
    OBVIOUS
  <2>1. PICK m \in Bad : \A k \in Bad : m <= k
    <3>1. Bad \subseteq Nat
      BY <1>1
    <3> HIDE DEF Bad
    <3> QED
      BY <3>1, LeastNumber
  <2>2. ASSUME NEW k \in 0..N
        PROVE  IsFiniteSet(DOMAIN g[k]) /\ Cardinality(DOMAIN g[k]) \in Nat
    BY <1>3, FS_Subset, FS_CardinalityType
  <2>3. CASE m = 0
    <3>1. Grown(g, 0)
      BY <1>1, <2>2, 0 \in 0..N
    <3> QED
      BY <2>1, <2>3, <3>1
  <2>4. CASE m > 0
    <3>1. m - 1 \in 0..N /\ m \in 1..N /\ m - 1 \notin Bad /\ m \in 0..N
      BY <1>1, <2>1, <2>4
    <3>2. Grown(g, m - 1) /\ g[m] = MeantFrom(s, g[m - 1])
      BY <1>2, <3>1
    <3>3. CASE MeantFrom(s, g[m - 1]) = g[m - 1]
      <4>1. g[m] = g[m - 1] /\ MeantFrom(s, g[m]) = g[m]
        BY <3>2, <3>3
      <4> QED
        BY <2>1, <4>1
    <3>4. CASE MeantFrom(s, g[m - 1]) # g[m - 1]
      <4>1. ~ (Cardinality(DOMAIN g[m - 1]) >= Cardinality(DOMAIN g[m]))
        BY <1>4, <3>1, <3>2, <3>4
      <4>2. Cardinality(DOMAIN g[m - 1]) \in Nat /\ Cardinality(DOMAIN g[m]) \in Nat
        BY <2>2, <3>1
      <4>3. Cardinality(DOMAIN g[m - 1]) >= m - 1
        BY <3>2, <3>4
      <4>4. Cardinality(DOMAIN g[m]) >= m
        BY <2>1, <4>1, <4>2, <4>3
      <4> QED
        BY <2>1, <4>4
    <3> QED
      BY <3>3, <3>4
  <2> QED
    BY <1>1, <2>1, <2>3, <2>4
<1>6. N \in 0..N /\ Grown(g, N) /\ RoundOK(g, N)
  BY <1>1, <1>3, <1>5
<1>7. CASE Cardinality(DOMAIN g[N]) >= N
  <2>1. DOMAIN MeantFrom(s, g[N]) \subseteq T
    BY MeantDomain
  <2>2. Cardinality(DOMAIN MeantFrom(s, g[N])) <= N
    BY <2>1, FS_Subset DEF N
  <2>3. IsFiniteSet(DOMAIN MeantFrom(s, g[N])) /\ IsFiniteSet(DOMAIN g[N])
    BY <1>6, <2>1, FS_Subset
  <2>4. /\ Cardinality(DOMAIN MeantFrom(s, g[N])) \in Nat
        /\ Cardinality(DOMAIN g[N]) \in Nat
    BY <2>3, FS_CardinalityType
  <2>5. Cardinality(DOMAIN g[N]) >= Cardinality(DOMAIN MeantFrom(s, g[N]))
    BY <1>1, <1>7, <2>2, <2>4
  <2> QED
    BY <1>2, <1>4, <1>6, <2>5
<1> QED
  BY <1>2, <1>6, <1>7

\* Tokens of which each needs another of them mean nothing.
LEMMA NobodyFirst ==
  ASSUME NEW s, IsFiniteSet(DOMAIN s.tokens), NEW C,
         \A e : \A t \in C : DOMAIN e \cap C = {} => ~ Means(s, s.tokens[t], e)
  PROVE  C \cap DOMAIN Meaning(s) = {}
<1> DEFINE N == Cardinality(DOMAIN s.tokens)
<1>1. N \in Nat
  BY FS_CardinalityType
<1>2. PICK g : /\ g[0] = Empty
               /\ \A n \in 1..N : g[n] = MeantFrom(s, g[n - 1])
               /\ Meaning(s) = g[N]
  BY MeaningRounds
<1> HIDE DEF N
<1>3. \A n \in 0..N : C \cap DOMAIN g[n] = {}
  <2> DEFINE Bad == {n \in 0..N : C \cap DOMAIN g[n] # {}}
  <2> SUFFICES ASSUME Bad # {} PROVE FALSE
    OBVIOUS
  <2>1. PICK m \in Bad : \A k \in Bad : m <= k
    <3>1. Bad \subseteq Nat
      BY <1>1
    <3> HIDE DEF Bad
    <3> QED
      BY <3>1, LeastNumber
  <2>2. CASE m = 0
    <3>1. DOMAIN g[0] = {}
      BY <1>2 DEF Empty
    <3> QED
      BY <2>1, <2>2, <3>1
  <2>3. CASE m > 0
    <3>1. m - 1 \in 0..N /\ m \in 1..N /\ m - 1 \notin Bad
      BY <1>1, <2>1, <2>3
    <3>2. PICK t : t \in C /\ t \in DOMAIN g[m]
      BY <2>1
    <3>3. Means(s, s.tokens[t], g[m - 1])
      BY <1>2, <3>1, <3>2, MeantDomain
    <3>4. DOMAIN g[m - 1] \cap C = {}
      BY <3>1
    <3> QED
      BY <3>2, <3>3, <3>4
  <2> QED
    BY <1>1, <2>1, <2>2, <2>3
<1> QED
  BY <1>1, <1>2, <1>3

-----------------------------------------------------------------------------
(* What the resolver makes of a manifest, against what the manifest means.   *)

\* The references of a token that a call has reached: its base at part 0,
\* then a color.
Asks(spec, k, t) ==
  \/ k = 0 /\ spec.base.form = "token" /\ spec.base.to = t
  \/ /\ k \in DOMAIN ColorSlots
     /\ spec.color[k].form = "token" /\ spec.color[k].to = t

\* A style whose colors before k are those the token asks for.
Half(s, spec, env, k) ==
  LET base == BaseMeant(s, spec.base, env)
  IN  [color |-> [i \in DOMAIN ColorSlots |->
                    IF i < k THEN ColorMeant(s, spec.color[i], base.color[i], env)
                             ELSE base.color[i]],
       look |-> base.look]

\* A call has done the parts before its part, and none of them is at fault.
CallOK(s, f) ==
  LET spec == s.tokens[f.tok]
  IN  /\ f = [tok |-> f.tok, part |-> f.part, style |-> f.style]
      /\ f.tok \in DOMAIN s.tokens
      /\ f.part \in 0..5
      /\ f.part = 0 => f.style = Plain
      /\ f.part # 0 => /\ BaseMeans(s, spec.base, Meaning(s))
                       /\ f.style = Half(s, spec, Meaning(s), f.part)
      /\ \A i \in DOMAIN ColorSlots : i < f.part => ColorMeans(s, spec.color[i], Meaning(s))

\* The styles a map remembers are those the manifest means.
Meant(s, m) ==
  /\ DOMAIN m \subseteq DOMAIN Meaning(s)
  /\ m = [t \in DOMAIN m |-> Meaning(s)[t]]

ResolverInv(s) ==
  /\ todo \subseteq DOMAIN s.tokens
  /\ Meant(s, cache)
  /\ Meant(s, resolved) /\ DOMAIN resolved = DOMAIN s.tokens \ todo
  /\ \A i \in DOMAIN stack : CallOK(s, stack[i])
  /\ \A i \in DOMAIN stack : i + 1 \in DOMAIN stack =>
       Asks(s.tokens[stack[i].tok], stack[i].part, stack[i + 1].tok)

Valid == validManifest(raw) /\ parsePromptKnobs(raw.knobs)

\* The variants that are behind are in out, and without fault.
OutInv ==
  /\ left \subseteq DOMAIN raw.variants
  /\ out = [v \in DOMAIN raw.variants \ left |-> Meaning(raw.variants[v])]
  /\ \A v \in DOMAIN raw.variants \ left :
       DOMAIN Meaning(raw.variants[v]) = DOMAIN raw.variants[v].tokens

VariantInv ==
  IF variant = Absent THEN stack = <<>> ELSE variant \in left /\ ResolverInv(Slice)

WrittenInv ==
  /\ raw \in Manifests
  /\ state \in {"decoded", "parsing"} => OutInv
  /\ state = "decoded" => left = DOMAIN raw.variants /\ variant = Absent /\ stack = <<>>
  /\ state = "parsing" => Valid /\ VariantInv
  /\ state = "parsed" => OutInv /\ left = {} /\ Valid
  /\ Done /\ state # "parsed" => ~ (Valid /\ Complete(raw))

-----------------------------------------------------------------------------
(* The parts of a call.                                                      *)

LEMMA MeaningSays ==
  ASSUME NEW s, IsFiniteSet(DOMAIN s.tokens)
  PROVE  /\ DOMAIN Meaning(s) \subseteq DOMAIN s.tokens
         /\ \A t : t \in DOMAIN Meaning(s) <=>
                     t \in DOMAIN s.tokens /\ Means(s, s.tokens[t], Meaning(s))
         /\ \A t \in DOMAIN Meaning(s) : Meaning(s)[t] = StyleMeant(s, s.tokens[t], Meaning(s))
         /\ Meaning(s) = [t \in DOMAIN Meaning(s) |-> Meaning(s)[t]]
<1>1. MeantFrom(s, Meaning(s)) = Meaning(s)
  BY MeaningIsFixed
<1> QED
  BY <1>1, MeantDomain

Shaped(x) == x = [color |-> [i \in 1..4 |-> x.color[i]], look |-> x.look]

LEMMA BaseShaped ==
  ASSUME NEW s, IsFiniteSet(DOMAIN s.tokens), NEW b, BaseMeans(s, b, Meaning(s))
  PROVE  Shaped(BaseMeant(s, b, Meaning(s)))
<1>1. ASSUME NEW t \in DOMAIN Meaning(s)
      PROVE  Shaped(Meaning(s)[t])
  <2>1. Meaning(s)[t] = StyleMeant(s, s.tokens[t], Meaning(s))
    BY MeaningSays
  <2>2. Shaped(StyleMeant(s, s.tokens[t], Meaning(s)))
    BY Slots DEF StyleMeant, Shaped
  <2> QED
    BY <2>1, <2>2
<1>2. Shaped(Plain)
  BY Slots DEF Plain, Shaped
<1>3. ASSUME NEW c PROVE Shaped([Plain EXCEPT !.color[1] = c])
  BY Slots DEF Plain, Shaped
<1> QED
  BY <1>1, <1>2, <1>3 DEF BaseMeans, BaseMeant

LEMMA HalfStarts ==
  ASSUME NEW s, NEW spec, NEW env, Shaped(BaseMeant(s, spec.base, env))
  PROVE  Half(s, spec, env, 1) = BaseMeant(s, spec.base, env)
  BY Slots DEF Half, Shaped

\* The color at k is the next one.
LEMMA HalfGoesOn ==
  ASSUME NEW s, NEW spec, NEW env, NEW k \in 1..4
  PROVE  LET base == BaseMeant(s, spec.base, env)
         IN  /\ Half(s, spec, env, k).color[k] = base.color[k]
             /\ [Half(s, spec, env, k) EXCEPT
                   !.color[k] = ColorMeant(s, spec.color[k], base.color[k], env)]
                  = Half(s, spec, env, k + 1)
<1> DEFINE base == BaseMeant(s, spec.base, env)
           C(i) == ColorMeant(s, spec.color[i], base.color[i], env)
           F(j) == [i \in 1..4 |-> IF i < j THEN C(i) ELSE base.color[i]]
<1>1. \A j : Half(s, spec, env, j) = [color |-> F(j), look |-> base.look]
  BY Slots DEF Half
<1>2. [F(k) EXCEPT ![k] = C(k)] = F(k + 1)
  <2> HIDE DEF C, base
  <2>1. \A i \in 1..4 : i < k + 1 <=> i < k \/ i = k
    OBVIOUS
  <2> QED
    BY <2>1
<1>3. F(k)[k] = base.color[k]
  <2> HIDE DEF C, base
  <2> QED
    OBVIOUS
<1> HIDE DEF F, C
<1>4. [Half(s, spec, env, k) EXCEPT !.color[k] = C(k)] = [color |-> F(k + 1), look |-> base.look]
  BY <1>1, <1>2
<1> QED
  BY <1>1, <1>3, <1>4 DEF C

LEMMA HalfEnds ==
  ASSUME NEW s, NEW spec, NEW env
  PROVE  Overlay(Half(s, spec, env, 5), spec.look) = StyleMeant(s, spec, env)
<1> DEFINE base == BaseMeant(s, spec.base, env)
           C(i) == ColorMeant(s, spec.color[i], base.color[i], env)
           Look == [a \in Settings |-> IF spec.look[a] = Unset THEN base.look[a] ELSE spec.look[a]]
<1>1. [i \in 1..4 |-> IF i < 5 THEN C(i) ELSE base.color[i]] = [i \in 1..4 |-> C(i)]
  <2> HIDE DEF C, base
  <2> QED
    OBVIOUS
<1>2. Half(s, spec, env, 5) = [color |-> [i \in 1..4 |-> C(i)], look |-> base.look]
  BY <1>1, Slots DEF Half
<1>3. StyleMeant(s, spec, env) = [color |-> [i \in 1..4 |-> C(i)], look |-> Look]
  BY Slots DEF StyleMeant
<1> HIDE DEF C
<1>4. Overlay([color |-> [i \in 1..4 |-> C(i)], look |-> base.look], spec.look)
        = [color |-> [i \in 1..4 |-> C(i)], look |-> Look]
  <2>1. ASSUME NEW d, NEW l
        PROVE  Overlay([color |-> d, look |-> l], spec.look) =
                 [color |-> d,
                  look |-> [a \in Settings |-> IF spec.look[a] = Unset THEN l[a] ELSE spec.look[a]]]
    BY DEF Overlay
  <2> HIDE DEF base
  <2> QED
    BY <2>1
<1> QED
  BY <1>2, <1>3, <1>4

LEMMA CallBegins ==
  ASSUME NEW s, NEW t \in DOMAIN s.tokens
  PROVE  CallOK(s, Call(t)) /\ Call(t).tok = t
  BY Slots DEF CallOK, Call

\* A call goes on with a part that is without fault.
LEMMA PartDone ==
  ASSUME NEW s, NEW f, CallOK(s, f), f.part \in 0..4, NEW x,
         f.part = 0 => BaseMeans(s, s.tokens[f.tok].base, Meaning(s)),
         f.part # 0 => ColorMeans(s, s.tokens[f.tok].color[f.part], Meaning(s)),
         x = Half(s, s.tokens[f.tok], Meaning(s), f.part + 1)
  PROVE  CallOK(s, NextPart(f, x)) /\ NextPart(f, x).tok = f.tok
<1> DEFINE g == NextPart(f, x)
<1>1. /\ g = [tok |-> f.tok, part |-> f.part + 1, style |-> x]
      /\ g.tok = f.tok /\ g.part = f.part + 1 /\ g.style = x
  <2>1. ASSUME NEW a, NEW b, NEW c, NEW d
        PROVE  [[tok |-> a, part |-> b, style |-> c] EXCEPT !.part = d, !.style = x]
                 = [tok |-> a, part |-> d, style |-> x]
    <3>1. [[tok |-> a, part |-> b, style |-> c] EXCEPT !.part = d] = [tok |-> a, part |-> d, style |-> c]
      OBVIOUS
    <3>2. [[tok |-> a, part |-> d, style |-> c] EXCEPT !.style = x] = [tok |-> a, part |-> d, style |-> x]
      OBVIOUS
    <3>3. [[tok |-> a, part |-> b, style |-> c] EXCEPT !.part = d, !.style = x]
            = [[[tok |-> a, part |-> b, style |-> c] EXCEPT !.part = d] EXCEPT !.style = x]
      OBVIOUS
    <3> QED
      BY <3>1, <3>2, <3>3
  <2>2. f = [tok |-> f.tok, part |-> f.part, style |-> f.style]
    BY DEF CallOK
  <2> DEFINE d == f.part + 1
  <2>3. g = [f EXCEPT !.part = d, !.style = x]
    BY DEF NextPart
  <2> HIDE DEF g, d
  <2>4. g = [tok |-> f.tok, part |-> d, style |-> x]
    BY <2>1, <2>2, <2>3
  <2> QED
    BY <2>4 DEF d
<1> HIDE DEF g
<1>2. g = [tok |-> g.tok, part |-> g.part, style |-> g.style]
  BY <1>1
<1>3. g.tok \in DOMAIN s.tokens /\ g.part \in 0..5 /\ g.part # 0
  BY <1>1 DEF CallOK
<1>4. BaseMeans(s, s.tokens[g.tok].base, Meaning(s))
  BY <1>1 DEF CallOK
<1>5. \A i \in DOMAIN ColorSlots : i < g.part => ColorMeans(s, s.tokens[g.tok].color[i], Meaning(s))
  <2>1. \A i \in 1..4 : i < f.part + 1 => i < f.part \/ i = f.part
    BY DEF CallOK
  <2> QED
    BY <1>1, <2>1, Slots DEF CallOK
<1>6. g.style = Half(s, s.tokens[g.tok], Meaning(s), g.part)
  BY <1>1
<1>7. CallOK(s, g)
  BY <1>2, <1>3, <1>4, <1>5, <1>6 DEF CallOK
<1> QED
  BY <1>1, <1>7 DEF g

LEMMA BasePartDone ==
  ASSUME NEW s, IsFiniteSet(DOMAIN s.tokens), NEW f, CallOK(s, f), f.part = 0,
         BaseMeans(s, s.tokens[f.tok].base, Meaning(s))
  PROVE  LET g == NextPart(f, BaseMeant(s, s.tokens[f.tok].base, Meaning(s)))
         IN  CallOK(s, g) /\ g.tok = f.tok
<1>1. Half(s, s.tokens[f.tok], Meaning(s), 1) = BaseMeant(s, s.tokens[f.tok].base, Meaning(s))
  BY BaseShaped, HalfStarts
<1> QED
  BY <1>1, PartDone

\* The color a call is at, before and after.
LEMMA ColorPartDone ==
  ASSUME NEW s, NEW f, CallOK(s, f), f.part \in 1..4,
         ColorMeans(s, s.tokens[f.tok].color[f.part], Meaning(s))
  PROVE  LET asked == s.tokens[f.tok].color[f.part]
             c == ColorMeant(s, asked, f.style.color[f.part], Meaning(s))
             g == NextPart(f, [f.style EXCEPT !.color[f.part] = c])
         IN  CallOK(s, g) /\ g.tok = f.tok
<1> DEFINE spec == s.tokens[f.tok]
           M == Meaning(s)
           base == BaseMeant(s, spec.base, M)
           c == ColorMeant(s, spec.color[f.part], base.color[f.part], M)
<1>1. f.style = Half(s, spec, M, f.part)
  BY DEF CallOK
<1>2. /\ f.style.color[f.part] = base.color[f.part]
      /\ [f.style EXCEPT !.color[f.part] = c] = Half(s, spec, M, f.part + 1)
  BY <1>1, HalfGoesOn
<1> HIDE DEF base
<1>3. LET g == NextPart(f, [f.style EXCEPT !.color[f.part] = c])
      IN  CallOK(s, g) /\ g.tok = f.tok
  BY <1>2, PartDone
<1> QED
  BY <1>2, <1>3

\* A reference that sets no color leaves the style alone.
LEMMA NothingAsked ==
  ASSUME NEW s, NEW f, CallOK(s, f), f.part \in 1..4,
         s.tokens[f.tok].color[f.part].form \notin {"hex", "primitive", "token"}
  PROVE  [f.style EXCEPT !.color[f.part] =
            ColorMeant(s, s.tokens[f.tok].color[f.part], f.style.color[f.part], Meaning(s))]
          = f.style
<1>1. ColorMeant(s, s.tokens[f.tok].color[f.part], f.style.color[f.part], Meaning(s))
        = f.style.color[f.part]
  BY DEF ColorMeant
<1>2. f.style = Half(s, s.tokens[f.tok], Meaning(s), f.part)
  BY DEF CallOK
<1>3. ASSUME NEW k \in 1..4, NEW h, h = Half(s, s.tokens[f.tok], Meaning(s), k)
      PROVE  [h EXCEPT !.color[k] = h.color[k]] = h
  <2> DEFINE base == BaseMeant(s, s.tokens[f.tok].base, Meaning(s))
             C == [i \in 1..4 |-> IF i < k THEN ColorMeant(s, s.tokens[f.tok].color[i],
                                                           base.color[i], Meaning(s))
                                           ELSE base.color[i]]
             l == base.look
  <2>1. h = [color |-> C, look |-> l]
    BY <1>3, Slots DEF Half
  <2>2. [C EXCEPT ![k] = C[k]] = C
    OBVIOUS
  <2> HIDE DEF C, l
  <2>3. h.color = C
    BY <2>1
  <2>4. [h EXCEPT !.color[k] = C[k]] = [color |-> [C EXCEPT ![k] = C[k]], look |-> l]
    BY <2>1
  <2> QED
    BY <2>1, <2>2, <2>3, <2>4
<1> QED
  BY <1>1, <1>2, <1>3

\* The caller of a token goes on with its style if it can use it.
LEMMA ReceivedDone ==
  ASSUME NEW s, IsFiniteSet(DOMAIN s.tokens), NEW f, CallOK(s, f),
         NEW t \in DOMAIN Meaning(s), Asks(s.tokens[f.tok], f.part, t),
         Usable(f, Meaning(s)[t])
  PROVE  CallOK(s, Received(f, Meaning(s)[t])) /\ Received(f, Meaning(s)[t]).tok = f.tok
<1> DEFINE spec == s.tokens[f.tok]
           x == Meaning(s)[t]
<1>1. CASE f.part = 0
  <2>1. spec.base.form = "token" /\ spec.base.to = t
    BY <1>1, Slots DEF Asks
  <2>2. BaseMeans(s, spec.base, Meaning(s)) /\ BaseMeant(s, spec.base, Meaning(s)) = x
    BY <2>1 DEF BaseMeans, BaseMeant
  <2>3. Received(f, x) = NextPart(f, x)
    BY <1>1 DEF Received
  <2> QED
    BY <1>1, <2>2, <2>3, BasePartDone
<1>2. CASE f.part # 0
  <2>1. /\ f.part \in 1..4
        /\ spec.color[f.part].form = "token" /\ spec.color[f.part].to = t
    BY <1>2, Slots DEF Asks
  <2>2. x.color[1] # NoColor
    BY <1>2 DEF Usable
  <2>3. /\ ColorMeans(s, spec.color[f.part], Meaning(s))
        /\ ColorMeant(s, spec.color[f.part], f.style.color[f.part], Meaning(s)) = x.color[1]
    BY <2>1, <2>2 DEF ColorMeans, ColorMeant
  <2>4. Received(f, x) = NextPart(f, [f.style EXCEPT !.color[f.part] = x.color[1]])
    BY <1>2 DEF Received
  <2> HIDE DEF x
  <2> QED
    BY <2>1, <2>3, <2>4, ColorPartDone DEF x
<1> QED
  BY <1>1, <1>2

\* A token that asks for one without a style, or for the color of one that
\* has none, has no style in a round that knows no more.
LEMMA AskedInVain ==
  ASSUME NEW s, NEW spec, NEW k, NEW t, NEW env, Asks(spec, k, t),
         t \notin DOMAIN env \/ (k # 0 /\ env[t].color[1] = NoColor)
  PROVE  ~ Means(s, spec, env)
  BY DEF Asks, Means, BaseMeans, ColorMeans

\* A call that has done every part makes the style its token means.
LEMMA StyleDone ==
  ASSUME NEW s, IsFiniteSet(DOMAIN s.tokens), NEW f, CallOK(s, f), f.part = 5,
         s.tokens[f.tok].border # "unknown"
  PROVE  /\ f.tok \in DOMAIN Meaning(s)
         /\ Overlay(f.style, s.tokens[f.tok].look) = Meaning(s)[f.tok]
<1> DEFINE spec == s.tokens[f.tok]
<1>1. Means(s, spec, Meaning(s))
  BY Slots DEF CallOK, Means
<1>2. f.tok \in DOMAIN Meaning(s)
  BY <1>1, MeaningSays DEF CallOK
<1>3. Meaning(s)[f.tok] = StyleMeant(s, spec, Meaning(s))
  BY <1>2, MeaningSays
<1>4. f.style = Half(s, spec, Meaning(s), 5)
  BY DEF CallOK
<1> QED
  BY <1>2, <1>3, <1>4, HalfEnds

-----------------------------------------------------------------------------
(* The steps of the resolver. A step under way that fails shows a token of   *)
(* the variant that has no style.                                            *)

\* Parse is at a variant of a sound head, and so far all is as it should be.
Resolving ==
  /\ raw \in Manifests /\ state = "parsing" /\ Valid /\ OutInv
  /\ variant # Absent /\ variant \in left /\ ResolverInv(Slice)

LEMMA SliceFinite ==
  ASSUME Resolving
  PROVE  IsFiniteSet(DOMAIN Slice.tokens) /\ variant \in DOMAIN raw.variants
<1>1. variant \in DOMAIN raw.variants
  BY DEF Resolving, OutInv
<1> QED
  BY <1>1, ManifestsAssumption DEF Resolving, Slice

LEMMA StillResolving ==
  ASSUME Resolving, UNCHANGED <<raw, left, variant, out, state>>, ResolverInv(Slice)'
  PROVE  WrittenInv'
<1>1. OutInv'
  BY DEF Resolving, OutInv
<1>2. Valid'
  BY DEF Resolving, Valid
<1>3. VariantInv'
  BY DEF Resolving, VariantInv
<1> QED
  BY <1>1, <1>2, <1>3 DEF Resolving, WrittenInv, Done

\* A reference that leads nowhere, or into a cycle, is a fault of the
\* manifest.
LEMMA FailShows ==
  ASSUME Resolving, NEW why, why \notin {"decoded", "parsing", "parsed"}, Fail(why),
         NEW t \in DOMAIN Slice.tokens, t \notin DOMAIN Meaning(Slice)
  PROVE  WrittenInv'
<1>1. variant \in DOMAIN raw.variants
  BY SliceFinite
<1>2. ~ Complete(raw)
  BY <1>1 DEF Complete, Slice
<1>3. raw' = raw /\ state' = why
  BY DEF Fail
<1> QED
  BY <1>2, <1>3 DEF Resolving, WrittenInv, Done

LEMMA TopOK ==
  ASSUME Resolving, StackOK, stack # <<>>
  PROVE  /\ Len(stack) \in Nat \ {0} /\ DOMAIN stack = 1..Len(stack)
         /\ CallOK(Slice, Top)
<1>1. PICK S : stack \in Seq(S)
  BY DEF StackOK
<1>2. Len(stack) \in Nat \ {0} /\ DOMAIN stack = 1..Len(stack) /\ Len(stack) \in DOMAIN stack
  BY <1>1
<1>3. \A i \in DOMAIN stack : CallOK(Slice, stack[i])
  BY DEF Resolving, ResolverInv
<1> QED
  BY <1>2, <1>3 DEF Top

\* The innermost call goes on to f.
LEMMA GoesOn ==
  ASSUME Resolving, StackOK, stack # <<>>, NEW f, CallOK(Slice, f), f.tok = Top.tok,
         stack' = WithTop(f),
         UNCHANGED <<raw, left, variant, todo, cache, resolved, out, state>>
  PROVE  WrittenInv'
<1> DEFINE n == Len(stack)
           s == Slice
<1>1. n \in Nat \ {0} /\ DOMAIN stack = 1..n /\ n \in 1..n
  BY TopOK
<1>2. /\ DOMAIN stack' = 1..n /\ stack'[n] = f
      /\ \A i \in 1..n : i # n => stack'[i] = stack[i]
  BY <1>1 DEF WithTop
<1>3. \A i \in 1..n : stack'[i].tok = stack[i].tok
  BY <1>2 DEF Top
<1>4. Slice' = s
  BY DEF Slice
<1>5. ResolverInv(s)
  BY DEF Resolving
<1> HIDE DEF n, s
<1>6. \A i \in DOMAIN stack' : CallOK(s, stack'[i])
  BY <1>1, <1>2, <1>5 DEF ResolverInv, s
<1>7. ASSUME NEW i \in DOMAIN stack', i + 1 \in DOMAIN stack'
      PROVE  Asks(s.tokens[stack'[i].tok], stack'[i].part, stack'[i + 1].tok)
  <2>1. i \in 1..n /\ i + 1 \in 1..n /\ i # n
    BY <1>1, <1>2, <1>7
  <2>2. Asks(s.tokens[stack[i].tok], stack[i].part, stack[i + 1].tok)
    BY <1>1, <1>5, <2>1 DEF ResolverInv
  <2> QED
    BY <1>2, <1>3, <2>1, <2>2
<1>8. ResolverInv(Slice)'
  BY <1>4, <1>5, <1>6, <1>7 DEF ResolverInv, Meant
<1> QED
  BY <1>8, StillResolving

\* The innermost call asks for a token that is not resolved yet.
LEMMA CallsFor ==
  ASSUME Resolving, StackOK, stack # <<>>, NEW t \in DOMAIN Slice.tokens,
         Asks(Slice.tokens[Top.tok], Top.part, t),
         stack' = Append(stack, Call(t)),
         UNCHANGED <<raw, left, variant, todo, cache, resolved, out, state>>
  PROVE  WrittenInv'
<1> DEFINE n == Len(stack)
           s == Slice
<1>1. n \in Nat \ {0} /\ DOMAIN stack = 1..n /\ n \in 1..n
  BY TopOK
<1>2. /\ DOMAIN stack' = 1..(n + 1) /\ stack'[n + 1] = Call(t)
      /\ \A i \in 1..n : stack'[i] = stack[i]
  <2>1. PICK S : stack \in Seq(S)
    BY DEF StackOK
  <2>2. stack \in Seq(S \cup {Call(t)}) /\ Call(t) \in S \cup {Call(t)}
    BY <2>1
  <2> QED
    BY <2>2
<1>3. Slice' = s
  BY DEF Slice
<1>4. ResolverInv(s)
  BY DEF Resolving
<1>5. CallOK(s, Call(t)) /\ Call(t).tok = t
  BY CallBegins
<1>6. Top = stack[n]
  BY DEF Top
<1> HIDE DEF n
<1>7. \A i \in DOMAIN stack' : CallOK(s, stack'[i])
  <2>1. \A i \in 1..(n + 1) : i = n + 1 \/ i \in 1..n
    BY <1>1
  <2> HIDE DEF s
  <2> QED
    BY <1>1, <1>2, <1>4, <1>5, <2>1 DEF ResolverInv
<1>8. ASSUME NEW i \in DOMAIN stack', i + 1 \in DOMAIN stack'
      PROVE  Asks(s.tokens[stack'[i].tok], stack'[i].part, stack'[i + 1].tok)
  <2>1. i \in 1..n /\ (i = n \/ i + 1 \in 1..n)
    BY <1>1, <1>2, <1>8
  <2>2. CASE i = n
    BY <1>1, <1>2, <1>5, <1>6, <2>2
  <2>3. CASE i # n
    <3>1. Asks(s.tokens[stack[i].tok], stack[i].part, stack[i + 1].tok)
      BY <1>1, <1>4, <2>1, <2>3 DEF ResolverInv
    <3> QED
      BY <1>2, <2>1, <2>3, <3>1
  <2> QED
    BY <2>2, <2>3
<1> HIDE DEF s
<1>9. ResolverInv(Slice)'
  BY <1>3, <1>4, <1>7, <1>8 DEF ResolverInv, Meant
<1> QED
  BY <1>9, StillResolving

\* The tokens of the calls from the i-th on, when the innermost one asks for
\* the i-th again.
LEMMA CycleMeansNothing ==
  ASSUME Resolving, StackOK, stack # <<>>, NEW i \in DOMAIN stack,
         Asks(Slice.tokens[Top.tok], Top.part, stack[i].tok)
  PROVE  Top.tok \in DOMAIN Slice.tokens /\ Top.tok \notin DOMAIN Meaning(Slice)
<1> DEFINE n == Len(stack)
           s == Slice
           C == {stack[j].tok : j \in i..n}
<1>1. n \in Nat \ {0} /\ DOMAIN stack = 1..n /\ n \in 1..n /\ Top = stack[n]
  BY TopOK DEF Top
<1>2. IsFiniteSet(DOMAIN s.tokens)
  BY SliceFinite
<1>3. ResolverInv(s)
  BY DEF Resolving
<1>4. CallOK(s, Top)
  BY TopOK
<1> HIDE DEF s, n
<1>5. ASSUME NEW e, NEW t \in C, DOMAIN e \cap C = {}
      PROVE  ~ Means(s, s.tokens[t], e)
  <2>1. PICK j \in i..n : t = stack[j].tok
    OBVIOUS
  <2>2. \E k \in i..n : Asks(s.tokens[stack[j].tok], stack[j].part, stack[k].tok)
    <3>1. CASE j = n
      <4>1. i \in i..n
        BY <1>1
      <4> QED
        BY <1>1, <3>1, <4>1 DEF s
    <3>2. CASE j # n
      <4>1. j \in DOMAIN stack /\ j + 1 \in DOMAIN stack /\ j + 1 \in i..n
        BY <1>1, <3>2
      <4> QED
        BY <1>3, <4>1 DEF ResolverInv
    <3> QED
      BY <3>1, <3>2
  <2>3. PICK k \in i..n : Asks(s.tokens[stack[j].tok], stack[j].part, stack[k].tok)
    BY <2>2
  <2>4. stack[k].tok \notin DOMAIN e
    BY <1>5, <2>3
  <2> QED
    BY <2>1, <2>3, <2>4, AskedInVain
<1>6. C \cap DOMAIN Meaning(s) = {}
  <2> HIDE DEF C
  <2> QED
    BY <1>2, <1>5, NobodyFirst
<1>7. Top.tok \in C
  <2>1. n \in i..n
    BY <1>1
  <2> QED
    BY <1>1, <2>1
<1>8. Top.tok \in DOMAIN s.tokens
  BY <1>4 DEF CallOK
<1> HIDE DEF C
<1> QED
  BY <1>6, <1>7, <1>8 DEF s

LEMMA AskedShows ==
  ASSUME Resolving, StackOK, stack # <<>>, NEW t,
         Asks(Slice.tokens[Top.tok], Top.part, t),
         t \notin DOMAIN Meaning(Slice) \/ ~ Usable(Top, Meaning(Slice)[t])
  PROVE  Top.tok \in DOMAIN Slice.tokens /\ Top.tok \notin DOMAIN Meaning(Slice)
<1>1. ~ Means(Slice, Slice.tokens[Top.tok], Meaning(Slice))
  BY AskedInVain DEF Usable
<1> QED
  BY <1>1, TopOK, SliceFinite, MeaningSays DEF CallOK

LEMMA TokenAsked ==
  ASSUME Resolving, StackOK, VisitingIsPath, stack # <<>>, NEW t, resolveToken(t),
         Asks(Slice.tokens[Top.tok], Top.part, t)
  PROVE  WrittenInv'
<1> DEFINE M == Meaning(Slice)
<1>1. t \in DOMAIN cache => t \in DOMAIN M /\ cache[t] = M[t]
  BY DEF Resolving, ResolverInv, Meant
<1>2. CASE t \in DOMAIN cache /\ Usable(Top, cache[t])
  <2>1. CallOK(Slice, Received(Top, M[t])) /\ Received(Top, M[t]).tok = Top.tok
    BY <1>1, <1>2, ReceivedDone, TopOK, SliceFinite
  <2>2. /\ stack' = WithTop(Received(Top, M[t]))
        /\ UNCHANGED <<raw, left, variant, todo, cache, resolved, out, state>>
    BY <1>1, <1>2 DEF resolveToken
  <2> QED
    BY <2>1, <2>2, GoesOn
<1>3. CASE t \in DOMAIN cache /\ ~ Usable(Top, cache[t])
  <2>1. Fail("no foreground")
    BY <1>3 DEF resolveToken
  <2>2. Top.tok \in DOMAIN Slice.tokens /\ Top.tok \notin DOMAIN M
    BY <1>1, <1>3, AskedShows
  <2> QED
    BY <2>1, <2>2, FailShows
<1>4. CASE t \notin DOMAIN cache /\ t \in visiting
  <2>1. Fail("cycle")
    BY <1>4 DEF resolveToken
  <2>2. PICK i \in DOMAIN stack : t = stack[i].tok
    BY <1>4 DEF VisitingIsPath
  <2>3. Top.tok \in DOMAIN Slice.tokens /\ Top.tok \notin DOMAIN M
    BY <2>2, CycleMeansNothing
  <2> QED
    BY <2>1, <2>3, FailShows
<1>5. CASE t \notin DOMAIN cache /\ t \notin visiting /\ t \notin DOMAIN Slice.tokens
  <2>1. Fail("unknown token")
    BY <1>5 DEF resolveToken
  <2>2. t \notin DOMAIN M
    BY <1>5, MeaningSays, SliceFinite
  <2>3. Top.tok \in DOMAIN Slice.tokens /\ Top.tok \notin DOMAIN M
    BY <2>2, AskedShows
  <2> QED
    BY <2>1, <2>3, FailShows
<1>6. CASE t \notin DOMAIN cache /\ t \notin visiting /\ t \in DOMAIN Slice.tokens
  <2>1. /\ stack' = Append(stack, Call(t))
        /\ UNCHANGED <<raw, left, variant, todo, cache, resolved, out, state>>
    BY <1>6 DEF resolveToken
  <2> QED
    BY <1>6, <2>1, CallsFor
<1> QED
  BY <1>2, <1>3, <1>4, <1>5, <1>6

\* A fault at a part of the innermost call.
LEMMA TopShows ==
  ASSUME Resolving, StackOK, stack # <<>>,
         ~ Means(Slice, Slice.tokens[Top.tok], Meaning(Slice))
  PROVE  Top.tok \in DOMAIN Slice.tokens /\ Top.tok \notin DOMAIN Meaning(Slice)
  BY TopOK, SliceFinite, MeaningSays DEF CallOK

LEMMA AdvancesTo ==
  ASSUME Resolving, StackOK, stack # <<>>, NEW x, Advance(x),
         CallOK(Slice, NextPart(Top, x)), NextPart(Top, x).tok = Top.tok
  PROVE  WrittenInv'
<1>1. /\ stack' = WithTop(NextPart(Top, x))
      /\ UNCHANGED <<raw, left, variant, todo, cache, resolved, out, state>>
  BY DEF Advance
<1> QED
  BY <1>1, GoesOn

-----------------------------------------------------------------------------
(* The actions, and what a manifest comes out as.                            *)

LEMMA BaseWritten ==
  ASSUME Resolving, PathInv, Base
  PROVE  WrittenInv'
<1> DEFINE spec == Slice.tokens[Top.tok]
           M == Meaning(Slice)
<1>1. stack # <<>> /\ Top.part = 0 /\ StackOK /\ VisitingIsPath
  BY DEF Base, Running, PathInv
<1>2. CallOK(Slice, Top) /\ IsFiniteSet(DOMAIN Slice.tokens)
  BY <1>1, TopOK, SliceFinite
<1>3. CASE spec.base.form = "token"
  <2>1. resolveToken(spec.base.to) /\ Asks(spec, Top.part, spec.base.to)
    BY <1>1, <1>3 DEF Base, Spec0, Asks
  <2> QED
    BY <1>1, <2>1, TokenAsked
<1>4. CASE spec.base.form = "primitive" /\ spec.base.to \notin DOMAIN Slice.primitives
  <2>1. Fail("unknown primitive")
    BY <1>4 DEF Base, Spec0
  <2>2. ~ Means(Slice, spec, M)
    BY <1>4 DEF Means, BaseMeans
  <2>3. Top.tok \in DOMAIN Slice.tokens /\ Top.tok \notin DOMAIN M
    BY <1>1, <2>2, TopShows
  <2> QED
    BY <2>1, <2>3, FailShows
<1>5. CASE /\ spec.base.form # "token"
           /\ spec.base.form = "primitive" => spec.base.to \in DOMAIN Slice.primitives
  <2>1. BaseMeans(Slice, spec.base, M)
    BY <1>5 DEF BaseMeans
  <2>2. Top.style = Plain
    BY <1>1, <1>2 DEF CallOK
  <2>3. Advance(BaseMeant(Slice, spec.base, M))
    <3>1. CASE spec.base.form = "primitive"
      BY <1>5, <3>1 DEF Base, Spec0, BaseMeant
    <3>2. CASE spec.base.form # "primitive"
      BY <1>5, <2>2, <3>2 DEF Base, Spec0, BaseMeant
    <3> QED
      BY <3>1, <3>2
  <2>4. LET g == NextPart(Top, BaseMeant(Slice, spec.base, M))
        IN  CallOK(Slice, g) /\ g.tok = Top.tok
    BY <1>1, <1>2, <2>1, BasePartDone
  <2> QED
    BY <1>1, <2>3, <2>4, AdvancesTo
<1> QED
  BY <1>3, <1>4, <1>5

LEMMA ColorWritten ==
  ASSUME Resolving, PathInv, resolveColorRef
  PROVE  WrittenInv'
<1> DEFINE spec == Slice.tokens[Top.tok]
           asked == spec.color[Top.part]
           M == Meaning(Slice)
           c == ColorMeant(Slice, asked, Top.style.color[Top.part], M)
           x == [Top.style EXCEPT !.color[Top.part] = c]
<1>1. stack # <<>> /\ Top.part \in 1..4 /\ StackOK /\ VisitingIsPath
  BY Slots DEF resolveColorRef, Running, PathInv
<1>2. CallOK(Slice, Top) /\ IsFiniteSet(DOMAIN Slice.tokens)
  BY <1>1, TopOK, SliceFinite
<1>3. CASE asked.form = "token"
  <2>1. resolveToken(asked.to)
    BY <1>3 DEF resolveColorRef, Spec0
  <2>2. Asks(spec, Top.part, asked.to)
    BY <1>1, <1>3, Slots DEF Asks
  <2> QED
    BY <1>1, <2>1, <2>2, TokenAsked
<1>4. CASE asked.form = "several" \/ (asked.form = "primitive" /\ asked.to \notin DOMAIN Slice.primitives)
  <2>1. PICK why \in {"several forms", "unknown primitive"} : Fail(why)
    BY <1>4 DEF resolveColorRef, Spec0
  <2>2. ~ Means(Slice, spec, M)
    BY <1>1, <1>4, Slots DEF Means, ColorMeans
  <2>3. Top.tok \in DOMAIN Slice.tokens /\ Top.tok \notin DOMAIN M
    BY <1>1, <2>2, TopShows
  <2> QED
    BY <2>1, <2>3, FailShows
<1>5. CASE /\ asked.form \notin {"token", "several"}
           /\ asked.form = "primitive" => asked.to \in DOMAIN Slice.primitives
  <2>1. ColorMeans(Slice, asked, M)
    BY <1>5 DEF ColorMeans
  <2>2. Advance(x)
    <3>1. CASE asked.form \in {"hex", "primitive"}
      BY <1>5, <3>1 DEF resolveColorRef, Spec0, ColorMeant
    <3>2. CASE asked.form \notin {"hex", "primitive"}
      <4>1. Advance(Top.style)
        BY <1>5, <3>2 DEF resolveColorRef, Spec0
      <4>2. x = Top.style
        BY <1>1, <1>2, <1>5, <3>2, NothingAsked
      <4> HIDE DEF x
      <4> QED
        BY <4>1, <4>2
    <3> QED
      BY <3>1, <3>2
  <2>3. CallOK(Slice, NextPart(Top, x)) /\ NextPart(Top, x).tok = Top.tok
    BY <1>1, <1>2, <2>1, ColorPartDone
  <2> HIDE DEF x
  <2> QED
    BY <1>1, <2>2, <2>3, AdvancesTo
<1> QED
  BY <1>3, <1>4, <1>5

\* One more token whose style is what the manifest means by it.
LEMMA PutMeant ==
  ASSUME NEW s, NEW m, Meant(s, m), NEW t \in DOMAIN Meaning(s)
  PROVE  Meant(s, Put(m, t, Meaning(s)[t])) /\ DOMAIN Put(m, t, Meaning(s)[t]) = DOMAIN m \cup {t}
  BY DEF Meant, Put

LEMMA CallersAre ==
  ASSUME StackOK, stack # <<>>
  PROVE  LET callers == SubSeq(stack, 1, Len(stack) - 1)
             n == Len(stack) - 1
         IN  /\ n \in Nat /\ DOMAIN stack = 1..(n + 1)
             /\ Len(callers) = n /\ DOMAIN callers = 1..n
             /\ \A i \in 1..n : callers[i] = stack[i]
             /\ callers = <<>> <=> n = 0
             /\ Top = stack[n + 1]
<1> DEFINE n == Len(stack) - 1
           callers == SubSeq(stack, 1, n)
<1>1. PICK S : stack \in Seq(S)
  BY DEF StackOK
<1>2. /\ Len(stack) \in Nat /\ n \in Nat /\ Len(stack) = n + 1 /\ DOMAIN stack = 1..(n + 1)
      /\ \A i \in 1..n : stack[i] \in S
  BY <1>1
<1>3. Top = stack[n + 1]
  BY <1>2 DEF Top
<1> HIDE DEF n
<1>4. /\ callers \in Seq(S) /\ Len(callers) = n
      /\ \A i \in 1..n : callers[i] = stack[i]
  BY <1>1, <1>2, SubSeqProperties
<1> HIDE DEF callers
<1>5. DOMAIN callers = 1..n /\ (callers = <<>> <=> n = 0)
  BY <1>2, <1>4, EmptySeq
<1> QED
  BY <1>2, <1>3, <1>4, <1>5 DEF n, callers

LEMMA SettleWritten ==
  ASSUME Resolving, PathInv, Settle
  PROVE  WrittenInv'
<1> DEFINE S == Slice
           M == Meaning(S)
           t == Top.tok
           x == Overlay(Top.style, Spec0.look)
           n == Len(stack) - 1
           callers == SubSeq(stack, 1, Len(stack) - 1)
           f == callers[Len(callers)]
<1>1. stack # <<>> /\ Top.part = 5 /\ StackOK /\ VisitingIsPath
  <2>1. Running /\ Top.part = Len(ColorSlots) + 1
    BY DEF Settle
  <2> QED
    BY <2>1, Slots DEF Running, PathInv
<1>2. CallOK(S, Top) /\ IsFiniteSet(DOMAIN S.tokens) /\ ResolverInv(S)
  BY <1>1, TopOK, SliceFinite DEF Resolving
<1>3. /\ n \in Nat /\ DOMAIN stack = 1..(n + 1)
      /\ Len(callers) = n /\ DOMAIN callers = 1..n
      /\ \A i \in 1..n : callers[i] = stack[i]
      /\ callers = <<>> <=> n = 0
      /\ Top = stack[n + 1]
  BY <1>1, CallersAre
<1>4. Slice' = S \/ \E why : Fail(why)
  BY DEF Settle, Slice
<1>5. CASE Spec0.border = "unknown"
  <2>1. Fail("unknown border")
    BY <1>5 DEF Settle
  <2>2. ~ Means(S, S.tokens[t], M)
    BY <1>5 DEF Means, Spec0
  <2>3. t \in DOMAIN S.tokens /\ t \notin DOMAIN M
    BY <1>1, <2>2, TopShows
  <2> QED
    BY <2>1, <2>3, FailShows
<1>6. CASE Spec0.border # "unknown"
  <2>1. t \in DOMAIN M /\ x = M[t] /\ t \in DOMAIN S.tokens
    BY <1>1, <1>2, <1>6, StyleDone DEF Spec0, CallOK
  <2>2. ASSUME n # 0
        PROVE  /\ f = stack[n] /\ n \in DOMAIN stack /\ n \in 1..n
               /\ CallOK(S, f)
               /\ Asks(S.tokens[f.tok], f.part, t)
    <3>1. n \in 1..n /\ n \in DOMAIN stack /\ n + 1 \in DOMAIN stack
      BY <1>3, <2>2
    <3>2. f = stack[n]
      BY <1>3, <3>1
    <3> QED
      BY <1>2, <1>3, <3>1, <3>2 DEF ResolverInv
  <2>3. CASE callers # <<>> /\ ~ Usable(f, x)
    <3>1. Fail("no foreground")
      BY <1>6, <2>3 DEF Settle
    <3>2. n # 0
      BY <1>3, <2>3
    <3>3. ~ Means(S, S.tokens[f.tok], M)
      <4> HIDE DEF f, x, M, S
      <4> QED
        BY <2>1, <2>2, <2>3, <3>2, AskedInVain DEF Usable
    <3>4. f.tok \in DOMAIN S.tokens /\ f.tok \notin DOMAIN M
      <4>1. f.tok \in DOMAIN S.tokens
        BY <2>2, <3>2 DEF CallOK
      <4> HIDE DEF f, S
      <4> QED
        BY <1>2, <3>3, <4>1, MeaningSays
    <3> HIDE DEF f
    <3> QED
      BY <3>1, <3>4, FailShows
  <2>4. CASE callers = <<>> \/ Usable(f, x)
    <3>1. /\ cache' = Put(cache, t, x)
          /\ IF callers = <<>>
               THEN /\ stack' = <<>>
                    /\ resolved' = Put(resolved, t, x)
                    /\ todo' = todo \ {t}
               ELSE /\ stack' = [callers EXCEPT ![Len(callers)] = Received(f, x)]
                    /\ UNCHANGED <<resolved, todo>>
          /\ UNCHANGED <<raw, left, variant, out, state>>
      BY <1>6, <2>4 DEF Settle
    <3>2. Slice' = S
      BY <3>1 DEF Slice
    <3>3. Meant(S, cache')
      <4> HIDE DEF x, S, t
      <4> QED
        BY <1>2, <2>1, <3>1, PutMeant DEF ResolverInv
    <3>4. CASE callers = <<>>
      <4>1. Meant(S, resolved') /\ DOMAIN resolved' = DOMAIN resolved \cup {t}
        <5>1. Meant(S, resolved)
          BY <1>2 DEF ResolverInv
        <5>2. resolved' = Put(resolved, t, M[t])
          BY <2>1, <3>1, <3>4
        <5> HIDE DEF x, S, t
        <5> QED
          BY <2>1, <5>1, <5>2, PutMeant
      <4>2. todo' \subseteq DOMAIN S.tokens /\ DOMAIN resolved' = DOMAIN S.tokens \ todo'
        <5> HIDE DEF x, S, t
        <5> QED
          BY <1>2, <2>1, <3>1, <3>4, <4>1 DEF ResolverInv
      <4>3. DOMAIN stack' = {}
        BY <3>1, <3>4
      <4> HIDE DEF S
      <4>4. ResolverInv(Slice)'
        BY <3>2, <3>3, <4>1, <4>2, <4>3 DEF ResolverInv, Meant
      <4> QED
        BY <3>1, <4>4, StillResolving
    <3>5. CASE callers # <<>>
      <4>1. n # 0
        BY <1>3, <3>5
      <4>2. CallOK(S, Received(f, x)) /\ Received(f, x).tok = f.tok
        <5> HIDE DEF f, x, S, t
        <5> QED
          BY <1>2, <2>1, <2>2, <2>4, <3>5, <4>1, ReceivedDone
      <4>3. /\ DOMAIN stack' = 1..n /\ stack'[n] = Received(f, x)
            /\ \A i \in 1..n : i # n => stack'[i] = stack[i]
        <5> HIDE DEF n, callers, f, x
        <5> QED
          BY <1>3, <2>2, <3>1, <3>5, <4>1
      <4>4. \A i \in 1..n : stack'[i].tok = stack[i].tok
        <5> HIDE DEF f, x, n
        <5> QED
          BY <2>2, <4>1, <4>2, <4>3
      <4>5. \A i \in 1..n : i \in DOMAIN stack
        BY <1>3
      <4> HIDE DEF f, x, n, callers, S
      <4>6. \A i \in DOMAIN stack' : CallOK(S, stack'[i])
        BY <1>2, <4>2, <4>3, <4>5 DEF ResolverInv
      <4>7. ASSUME NEW i \in DOMAIN stack', i + 1 \in DOMAIN stack'
            PROVE  Asks(S.tokens[stack'[i].tok], stack'[i].part, stack'[i + 1].tok)
        <5>1. i \in 1..n /\ i + 1 \in 1..n /\ i # n
          BY <1>3, <4>3, <4>7
        <5>2. Asks(S.tokens[stack[i].tok], stack[i].part, stack[i + 1].tok)
          BY <1>2, <4>5, <5>1 DEF ResolverInv
        <5> QED
          BY <4>3, <4>4, <5>1, <5>2
      <4>8. /\ todo' \subseteq DOMAIN S.tokens
            /\ Meant(S, resolved') /\ DOMAIN resolved' = DOMAIN S.tokens \ todo'
        BY <1>2, <3>1, <3>5 DEF ResolverInv
      <4>9. ResolverInv(Slice)'
        BY <3>2, <3>3, <4>6, <4>7, <4>8 DEF ResolverInv, Meant
      <4> QED
        BY <3>1, <4>9, StillResolving
    <3> QED
      BY <3>4, <3>5
  <2> QED
    BY <2>3, <2>4
<1> QED
  BY <1>5, <1>6

LEMMA RangeWritten ==
  ASSUME Resolving, NEW t \in todo, RangeToken(t)
  PROVE  WrittenInv'
<1> DEFINE S == Slice
<1>1. stack = <<>> /\ UNCHANGED <<raw, left, variant, cache, out, state>>
  BY DEF RangeToken
<1>2. ResolverInv(S) /\ Slice' = S /\ t \in DOMAIN S.tokens
  BY <1>1 DEF Resolving, ResolverInv, Slice
<1> HIDE DEF S
<1>3. CASE t \in DOMAIN cache
  <2>1. t \in DOMAIN Meaning(S) /\ cache[t] = Meaning(S)[t]
    BY <1>2, <1>3 DEF ResolverInv, Meant
  <2>2. resolved' = Put(resolved, t, Meaning(S)[t]) /\ todo' = todo \ {t} /\ stack' = stack
    BY <1>3, <2>1 DEF RangeToken
  <2>3. Meant(S, resolved') /\ DOMAIN resolved' = DOMAIN resolved \cup {t}
    BY <1>2, <2>1, <2>2, PutMeant DEF ResolverInv
  <2>4. todo' \subseteq DOMAIN S.tokens /\ DOMAIN resolved' = DOMAIN S.tokens \ todo'
    BY <1>2, <2>2, <2>3 DEF ResolverInv
  <2>5. ResolverInv(Slice)'
    BY <1>1, <1>2, <2>2, <2>3, <2>4 DEF ResolverInv, Meant
  <2> QED
    BY <1>1, <2>5, StillResolving
<1>4. CASE t \notin DOMAIN cache
  <2>1. stack' = <<Call(t)>> /\ todo' = todo /\ resolved' = resolved
    BY <1>4 DEF RangeToken
  <2>2. CallOK(S, Call(t))
    BY <1>2, CallBegins
  <2>3. DOMAIN stack' = {1} /\ stack'[1] = Call(t)
    BY <2>1
  <2>4. ResolverInv(Slice)'
    BY <1>1, <1>2, <2>1, <2>2, <2>3 DEF ResolverInv, Meant
  <2> QED
    BY <1>1, <2>4, StillResolving
<1> QED
  BY <1>3, <1>4

LEMMA DoneWritten ==
  ASSUME Resolving, VariantDone
  PROVE  WrittenInv'
<1> DEFINE S == Slice
<1>1. /\ todo = {} /\ stack = <<>> /\ variant' = Absent /\ raw' = raw /\ stack' = stack
      /\ out' = Put(out, variant, resolved) /\ left' = left \ {variant}
      /\ state' = IF left' = {} THEN "parsed" ELSE "parsing"
  BY DEF VariantDone, resolver, Resolving
<1>2. ResolverInv(S) /\ IsFiniteSet(DOMAIN S.tokens) /\ variant \in DOMAIN raw.variants /\ variant \in left
  BY SliceFinite DEF Resolving
<1>3. DOMAIN Meaning(S) = DOMAIN S.tokens /\ resolved = Meaning(S)
  <2>1. DOMAIN Meaning(S) \subseteq DOMAIN S.tokens /\ Meaning(S) = [u \in DOMAIN Meaning(S) |-> Meaning(S)[u]]
    BY <1>2, MeaningSays
  <2> HIDE DEF S
  <2>2. DOMAIN resolved = DOMAIN S.tokens /\ DOMAIN resolved \subseteq DOMAIN Meaning(S)
    BY <1>1, <1>2 DEF ResolverInv, Meant
  <2>3. resolved = [u \in DOMAIN resolved |-> Meaning(S)[u]]
    BY <1>2 DEF ResolverInv, Meant
  <2> QED
    BY <2>1, <2>2, <2>3
<1>4. OutInv'
  <2>1. S = raw.variants[variant]
    BY DEF Slice
  <2> HIDE DEF S
  <2>2. left' \subseteq DOMAIN raw.variants
    BY <1>1 DEF Resolving, OutInv
  <2>3. DOMAIN out \cup {variant} = DOMAIN raw.variants \ left'
    BY <1>1, <1>2 DEF Resolving, OutInv
  <2>4. ASSUME NEW v \in DOMAIN raw.variants \ left'
        PROVE  /\ out'[v] = Meaning(raw.variants[v])
               /\ DOMAIN Meaning(raw.variants[v]) = DOMAIN raw.variants[v].tokens
    <3>1. v = variant \/ v \in DOMAIN raw.variants \ left
      BY <1>1
    <3>2. CASE v = variant
      BY <1>1, <1>3, <2>1, <3>2 DEF Put
    <3>3. CASE v # variant
      <4>1. out'[v] = out[v]
        BY <1>1, <2>3, <3>3 DEF Put
      <4> QED
        BY <3>1, <3>3, <4>1 DEF Resolving, OutInv
    <3> QED
      BY <3>2, <3>3
  <2>5. out' = [v \in DOMAIN raw.variants \ left' |-> out'[v]]
    BY <1>1, <2>3 DEF Put
  <2> QED
    BY <1>1, <2>2, <2>4, <2>5 DEF OutInv
<1>5. Valid' /\ raw' \in Manifests
  BY <1>1 DEF Resolving, Valid
<1> HIDE DEF S
<1>6. state' \in {"parsed", "parsing"} /\ (state' = "parsed" => left' = {})
  BY <1>1
<1> QED
  BY <1>1, <1>4, <1>5, <1>6 DEF WrittenInv, VariantInv, Done

LEMMA VariantWritten ==
  ASSUME WrittenInv, NEW v \in left, parseVariant(v)
  PROVE  WrittenInv'
<1>1. /\ state = "parsing" /\ OutInv /\ Valid /\ raw \in Manifests
      /\ variant' = v /\ todo' = DOMAIN raw.variants[v].tokens /\ stack' = <<>>
      /\ cache' = Empty /\ resolved' = Empty
      /\ UNCHANGED <<raw, left, out, state>>
  BY DEF parseVariant, WrittenInv
<1>2. v # Absent
  BY <1>1, ManifestsAssumption DEF OutInv, Valid, validManifest
<1>3. OutInv' /\ Valid'
  BY <1>1 DEF OutInv, Valid
<1>4. \A s : Meant(s, Empty)
  BY DEF Meant, Empty
<1>5. DOMAIN Empty = {} /\ DOMAIN stack' = {}
  BY <1>1 DEF Empty
<1>6. ResolverInv(Slice)'
  BY <1>1, <1>4, <1>5 DEF ResolverInv, Slice
<1>7. VariantInv'
  BY <1>1, <1>2, <1>6 DEF VariantInv
<1> QED
  BY <1>1, <1>3, <1>7 DEF WrittenInv, Done

LEMMA ValidateWritten ==
  ASSUME WrittenInv, Validate
  PROVE  WrittenInv'
<1>1. /\ state = "decoded" /\ OutInv /\ variant = Absent /\ stack = <<>> /\ raw \in Manifests
      /\ state' = IF Valid THEN "parsing" ELSE "invalid"
      /\ UNCHANGED <<raw, left, variant, out, stack>>
  BY DEF Validate, WrittenInv, Valid, resolver
<1>2. OutInv' /\ (Valid' <=> Valid) /\ VariantInv'
  BY <1>1 DEF OutInv, Valid, VariantInv
<1> QED
  BY <1>1, <1>2 DEF WrittenInv, Done

LEMMA RestWritten ==
  ASSUME WrittenInv, UNCHANGED parseVars
  PROVE  WrittenInv'
<1>1. Slice' = Slice
  BY DEF parseVars, Slice
<1>2. ResolverInv(Slice) => ResolverInv(Slice)'
  BY <1>1 DEF parseVars, ResolverInv, Meant
<1>3. /\ OutInv => OutInv'
      /\ Valid <=> Valid'
      /\ VariantInv => VariantInv'
  BY <1>2 DEF parseVars, OutInv, Valid, VariantInv
<1> QED
  BY <1>3 DEF parseVars, WrittenInv, Done

LEMMA IsResolving ==
  ASSUME WrittenInv, state = "parsing", variant # Absent
  PROVE  Resolving
  BY DEF WrittenInv, VariantInv, Resolving

LEMMA NextWritten == PathInv /\ WrittenInv /\ [ParseNext]_parseVars => WrittenInv'
<1> SUFFICES ASSUME PathInv, WrittenInv, [ParseNext]_parseVars PROVE WrittenInv'
  OBVIOUS
<1>1. state = "parsing" /\ stack # <<>> => variant # Absent
  BY DEF WrittenInv, VariantInv
<1>2. CASE UNCHANGED parseVars
  BY <1>2, RestWritten
<1>3. CASE Validate
  BY <1>3, ValidateWritten
<1>4. ASSUME NEW v \in left, parseVariant(v) PROVE WrittenInv'
  BY <1>4, VariantWritten
<1>5. ASSUME NEW t \in todo, RangeToken(t) PROVE WrittenInv'
  BY <1>5, IsResolving, RangeWritten DEF RangeToken
<1>6. CASE Base
  BY <1>1, <1>6, IsResolving, BaseWritten DEF Base, Running
<1>7. CASE resolveColorRef
  BY <1>1, <1>7, IsResolving, ColorWritten DEF resolveColorRef, Running
<1>8. CASE Settle
  BY <1>1, <1>8, IsResolving, SettleWritten DEF Settle, Running
<1>9. CASE VariantDone
  BY <1>9, IsResolving, DoneWritten DEF VariantDone
<1> QED
  BY <1>2, <1>3, <1>4, <1>5, <1>6, <1>7, <1>8, <1>9 DEF ParseNext

LEMMA InitWritten == ParseInit => WrittenInv
<1> SUFFICES ASSUME ParseInit PROVE WrittenInv
  OBVIOUS
<1>1. OutInv
  BY DEF ParseInit, OutInv, Empty
<1> QED
  BY <1>1 DEF ParseInit, WrittenInv, Done

\* Whatever order the maps are ranged in and however the references of a
\* manifest are tied together: what the resolver remembers of a token is what
\* the manifest means by it, Parse refuses exactly the manifests with a
\* reference at fault, a cycle among them, and the others come out as they
\* are meant.
THEOREM ManifestParsedAsWritten == ParseSpec => []ParsedAsWritten
<1>1. WrittenInv => ParsedAsWritten
  <2> SUFFICES ASSUME WrittenInv PROVE ParsedAsWritten
    OBVIOUS
  <2>1. ASSUME variant # Absent, state = "parsing", NEW t \in DOMAIN cache
        PROVE  t \in DOMAIN Meaning(Slice) /\ cache[t] = Meaning(Slice)[t]
    BY <2>1, IsResolving DEF Resolving, ResolverInv, Meant
  <2>2. ASSUME state = "parsed"
        PROVE  /\ Valid /\ Complete(raw)
               /\ out = [v \in DOMAIN raw.variants |-> Meaning(raw.variants[v])]
    BY <2>2 DEF WrittenInv, OutInv, Complete
  <2>3. ASSUME Done, state # "parsed"
        PROVE  ~ (Valid /\ Complete(raw))
    BY <2>3 DEF WrittenInv
  <2> QED
    BY <2>1, <2>2, <2>3 DEF ParsedAsWritten, Valid
<1>2. ParseInit => PathInv /\ WrittenInv
  BY InitPath, InitWritten
<1>3. PathInv /\ WrittenInv /\ [ParseNext]_parseVars => (PathInv /\ WrittenInv)'
  BY NextPath, NextWritten
<1> QED
  BY <1>1, <1>2, <1>3, PTL DEF ParseSpec
=============================================================================
