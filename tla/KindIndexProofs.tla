--------------------------- MODULE KindIndexProofs --------------------------
(***************************************************************************)
(* The index of kinds, for every document, every order in which its maps   *)
(* are visited and every order the sort may leave.                         *)
(***************************************************************************)
EXTENDS KindIndex, VersionOrderProofs, WellFoundedInduction

\* The paths and the components that have been taken into the index.
Visited == IF pc = "paths" THEN doc.paths \ todo ELSE doc.paths

Added ==
    IF pc = "paths" THEN {} ELSE IF pc = "schemas" THEN Components \ todo ELSE Components

PathsFound ==
    \A gvk \in GVK : gvk \in pathMap <=> \E p \in Visited : Creates(p, gvk)

\* No entry comes from nowhere ...
EntriesSound ==
    \A k \in Kinds : \A i \in DOMAIN kindInfoMap[k] :
        \E c \in Added, gvk \in GVK :
            Describes(c, gvk) /\ gvk.kind = k /\ kindInfoMap[k][i] = Entry(c, gvk)

\* ... and none is lost, by the sort neither.
EntriesComplete ==
    \A c \in Added, gvk \in GVK :
        Describes(c, gvk) =>
            \E i \in DOMAIN kindInfoMap[gvk.kind] : kindInfoMap[gvk.kind][i] = Entry(c, gvk)

SortedSoFar ==
    \A k \in Kinds :
        pc = "ready" \/ (pc = "sort" /\ k \notin todo) =>
            (StrictWeakOrder(VersionsOf(kindInfoMap[k])) => InOrder(kindInfoMap[k]))

\* The inductive invariant: what the index has taken from the part of the document that
\* was visited.
IInv ==
    /\ TypeOK
    /\ PathsFound
    /\ EntriesSound
    /\ EntriesComplete
    /\ SortedSoFar

-----------------------------------------------------------------------------
LEMMA DocumentType ==
    ASSUME TypeOK
    PROVE  /\ doc.paths \subseteq Path
           /\ doc.schemas \in [Components -> Annotation]
BY DocsAssumption DEF TypeOK, OpenAPIDoc

\* parseGVK takes exactly the annotations that name one GVK.
LEMMA ParseGVKExact ==
    ASSUME NEW annotation \in Annotation, NEW gvk
    PROVE  gvk \in parseGVK(annotation) <=> annotation = <<gvk>>
BY DEF Annotation, parseGVK

\* The POST operation of a path decides, and the PUT operation only where there is no
\* POST (K8sSchemaParser.go 233-253).
LEMMA PathGVKExact ==
    ASSUME NEW p \in Path, NEW gvk \in GVK
    PROVE  gvk \in pathGVK(p) <=> Creates(p, gvk)
<1>1. p.post \in Annotation \cup {NoMethod} /\ p.put \in Annotation \cup {NoMethod}
  BY DEF Path, Method
<1>2. <<gvk>> \in Annotation
  BY DEF Annotation
<1>3. <<gvk>> # NoMethod
  BY <1>2, DocsAssumption
<1>4. CASE p.post # NoMethod
  BY <1>1, <1>4, ParseGVKExact DEF pathGVK, method, Creates
<1>5. CASE p.post = NoMethod /\ p.put # NoMethod
  BY <1>1, <1>3, <1>5, ParseGVKExact DEF pathGVK, method, Creates
<1>6. CASE p.post = NoMethod /\ p.put = NoMethod
  BY <1>3, <1>6 DEF pathGVK, method, Creates
<1> QED
  BY <1>4, <1>5, <1>6

LEMMA EntryType ==
    ASSUME NEW c \in Components, NEW gvk \in GVK
    PROVE  Entry(c, gvk) \in KindInfo
<1>1. hasRestPath(gvk) \in BOOLEAN
  BY DEF hasRestPath
<1> QED
  BY <1>1 DEF Entry, KindInfo, GVK

-----------------------------------------------------------------------------
LEMMA InitIInv == Init => IInv
<1> SUFFICES ASSUME Init PROVE IInv
  OBVIOUS
<1>1. TypeOK
  BY DEF Init, TypeOK
<1> QED
  BY <1>1 DEF Init, IInv, PathsFound, EntriesSound, EntriesComplete, SortedSoFar, Visited,
              Added

LEMMA BuildPathStep == ASSUME NEW p PROVE IInv /\ BuildPath(p) => IInv'
<1> SUFFICES ASSUME IInv, BuildPath(p)
             PROVE  IInv'
  OBVIOUS
<1>1. /\ TypeOK /\ pc = "paths" /\ pc' = "paths" /\ p \in todo /\ todo' = todo \ {p}
      /\ pathMap' = pathMap \cup pathGVK(p)
      /\ doc' = doc /\ kindInfoMap' = kindInfoMap
  BY DEF IInv, BuildPath
<1>2. p \in doc.paths /\ p \in Path
  BY <1>1, DocumentType DEF TypeOK
<1>3. pathGVK(p) \subseteq GVK
  <2>1. p.post \in Annotation \cup {NoMethod} /\ p.put \in Annotation \cup {NoMethod}
    BY <1>2 DEF Path, Method
  <2> QED
    BY <2>1 DEF pathGVK, method, parseGVK, Annotation
<1>4. TypeOK'
  BY <1>1, <1>3 DEF TypeOK
<1>5. PathsFound'
  <2>1. Visited' = Visited \cup {p}
    BY <1>1, <1>2 DEF Visited
  <2>2. ASSUME NEW gvk \in GVK
        PROVE  gvk \in pathMap' <=> \E q \in Visited' : Creates(q, gvk)
    BY <1>1, <1>2, <2>1, PathGVKExact DEF IInv, PathsFound
  <2> QED
    BY <2>2 DEF PathsFound, Creates
<1>6. \A k \in Kinds : kindInfoMap[k] \in Seq(KindInfo) /\ DOMAIN kindInfoMap[k] = {}
  BY <1>1 DEF IInv, EntriesSound, Added, TypeOK
<1>7. EntriesSound' /\ EntriesComplete' /\ SortedSoFar'
  BY <1>1, <1>6 DEF EntriesSound, EntriesComplete, SortedSoFar, Added
<1> QED
  BY <1>4, <1>5, <1>7 DEF IInv

LEMMA StartSchemasStep == IInv /\ StartSchemas => IInv'
<1> SUFFICES ASSUME IInv, StartSchemas
             PROVE  IInv'
  OBVIOUS
<1>1. /\ TypeOK /\ pc = "paths" /\ pc' = "schemas" /\ todo = {} /\ todo' = Components
      /\ doc' = doc /\ pathMap' = pathMap /\ kindInfoMap' = kindInfoMap
  BY DEF IInv, StartSchemas
<1>2. TypeOK'
  BY <1>1 DEF TypeOK
<1>3. Visited' = Visited /\ Added' = Added
  BY <1>1 DEF Visited, Added
<1>4. PathsFound' /\ EntriesSound' /\ EntriesComplete'
  BY <1>1, <1>3 DEF IInv, PathsFound, EntriesSound, EntriesComplete, Creates, Describes,
                    Entry, hasRestPath
<1> QED
  BY <1>1, <1>2, <1>4 DEF IInv, SortedSoFar

LEMMA AddSchemaStep == ASSUME NEW c PROVE IInv /\ AddSchema(c) => IInv'
<1> SUFFICES ASSUME IInv, AddSchema(c)
             PROVE  IInv'
  OBVIOUS
<1> DEFINE annotation == doc.schemas[c]
           g == annotation[1]
<1>1. /\ TypeOK /\ pc = "schemas" /\ pc' = "schemas" /\ c \in todo /\ todo' = todo \ {c}
      /\ doc' = doc /\ pathMap' = pathMap
      /\ kindInfoMap' = [k \in Kinds |->
           IF \E gg \in parseGVK(annotation) : gg.kind = k
           THEN Append(kindInfoMap[k], Entry(c, g)) ELSE kindInfoMap[k]]
  BY DEF IInv, AddSchema
<1>2. c \in Components /\ annotation \in Annotation /\ kindInfoMap \in [Kinds -> Seq(KindInfo)]
  BY <1>1, DocumentType DEF TypeOK
<1>3. Visited' = Visited /\ Added' = Added \cup {c}
  BY <1>1, <1>2 DEF Visited, Added
<1>4. PathsFound'
  BY <1>1, <1>3 DEF IInv, PathsFound, Creates
<1>5. \A cc, gvk : Entry(cc, gvk)' = Entry(cc, gvk) /\ (Describes(cc, gvk)' <=> Describes(cc, gvk))
  BY <1>1 DEF Entry, hasRestPath, Describes
<1>6. CASE parseGVK(annotation) = {}
  <2>1. kindInfoMap' = kindInfoMap
    BY <1>1, <1>2, <1>6
  <2>2. ~\E gvk : Describes(c, gvk)
    BY <1>2, <1>6, ParseGVKExact DEF Describes
  <2>3. TypeOK'
    BY <1>1, <2>1 DEF TypeOK
  <2>4. EntriesSound' /\ EntriesComplete'
    BY <1>3, <1>5, <2>1, <2>2 DEF IInv, EntriesSound, EntriesComplete
  <2> QED
    BY <1>1, <1>4, <2>3, <2>4 DEF IInv, SortedSoFar
<1>7. CASE parseGVK(annotation) # {}
  <2>1. parseGVK(annotation) = {g} /\ annotation = <<g>> /\ g \in GVK
    BY <1>2, <1>7 DEF parseGVK, Annotation
  <2>2. g.kind \in Kinds /\ Entry(c, g) \in KindInfo
    BY <1>2, <2>1, EntryType DEF GVK
  <2> DEFINE old == kindInfoMap[g.kind]
             new == Append(old, Entry(c, g))
  <2> HIDE DEF g, annotation
  <2>3. kindInfoMap' = [kindInfoMap EXCEPT ![g.kind] = new]
    BY <1>1, <1>2, <2>1
  <2>4. /\ new \in Seq(KindInfo)
        /\ DOMAIN new = DOMAIN old \cup {Len(old) + 1}
        /\ new[Len(old) + 1] = Entry(c, g)
        /\ \A i \in DOMAIN old : new[i] = old[i]
    BY <1>2, <2>2
  <2>5. /\ kindInfoMap'[g.kind] = new
        /\ \A k \in Kinds : k # g.kind => kindInfoMap'[k] = kindInfoMap[k]
        /\ kindInfoMap' \in [Kinds -> Seq(KindInfo)]
    BY <1>2, <2>2, <2>3, <2>4
  <2> HIDE DEF old, new
  <2>6. TypeOK'
    BY <1>1, <2>5 DEF TypeOK
  <2>7. Describes(c, g) /\ \A gvk : Describes(c, gvk) => gvk = g
    BY <2>1 DEF Describes, annotation
  <2>8. ASSUME NEW k \in Kinds, NEW i \in DOMAIN kindInfoMap'[k]
        PROVE  \E cc \in Added', gvk \in GVK :
                 /\ Describes(cc, gvk) /\ gvk.kind = k
                 /\ kindInfoMap'[k][i] = Entry(cc, gvk)
    <3>1. CASE i \in DOMAIN kindInfoMap[k] /\ kindInfoMap'[k][i] = kindInfoMap[k][i]
      BY <1>3, <3>1 DEF IInv, EntriesSound
    <3>2. CASE k = g.kind /\ kindInfoMap'[k][i] = Entry(c, g)
      BY <1>3, <2>1, <2>7, <3>2
    <3> QED
      BY <2>4, <2>5, <3>1, <3>2 DEF old
  <2>9. EntriesSound'
    BY <1>5, <2>8 DEF EntriesSound
  <2>10. ASSUME NEW cc \in Added', NEW gvk \in GVK, Describes(cc, gvk)
         PROVE  \E i \in DOMAIN kindInfoMap'[gvk.kind] :
                  kindInfoMap'[gvk.kind][i] = Entry(cc, gvk)
    <3>0. gvk.kind \in Kinds
      BY DEF GVK
    <3>1. CASE cc = c
      BY <2>4, <2>5, <2>7, <2>10, <3>1
    <3>2. CASE cc # c
      <4>1. PICK i \in DOMAIN kindInfoMap[gvk.kind] : kindInfoMap[gvk.kind][i] = Entry(cc, gvk)
        BY <1>3, <2>10, <3>2 DEF IInv, EntriesComplete
      <4> QED
        BY <2>4, <2>5, <3>0, <4>1 DEF old
    <3> QED
      BY <3>1, <3>2
  <2>11. EntriesComplete'
    BY <1>5, <2>10 DEF EntriesComplete
  <2> QED
    BY <1>1, <1>4, <2>6, <2>9, <2>11 DEF IInv, SortedSoFar
<1> QED
  BY <1>6, <1>7

LEMMA StartSortStep == IInv /\ StartSort => IInv'
<1> SUFFICES ASSUME IInv, StartSort
             PROVE  IInv'
  OBVIOUS
<1>1. /\ TypeOK /\ pc = "schemas" /\ pc' = "sort" /\ todo = {}
      /\ todo' = {k \in Kinds : kindInfoMap[k] # <<>>}
      /\ doc' = doc /\ pathMap' = pathMap /\ kindInfoMap' = kindInfoMap
  BY DEF IInv, StartSort
<1>2. TypeOK'
  BY <1>1 DEF TypeOK
<1>3. Visited' = Visited /\ Added' = Added
  BY <1>1 DEF Visited, Added
<1>4. PathsFound' /\ EntriesSound' /\ EntriesComplete'
  BY <1>1, <1>3 DEF IInv, PathsFound, EntriesSound, EntriesComplete, Creates, Describes,
                    Entry, hasRestPath
<1>5. SortedSoFar'
  <2>1. \A k \in Kinds : k \notin todo' => kindInfoMap'[k] = <<>>
    BY <1>1
  <2>2. InOrder(<<>>)
    BY DEF InOrder
  <2> QED
    BY <1>1, <2>1, <2>2 DEF SortedSoFar
<1> QED
  BY <1>2, <1>4, <1>5 DEF IInv

\* What a sort may leave holds the same entries as before.
LEMMA SortKeepsEntries ==
    ASSUME NEW s \in Seq(KindInfo), NEW t \in SortOutcomes(s)
    PROVE  /\ t \in Seq(KindInfo)
           /\ \A i \in DOMAIN t : \E j \in DOMAIN s : t[i] = s[j]
           /\ \A j \in DOMAIN s : \E i \in DOMAIN t : t[i] = s[j]
           /\ StrictWeakOrder(VersionsOf(t)) => InOrder(t)
<1>1. PICK p \in Bijection(DOMAIN s, DOMAIN s) : t = [i \in DOMAIN s |-> s[p[i]]]
  BY DEF SortOutcomes
<1>2. /\ p \in [DOMAIN s -> DOMAIN s]
      /\ \A j \in DOMAIN s : \E i \in DOMAIN s : p[i] = j
  BY DEF Bijection, Injection, Surjection
<1>3. t \in Seq(KindInfo) /\ DOMAIN t = DOMAIN s
  <2> DEFINE e(i) == s[p[i]]
  <2>1. PICK n \in Nat : DOMAIN s = 1..n
    OBVIOUS
  <2>2. \A i \in 1..n : e(i) \in KindInfo
    BY <1>2, <2>1
  <2>3. t = [i \in 1..n |-> e(i)]
    BY <1>1, <2>1
  <2> HIDE DEF e
  <2> QED
    BY <2>1, <2>2, <2>3
<1>4. /\ \A i \in DOMAIN t : \E j \in DOMAIN s : t[i] = s[j]
      /\ \A j \in DOMAIN s : \E i \in DOMAIN t : t[i] = s[j]
  BY <1>1, <1>2
<1>5. VersionsOf(t) = VersionsOf(s)
  <2>1. ASSUME NEW i \in DOMAIN t
        PROVE  t[i].version \in VersionsOf(s)
    BY <1>4 DEF VersionsOf
  <2>2. ASSUME NEW j \in DOMAIN s
        PROVE  s[j].version \in VersionsOf(t)
    BY <1>4 DEF VersionsOf
  <2> QED
    BY <2>1, <2>2 DEF VersionsOf
<1> QED
  BY <1>3, <1>4, <1>5 DEF SortOutcomes

LEMMA SortKindStep == ASSUME NEW k \in Kinds PROVE IInv /\ SortKind(k) => IInv'
<1> SUFFICES ASSUME IInv, SortKind(k)
             PROVE  IInv'
  OBVIOUS
<1>1. PICK t \in SortOutcomes(kindInfoMap[k]) : kindInfoMap' = [kindInfoMap EXCEPT ![k] = t]
  BY DEF SortKind
<1>2. /\ TypeOK /\ pc = "sort" /\ pc' = "sort" /\ k \in todo /\ todo' = todo \ {k}
      /\ doc' = doc /\ pathMap' = pathMap /\ kindInfoMap \in [Kinds -> Seq(KindInfo)]
  BY DEF IInv, SortKind, TypeOK
<1>3. /\ t \in Seq(KindInfo)
      /\ \A i \in DOMAIN t : \E j \in DOMAIN kindInfoMap[k] : t[i] = kindInfoMap[k][j]
      /\ \A j \in DOMAIN kindInfoMap[k] : \E i \in DOMAIN t : t[i] = kindInfoMap[k][j]
      /\ StrictWeakOrder(VersionsOf(t)) => InOrder(t)
  BY <1>2, SortKeepsEntries
<1>4. /\ kindInfoMap'[k] = t
      /\ \A kk \in Kinds : kk # k => kindInfoMap'[kk] = kindInfoMap[kk]
      /\ kindInfoMap' \in [Kinds -> Seq(KindInfo)]
  BY <1>1, <1>2, <1>3
<1>5. TypeOK'
  BY <1>2, <1>4 DEF TypeOK
<1>6. Visited' = Visited /\ Added' = Added
  BY <1>2 DEF Visited, Added
<1>7. \A c, gvk : Entry(c, gvk)' = Entry(c, gvk) /\ (Describes(c, gvk)' <=> Describes(c, gvk))
  BY <1>2 DEF Entry, hasRestPath, Describes
<1>8. PathsFound'
  BY <1>2, <1>6 DEF IInv, PathsFound, Creates
<1>9. EntriesSound'
  BY <1>3, <1>4, <1>6, <1>7 DEF IInv, EntriesSound
<1>10. EntriesComplete'
  <2>1. ASSUME NEW c \in Added, NEW gvk \in GVK, Describes(c, gvk)
        PROVE  \E i \in DOMAIN kindInfoMap'[gvk.kind] :
                 kindInfoMap'[gvk.kind][i] = Entry(c, gvk)
    <3>1. gvk.kind \in Kinds
      BY DEF GVK
    <3>2. PICK i \in DOMAIN kindInfoMap[gvk.kind] : kindInfoMap[gvk.kind][i] = Entry(c, gvk)
      BY <2>1 DEF IInv, EntriesComplete
    <3> QED
      BY <1>3, <1>4, <3>1, <3>2
  <2> QED
    BY <1>6, <1>7, <2>1 DEF EntriesComplete
<1>11. SortedSoFar'
  BY <1>2, <1>3, <1>4 DEF IInv, SortedSoFar
<1> QED
  BY <1>5, <1>8, <1>9, <1>10, <1>11 DEF IInv

\* The end of the loops, a panic, and a step that changes nothing.
LEMMA LastStep ==
    IInv /\ (Finish \/ (\E k \in Kinds : SortPanics(k)) \/ UNCHANGED vars) => IInv'
<1> SUFFICES ASSUME IInv, Finish \/ (\E k \in Kinds : SortPanics(k)) \/ UNCHANGED vars
             PROVE  IInv'
  OBVIOUS
<1>1. /\ doc' = doc /\ todo' = todo /\ pathMap' = pathMap /\ kindInfoMap' = kindInfoMap
      /\ \/ pc' = pc
         \/ pc = "sort" /\ pc' = "ready" /\ todo = {}
         \/ pc = "sort" /\ pc' = "panic"
  BY DEF Finish, SortPanics, vars
<1>2. TypeOK'
  BY <1>1 DEF IInv, TypeOK
<1>3. Visited' = Visited /\ Added' = Added
  BY <1>1 DEF Visited, Added
<1>4. PathsFound' /\ EntriesSound' /\ EntriesComplete'
  BY <1>1, <1>3 DEF IInv, PathsFound, EntriesSound, EntriesComplete, Creates, Describes,
                    Entry, hasRestPath
<1>5. SortedSoFar'
  BY <1>1 DEF IInv, SortedSoFar
<1> QED
  BY <1>2, <1>4, <1>5 DEF IInv

LEMMA SpecIInv == Spec => []IInv
<1>1. Init => IInv
  BY InitIInv
<1>2. IInv /\ [Next]_vars => IInv'
  BY BuildPathStep, StartSchemasStep, AddSchemaStep, StartSortStep, SortKindStep, LastStep
     DEF Next
<1> QED
  BY <1>1, <1>2, PTL DEF Spec

-----------------------------------------------------------------------------
(***************************************************************************)
(* What a finished index holds, and the theorems.                          *)
(***************************************************************************)
\* A finished index has exactly the entries the document gives a kind, each with a
\* rest path exactly where the document has one.
LEMMA FinishedEntries ==
    ASSUME IInv, pc = "ready", NEW g \in Groups, NEW v \in VersionTexts, NEW k \in Kinds
    PROVE  LET gvk == [group |-> g, version |-> v, kind |-> k]
           IN  /\ kindInfoMap[k] \in Seq(KindInfo)
               /\ hasRestPath(gvk) <=> \E p \in doc.paths : Creates(p, gvk)
               /\ \A i \in DOMAIN kindInfoMap[k] :
                    kindInfoMap[k][i].group = g /\ kindInfoMap[k][i].version = v =>
                      /\ kindInfoMap[k][i].component \in Components
                      /\ Describes(kindInfoMap[k][i].component, gvk)
                      /\ kindInfoMap[k][i].restPath = hasRestPath(gvk)
               /\ \A c \in Components : Describes(c, gvk) =>
                    \E i \in DOMAIN kindInfoMap[k] : kindInfoMap[k][i] = Entry(c, gvk)
<1> DEFINE gvk == [group |-> g, version |-> v, kind |-> k]
<1>1. gvk \in GVK /\ gvk.kind = k /\ gvk.group = g /\ gvk.version = v
  BY DEF GVK
<1>2. Visited = doc.paths /\ Added = Components
  BY DEF Visited, Added
<1>3. kindInfoMap[k] \in Seq(KindInfo)
  BY DEF IInv, TypeOK
<1>4. hasRestPath(gvk) <=> \E p \in doc.paths : Creates(p, gvk)
  BY <1>1, <1>2 DEF IInv, PathsFound, hasRestPath
<1>5. \A c \in Components : Describes(c, gvk) =>
        \E i \in DOMAIN kindInfoMap[k] : kindInfoMap[k][i] = Entry(c, gvk)
  BY <1>1, <1>2 DEF IInv, EntriesComplete
<1>6. ASSUME NEW i \in DOMAIN kindInfoMap[k],
             kindInfoMap[k][i].group = g, kindInfoMap[k][i].version = v
      PROVE  /\ kindInfoMap[k][i].component \in Components
             /\ Describes(kindInfoMap[k][i].component, gvk)
             /\ kindInfoMap[k][i].restPath = hasRestPath(gvk)
  <2>1. PICK c \in Components, h \in GVK :
          Describes(c, h) /\ h.kind = k /\ kindInfoMap[k][i] = Entry(c, h)
    BY <1>2 DEF IInv, EntriesSound
  <2>2. h.group = g /\ h.version = v
    BY <1>6, <2>1 DEF Entry
  <2>3. h = gvk
    BY <2>1, <2>2 DEF GVK
  <2>4. kindInfoMap[k][i] = Entry(c, gvk)
    BY <2>1, <2>3
  <2> HIDE DEF gvk
  <2>5. kindInfoMap[k][i].component = c /\ kindInfoMap[k][i].restPath = hasRestPath(gvk)
    BY <2>4 DEF Entry
  <2> QED
    BY <2>1, <2>3, <2>5
<1> QED
  BY <1>3, <1>4, <1>5, <1>6

\* The entries that match are there exactly when the document supports the GVK.
LEMMA MatchesExact ==
    ASSUME IInv, pc = "ready", NEW g \in Groups, NEW v \in VersionTexts, NEW k \in Kinds
    PROVE  LET gvk == [group |-> g, version |-> v, kind |-> k]
           IN  /\ Matches(g, v, k) # {} <=> SupportedByDocument(gvk)
               /\ \A i \in Matches(g, v, k) :
                    /\ kindInfoMap[k][i].component \in Components
                    /\ Describes(kindInfoMap[k][i].component, gvk)
<1> DEFINE gvk == [group |-> g, version |-> v, kind |-> k]
<1> HIDE DEF gvk
<1>1. /\ hasRestPath(gvk) <=> \E p \in doc.paths : Creates(p, gvk)
      /\ \A i \in DOMAIN kindInfoMap[k] :
           kindInfoMap[k][i].group = g /\ kindInfoMap[k][i].version = v =>
             /\ kindInfoMap[k][i].component \in Components
             /\ Describes(kindInfoMap[k][i].component, gvk)
             /\ kindInfoMap[k][i].restPath = hasRestPath(gvk)
      /\ \A c \in Components : Describes(c, gvk) =>
           \E i \in DOMAIN kindInfoMap[k] : kindInfoMap[k][i] = Entry(c, gvk)
  BY FinishedEntries DEF gvk
<1>2. ASSUME NEW i \in Matches(g, v, k)
      PROVE  /\ kindInfoMap[k][i].component \in Components
             /\ Describes(kindInfoMap[k][i].component, gvk)
             /\ hasRestPath(gvk)
  BY <1>1 DEF Matches
<1>3. ASSUME SupportedByDocument(gvk)
      PROVE  Matches(g, v, k) # {}
  <2>1. PICK c \in Components : Describes(c, gvk)
    BY <1>3 DEF SupportedByDocument
  <2>2. PICK i \in DOMAIN kindInfoMap[k] : kindInfoMap[k][i] = Entry(c, gvk)
    BY <1>1, <2>1
  <2>3. hasRestPath(gvk)
    BY <1>1, <1>3 DEF SupportedByDocument
  <2>4. /\ kindInfoMap[k][i].group = g /\ kindInfoMap[k][i].version = v
        /\ kindInfoMap[k][i].restPath
    BY <2>2, <2>3 DEF Entry, gvk
  <2> QED
    BY <2>4 DEF Matches
<1>4. Matches(g, v, k) # {} => SupportedByDocument(gvk)
  BY <1>1, <1>2 DEF SupportedByDocument
<1> QED
  BY <1>2, <1>3, <1>4 DEF gvk

\* A non-empty set of positions has a last one: the naturals are well founded.
LEMMA HasLast ==
    ASSUME NEW n \in Nat, NEW M \in SUBSET (1..n), M # {}
    PROVE  \E i \in M : \A j \in M : j <= i
<1> DEFINE T == {n - i : i \in M}
<1>1. T \in SUBSET Nat /\ T # {}
  <2>1. ASSUME NEW i \in M
        PROVE  n - i \in Nat
    BY i \in 1..n
  <2> QED
    BY <2>1
<1>2. IsWellFoundedOn(OpToRel(<, Nat), Nat)
  BY NatLessThanWellFounded
<1>3. PICK x \in T : \A y \in T : ~(<<y, x>> \in OpToRel(<, Nat))
  BY <1>1, <1>2, WFMin
<1>4. \A y \in T : ~(y < x)
  BY <1>1, <1>3 DEF OpToRel
<1>5. PICK i \in M : x = n - i
  BY DEF T
<1>6. \A j \in M : ~(n - j < n - i)
  BY <1>4, <1>5
<1> QED
  BY <1>6

LEMMA LastMatch ==
    ASSUME NEW s \in Seq(KindInfo), NEW M \in SUBSET DOMAIN s, M # {}
    PROVE  LET last == CHOOSE i \in M : \A j \in M : j <= i
           IN  last \in M /\ \A j \in M : j <= last
<1>1. PICK n \in Nat : DOMAIN s = 1..n
  OBVIOUS
<1>2. \E i \in M : \A j \in M : j <= i
  BY <1>1, HasLast
<1> QED
  BY <1>2

\* The last of the entries that match is described as the object is.
LEMMA OriginalExact == IInv => MappingIsFaithful
<1> SUFFICES ASSUME IInv, pc = "ready", NEW g \in Groups, NEW v \in VersionTexts,
                    NEW k \in Kinds
             PROVE  LET gvk == [group |-> g, version |-> v, kind |-> k]
                    IN  IF SupportedByDocument(gvk)
                        THEN /\ original(g, v, k) \in Components
                             /\ Describes(original(g, v, k), gvk)
                        ELSE original(g, v, k) = NoComponent
  BY DEF MappingIsFaithful
<1> DEFINE gvk == [group |-> g, version |-> v, kind |-> k]
<1> HIDE DEF gvk
<1>1. /\ Matches(g, v, k) # {} <=> SupportedByDocument(gvk)
      /\ \A i \in Matches(g, v, k) :
           /\ kindInfoMap[k][i].component \in Components
           /\ Describes(kindInfoMap[k][i].component, gvk)
  BY MatchesExact DEF gvk
<1>2. CASE Matches(g, v, k) = {}
  BY <1>1, <1>2 DEF original, gvk
<1>3. CASE Matches(g, v, k) # {}
  <2> DEFINE last == CHOOSE i \in Matches(g, v, k) : \A j \in Matches(g, v, k) : j <= i
  <2>1. last \in Matches(g, v, k)
    <3>1. kindInfoMap[k] \in Seq(KindInfo) /\ Matches(g, v, k) \in SUBSET DOMAIN kindInfoMap[k]
      BY DEF IInv, TypeOK, Matches
    <3> QED
      BY <1>3, <3>1, LastMatch
  <2>2. original(g, v, k) = kindInfoMap[k][last].component
    BY <1>3 DEF original
  <2> HIDE DEF last
  <2> QED
    BY <1>1, <1>3, <2>1, <2>2 DEF gvk
<1> QED
  BY <1>2, <1>3

\* Of the entries that match the newest apiVersion, the last is the last of all.
LEMMA FetchedAtLatest == IInv => FetchedIsCurrent
<1> SUFFICES ASSUME IInv, pc = "ready", NEW k \in Kinds, kindInfoMap[k] # <<>>,
                    lastEntry(k).restPath
             PROVE  LET g == lastEntry(k).group
                        v == lastEntry(k).version
                    IN  IsVersionSupported(g, v, k) /\ original(g, v, k) = latest(k)
  BY DEF FetchedIsCurrent, fetchLatestKinds
<1> DEFINE g == lastEntry(k).group
           v == lastEntry(k).version
           n == Len(kindInfoMap[k])
           M == Matches(g, v, k)
           last == CHOOSE i \in M : \A j \in M : j <= i
<1>1. /\ kindInfoMap[k] \in Seq(KindInfo)
      /\ DOMAIN kindInfoMap[k] = 1..n /\ n \in Nat /\ n \in 1..n
  BY DEF IInv, TypeOK
<1>2. n \in M /\ M \in SUBSET DOMAIN kindInfoMap[k]
  BY <1>1 DEF Matches, lastEntry
<1>3. last \in M /\ n <= last
  BY <1>1, <1>2, LastMatch
<1>4. last = n
  BY <1>1, <1>2, <1>3
<1>5. original(g, v, k) = kindInfoMap[k][last].component
  BY <1>2 DEF original
<1> HIDE DEF last
<1>6. latest(k) = kindInfoMap[k][n].component
  BY DEF latest, lastEntry
<1> QED
  BY <1>2, <1>4, <1>5, <1>6 DEF IsVersionSupported

\* The last entry of a kind is well formed and stands where the document has its pair.
LEMMA LastEntryExact ==
    ASSUME IInv, pc = "ready", NEW k \in Kinds, kindInfoMap[k] # <<>>
    PROVE  LET gvk == [group |-> lastEntry(k).group, version |-> lastEntry(k).version,
                       kind |-> k]
           IN  /\ lastEntry(k).group \in Groups /\ lastEntry(k).version \in VersionTexts
               /\ latest(k) \in Components /\ Describes(latest(k), gvk)
               /\ IsVersionSupported(lastEntry(k).group, lastEntry(k).version, k)
                    <=> lastEntry(k).restPath
<1> DEFINE s == kindInfoMap[k]
           n == Len(s)
           g == lastEntry(k).group
           v == lastEntry(k).version
           gvk == [group |-> g, version |-> v, kind |-> k]
<1>1. /\ s \in Seq(KindInfo) /\ n \in Nat /\ DOMAIN s = 1..n /\ n \in DOMAIN s
  BY DEF IInv, TypeOK
<1>2. lastEntry(k) = s[n] /\ s[n] \in KindInfo
  BY <1>1 DEF lastEntry
<1>3. g \in Groups /\ v \in VersionTexts
  BY <1>2 DEF KindInfo
<1>4. \A i \in DOMAIN s : s[i].group = g /\ s[i].version = v =>
        /\ s[i].component \in Components
        /\ Describes(s[i].component, gvk)
        /\ s[i].restPath = hasRestPath(gvk)
  BY <1>3, FinishedEntries
<1>5. latest(k) = s[n].component
  BY <1>2 DEF latest
<1>6. latest(k) \in Components /\ Describes(latest(k), gvk)
  BY <1>1, <1>2, <1>4, <1>5
<1>7. s[n].restPath = hasRestPath(gvk)
  BY <1>1, <1>2, <1>4
<1>8. IsVersionSupported(g, v, k) <=> s[n].restPath
  <2>1. IsVersionSupported(g, v, k) => s[n].restPath
    <3>1. ASSUME NEW i \in Matches(g, v, k)
          PROVE  s[n].restPath
      BY <1>4, <1>7 DEF Matches
    <3> QED
      BY <3>1 DEF IsVersionSupported
  <2>2. s[n].restPath => n \in Matches(g, v, k)
    BY <1>1, <1>2 DEF Matches
  <2> QED
    BY <2>1, <2>2 DEF IsVersionSupported
<1> QED
  BY <1>2, <1>3, <1>6, <1>8

\* A component describes one pair alone, so components differ where apiVersions do.
LEMMA CatalogExact == IInv => CatalogIsFaithful
<1> SUFFICES ASSUME IInv, pc = "ready", NEW k \in Kinds
             PROVE  /\ served(k) # {} => newest(k) # {}
                    /\ fetched(k) = served(k) \cap newest(k)
                    /\ \A gv \in newest(k) :
                         Describes(latest(k), [group |-> gv[1], version |-> gv[2], kind |-> k])
                    /\ \A g \in Groups, v \in VersionTexts :
                         /\ original(g, v, k) # NoComponent <=> <<g, v>> \in served(k)
                         /\ latest(k) \notin {NoComponent, original(g, v, k)}
                              <=> newest(k) # {} /\ <<g, v>> \notin served(k) \cap newest(k)
  BY DEF CatalogIsFaithful
<1> DEFINE last == <<lastEntry(k).group, lastEntry(k).version>>
<1>1. \A g \in Groups, v \in VersionTexts :
        <<g, v>> \in served(k) <=> IsVersionSupported(g, v, k)
  BY DEF served
<1>2. ASSUME NEW g \in Groups, NEW v \in VersionTexts
      PROVE  LET gvk == [group |-> g, version |-> v, kind |-> k]
             IN  IF <<g, v>> \in served(k)
                 THEN original(g, v, k) \in Components /\ Describes(original(g, v, k), gvk)
                 ELSE original(g, v, k) = NoComponent
  <2> DEFINE gvk == [group |-> g, version |-> v, kind |-> k]
  <2>1. <<g, v>> \in served(k) <=> SupportedByDocument(gvk)
    BY <1>1, MatchesExact DEF IsVersionSupported
  <2>2. IF SupportedByDocument(gvk)
        THEN original(g, v, k) \in Components /\ Describes(original(g, v, k), gvk)
        ELSE original(g, v, k) = NoComponent
    BY OriginalExact DEF MappingIsFaithful
  <2> QED
    BY <2>1, <2>2
<1>3. \A g \in Groups, v \in VersionTexts :
        original(g, v, k) # NoComponent <=> <<g, v>> \in served(k)
  BY <1>2, DocsAssumption
<1>4. CASE kindInfoMap[k] = <<>>
  <2>1. newest(k) = {} /\ latest(k) = NoComponent
    BY <1>4 DEF newest, latest
  <2>2. served(k) = {}
    BY <1>4 DEF served, IsVersionSupported, Matches
  <2>3. fetched(k) = {}
    BY <1>4 DEF fetched, fetchLatestKinds
  <2> QED
    BY <1>3, <2>1, <2>2, <2>3
<1>5. CASE kindInfoMap[k] # <<>>
  <2>1. newest(k) = {last}
    BY <1>5 DEF newest
  <2>2. /\ lastEntry(k).group \in Groups /\ lastEntry(k).version \in VersionTexts
        /\ latest(k) \in Components
        /\ Describes(latest(k), [group |-> lastEntry(k).group,
                                 version |-> lastEntry(k).version, kind |-> k])
        /\ last \in served(k) <=> lastEntry(k).restPath
    BY <1>1, <1>5, LastEntryExact
  <2>3. fetched(k) = IF lastEntry(k).restPath THEN {last} ELSE {}
    <3> DEFINE newestKind(kk) == [group |-> lastEntry(kk).group,
                                  version |-> lastEntry(kk).version, kind |-> kk]
    <3>1. \A h \in fetchLatestKinds : h.kind = k => h = newestKind(k) /\ lastEntry(k).restPath
      BY DEF fetchLatestKinds
    <3>2. lastEntry(k).restPath => newestKind(k) \in fetchLatestKinds
      BY <1>5 DEF fetchLatestKinds
    <3>3. CASE lastEntry(k).restPath
      <4>1. {h \in fetchLatestKinds : h.kind = k} = {newestKind(k)}
        BY <3>1, <3>2, <3>3
      <4>2. fetched(k) = {<<f.group, f.version>> : f \in {newestKind(k)}}
        BY <4>1 DEF fetched
      <4>3. newestKind(k).group = lastEntry(k).group /\ newestKind(k).version = lastEntry(k).version
        OBVIOUS
      <4> HIDE DEF newestKind
      <4> QED
        BY <3>3, <4>2, <4>3
    <3>4. CASE ~lastEntry(k).restPath
      BY <3>1, <3>4 DEF fetched
    <3> QED
      BY <3>3, <3>4
  <2>4. fetched(k) = served(k) \cap newest(k)
    BY <2>1, <2>2, <2>3
  <2>5. \A gv \in newest(k) :
          Describes(latest(k), [group |-> gv[1], version |-> gv[2], kind |-> k])
    BY <2>1, <2>2
  <2>6. ASSUME NEW g \in Groups, NEW v \in VersionTexts
        PROVE  latest(k) = original(g, v, k) <=> <<g, v>> \in served(k) \cap newest(k)
    <3>1. CASE <<g, v>> \notin served(k)
      BY <1>2, <2>2, <3>1, DocsAssumption
    <3>2. CASE <<g, v>> \in served(k) /\ <<g, v>> # last
      <4>1. Describes(original(g, v, k), [group |-> g, version |-> v, kind |-> k])
        BY <1>2, <3>2
      <4>2. g # lastEntry(k).group \/ v # lastEntry(k).version
        BY <3>2
      <4>3. latest(k) # original(g, v, k)
        BY <2>2, <4>1, <4>2 DEF Describes
      <4> QED
        BY <2>1, <3>2, <4>3
    <3>3. CASE <<g, v>> \in served(k) /\ <<g, v>> = last
      <4>1. g = lastEntry(k).group /\ v = lastEntry(k).version /\ lastEntry(k).restPath
        BY <2>2, <3>3
      <4>2. original(g, v, k) = latest(k)
        <5>1. [group |-> g, version |-> v, kind |-> k] \in fetchLatestKinds
          BY <1>5, <4>1 DEF fetchLatestKinds
        <5>2. \A f \in fetchLatestKinds : original(f.group, f.version, f.kind) = latest(f.kind)
          BY FetchedAtLatest DEF FetchedIsCurrent
        <5> QED
          BY <5>1, <5>2
      <4> QED
        BY <2>1, <3>3, <4>2
    <3> QED
      BY <3>1, <3>2, <3>3
  <2>7. latest(k) # NoComponent
    BY <2>2, DocsAssumption
  <2>8. \A g \in Groups, v \in VersionTexts :
          latest(k) \notin {NoComponent, original(g, v, k)}
            <=> newest(k) # {} /\ <<g, v>> \notin served(k) \cap newest(k)
    BY <2>1, <2>6, <2>7
  <2> QED
    BY <1>3, <2>1, <2>4, <2>5, <2>8
<1> QED
  BY <1>4, <1>5

-----------------------------------------------------------------------------
\* Every reachable state of the construction is well typed.
THEOREM TypesCorrect == Spec => []TypeOK
<1>1. IInv => TypeOK
  BY DEF IInv
<1> QED
  BY <1>1, SpecIInv, PTL

\* The finished index supports an apiVersion of a kind exactly when the document
\* describes it and can create it, for every document and every order of its maps
\* (K8sSchemaParser.go 233-332).
THEOREM SupportIsTheDocuments == Spec => []SupportMatchesDocument
<1>1. IInv => SupportMatchesDocument
  <2> SUFFICES ASSUME IInv, pc = "ready", NEW g \in Groups, NEW v \in VersionTexts,
                      NEW k \in Kinds
               PROVE  IsVersionSupported(g, v, k)
                        <=> SupportedByDocument([group |-> g, version |-> v, kind |-> k])
    BY DEF SupportMatchesDocument
  <2> QED
    BY MatchesExact DEF IsVersionSupported
<1> QED
  BY <1>1, SpecIInv, PTL

\* The component an object is validated with is one the document gives for the object's
\* own apiVersion and kind, and there is none exactly when the document has no such pair
\* (Validator.go 204-227).
THEOREM MappingMatchesDocument == Spec => []MappingIsFaithful
BY OriginalExact, SpecIInv, PTL

\* What is fetched from a cluster of the release is supported there and is not told to
\* move: of the entries that match, original and latest take the same one
\* (K8sSchemaParser.go 295-315, Validator.go 204-233).
THEOREM FetchedStaysCurrent == Spec => []FetchedIsCurrent
BY FetchedAtLatest, SpecIInv, PTL

\* Of a kind with canonical version texts the recommended component is described by the
\* document and no version of the kind is newer, because compareVersion is then the
\* order the sort needs (K8sSchemaParser.go 286-291, Util.go 85-161).
THEOREM LatestIsTheNewest == Spec => []LatestIsNewest
<1>1. IInv => LatestIsNewest
  <2> SUFFICES ASSUME IInv, pc = "ready", NEW k \in Kinds, CanonicalKind(k),
                      NEW c \in Components, NEW g \in Groups, NEW v \in VersionTexts,
                      Describes(c, [group |-> g, version |-> v, kind |-> k])
               PROVE  /\ latest(k) \in Components
                      /\ \E gg \in Groups, w \in VersionTexts :
                           /\ Describes(latest(k), [group |-> gg, version |-> w, kind |-> k])
                           /\ ~compareVersion(w, v)
    BY DEF LatestIsNewest
  <2> DEFINE s == kindInfoMap[k]
             n == Len(s)
             V == {w \in VersionTexts : \E cc \in Components, gg \in Groups :
                     Describes(cc, [group |-> gg, version |-> w, kind |-> k])}
  <2>1. s \in Seq(KindInfo) /\ n \in Nat /\ DOMAIN s = 1..n
    BY DEF IInv, TypeOK
  <2>2. ASSUME NEW i \in DOMAIN s
        PROVE  /\ s[i].component \in Components /\ s[i].group \in Groups
               /\ s[i].version \in V
               /\ Describes(s[i].component,
                            [group |-> s[i].group, version |-> s[i].version, kind |-> k])
    <3>1. s[i].group \in Groups /\ s[i].version \in VersionTexts
      <4>1. s[i] \in KindInfo
        BY <2>1
      <4> QED
        BY <4>1 DEF KindInfo
    <3>2. /\ s[i].component \in Components
          /\ Describes(s[i].component,
                       [group |-> s[i].group, version |-> s[i].version, kind |-> k])
      BY <3>1, FinishedEntries
    <3> QED
      BY <3>1, <3>2
  <2>3. PICK i \in DOMAIN s : s[i].version = v
    <3>1. PICK i \in DOMAIN s : s[i] = Entry(c, [group |-> g, version |-> v, kind |-> k])
      BY FinishedEntries
    <3> QED
      BY <3>1 DEF Entry
  <2>4. n \in DOMAIN s /\ i <= n /\ s # <<>>
    BY <2>1, <2>3
  <2>5. InOrder(s)
    <3>1. V \in SUBSET Versions({w.text : w \in VersionTexts}) /\ Canonical(V)
      BY DocsAssumption DEF CanonicalKind, DescribedVersions
    <3>2. StrictWeakOrder(V)
      BY <3>1, CanonicalSortable
    <3>3. VersionsOf(s) \subseteq V
      BY <2>2 DEF VersionsOf
    <3> HIDE DEF V
    <3>4. StrictWeakOrder(VersionsOf(s))
      BY <3>2, <3>3 DEF StrictWeakOrder
    <3> QED
      BY <3>4 DEF IInv, SortedSoFar
  <2>6. ~compareVersion(s[n].version, v)
    <3>1. CASE i < n
      BY <2>3, <2>4, <2>5, <3>1 DEF InOrder
    <3>2. CASE i = n
      BY <2>3, <3>2 DEF compareVersion
    <3> QED
      BY <2>1, <2>4, <3>1, <3>2
  <2>7. latest(k) = s[n].component
    BY <2>4 DEF latest, lastEntry
  <2> QED
    BY <2>2, <2>4, <2>6, <2>7
<1> QED
  BY <1>1, SpecIInv, PTL

\* What module Validation keeps of an index is exact: comparing the apiVersions of a
\* catalog decides what the code decides on components, and a supported kind has a latest
\* one (Validator.go 60-95 and 204-233).
THEOREM CatalogsAreFaithful == Spec => []CatalogIsFaithful
BY CatalogExact, SpecIInv, PTL

\* The sort has panicked only in the index of a kind with two versions that panic.
PanicSound == pc = "panic" => \E k \in Kinds : ~NoPanic(VersionsOf(kindInfoMap[k]))

\* Every version of an entry is one the document describes for the kind.
LEMMA EntryDescribed ==
    ASSUME IInv, NEW k \in Kinds, NEW v \in VersionsOf(kindInfoMap[k])
    PROVE  v \in DescribedVersions(k)
<1>1. PICK i \in DOMAIN kindInfoMap[k] : v = kindInfoMap[k][i].version
  BY DEF VersionsOf
<1>2. PICK c \in Added, gvk \in GVK :
        Describes(c, gvk) /\ gvk.kind = k /\ kindInfoMap[k][i] = Entry(c, gvk)
  BY DEF IInv, EntriesSound
<1>3. c \in Components
  BY DEF Added
<1>4. v = gvk.version /\ gvk.version \in VersionTexts /\ gvk.group \in Groups
  BY <1>1, <1>2 DEF Entry, GVK
<1>5. gvk = [group |-> gvk.group, version |-> v, kind |-> k]
  BY <1>2, <1>4 DEF GVK
<1> QED
  BY <1>2, <1>3, <1>4, <1>5 DEF DescribedVersions

\* The construction of the index panics only for a document that itself gives a kind two
\* versions to compare, one of which has no "v" (K8sSchemaParser.go 286-289, Util.go
\* 163-166).
THEOREM PanicsAreUnmatched == Spec => []PanicsOnlyUnmatched
<1>1. Init => PanicSound
  BY DEF Init, PanicSound
<1>2. PanicSound /\ [Next]_vars => PanicSound'
  <2> SUFFICES ASSUME PanicSound, [Next]_vars, pc' = "panic"
               PROVE  \E k \in Kinds : ~NoPanic(VersionsOf(kindInfoMap[k]))'
    BY DEF PanicSound
  <2>1. CASE \E k \in Kinds : SortPanics(k)
    <3>1. PICK k \in Kinds : SortPanics(k)
      BY <2>1
    <3>2. ~NoPanic(VersionsOf(kindInfoMap[k])) /\ kindInfoMap' = kindInfoMap
      BY <3>1 DEF SortPanics
    <3> QED
      BY <3>2
  <2>2. CASE UNCHANGED vars
    <3>1. pc = "panic" /\ kindInfoMap' = kindInfoMap
      BY <2>2 DEF vars
    <3> QED
      BY <3>1 DEF PanicSound
  <2>3. CASE Next /\ ~\E k \in Kinds : SortPanics(k)
    BY <2>3 DEF Next, BuildPath, StartSchemas, AddSchema, StartSort, SortKind, Finish
  <2> QED
    BY <2>1, <2>2, <2>3
<1>3. IInv /\ PanicSound => PanicsOnlyUnmatched
  <2> SUFFICES ASSUME IInv, PanicSound, pc = "panic"
               PROVE  \E k \in Kinds : \E v, w \in DescribedVersions(k) :
                        v # w /\ v.extension = w.extension /\ ~v.matches
    BY DEF PanicsOnlyUnmatched
  <2>1. PICK k \in Kinds : ~NoPanic(VersionsOf(kindInfoMap[k]))
    BY DEF PanicSound
  <2>2. PICK l, r \in VersionsOf(kindInfoMap[k]) : comparePanics(l, r)
    BY <2>1 DEF NoPanic
  <2>3. l \in DescribedVersions(k) /\ r \in DescribedVersions(k)
    BY EntryDescribed
  <2>4. l # r /\ l.extension = r.extension /\ (~l.matches \/ ~r.matches)
    BY <2>2 DEF comparePanics
  <2> QED
    BY <2>3, <2>4
<1> QED
  BY <1>1, <1>2, <1>3, SpecIInv, PTL DEF Spec
=============================================================================
