------------------------------ MODULE KindIndex -----------------------------
(***************************************************************************)
(* newKubeSpec (pkg/K8sSchemaParser.go): the index of kinds built from one *)
(* OpenAPI document, and the questions asked of it. For every kind the     *)
(* index lists its group/versions, the newest last, with the component     *)
(* that holds the schema and whether an object of it can be created.       *)
(*                                                                         *)
(* Paths, components and kinds are visited in the order of Go's map        *)
(* iteration, which is any order. A kind stands for its lower-case name.   *)
(* Of a rest path only its presence is read, so it is a BOOLEAN.           *)
(***************************************************************************)
EXTENDS VersionOrder, Sequences, Functions

CONSTANTS
    Kinds,          \* kind names, in lower case
    Groups,         \* API groups
    VersionTexts,   \* the versions that occur, records of VersionOrder
    Components,     \* keys of components.schemas
    Urls,           \* keys of paths
    NoMethod,       \* a path without a POST, or without a PUT, operation
    NoComponent,    \* the empty component key
    OpenAPIDocs     \* the documents the index may be built from

GVK == [group : Groups, version : VersionTexts, kind : Kinds]

\* The value of an x-kubernetes-group-version-kind extension: the list of what it
\* names. A single object is a list of one; a missing or malformed one is empty.
Annotation == Seq(GVK)
Method     == Annotation \cup {NoMethod}
Path       == [url : Urls, post : Method, put : Method]
OpenAPIDoc == [paths : SUBSET Path, schemas : [Components -> Annotation]]
KindInfo   == [component : Components, group : Groups, version : VersionTexts,
               restPath : BOOLEAN]

ASSUME DocsAssumption ==
    /\ VersionTexts \subseteq Versions({v.text : v \in VersionTexts})
    /\ OpenAPIDocs \subseteq OpenAPIDoc
    /\ NoMethod \notin Annotation
    /\ NoComponent \notin Components

VARIABLES
    doc,          \* the document the index is built from
    pc,           \* the loop being run: "paths", "schemas", "sort", or how it ended
    todo,         \* what that loop has not visited yet
    pathMap,      \* the GVKs that buildGVKRestPathMap found a path for
    kindInfoMap   \* kind -> its entries

vars == <<doc, pc, todo, pathMap, kindInfoMap>>

-----------------------------------------------------------------------------
\* Faulty variant: a list of several GVKs counts as its first.
parseGVKFirst(annotation) == IF annotation = <<>> THEN {} ELSE {annotation[1]}

\* The GVK an annotation names, as a set of at most one: a list of several is an error.
parseGVK(annotation) == IF Len(annotation) = 1 THEN {annotation[1]} ELSE {}

method(p) == IF p.post # NoMethod THEN p.post ELSE p.put

pathGVK(p) == IF method(p) = NoMethod THEN {} ELSE parseGVK(method(p))

\* Faulty variant: a rest path of another group's version counts too.
hasRestPathAnyGroup(gvk) ==
    \E h \in pathMap : h.version = gvk.version /\ h.kind = gvk.kind

hasRestPath(gvk) == gvk \in pathMap

\* Faulty variant: the kind is stored as the group.
EntryByKind(c, gvk) ==
    [component |-> c, group |-> gvk.kind, version |-> gvk.version,
     restPath |-> hasRestPath(gvk)]

Entry(c, gvk) ==
    [component |-> c, group |-> gvk.group, version |-> gvk.version,
     restPath |-> hasRestPath(gvk)]

-----------------------------------------------------------------------------
(***************************************************************************)
(* Building the index.                                                     *)
(***************************************************************************)
Init ==
    /\ doc \in OpenAPIDocs
    /\ pc = "paths"
    /\ todo = doc.paths
    /\ pathMap = {}
    /\ kindInfoMap = [k \in Kinds |-> <<>>]

BuildPath(p) ==
    /\ pc = "paths"
    /\ p \in todo
    /\ todo' = todo \ {p}
    /\ pathMap' = pathMap \cup pathGVK(p)
    /\ UNCHANGED <<doc, pc, kindInfoMap>>

StartSchemas ==
    /\ pc = "paths"
    /\ todo = {}
    /\ pc' = "schemas"
    /\ todo' = Components
    /\ UNCHANGED <<doc, pathMap, kindInfoMap>>

AddSchema(c) ==
    /\ pc = "schemas"
    /\ c \in todo
    /\ todo' = todo \ {c}
    /\ kindInfoMap' = [k \in Kinds |->
         IF \E g \in parseGVK(doc.schemas[c]) : g.kind = k
         THEN Append(kindInfoMap[k], Entry(c, doc.schemas[c][1]))
         ELSE kindInfoMap[k]]
    /\ UNCHANGED <<doc, pc, pathMap>>

StartSort ==
    /\ pc = "schemas"
    /\ todo = {}
    /\ pc' = "sort"
    /\ todo' = {k \in Kinds : kindInfoMap[k] # <<>>}
    /\ UNCHANGED <<doc, pathMap, kindInfoMap>>

VersionsOf(s) == {s[i].version : i \in DOMAIN s}

\* Faulty variant: the newest version comes first.
InOrderDescending(s) ==
    \A i, j \in DOMAIN s : i < j => ~compareVersion(s[i].version, s[j].version)

InOrder(s) ==
    \A i, j \in DOMAIN s : i < j => ~compareVersion(s[j].version, s[i].version)

\* What sort.Slice may leave: a permutation, and an ordered one when its less is a
\* strict weak order. Versions that tie end up in any order.
SortOutcomes(s) ==
    {t \in {[i \in DOMAIN s |-> s[p[i]]] : p \in Bijection(DOMAIN s, DOMAIN s)} :
        StrictWeakOrder(VersionsOf(s)) => InOrder(t)}

SortKind(k) ==
    /\ pc = "sort"
    /\ k \in todo
    /\ todo' = todo \ {k}
    /\ \E s \in SortOutcomes(kindInfoMap[k]) : kindInfoMap' = [kindInfoMap EXCEPT ![k] = s]
    /\ UNCHANGED <<doc, pc, pathMap>>

\* A comparison indexes a match that is not there.
SortPanics(k) ==
    /\ pc = "sort"
    /\ k \in todo
    /\ ~NoPanic(VersionsOf(kindInfoMap[k]))
    /\ pc' = "panic"
    /\ UNCHANGED <<doc, todo, pathMap, kindInfoMap>>

Finish ==
    /\ pc = "sort"
    /\ todo = {}
    /\ pc' = "ready"
    /\ UNCHANGED <<doc, todo, pathMap, kindInfoMap>>

Next ==
    \/ \E p \in doc.paths : BuildPath(p)
    \/ StartSchemas
    \/ \E c \in Components : AddSchema(c)
    \/ StartSort
    \/ \E k \in Kinds : SortKind(k) \/ SortPanics(k)
    \/ Finish

Spec == Init /\ [][Next]_vars

-----------------------------------------------------------------------------
(***************************************************************************)
(* The questions asked of a finished index.                                *)
(***************************************************************************)
Matches(g, v, k) ==
    {i \in DOMAIN kindInfoMap[k] : /\ kindInfoMap[k][i].group = g
                                   /\ kindInfoMap[k][i].version = v
                                   /\ kindInfoMap[k][i].restPath}

IsVersionSupported(g, v, k) == Matches(g, v, k) # {}

\* Faulty variant: the loop stops at the first match.
originalFirst(g, v, k) ==
    IF Matches(g, v, k) = {} THEN NoComponent
    ELSE kindInfoMap[k][CHOOSE i \in Matches(g, v, k) :
                          \A j \in Matches(g, v, k) : i <= j].component

\* getKindsMappings: the loop over the entries keeps the last match ...
original(g, v, k) ==
    IF Matches(g, v, k) = {} THEN NoComponent
    ELSE kindInfoMap[k][CHOOSE i \in Matches(g, v, k) :
                          \A j \in Matches(g, v, k) : j <= i].component

\* ... and the latest is the last entry, with or without a rest path.
lastEntry(k) == kindInfoMap[k][Len(kindInfoMap[k])]

latest(k) == IF kindInfoMap[k] = <<>> THEN NoComponent ELSE lastEntry(k).component

fetchLatestKinds ==
    {[group |-> lastEntry(k).group, version |-> lastEntry(k).version, kind |-> k] :
        k \in {kind \in Kinds : kindInfoMap[kind] # <<>> /\ lastEntry(kind).restPath}}

-----------------------------------------------------------------------------
(***************************************************************************)
(* What the index promises.                                                *)
(***************************************************************************)
TypeOK ==
    /\ doc \in OpenAPIDocs
    /\ pc \in {"paths", "schemas", "sort", "ready", "panic"}
    /\ pc = "paths" => todo \subseteq doc.paths
    /\ pc = "schemas" => todo \subseteq Components
    /\ pc \in {"sort", "ready", "panic"} => todo \subseteq Kinds
    /\ pathMap \subseteq GVK
    /\ kindInfoMap \in [Kinds -> Seq(KindInfo)]

\* Read from the document alone: some component describes the GVK, and some path
\* creates or replaces it.
Describes(c, gvk) == doc.schemas[c] = <<gvk>>

Creates(p, gvk) ==
    \/ p.post = <<gvk>>
    \/ p.post = NoMethod /\ p.put = <<gvk>>

SupportedByDocument(gvk) ==
    /\ \E c \in Components : Describes(c, gvk)
    /\ \E p \in doc.paths : Creates(p, gvk)

\* Whatever the order of the map iterations and the sort, the finished index says an
\* apiVersion of a kind is supported exactly when the document describes it and has a
\* path that creates it (K8sSchemaParser.go 233-332).
SupportMatchesDocument ==
    pc = "ready" =>
      \A g \in Groups, v \in VersionTexts, k \in Kinds :
        IsVersionSupported(g, v, k)
          <=> SupportedByDocument([group |-> g, version |-> v, kind |-> k])

\* The component a validation uses for an object is one that the document gives for
\* the object's own apiVersion and kind (Validator.go 220-227).
MappingIsFaithful ==
    pc = "ready" =>
      \A g \in Groups, v \in VersionTexts, k \in Kinds :
        LET gvk == [group |-> g, version |-> v, kind |-> k]
        IN  IF SupportedByDocument(gvk)
            THEN /\ original(g, v, k) \in Components
                 /\ Describes(original(g, v, k), gvk)
            ELSE original(g, v, k) = NoComponent

DescribedVersions(k) ==
    {v \in VersionTexts : \E c \in Components, g \in Groups :
       Describes(c, [group |-> g, version |-> v, kind |-> k])}

CanonicalKind(k) == Canonical(DescribedVersions(k))

\* The component recommended as the latest of a kind is described by the document, and
\* no version of the kind is newer (Validator.go 228-230).
LatestIsNewest ==
    pc = "ready" =>
      \A k \in Kinds : CanonicalKind(k) =>
        \A c \in Components, g \in Groups, v \in VersionTexts :
          Describes(c, [group |-> g, version |-> v, kind |-> k]) =>
            /\ latest(k) \in Components
            /\ \E gg \in Groups, w \in VersionTexts :
                 /\ Describes(latest(k), [group |-> gg, version |-> w, kind |-> k])
                 /\ ~compareVersion(w, v)

\* An object fetched from a cluster of this release, at the apiVersion GetKinds asks
\* for, is supported there and is not told to move to another component, even when
\* several components describe its apiVersion (K8sSchemaParser.go 295-315).
FetchedIsCurrent ==
    pc = "ready" =>
      \A f \in fetchLatestKinds :
        /\ IsVersionSupported(f.group, f.version, f.kind)
        /\ original(f.group, f.version, f.kind) = latest(f.kind)

\* The sort ends the program only where the document itself gives one kind two versions
\* that are compared and one of them has no "v": neither a text without digits nor an
\* annotation that is passed over does (Util.go 163-166, K8sSchemaParser.go 286-289).
PanicsOnlyUnmatched ==
    pc = "panic" =>
      \E k \in Kinds : \E v, w \in DescribedVersions(k) :
        v # w /\ v.extension = w.extension /\ ~v.matches

(***************************************************************************)
(* The catalog that module Validation keeps of a finished index: of every  *)
(* kind the apiVersions it supports and the newest one.                    *)
(***************************************************************************)
served(k) == {gv \in Groups \X VersionTexts : IsVersionSupported(gv[1], gv[2], k)}

newest(k) ==
    IF kindInfoMap[k] = <<>> THEN {} ELSE {<<lastEntry(k).group, lastEntry(k).version>>}

fetched(k) == {<<f.group, f.version>> : f \in {h \in fetchLatestKinds : h.kind = k}}

\* A validation compares the components original and latest of an object, the catalog
\* compares apiVersions: the two agree, however many components share an apiVersion. A
\* supported kind has a newest apiVersion, which is the latest component's own; a result
\* has a latest apiVersion unless the object is at a supported newest one, and only that
\* one is fetched from a cluster (Validator.go 60-95 and 204-233, K8sSchemaParser.go
\* 295-332).
CatalogIsFaithful ==
    pc = "ready" =>
      \A k \in Kinds :
        /\ served(k) # {} => newest(k) # {}
        /\ fetched(k) = served(k) \cap newest(k)
        /\ \A gv \in newest(k) :
             Describes(latest(k), [group |-> gv[1], version |-> gv[2], kind |-> k])
        /\ \A g \in Groups, v \in VersionTexts :
             /\ original(g, v, k) # NoComponent <=> <<g, v>> \in served(k)
             /\ latest(k) \notin {NoComponent, original(g, v, k)}
                  <=> newest(k) # {} /\ <<g, v>> \notin served(k) \cap newest(k)
=============================================================================
