----------------------------- MODULE Validation -----------------------------
(***************************************************************************)
(* The validation of one object against one release (pkg/Validator.go) and *)
(* what the program makes of its result. Nothing here has a state.         *)
(*                                                                         *)
(* A loaded specification is a catalog: which apiVersion and kind pairs it *)
(* supports, the latest apiVersion of every kind, and what its schemas     *)
(* say of an object. Module KindIndex is how a catalog is built, module    *)
(* Visitor how a schema visits an object.                                  *)
(***************************************************************************)
EXTENDS Integers, Sequences

CONSTANTS
    Releases,     \* release versions, the key of versionMap
    Locations,    \* schema files that can be given instead of a release
    Apis, Kinds,  \* apiVersions (group/version) and kinds
    Keys,         \* places in an object an error or a deprecation points at
    Root,         \* the place that is the whole object: an empty pointer
    Docs,         \* the objects that can be validated
    Manifest,     \* what each of them is
    Catalogs,     \* specifications that can be loaded
    Served,       \* the <<apiVersion, kind>> pairs a catalog supports
    Latest,       \* the latest apiVersion of a kind in a catalog
    Published,    \* what a download of a release may deliver
    Stored,       \* what a schema file holds
    NoApi,        \* the empty apiVersion, also of an object that has none
    NotLoaded     \* no entry in versionMap; also a schema file that cannot be loaded

ApiVersions == Apis \cup {NoApi}

Error == [key : Keys, null : BOOLEAN]

\* What a schema says of an object: the errors, the deprecated places, and whether
\* the visit of the object panics (an array where the schema has no items).
SchemaOutcome ==
    [errors : SUBSET Error, deprecations : SUBSET Keys, panics : BOOLEAN]

\* fate says how populateValidationResult ends: with a result, with an error (no
\* kind, metadata or name, or text that is not an object), or in a panic (a
\* namespace that is not a string). A missing apiVersion is no error.
Object ==
    [fate : {"ok", "error", "panic"}, api : ApiVersions, kind : Kinds,
     schema : [Catalogs -> [Apis -> SchemaOutcome]]]

ASSUME CheckerAssumption ==
    /\ Root \in Keys
    /\ NoApi \notin Apis
    /\ NotLoaded \notin Catalogs
    /\ Manifest \in [Docs -> Object]
    /\ Served \in [Catalogs -> SUBSET (Apis \X Kinds)]
    /\ Latest \in [Catalogs -> [Kinds -> ApiVersions]]
    /\ Published \in [Releases -> SUBSET Catalogs]
    /\ Stored \in [Locations -> Catalogs \cup {NotLoaded}]

\* A kind with a supported apiVersion has entries, hence a latest one. It holds of every
\* index, as do the comparisons of apiVersions below: CatalogIsFaithful of KindIndex.
ASSUME LatestAssumption ==
    \A c \in Catalogs, a \in Apis, k \in Kinds :
        <<a, k>> \in Served[c] => Latest[c][k] # NoApi

-----------------------------------------------------------------------------
(***************************************************************************)
(* Validation of an object against a loaded catalog.                       *)
(***************************************************************************)
Clean == [errors |-> {}, deprecations |-> {}, panics |-> FALSE]

original(cat, d) ==
    IF <<Manifest[d].api, Manifest[d].kind>> \in Served[cat] THEN Manifest[d].api ELSE NoApi

latest(cat, d) == Latest[cat][Manifest[d].kind]

moves(cat, d) == latest(cat, d) # NoApi /\ original(cat, d) # latest(cat, d)

applySchema(cat, d, api) == Manifest[d].schema[cat][api]

atOriginal(cat, d) ==
    IF original(cat, d) # NoApi THEN applySchema(cat, d, original(cat, d)) ELSE Clean

atLatest(cat, d) ==
    IF moves(cat, d) THEN applySchema(cat, d, latest(cat, d)) ELSE Clean

Result ==
    [doc : Docs, api : ApiVersions, kind : Kinds,
     deleted : BOOLEAN, deprecated : BOOLEAN,
     latestAPIVersion : ApiVersions,
     errorsForOriginal : SUBSET Error, errorsForLatest : SUBSET Error,
     deprecationForOriginal : SUBSET Keys, deprecationForLatest : SUBSET Keys,
     isVersionSupported : 0..2]

ValidateObject(cat, d) ==
    [doc |-> d, api |-> Manifest[d].api, kind |-> Manifest[d].kind,
     deleted |-> original(cat, d) = NoApi /\ latest(cat, d) # NoApi,
     deprecated |-> atOriginal(cat, d).deprecations # {},
     latestAPIVersion |-> IF moves(cat, d) THEN latest(cat, d) ELSE NoApi,
     errorsForOriginal |-> atOriginal(cat, d).errors,
     errorsForLatest |-> atLatest(cat, d).errors,
     deprecationForOriginal |-> atOriginal(cat, d).deprecations,
     deprecationForLatest |-> atLatest(cat, d).deprecations,
     isVersionSupported |-> 0]

ValidationFails(d) == Manifest[d].fate = "error"

ValidationPanics(cat, d) ==
    \/ Manifest[d].fate = "panic"
    \/ Manifest[d].fate = "ok" /\ (atOriginal(cat, d).panics \/ atLatest(cat, d).panics)

-----------------------------------------------------------------------------
(***************************************************************************)
(* What becomes of a result.                                               *)
(***************************************************************************)
\* Faulty variant: the target is asked for the apiVersion the object has.
migratesToCurrent(r) == r.api

\* The apiVersion the target is asked for first.
migratesTo(r) == IF r.latestAPIVersion = NoApi THEN r.api ELSE r.latestAPIVersion

Kept(errors, ignoreNull) == {e \in errors : ~(ignoreNull /\ e.null)}

\* The verdicts on r are the answers of catalog cat: deleted is about the apiVersion
\* the object has, isVersionSupported about the one it would migrate to.
JudgedBy(r, cat) ==
    /\ r.deleted <=> <<r.api, r.kind>> \notin Served[cat]
    /\ r.isVersionSupported = IF <<migratesTo(r), r.kind>> \in Served[cat] THEN 1 ELSE 2

\* What the source copy says of an object, judged by the target copy.
Verdict(d, source, target, ignoreNull) ==
    LET v == ValidateObject(source, d)
    IN  [v EXCEPT
           !.deleted = <<v.api, v.kind>> \notin Served[target],
           !.isVersionSupported = IF <<migratesTo(v), v.kind>> \in Served[target] THEN 1 ELSE 2,
           !.errorsForOriginal = Kept(@, ignoreNull),
           !.errorsForLatest = Kept(@, ignoreNull)]

DocsOf(rs) == [i \in DOMAIN rs |-> rs[i].doc]
=============================================================================
