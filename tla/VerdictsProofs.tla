---------------------------- MODULE VerdictsProofs --------------------------
(***************************************************************************)
(* What loading, validating, judging and reporting keep, for every set of  *)
(* releases, catalogs and objects. The proofs about both kinds of run rest *)
(* on it.                                                                  *)
(***************************************************************************)
EXTENDS Report, TLAPS

VersionMapOK == versionMap \in [Releases -> Catalogs \cup {NotLoaded}]
CacheOK      == apiVersionKindCache \in [ApiVersions \X Kinds -> Answers]

JudgingTypes ==
    /\ VersionMapOK
    /\ CacheOK
    /\ results \in Seq(Result)
    /\ at \in 1..(Len(results) + 1)

\* Every answer in the cache is the one catalog cat gives.
CacheSound(cat) ==
    \A key \in ApiVersions \X Kinds :
        apiVersionKindCache[key] # "absent" =>
            (apiVersionKindCache[key] = "supported" <=> key \in Served[cat])

LatestJudged(r, cat) ==
    r.isVersionSupported = IF <<migratesTo(r), r.kind>> \in Served[cat] THEN 1 ELSE 2

\* What holds of the results while the loop is at one of them.
JudgedSoFar(cat) ==
    /\ pc = "judgeLatest" =>
         \A i \in DOMAIN results : i < at => JudgedBy(results[i], cat)
    /\ pc = "judgeCurrent" =>
         /\ at \in DOMAIN results
         /\ \A i \in DOMAIN results : i < at => JudgedBy(results[i], cat)
         /\ LatestJudged(results[at], cat)
    /\ pc = "emit" => \A i \in DOMAIN results : JudgedBy(results[i], cat)

-----------------------------------------------------------------------------
\* A load keeps versionMap well typed, and an entry it finds is left alone. When it
\* returns without error the release is loaded (K8sSchemaParser.go 71-103).
LEMMA LoadFromUrlKeeps ==
    ASSUME CheckerAssumption, VersionMapOK, NEW r \in Releases, NEW ok \in BOOLEAN,
           LoadFromUrl(r, FALSE, ok)
    PROVE  /\ VersionMapOK'
           /\ \A q \in Releases : versionMap[q] # NotLoaded => versionMap'[q] = versionMap[q]
           /\ ok => versionMap'[r] \in Catalogs
<1>1. CASE versionMap[r] # NotLoaded
  BY <1>1 DEF LoadFromUrl, VersionMapOK
<1>2. CASE versionMap[r] = NotLoaded /\ ok
  <2>1. PICK c \in Published[r] : versionMap' = [versionMap EXCEPT ![r] = c]
    BY <1>2 DEF LoadFromUrl
  <2>2. c \in Catalogs
    BY DEF CheckerAssumption
  <2> QED
    BY <1>2, <2>1, <2>2 DEF VersionMapOK
<1>3. CASE versionMap[r] = NotLoaded /\ ~ok
  BY <1>3 DEF LoadFromUrl, VersionMapOK
<1> QED
  BY <1>1, <1>2, <1>3

LEMMA LoadFromPathKeeps ==
    ASSUME CheckerAssumption, VersionMapOK, NEW r \in Releases, NEW ok \in BOOLEAN,
           NEW location \in Locations, LoadFromPath(r, location, FALSE, ok)
    PROVE  /\ VersionMapOK'
           /\ \A q \in Releases : versionMap[q] # NotLoaded => versionMap'[q] = versionMap[q]
           /\ ok => versionMap'[r] \in Catalogs
<1>1. CASE versionMap[r] # NotLoaded
  BY <1>1 DEF LoadFromPath, VersionMapOK
<1>2. CASE versionMap[r] = NotLoaded
  <2>1. Stored[location] \in Catalogs \cup {NotLoaded}
    BY DEF CheckerAssumption
  <2>2. /\ ok = (Stored[location] # NotLoaded)
        /\ versionMap' = [versionMap EXCEPT ![r] =
                            IF ok THEN Stored[location] ELSE versionMap[r]]
    BY <1>2 DEF LoadFromPath
  <2>3. CASE ok
    BY <1>2, <2>1, <2>2, <2>3 DEF VersionMapOK
  <2>4. CASE ~ok
    BY <1>2, <2>2, <2>4 DEF VersionMapOK
  <2> QED
    BY <2>3, <2>4
<1> QED
  BY <1>1, <1>2

\* Validating an object yields a well-formed result, also where the object names an
\* apiVersion the catalog does not have (Validator.go 50-128).
LEMMA ValidateObjectType ==
    ASSUME CheckerAssumption, NEW cat \in Catalogs, NEW d \in Docs
    PROVE  ValidateObject(cat, d) \in Result
<1>1. Manifest[d] \in Object
  BY DEF CheckerAssumption
<1>2. /\ Manifest[d].api \in ApiVersions
      /\ Manifest[d].kind \in Kinds
      /\ Manifest[d].schema \in [Catalogs -> [Apis -> SchemaOutcome]]
  BY <1>1 DEF Object
<1>3. original(cat, d) \in ApiVersions
  BY <1>2 DEF original, ApiVersions
<1>4. latest(cat, d) \in ApiVersions
  BY <1>2 DEF latest, CheckerAssumption
<1>5. Clean \in SchemaOutcome
  BY DEF Clean, SchemaOutcome
<1>6. ASSUME NEW a \in Apis
      PROVE  applySchema(cat, d, a) \in SchemaOutcome
  BY <1>2 DEF applySchema
<1>7. atOriginal(cat, d) \in SchemaOutcome
  <2>1. CASE original(cat, d) # NoApi
    <3>1. original(cat, d) \in Apis
      BY <1>3, <2>1 DEF ApiVersions
    <3> QED
      BY <1>6, <2>1, <3>1 DEF atOriginal
  <2>2. CASE original(cat, d) = NoApi
    BY <1>5, <2>2 DEF atOriginal
  <2> QED
    BY <2>1, <2>2
<1>8. atLatest(cat, d) \in SchemaOutcome
  <2>1. CASE moves(cat, d)
    <3>1. latest(cat, d) \in Apis
      BY <1>4, <2>1 DEF ApiVersions, moves
    <3> QED
      BY <1>6, <2>1, <3>1 DEF atLatest
  <2>2. CASE ~moves(cat, d)
    BY <1>5, <2>2 DEF atLatest
  <2> QED
    BY <2>1, <2>2
<1>9. (IF moves(cat, d) THEN latest(cat, d) ELSE NoApi) \in ApiVersions
  BY <1>4 DEF ApiVersions
<1>10. /\ atOriginal(cat, d).errors \in SUBSET Error
       /\ atOriginal(cat, d).deprecations \in SUBSET Keys
       /\ atLatest(cat, d).errors \in SUBSET Error
       /\ atLatest(cat, d).deprecations \in SUBSET Keys
  BY <1>7, <1>8 DEF SchemaOutcome
<1> QED
  BY <1>2, <1>9, <1>10 DEF ValidateObject, Result

-----------------------------------------------------------------------------
\* With the target loaded a look-up answers from its catalog, keeps the cache sound
\* and loads nothing (kubedd.go 76-100).
LEMMA LookUpSound ==
    ASSUME CheckerAssumption, JudgingTypes,
           NEW t \in Releases, versionMap[t] # NotLoaded, CacheSound(versionMap[t]),
           NEW api \in ApiVersions, NEW kind \in Kinds, LookUp(api, kind, t)
    PROVE  /\ versionMap' = versionMap
           /\ CacheOK'
           /\ CacheSound(versionMap[t])'
           /\ Found(api, kind) <=> <<api, kind>> \in Served[versionMap[t]]
<1> DEFINE key == <<api, kind>>
<1>1. key \in ApiVersions \X Kinds
  OBVIOUS
<1>2. CASE apiVersionKindCache[key] # "absent"
  <2>1. versionMap' = versionMap /\ apiVersionKindCache' = apiVersionKindCache
    BY <1>2 DEF LookUp, CacheKey
  <2> QED
    BY <1>1, <1>2, <2>1 DEF CacheSound, Found, CacheKey, JudgingTypes, CacheOK
<1>3. CASE apiVersionKindCache[key] = "absent"
  <2>1. PICK ok \in BOOLEAN :
          /\ LoadFromUrl(t, FALSE, ok)
          /\ apiVersionKindCache' = [apiVersionKindCache EXCEPT ![key] =
               IF IsVersionSupported(ok, versionMap'[t], api, kind)
               THEN "supported" ELSE "unsupported"]
    BY <1>3 DEF LookUp, CacheKey
  <2>2. ok /\ versionMap' = versionMap
    BY <2>1 DEF LoadFromUrl
  <2>3. apiVersionKindCache' = [apiVersionKindCache EXCEPT ![key] =
          IF key \in Served[versionMap[t]] THEN "supported" ELSE "unsupported"]
    BY <2>1, <2>2 DEF IsVersionSupported
  <2>4. apiVersionKindCache \in [ApiVersions \X Kinds -> Answers]
    BY DEF JudgingTypes, CacheOK
  <2>5. CacheOK'
    BY <2>3, <2>4 DEF CacheOK, Answers
  <2>6. apiVersionKindCache'[key] = "supported" <=> key \in Served[versionMap[t]]
    BY <1>1, <2>3, <2>4
  <2>7. \A other \in ApiVersions \X Kinds :
          other # key => apiVersionKindCache'[other] = apiVersionKindCache[other]
    BY <2>3, <2>4
  <2>8. CacheSound(versionMap[t])'
    BY <2>2, <2>6, <2>7 DEF CacheSound
  <2> QED
    BY <2>2, <2>5, <2>6, <2>8 DEF Found, CacheKey
<1> QED
  BY <1>2, <1>3

\* Writing the verdicts into a result leaves it a result.
LEMMA VerdictsStayInResult ==
    ASSUME NEW r \in Result
    PROVE  /\ [r EXCEPT !.isVersionSupported = 1] \in Result
           /\ [r EXCEPT !.isVersionSupported = 2, !.deleted = TRUE] \in Result
<1>1. [r EXCEPT !.isVersionSupported = 1] \in Result
  BY DEF Result
<1>2. [r EXCEPT !.isVersionSupported = 2] \in Result
  BY DEF Result
<1>3. PICK a \in Result : a = [r EXCEPT !.isVersionSupported = 2]
  BY <1>2
<1>4. [a EXCEPT !.deleted = TRUE] \in Result
  BY DEF Result
<1> QED
  BY <1>1, <1>3, <1>4

\* The first half of the loop body judges the apiVersion a result would migrate to and
\* leaves what it is about alone (kubedd.go 75-88).
LEMMA JudgeLatestStep ==
    ASSUME CheckerAssumption, JudgingTypes,
           NEW t \in Releases, versionMap[t] # NotLoaded, CacheSound(versionMap[t]),
           JudgedSoFar(versionMap[t]), JudgeLatest(t)
    PROVE  /\ versionMap' = versionMap
           /\ JudgingTypes'
           /\ CacheSound(versionMap[t])'
           /\ JudgedSoFar(versionMap[t])'
<1> DEFINE r == results[at]
<1>1. pc = "judgeLatest" /\ at \in DOMAIN results /\ pc' = "judgeCurrent" /\ at' = at
  BY DEF JudgeLatest
<1>2. results \in Seq(Result) /\ r \in Result
  BY <1>1 DEF JudgingTypes
<1>3. migratesTo(r) \in ApiVersions /\ r.kind \in Kinds
  BY <1>2 DEF Result, migratesTo
<1>4. LookUp(migratesTo(r), r.kind, t)
  BY DEF JudgeLatest
<1>5. /\ versionMap' = versionMap
      /\ CacheOK'
      /\ CacheSound(versionMap[t])'
      /\ Found(migratesTo(r), r.kind) <=> <<migratesTo(r), r.kind>> \in Served[versionMap[t]]
  BY <1>3, <1>4, LookUpSound
<1> DEFINE new == IF Found(migratesTo(r), r.kind)
                  THEN [r EXCEPT !.isVersionSupported = 1]
                  ELSE [r EXCEPT !.isVersionSupported = 2, !.deleted = TRUE]
<1>6. results' = [results EXCEPT ![at] = new]
  BY DEF JudgeLatest
<1>7. new \in Result
  BY <1>2, VerdictsStayInResult
<1>8. LatestJudged(new, versionMap[t])
  <2>1. new.api = r.api /\ new.kind = r.kind /\ new.latestAPIVersion = r.latestAPIVersion
    BY <1>2 DEF Result
  <2>2. migratesTo(new) = migratesTo(r)
    BY <2>1 DEF migratesTo
  <2>3. new.isVersionSupported = IF Found(migratesTo(r), r.kind) THEN 1 ELSE 2
    BY <1>2 DEF Result
  <2> HIDE DEF new
  <2> QED
    BY <1>5, <2>1, <2>2, <2>3 DEF LatestJudged
<1> HIDE DEF new
<1>9. /\ results' \in Seq(Result)
      /\ Len(results') = Len(results)
      /\ DOMAIN results' = DOMAIN results
      /\ results'[at] = new
      /\ \A i \in DOMAIN results : i < at => results'[i] = results[i]
  BY <1>1, <1>2, <1>6, <1>7
<1>10. JudgingTypes'
  BY <1>1, <1>5, <1>9 DEF JudgingTypes, VersionMapOK
<1>11. JudgedSoFar(versionMap[t])'
  BY <1>1, <1>5, <1>8, <1>9 DEF JudgedSoFar
<1> QED
  BY <1>5, <1>10, <1>11

\* The second half judges the apiVersion a result has. It writes deleted again and
\* keeps the first half's answer in isVersionSupported (kubedd.go 89-101).
LEMMA JudgeCurrentStep ==
    ASSUME CheckerAssumption, JudgingTypes,
           NEW t \in Releases, versionMap[t] # NotLoaded, CacheSound(versionMap[t]),
           JudgedSoFar(versionMap[t]), JudgeCurrent(t)
    PROVE  /\ versionMap' = versionMap
           /\ JudgingTypes'
           /\ CacheSound(versionMap[t])'
           /\ JudgedSoFar(versionMap[t])'
<1> DEFINE r == results[at]
<1>1. pc = "judgeCurrent" /\ at \in DOMAIN results /\ pc' = "judgeLatest" /\ at' = at + 1
  BY DEF JudgeCurrent, JudgedSoFar, nextResult
<1>2. results \in Seq(Result) /\ r \in Result
  BY <1>1 DEF JudgingTypes
<1>3. r.api \in ApiVersions /\ r.kind \in Kinds
  BY <1>2 DEF Result
<1>4. LookUp(r.api, r.kind, t)
  BY DEF JudgeCurrent
<1>5. /\ versionMap' = versionMap
      /\ CacheOK'
      /\ CacheSound(versionMap[t])'
      /\ Found(r.api, r.kind) <=> <<r.api, r.kind>> \in Served[versionMap[t]]
  BY <1>3, <1>4, LookUpSound
<1>6. PICK b \in BOOLEAN : b <=> <<r.api, r.kind>> \notin Served[versionMap[t]]
  OBVIOUS
<1> DEFINE new == [r EXCEPT !.deleted = b]
<1>7. results' = [results EXCEPT ![at] = new]
  <2>1. results' = [results EXCEPT ![at] = [r EXCEPT !.deleted = deletedByTarget(r)]]
    BY DEF JudgeCurrent
  <2>2. deletedByTarget(r) = b
    BY <1>5, <1>6 DEF deletedByTarget
  <2> QED
    BY <2>1, <2>2
<1>8. new \in Result
  BY <1>2 DEF Result
<1>9. JudgedBy(new, versionMap[t])
  <2>1. /\ new.api = r.api /\ new.kind = r.kind /\ new.latestAPIVersion = r.latestAPIVersion
        /\ new.isVersionSupported = r.isVersionSupported
    BY <1>2 DEF Result
  <2>2. new.deleted <=> <<r.api, r.kind>> \notin Served[versionMap[t]]
    BY <1>2, <1>6 DEF Result
  <2>3. LatestJudged(r, versionMap[t])
    BY <1>1 DEF JudgedSoFar
  <2>4. migratesTo(new) = migratesTo(r)
    BY <2>1 DEF migratesTo
  <2> HIDE DEF new
  <2> QED
    BY <2>1, <2>2, <2>3, <2>4 DEF LatestJudged, JudgedBy
<1> HIDE DEF new
<1>10. /\ results' \in Seq(Result)
       /\ Len(results') = Len(results)
       /\ DOMAIN results' = DOMAIN results
       /\ results'[at] = new
       /\ \A i \in DOMAIN results : i < at => results'[i] = results[i]
  BY <1>1, <1>2, <1>7, <1>8
<1>11. JudgingTypes'
  BY <1>1, <1>2, <1>5, <1>10 DEF JudgingTypes, VersionMapOK
<1>12. JudgedSoFar(versionMap[t])'
  <2>1. \A i \in DOMAIN results : i < at + 1 => i < at \/ i = at
    BY <1>1, <1>2
  <2>2. \A i \in DOMAIN results : i < at => JudgedBy(results[i], versionMap[t])
    BY <1>1 DEF JudgedSoFar
  <2>3. \A i \in DOMAIN results' : i < at' => JudgedBy(results'[i], versionMap[t])
    BY <1>1, <1>9, <1>10, <2>1, <2>2
  <2> QED
    BY <1>1, <1>5, <2>3 DEF JudgedSoFar
<1> QED
  BY <1>5, <1>11, <1>12

\* Filtering null errors touches no verdict (kubedd.go 103-121).
LEMMA FilterStep ==
    ASSUME JudgingTypes, NEW cat, JudgedSoFar(cat),
           NEW ignoreNull \in BOOLEAN, FilterNullErrors(ignoreNull)
    PROVE  /\ versionMap' = versionMap
           /\ JudgingTypes'
           /\ apiVersionKindCache' = apiVersionKindCache
           /\ JudgedSoFar(cat)'
<1> DEFINE filtered(r) == [r EXCEPT !.errorsForLatest = Kept(@, ignoreNull),
                                    !.errorsForOriginal = Kept(@, ignoreNull)]
<1>1. /\ pc = "judgeLatest" /\ at \notin DOMAIN results /\ pc' = "emit" /\ at' = at
      /\ versionMap' = versionMap /\ apiVersionKindCache' = apiVersionKindCache
      /\ results' = [i \in DOMAIN results |-> filtered(results[i])]
  BY DEF FilterNullErrors
<1>2. results \in Seq(Result) /\ at \in 1..(Len(results) + 1)
  BY DEF JudgingTypes
<1>3. ASSUME NEW r \in Result
      PROVE  /\ filtered(r) \in Result
             /\ filtered(r).api = r.api /\ filtered(r).kind = r.kind
             /\ filtered(r).latestAPIVersion = r.latestAPIVersion
             /\ filtered(r).isVersionSupported = r.isVersionSupported
  BY DEF Result, Kept
<1>4. ASSUME NEW r \in Result
      PROVE  filtered(r).deleted = r.deleted
  BY DEF Result, Kept
<1>5. ASSUME NEW r \in Result, JudgedBy(r, cat)
      PROVE  JudgedBy(filtered(r), cat)
  <2> HIDE DEF filtered
  <2>1. migratesTo(filtered(r)) = migratesTo(r)
    BY <1>3 DEF migratesTo
  <2> QED
    BY <1>3, <1>4, <1>5, <2>1 DEF JudgedBy
<1> HIDE DEF filtered
<1>6. results' \in Seq(Result) /\ Len(results') = Len(results) /\ DOMAIN results' = DOMAIN results
  BY <1>1, <1>2, <1>3
<1>7. at = Len(results) + 1
  BY <1>1, <1>2
<1>8. \A i \in DOMAIN results : JudgedBy(results[i], cat)
  BY <1>1, <1>2, <1>7 DEF JudgedSoFar
<1>9. \A i \in DOMAIN results' : JudgedBy(results'[i], cat)
  BY <1>1, <1>2, <1>5, <1>6, <1>8
<1>10. JudgingTypes'
  BY <1>1, <1>2, <1>6 DEF JudgingTypes, VersionMapOK, CacheOK
<1> QED
  BY <1>1, <1>9, <1>10 DEF JudgedSoFar

-----------------------------------------------------------------------------
(***************************************************************************)
(* What judging leaves alone: all that validation has found.               *)
(***************************************************************************)
\* Everything but the two verdicts and the errors.
SameFinding(r, q) ==
    /\ r.doc = q.doc /\ r.api = q.api /\ r.kind = q.kind
    /\ r.deprecated = q.deprecated
    /\ r.latestAPIVersion = q.latestAPIVersion
    /\ r.deprecationForOriginal = q.deprecationForOriginal
    /\ r.deprecationForLatest = q.deprecationForLatest

\* r is what catalog cat says of its object, without the null errors if those are ignored.
FoundIn(r, cat, ignoreNull) ==
    /\ SameFinding(r, ValidateObject(cat, r.doc))
    /\ r.errorsForOriginal = Kept(ValidateObject(cat, r.doc).errorsForOriginal, ignoreNull)
    /\ r.errorsForLatest = Kept(ValidateObject(cat, r.doc).errorsForLatest, ignoreNull)

AllFoundIn(cat, ignoreNull) ==
    \A i \in DOMAIN results : FoundIn(results[i], cat, ignoreNull)

LEMMA FreshIsFound ==
    ASSUME NEW cat, NEW d
    PROVE  FoundIn(ValidateObject(cat, d), cat, FALSE)
<1>1. \A E : Kept(E, FALSE) = E
  BY DEF Kept
<1>2. PICK v : v = ValidateObject(cat, d)
  OBVIOUS
<1>3. v.doc = d
  BY <1>2 DEF ValidateObject
<1> QED
  BY <1>1, <1>2, <1>3 DEF FoundIn, SameFinding

\* Either half of the loop body writes into one result, and only its verdicts
\* (kubedd.go 75-101).
LEMMA JudgingKeepsFindings ==
    ASSUME JudgingTypes, NEW t, JudgeLatest(t) \/ JudgeCurrent(t), at \in DOMAIN results
    PROVE  /\ DOMAIN results' = DOMAIN results
           /\ \A i \in DOMAIN results :
                /\ SameFinding(results'[i], results[i])
                /\ results'[i].errorsForOriginal = results[i].errorsForOriginal
                /\ results'[i].errorsForLatest = results[i].errorsForLatest
<1> DEFINE Same(r, q) == /\ SameFinding(r, q)
                         /\ r.errorsForOriginal = q.errorsForOriginal
                         /\ r.errorsForLatest = q.errorsForLatest
<1>1. results \in Seq(Result)
  BY DEF JudgingTypes
<1>2. results[at] \in Result
  BY <1>1
<1>3. PICK new : results' = [results EXCEPT ![at] = new] /\ Same(new, results[at])
  <2>1. CASE JudgeLatest(t)
    <3> DEFINE r == results[at]
    <3>1. Same([r EXCEPT !.isVersionSupported = 1], r)
      BY <1>2 DEF Result, SameFinding
    <3>2. Same([r EXCEPT !.isVersionSupported = 2, !.deleted = TRUE], r)
      BY <1>2 DEF Result, SameFinding
    <3>3. results' = [results EXCEPT ![at] =
                        IF Found(migratesTo(r), r.kind)
                        THEN [r EXCEPT !.isVersionSupported = 1]
                        ELSE [r EXCEPT !.isVersionSupported = 2, !.deleted = TRUE]]
      BY <2>1 DEF JudgeLatest
    <3> QED
      BY <3>1, <3>2, <3>3
  <2>2. CASE JudgeCurrent(t)
    <3> DEFINE r == results[at]
    <3>1. results' = [results EXCEPT ![at] = [r EXCEPT !.deleted = deletedByTarget(r)]]
      BY <2>2 DEF JudgeCurrent
    <3>2. \A b : Same([r EXCEPT !.deleted = b], r)
      BY <1>2 DEF Result, SameFinding
    <3> QED
      BY <3>1, <3>2
  <2> QED
    BY <2>1, <2>2
<1>4. \A r : Same(r, r)
  BY DEF SameFinding
<1> HIDE DEF Same
<1>5. DOMAIN results' = DOMAIN results
  BY <1>1, <1>3
<1>6. \A i \in DOMAIN results : Same(results'[i], results[i])
  BY <1>1, <1>3, <1>4
<1> QED
  BY <1>5, <1>6 DEF Same

\* Filtering takes null errors away, if they are ignored, and nothing else
\* (kubedd.go 103-121).
LEMMA FilterKeepsFindings ==
    ASSUME JudgingTypes, NEW cat, AllFoundIn(cat, FALSE),
           NEW ignoreNull \in BOOLEAN, FilterNullErrors(ignoreNull)
    PROVE  AllFoundIn(cat, ignoreNull)' /\ DocsOf(results)' = DocsOf(results)
<1> DEFINE filtered(r) == [r EXCEPT !.errorsForLatest = Kept(@, ignoreNull),
                                    !.errorsForOriginal = Kept(@, ignoreNull)]
<1>1. results' = [i \in DOMAIN results |-> filtered(results[i])]
  BY DEF FilterNullErrors
<1>2. \A i \in DOMAIN results : results[i] \in Result
  BY DEF JudgingTypes
<1>3. ASSUME NEW r \in Result
      PROVE  /\ SameFinding(filtered(r), r)
             /\ filtered(r).errorsForOriginal = Kept(r.errorsForOriginal, ignoreNull)
             /\ filtered(r).errorsForLatest = Kept(r.errorsForLatest, ignoreNull)
  <2>1. SameFinding(filtered(r), r)
    BY DEF Result, SameFinding
  <2>2. filtered(r).errorsForOriginal = Kept(r.errorsForOriginal, ignoreNull)
    BY DEF Result
  <2>3. filtered(r).errorsForLatest = Kept(r.errorsForLatest, ignoreNull)
    BY DEF Result
  <2> QED
    BY <2>1, <2>2, <2>3
<1>4. \A E : Kept(E, FALSE) = E
  BY DEF Kept
<1> HIDE DEF filtered
<1>5. ASSUME NEW r \in Result, FoundIn(r, cat, FALSE)
      PROVE  FoundIn(filtered(r), cat, ignoreNull)
  <2>1. filtered(r).doc = r.doc
    BY <1>3 DEF SameFinding
  <2>2. PICK v : v = ValidateObject(cat, r.doc)
    OBVIOUS
  <2>3. SameFinding(filtered(r), v)
    BY <1>3, <1>5, <2>2 DEF FoundIn, SameFinding
  <2>4. r.errorsForOriginal = v.errorsForOriginal /\ r.errorsForLatest = v.errorsForLatest
    BY <1>4, <1>5, <2>2 DEF FoundIn
  <2>5. PICK q : q = filtered(r)
    OBVIOUS
  <2>6. FoundIn(q, cat, ignoreNull)
    BY <1>3, <2>1, <2>2, <2>3, <2>4, <2>5 DEF FoundIn
  <2> QED
    BY <2>5, <2>6
<1>6. AllFoundIn(cat, ignoreNull)'
  BY <1>1, <1>2, <1>5 DEF AllFoundIn
<1>7. DocsOf(results)' = DocsOf(results)
  BY <1>1, <1>2, <1>3 DEF DocsOf, SameFinding
<1> QED
  BY <1>6, <1>7

\* The same of the two halves of the loop body.
LEMMA JudgingKeepsFound ==
    ASSUME JudgingTypes, NEW t, JudgeLatest(t) \/ JudgeCurrent(t), at \in DOMAIN results,
           NEW cat, NEW ignoreNull, AllFoundIn(cat, ignoreNull)
    PROVE  AllFoundIn(cat, ignoreNull)' /\ DocsOf(results)' = DocsOf(results)
<1>1. /\ DOMAIN results' = DOMAIN results
      /\ \A i \in DOMAIN results :
           /\ SameFinding(results'[i], results[i])
           /\ results'[i].errorsForOriginal = results[i].errorsForOriginal
           /\ results'[i].errorsForLatest = results[i].errorsForLatest
  BY JudgingKeepsFindings
<1>2. ASSUME NEW i \in DOMAIN results
      PROVE  FoundIn(results'[i], cat, ignoreNull)
  <2>1. results'[i].doc = results[i].doc
    BY <1>1 DEF SameFinding
  <2>2. PICK v : v = ValidateObject(cat, results[i].doc)
    OBVIOUS
  <2>3. FoundIn(results[i], cat, ignoreNull)
    BY DEF AllFoundIn
  <2>4. SameFinding(results'[i], v)
    BY <1>1, <2>2, <2>3 DEF FoundIn, SameFinding
  <2> QED
    BY <1>1, <2>1, <2>2, <2>3, <2>4 DEF FoundIn
<1>3. DocsOf(results)' = DocsOf(results)
  BY <1>1 DEF DocsOf, SameFinding
<1> QED
  BY <1>1, <1>2, <1>3 DEF AllFoundIn

\* A result is nothing but its fields.
LEMMA ResultsEqual ==
    ASSUME NEW r \in Result, NEW q \in Result, SameFinding(r, q),
           r.errorsForOriginal = q.errorsForOriginal, r.errorsForLatest = q.errorsForLatest,
           r.deleted = q.deleted, r.isVersionSupported = q.isVersionSupported
    PROVE  r = q
BY DEF Result, SameFinding

\* What the source found and the target judged is the verdict of the two.
LEMMA FoundAndJudged ==
    ASSUME CheckerAssumption, NEW source \in Catalogs, NEW target, NEW r \in Result,
           NEW ignoreNull, FoundIn(r, source, ignoreNull), JudgedBy(r, target)
    PROVE  r = Verdict(r.doc, source, target, ignoreNull)
<1>1. PICK v : v = ValidateObject(source, r.doc)
  OBVIOUS
<1>2. r.doc \in Docs
  BY DEF Result
<1>3. v \in Result
  BY <1>1, <1>2, ValidateObjectType
<1>4. SameFinding(r, v)
  BY <1>1 DEF FoundIn
<1>5. migratesTo(r) = migratesTo(v)
  BY <1>4 DEF SameFinding, migratesTo
<1>6. PICK b \in BOOLEAN : b <=> <<v.api, v.kind>> \notin Served[target]
  OBVIOUS
<1>7. PICK n : n = IF <<migratesTo(v), v.kind>> \in Served[target] THEN 1 ELSE 2
  OBVIOUS
<1>8. PICK o : o = Kept(v.errorsForOriginal, ignoreNull)
  OBVIOUS
<1>9. PICK l : l = Kept(v.errorsForLatest, ignoreNull)
  OBVIOUS
<1>10. Verdict(r.doc, source, target, ignoreNull) =
         [v EXCEPT !.deleted = b, !.isVersionSupported = n,
                   !.errorsForOriginal = o, !.errorsForLatest = l]
  BY <1>1, <1>6, <1>7, <1>8, <1>9 DEF Verdict
<1>11. /\ r.deleted = b
       /\ r.isVersionSupported = n
       /\ r.errorsForOriginal = o
       /\ r.errorsForLatest = l
  <2>1. r.isVersionSupported = n
    BY <1>4, <1>5, <1>7 DEF JudgedBy, SameFinding
  <2>2. r.deleted <=> b
    BY <1>4, <1>6 DEF JudgedBy, SameFinding
  <2>3. r.deleted \in BOOLEAN
    BY DEF Result
  <2>4. r.errorsForOriginal = o /\ r.errorsForLatest = l
    BY <1>1, <1>8, <1>9 DEF FoundIn
  <2> QED
    BY <2>1, <2>2, <2>3, <2>4
<1> DEFINE w == [v EXCEPT !.deleted = b, !.isVersionSupported = n,
                          !.errorsForOriginal = o, !.errorsForLatest = l]
<1>12. o \in SUBSET Error /\ l \in SUBSET Error /\ n \in 0..2
  BY <1>3, <1>7, <1>8, <1>9 DEF Result, Kept
<1>13. w \in Result
  BY <1>3, <1>12 DEF Result
<1>14. SameFinding(w, v)
  BY <1>3 DEF Result, SameFinding
<1>15. /\ w.deleted = b /\ w.isVersionSupported = n
       /\ w.errorsForOriginal = o /\ w.errorsForLatest = l
  BY <1>3 DEF Result
<1> HIDE DEF w
<1>16. SameFinding(r, w)
  BY <1>4, <1>14 DEF SameFinding
<1>17. r = w
  BY <1>11, <1>13, <1>15, <1>16, ResultsEqual
<1> QED
  BY <1>10, <1>17 DEF w

\* One result more is about one object more.
LEMMA DocsOfAppend ==
    ASSUME NEW rs \in Seq(Result), NEW r \in Result
    PROVE  /\ DocsOf(rs) \in Seq(Docs)
           /\ DocsOf(Append(rs, r)) = Append(DocsOf(rs), r.doc)
<1>1. ASSUME NEW i \in DOMAIN rs
      PROVE  rs[i].doc \in Docs
  <2>1. rs[i] \in Result
    OBVIOUS
  <2> QED
    BY <2>1 DEF Result
<1>2. DocsOf(rs) \in Seq(Docs) /\ Len(DocsOf(rs)) = Len(rs)
  BY <1>1 DEF DocsOf
<1>3. \A i \in 1..(Len(rs) + 1) : i \in 1..Len(rs) \/ i = Len(rs) + 1
  OBVIOUS
<1> DEFINE new == Append(rs, r)
<1>4. /\ DOMAIN new = 1..(Len(rs) + 1)
      /\ new[Len(rs) + 1] = r
      /\ \A i \in 1..Len(rs) : new[i] = rs[i]
  OBVIOUS
<1> HIDE DEF new
<1>5. PICK docs : docs = DocsOf(rs)
  OBVIOUS
<1>6. /\ docs \in Seq(Docs) /\ Len(docs) = Len(rs)
      /\ \A i \in 1..Len(rs) : docs[i] = rs[i].doc
  BY <1>2, <1>5 DEF DocsOf
<1>7. DocsOf(new) = [i \in 1..(Len(rs) + 1) |-> new[i].doc]
  BY <1>4 DEF DocsOf
<1>8. Append(docs, r.doc) = [i \in 1..(Len(rs) + 1) |-> IF i = Len(rs) + 1 THEN r.doc ELSE docs[i]]
  BY <1>6
<1>9. \A i \in 1..(Len(rs) + 1) :
        new[i].doc = IF i = Len(rs) + 1 THEN r.doc ELSE docs[i]
  BY <1>3, <1>4, <1>6
<1>10. DocsOf(new) = Append(docs, r.doc)
  BY <1>7, <1>8, <1>9
<1> QED
  BY <1>2, <1>5, <1>10 DEF new

\* Loading by release or from a file keeps every entry that is there.
LEMMA LoadKeeps ==
    ASSUME VersionMapOK, NEW r \in Releases, NEW ok \in BOOLEAN,
           NEW location \in Locations \cup {NoLocation}, Load(r, location, ok)
    PROVE  /\ VersionMapOK'
           /\ \A q \in Releases : versionMap[q] # NotLoaded => versionMap'[q] = versionMap[q]
           /\ ok => versionMap'[r] \in Catalogs
<1>1. CASE location = NoLocation
  BY <1>1, LoadFromUrlKeeps, CheckerAssumption DEF Load
<1>2. CASE location # NoLocation
  BY <1>2, LoadFromPathKeeps, CheckerAssumption DEF Load
<1> QED
  BY <1>1, <1>2

\* main.go filters with two lists that are always empty, so it reports what Validate
\* returns (main.go 49-50, 200-246).
LEMMA NoKeyIsIgnored ==
    ASSUME NEW rs \in Seq(Result)
    PROVE  removeIgnoredKeys(rs) = rs
<1> DEFINE kept(r) ==
             [r EXCEPT
                !.deprecationForOriginal = @ \ ignoreKeysFromDeprecation,
                !.deprecationForLatest = @ \ ignoreKeysFromDeprecation,
                !.errorsForOriginal = {e \in @ : e.key \notin ignoreKeysFromValidation},
                !.errorsForLatest = {e \in @ : e.key \notin ignoreKeysFromValidation}]
<1>1. ASSUME NEW r \in Result
      PROVE  kept(r) = r
  <2>1. \A E : E \ ignoreKeysFromDeprecation = E
    BY DEF ignoreKeysFromDeprecation
  <2>2. \A E : {e \in E : e.key \notin ignoreKeysFromValidation} = E
    BY DEF ignoreKeysFromValidation
  <2>3. kept(r) \in Result
    BY DEF Result
  <2>4. SameFinding(kept(r), r)
    BY <2>1 DEF Result, SameFinding
  <2>5. kept(r).errorsForOriginal = r.errorsForOriginal
    BY <2>2 DEF Result
  <2>6. kept(r).errorsForLatest = r.errorsForLatest
    BY <2>2 DEF Result
  <2>7. kept(r).deleted = r.deleted /\ kept(r).isVersionSupported = r.isVersionSupported
    BY DEF Result
  <2> QED
    BY <2>3, <2>4, <2>5, <2>6, <2>7, ResultsEqual
<1>2. removeIgnoredKeys(rs) = [i \in DOMAIN rs |-> kept(rs[i])]
  BY DEF removeIgnoredKeys
<1> HIDE DEF kept
<1>3. \A i \in DOMAIN rs : kept(rs[i]) = rs[i]
  BY <1>1
<1> QED
  BY <1>2, <1>3

\* The reported results are the verdicts of the two catalogs on their objects.
LEMMA ReportedAreVerdicts ==
    ASSUME CheckerAssumption, results \in Seq(Result), NEW source \in Catalogs, NEW target,
           NEW ignoreNull, AllFoundIn(source, ignoreNull),
           \A i \in DOMAIN results : JudgedBy(results[i], target)
    PROVE  removeIgnoredKeys(results) =
             [i \in DOMAIN DocsOf(results) |->
                Verdict(DocsOf(results)[i], source, target, ignoreNull)]
<1>1. removeIgnoredKeys(results) = results
  BY NoKeyIsIgnored
<1>2. ASSUME NEW i \in DOMAIN results
      PROVE  results[i] = Verdict(DocsOf(results)[i], source, target, ignoreNull)
  <2>1. results[i] \in Result
    OBVIOUS
  <2>2. FoundIn(results[i], source, ignoreNull) /\ JudgedBy(results[i], target)
    BY DEF AllFoundIn
  <2> QED
    BY <2>1, <2>2, FoundAndJudged DEF DocsOf
<1>3. DOMAIN DocsOf(results) = DOMAIN results
  BY DEF DocsOf
<1> QED
  BY <1>1, <1>2, <1>3

\* Dropping ignored keys and printing leave well-formed results (main.go 150-156, 200-246).
LEMMA BulkType ==
    ASSUME NEW rs \in Seq(Result), NEW format \in Formats
    PROVE  PutBulk(format, removeIgnoredKeys(rs)) \in Bulk
<1>1. PICK new \in Seq(Result) : new = rs /\ removeIgnoredKeys(rs) = new
  BY NoKeyIsIgnored
<1>2. \A r : section(r) \in Sections
  BY DEF section, Sections
<1> DEFINE sections == [i \in DOMAIN new |-> IF printsBulk(format) THEN section(new[i])
                                              ELSE "none"]
<1>3. sections \in Seq(Sections)
  BY <1>1, <1>2 DEF Sections
<1>4. [i \in DOMAIN new |-> IF sections[i] \in Summarised THEN migrationStatus(new[i])
                            ELSE "none"] \in Seq(Statuses)
  <2>1. \A r : migrationStatus(r) \in Statuses
    BY DEF migrationStatus, Statuses
  <2> QED
    BY <1>1, <2>1 DEF Statuses
<1>5. [i \in DOMAIN new |-> rowsOf(new, sections, i)] \in Seq(SUBSET (Tables \X Keys))
  <2>1. ASSUME NEW i \in DOMAIN new
        PROVE  rowsOf(new, sections, i) \subseteq Tables \X Keys
    <3>1. new[i] \in Result
      BY <1>1, <2>1
    <3>2. sections[i] \in Sections
      BY <1>2, <2>1 DEF Sections
    <3>3. TablesOf[sections[i]] \subseteq Tables
      BY <3>2 DEF TablesOf, Sections, Tables, ErrorTables
    <3>4. ASSUME NEW table \in Tables
          PROVE  places(new[i], table) \subseteq Keys
      BY <3>1 DEF places, Tables, ErrorTables, Result, Error
    <3>5. ASSUME NEW table \in Tables
          PROVE  rowKeys(new, sections, i, table) \subseteq Keys
      BY <3>4 DEF rowKeys
    <3>6. ASSUME NEW row \in rowsOf(new, sections, i)
          PROVE  row \in Tables \X Keys
      <4>1. PICK table \in TablesOf[sections[i]] : row \in {table} \X rowKeys(new, sections, i, table)
        BY <3>6 DEF rowsOf
      <4> HIDE DEF sections
      <4>2. table \in Tables /\ rowKeys(new, sections, i, table) \subseteq Keys
        BY <3>3, <3>5
      <4> QED
        BY <4>1, <4>2
    <3> QED
      BY <3>6
  <2> HIDE DEF sections
  <2> QED
    BY <1>1, <2>1
<1>6. (printsBulk(format) /\ new # <<>> /\ \A i \in DOMAIN new : section(new[i]) = "none")
        \in BOOLEAN
  OBVIOUS
<1> QED
  BY <1>1, <1>3, <1>4, <1>5, <1>6 DEF PutBulk, Bulk

-----------------------------------------------------------------------------
(***************************************************************************)
(* What a printed bulk says, of results two catalogs have given.           *)
(***************************************************************************)
Printed(bulk, format, source, target, ignoreNull) ==
    \E rs \in Seq(Result) :
      /\ bulk = PutBulk(format, rs)
      /\ \A i \in DOMAIN rs : FoundIn(rs[i], source, ignoreNull) /\ JudgedBy(rs[i], target)

\* An object with no apiVersion to move to has no finding under one (Validator.go 85-128).
LEMMA NoMoveNoErrors ==
    ASSUME NEW source, NEW ignoreNull, NEW r, FoundIn(r, source, ignoreNull)
    PROVE  IF r.latestAPIVersion = NoApi
           THEN r.errorsForLatest = {}
           ELSE r.errorsForLatest =
                  Kept(applySchema(source, r.doc, r.latestAPIVersion).errors, ignoreNull)
<1>1. /\ r.latestAPIVersion = IF moves(source, r.doc) THEN latest(source, r.doc) ELSE NoApi
      /\ r.errorsForLatest = Kept(atLatest(source, r.doc).errors, ignoreNull)
  BY DEF FoundIn, SameFinding, ValidateObject
<1>2. CASE moves(source, r.doc)
  BY <1>1, <1>2 DEF moves, atLatest
<1>3. CASE ~moves(source, r.doc)
  BY <1>1, <1>3 DEF atLatest, Clean, Kept
<1> QED
  BY <1>2, <1>3

\* A table of a result's section has all its places below the root.
LEMMA TableHasPlaces ==
    ASSUME NEW rs, NEW sections, NEW i \in DOMAIN rs, NEW table \in TablesOf[sections[i]]
    PROVE  {table} \X (places(rs[i], table) \ {Root}) \subseteq rowsOf(rs, sections, i)
<1> SUFFICES ASSUME NEW k \in places(rs[i], table) \ {Root}
             PROVE  <<table, k>> \in rowsOf(rs, sections, i)
  OBVIOUS
<1>1. ~(places(rs[i], table) \subseteq {Root})
  OBVIOUS
<1>2. k \in rowKeys(rs, sections, i, table)
  BY <1>1 DEF rowKeys
<1>3. <<table, k>> \in {table} \X rowKeys(rs, sections, i, table)
  BY <1>2
<1> QED
  BY <1>3 DEF rowsOf

LEMMA PrintedErrorsHaveRows ==
    ASSUME NEW bulk, NEW format, printsBulk(format), NEW source, NEW target, NEW ignoreNull,
           Printed(bulk, format, source, target, ignoreNull), NEW i \in DOMAIN bulk.results
    PROVE  LET r == bulk.results[i]
               has(table) == {table} \X (places(r, table) \ {Root}) \subseteq bulk.rows[i]
           IN  /\ has("latestErrors")
               /\ bulk.sections[i] \in {"newer", "unchanged"}
                    \/ (bulk.sections[i] = "deprecated") => has("currentErrors")
<1>1. PICK rs \in Seq(Result) :
        /\ bulk = PutBulk(format, rs)
        /\ \A j \in DOMAIN rs : FoundIn(rs[j], source, ignoreNull) /\ JudgedBy(rs[j], target)
  BY DEF Printed
<1>2. PICK sections : sections = [j \in DOMAIN rs |-> section(rs[j])]
  OBVIOUS
<1>3. /\ bulk.results = rs /\ bulk.sections = sections
      /\ bulk.rows = [j \in DOMAIN rs |-> rowsOf(rs, sections, j)]
  BY <1>1, <1>2 DEF PutBulk
<1> DEFINE r == rs[i]
           has(table) == {table} \X (places(r, table) \ {Root}) \subseteq bulk.rows[i]
<1>4. i \in DOMAIN rs /\ sections[i] = section(r) /\ section(r) \in Sections
  BY <1>2, <1>3 DEF section, Sections
<1>5. ASSUME NEW table \in TablesOf[section(r)]
      PROVE  has(table)
  BY <1>3, <1>4, TableHasPlaces
<1>6. has("latestErrors")
  <2>1. CASE section(r) \in {"removed", "deprecated", "newer"}
    <3>1. "latestErrors" \in TablesOf[section(r)]
      BY <2>1 DEF TablesOf, Tables, ErrorTables
    <3> QED
      BY <1>5, <3>1
  <2>2. CASE section(r) \in {"unchanged", "none"}
    <3>1. r.latestAPIVersion = NoApi
      BY <2>2 DEF section
    <3>2. r.errorsForLatest = {}
      BY <1>1, <1>4, <3>1, NoMoveNoErrors
    <3>3. places(r, "latestErrors") = {e.key : e \in r.errorsForLatest}
      BY DEF places
    <3> QED
      BY <3>2, <3>3
  <2> QED
    BY <1>4, <2>1, <2>2 DEF Sections
<1>7. section(r) \in {"newer", "unchanged", "deprecated"} => has("currentErrors")
  <2> SUFFICES ASSUME section(r) \in {"newer", "unchanged", "deprecated"}
               PROVE  has("currentErrors")
    OBVIOUS
  <2>1. "currentErrors" \in TablesOf[section(r)]
    BY DEF TablesOf, Tables, ErrorTables
  <2> QED
    BY <1>5, <2>1
<1> QED
  BY <1>3, <1>4, <1>6, <1>7

LEMMA PrintedRemovals ==
    ASSUME NEW bulk, NEW format, printsBulk(format), NEW source, NEW target, NEW ignoreNull,
           Printed(bulk, format, source, target, ignoreNull), NEW i \in DOMAIN bulk.results
    PROVE  bulk.sections[i] = "removed"
             <=> <<bulk.results[i].api, bulk.results[i].kind>> \notin Served[target]
<1>1. PICK rs \in Seq(Result) :
        /\ bulk = PutBulk(format, rs)
        /\ \A j \in DOMAIN rs : FoundIn(rs[j], source, ignoreNull) /\ JudgedBy(rs[j], target)
  BY DEF Printed
<1>2. bulk.results = rs /\ bulk.sections[i] = section(rs[i]) /\ i \in DOMAIN rs
  BY <1>1 DEF PutBulk
<1>3. JudgedBy(rs[i], target)
  BY <1>1, <1>2
<1>4. section(rs[i]) = "removed" <=> rs[i].deleted
  BY DEF section
<1> QED
  BY <1>2, <1>3, <1>4 DEF JudgedBy

LEMMA PrintedJustApiVersion ==
    ASSUME NEW bulk, NEW format, NEW source, NEW target, NEW ignoreNull,
           Printed(bulk, format, source, target, ignoreNull), NEW i \in DOMAIN bulk.results,
           bulk.statuses[i] = "justApiVersion"
    PROVE  LET r == bulk.results[i]
           IN  /\ <<r.latestAPIVersion, r.kind>> \in Served[target]
               /\ Kept(applySchema(source, r.doc, r.latestAPIVersion).errors, ignoreNull) = {}
<1>1. PICK rs \in Seq(Result) :
        /\ bulk = PutBulk(format, rs)
        /\ \A j \in DOMAIN rs : FoundIn(rs[j], source, ignoreNull) /\ JudgedBy(rs[j], target)
  BY DEF Printed
<1> DEFINE r == rs[i]
           shown == IF printsBulk(format) THEN section(r) ELSE "none"
<1>2. /\ bulk.results = rs /\ i \in DOMAIN rs
      /\ bulk.statuses[i] = IF shown \in Summarised THEN migrationStatus(r) ELSE "none"
  BY <1>1 DEF PutBulk
<1>3. FoundIn(r, source, ignoreNull) /\ JudgedBy(r, target)
  BY <1>1, <1>2
<1>4. section(r) \in Summarised /\ migrationStatus(r) = "justApiVersion"
  BY <1>2 DEF Summarised
<1>5. r.isVersionSupported # 2 /\ r.errorsForLatest = {}
  BY <1>4 DEF migrationStatus
<1>6. <<migratesTo(r), r.kind>> \in Served[target]
  BY <1>3, <1>5 DEF JudgedBy
<1>7. r.latestAPIVersion # NoApi
  <2> SUFFICES ASSUME r.latestAPIVersion = NoApi
               PROVE  FALSE
    OBVIOUS
  <2>1. r.deleted
    BY <1>4 DEF section, Summarised
  <2>2. <<r.api, r.kind>> \notin Served[target]
    BY <1>3, <2>1 DEF JudgedBy
  <2> QED
    BY <1>6, <2>2 DEF migratesTo
<1>8. r.errorsForLatest = Kept(applySchema(source, r.doc, r.latestAPIVersion).errors, ignoreNull)
  BY <1>3, <1>7, NoMoveNoErrors
<1> QED
  BY <1>2, <1>5, <1>6, <1>7, <1>8 DEF migratesTo
=============================================================================
