------------------------- MODULE ClusterCheckProofs -------------------------
(***************************************************************************)
(* The run against a cluster, for every cluster, configuration, set of     *)
(* releases and catalogs, and every answer of the cluster and the          *)
(* downloads.                                                              *)
(***************************************************************************)
EXTENDS ClusterCheck, VerdictsProofs, FiniteSetTheorems, SequenceTheorems,
        WellFoundedInduction

Fetching == {"map", "list"}
Early    == {"connect", "loadTarget", "serverVersion", "serverKinds", "targetKinds"} \cup Fetching
Judging  == {"judgeLatest", "judgeCurrent", "emit"}
Working  == {"serverKinds", "targetKinds", "objects", "flush"} \cup Fetching \cup Judging

\* What a run has printed by the time it ends, and that it has a cluster when it prints.
Ending ==
    /\ pc = "stopped" <=> exit # Running
    /\ pc \notin {"flush", "stopped"} => report = <<>>
    /\ pc = "flush" => Len(report) = 1
    /\ pc \in Working => connected
    /\ ZeroMeansReported

\* Where the catalogs in versionMap come from. Only the target may come from a file.
Versions ==
    /\ serverVersion \in {ServerRelease, conf.target}
    /\ \A r \in Releases : r # conf.target => versionMap[r] \in Published[r] \cup {NotLoaded}
    /\ pc \in {"connect", "loadTarget"} => versionMap[conf.target] = NotLoaded
    /\ pc \in Working \cup {"serverVersion"} => targetCatalog \in targets
    /\ results # <<>> => versionMap[serverVersion] # NotLoaded

OnePerKind(pairs) == \A p, q \in pairs : p[2] = q[2] => p = q

\* Nothing is there before its time, and no object is fetched under two apiVersions.
Fetched ==
    /\ pc \in Early => results = <<>>
    /\ pc \in Early \cup {"objects"} => at = 1 /\ apiVersionKindCache = EmptyCache
    /\ pc \in Early \ Fetching => toMap = {} /\ toList = {}
    /\ pc \in Early \ {"list"} => objects = {}
    /\ OnePerKind(toMap \cup toList)
    /\ pc = "list" => \A f \in objects, p \in toList : KindOf[f[1]] # p[2]
    /\ \A f, g \in objects : f[1] = g[1] => f = g
    /\ pc \in Judging => left = {}

\* Every result is of an object of its own that was fetched and is no more left.
Owned(docs, fetched, free) ==
    \E of \in [DOMAIN docs -> fetched \ free] :
      /\ \A i \in DOMAIN docs : docs[i] = docOf(of[i])
      /\ \A i, j \in DOMAIN docs : of[i] = of[j] => i = j

\* The results say what the server's copy says; its null errors go at the end.
Findings ==
    /\ pc \notin {"emit", "flush", "stopped"} => AllFoundIn(versionMap[serverVersion], FALSE)
    /\ pc = "emit" => AllFoundIn(versionMap[serverVersion], conf.ignoreNullErrors)

NoneLost ==
    serverVersion = conf.target /\ pc \in {"objects"} \cup Judging =>
      \A f \in objects \ left : ValidationFails(docOf(f)) \/ hasResult(f)

Verdicted ==
    /\ pc \in Judging => CacheSound(targetCatalog)
    /\ JudgedSoFar(targetCatalog)

\* The inductive invariant. The properties speak of the end of a run; what makes them
\* true is where catalogs, pairs and results come from on the way.
IInv ==
    /\ TypeOK
    /\ Ending
    /\ Versions
    /\ Fetched
    /\ Owned(DocsOf(results), objects, left)
    /\ Findings
    /\ NoneLost
    /\ Verdicted

-----------------------------------------------------------------------------
LEMMA TargetsAreCatalogs ==
    ASSUME conf \in Config
    PROVE  targets \subseteq Catalogs
BY CheckerAssumption DEF targets, Config

\* No result is of anything.
LEMMA NothingOwned ==
    ASSUME NEW fetched, NEW free
    PROVE  Owned(DocsOf(<<>>), fetched, free)
<1>1. PICK docs : docs = DocsOf(<<>>)
  OBVIOUS
<1>2. DOMAIN docs = {}
  BY <1>1 DEF DocsOf
<1>3. PICK of : of = [i \in {} |-> 1]
  OBVIOUS
<1>4. of \in [DOMAIN docs -> fetched \ free]
  BY <1>2, <1>3
<1>5. Owned(docs, fetched, free)
  BY <1>2, <1>4 DEF Owned
<1> QED
  BY <1>1, <1>5

LEMMA InitIInv == Init => IInv
<1> SUFFICES ASSUME Init PROVE IInv
  OBVIOUS
<1>1. conf \in Config
  BY ClusterAssumption DEF Init
<1>2. conf.target \in Releases
  BY <1>1 DEF Config
<1>3. TypeOK
  <2>1. /\ versionMap \in [Releases -> Catalogs \cup {NotLoaded}]
        /\ apiVersionKindCache \in [ApiVersions \X Kinds -> Answers]
    BY DEF Init, NewChecker, EmptyCache, Answers
  <2>2. results \in Seq(Result) /\ report \in Seq(Bulk) /\ at \in 1..(Len(results) + 1)
    BY DEF Init
  <2>3. pc \in States /\ exit \in {Running, 0, 1, Panicked}
    BY DEF Init, States
  <2> QED
    BY <1>1, <1>2, <2>1, <2>2, <2>3 DEF Init, TypeOK
<1>4. Ending
  BY DEF Init, Ending, ZeroMeansReported, Working, Fetching, Judging, Running
<1>5. Versions
  BY <1>2 DEF Init, Versions, NewChecker, Working, Fetching, Judging
<1>6. Fetched
  BY DEF Init, Fetched, OnePerKind, Early, Fetching, Judging
<1>7. Owned(DocsOf(results), objects, left)
  BY NothingOwned DEF Init
<1>8. Findings /\ NoneLost /\ Verdicted
  BY DEF Init, Findings, AllFoundIn, NoneLost, Verdicted, JudgedSoFar, Judging
<1> QED
  BY <1>3, <1>4, <1>5, <1>6, <1>7, <1>8 DEF IInv

\* After a step that leaves no results behind nothing is lost, owned or judged.
LEMMA NoResults ==
    ASSUME results' = <<>>, apiVersionKindCache' = EmptyCache,
           pc' # "judgeCurrent", objects' = left' \/ pc' \in Early \cup {"stopped"}
    PROVE  (Owned(DocsOf(results), objects, left) /\ Findings /\ NoneLost /\ Verdicted)'
<1>1. DOMAIN results' = {}
  OBVIOUS
<1>2. Owned(DocsOf(results'), objects', left')
  BY NothingOwned
<1>3. Owned(DocsOf(results), objects, left)'
  BY <1>2 DEF Owned
<1>4. Findings'
  BY <1>1 DEF Findings, AllFoundIn
<1>5. NoneLost'
  BY DEF NoneLost, Early, Fetching, Judging
<1>6. Verdicted'
  BY <1>1 DEF Verdicted, JudgedSoFar, CacheSound, EmptyCache
<1> QED
  BY <1>3, <1>4, <1>5, <1>6

LEMMA ConnectStep == IInv /\ Connect => IInv'
<1> SUFFICES ASSUME IInv, Connect
             PROVE  IInv'
  OBVIOUS
<1>1. /\ TypeOK /\ pc = "connect" /\ exit = Running /\ report = <<>> /\ results = <<>>
      /\ at = 1 /\ apiVersionKindCache = EmptyCache
      /\ toMap = {} /\ toList = {} /\ objects = {}
  BY DEF IInv, Connect, Ending, Fetched, Early, Fetching
<1>2. /\ UNCHANGED <<versionMap, serverVersion, toMap, toList, objects, left, results, at,
                     apiVersionKindCache, conf, report>>
      /\ \/ connected' \in BOOLEAN /\ pc' = "loadTarget" /\ exit' = Running
         \/ connected' = FALSE /\ pc' = "stopped" /\ exit' = Panicked
  BY <1>1 DEF Connect, judgeUnchanged, Goes, Stop
<1>3. TypeOK'
  BY <1>1, <1>2 DEF TypeOK, States, Running, Panicked
<1>4. Ending'
  BY <1>1, <1>2 DEF Ending, ZeroMeansReported, Working, Fetching, Judging, Running, Panicked
<1>5. Versions'
  BY <1>1, <1>2 DEF IInv, Versions, Working, Fetching, Judging
<1>6. Fetched'
  BY <1>1, <1>2 DEF IInv, Fetched, Early, Fetching, Judging
<1>7. (Owned(DocsOf(results), objects, left) /\ Findings /\ NoneLost /\ Verdicted)'
  BY <1>1, <1>2, NoResults DEF Early
<1> QED
  BY <1>3, <1>4, <1>5, <1>6, <1>7 DEF IInv

\* What every step up to the objects finds.
LEMMA EarlyState ==
    ASSUME IInv, pc \in Early
    PROVE  /\ TypeOK /\ VersionMapOK /\ exit = Running /\ report = <<>> /\ results = <<>>
           /\ at = 1 /\ apiVersionKindCache = EmptyCache
           /\ conf.target \in Releases /\ serverVersion \in Releases
           /\ conf.targetLocation \in Locations \cup {NoLocation}
BY DEF IInv, TypeOK, VersionMapOK, Config, Ending, Fetched, Early, Fetching

LEMMA LoadTargetStep == IInv /\ LoadTarget => IInv'
<1> SUFFICES ASSUME IInv, LoadTarget
             PROVE  IInv'
  OBVIOUS
<1>1. pc = "loadTarget" /\ pc \in Early
  BY DEF LoadTarget, Early
<1>2. /\ UNCHANGED <<connected, serverVersion, toMap, toList, objects, left, results, at,
                     apiVersionKindCache, conf, report>>
  BY DEF LoadTarget, clusterVars, judgeUnchanged
<1>3. PICK ok \in BOOLEAN :
        /\ Load(conf.target, conf.targetLocation, ok)
        /\ IF ok THEN Goes("serverVersion") ELSE LoadError("serverVersion")
  BY DEF LoadTarget
<1>4. IF ok THEN pc' = "serverVersion" /\ exit' = Running ELSE pc' = "stopped" /\ exit' = 1
  BY <1>1, <1>3, EarlyState DEF Goes, LoadError, Stop
<1>5. VersionMapOK'
  BY <1>1, <1>3, EarlyState, LoadKeeps
<1>6. TypeOK'
  BY <1>1, <1>2, <1>4, <1>5, EarlyState DEF TypeOK, VersionMapOK, States, Running
<1>7. Ending'
  BY <1>1, <1>2, <1>4, EarlyState
     DEF Ending, ZeroMeansReported, Working, Fetching, Judging, Running
<1>8. Versions'
  <2>1. versionMap[conf.target] = NotLoaded
    BY <1>1 DEF IInv, Versions
  <2>2. \A r \in Releases : r # conf.target => versionMap'[r] = versionMap[r]
    <3>1. CASE conf.targetLocation = NoLocation
      <4>1. LoadFromUrl(conf.target, FALSE, ok)
        BY <1>3, <3>1 DEF Load
      <4> QED
        BY <1>1, <2>1, <4>1, EarlyState DEF LoadFromUrl, VersionMapOK
    <3>2. CASE conf.targetLocation # NoLocation
      <4>1. LoadFromPath(conf.target, conf.targetLocation, FALSE, ok)
        BY <1>3, <3>2 DEF Load
      <4>2. PICK c : versionMap' = [versionMap EXCEPT ![conf.target] = c]
        BY <2>1, <4>1 DEF LoadFromPath
      <4> QED
        BY <1>1, <4>2, EarlyState DEF VersionMapOK
    <3> QED
      BY <3>1, <3>2
  <2>3. ok => versionMap'[conf.target] \in targets
    <3> SUFFICES ASSUME ok PROVE versionMap'[conf.target] \in targets
      OBVIOUS
    <3>1. CASE conf.targetLocation = NoLocation
      <4>1. PICK c \in Published[conf.target] : versionMap' = [versionMap EXCEPT ![conf.target] = c]
        BY <1>3, <2>1, <3>1 DEF Load, LoadFromUrl
      <4> QED
        BY <1>1, <3>1, <4>1, EarlyState DEF targets, VersionMapOK
    <3>2. CASE conf.targetLocation # NoLocation
      <4>1. /\ Stored[conf.targetLocation] # NotLoaded
            /\ versionMap' = [versionMap EXCEPT ![conf.target] = Stored[conf.targetLocation]]
        BY <1>3, <2>1, <3>2 DEF Load, LoadFromPath
      <4> QED
        BY <1>1, <3>2, <4>1, EarlyState DEF targets, VersionMapOK
    <3> QED
      BY <3>1, <3>2
  <2>4. results' = <<>> /\ targets' = targets
    BY <1>1, <1>2, EarlyState DEF targets
  <2> QED
    BY <1>2, <1>4, <2>2, <2>3, <2>4
       DEF IInv, Versions, Working, Fetching, Judging, targetCatalog
<1>9. Fetched'
  BY <1>1, <1>2, <1>4 DEF IInv, Fetched, Early, Fetching, Judging
<1>10. (Owned(DocsOf(results), objects, left) /\ Findings /\ NoneLost /\ Verdicted)'
  BY <1>1, <1>2, <1>4, EarlyState, NoResults DEF Early
<1> QED
  BY <1>6, <1>7, <1>8, <1>9, <1>10 DEF IInv

LEMMA AskServerVersionStep == IInv /\ AskServerVersion => IInv'
<1> SUFFICES ASSUME IInv, AskServerVersion
             PROVE  IInv'
  OBVIOUS
<1>1. pc = "serverVersion" /\ pc \in Early
  BY DEF AskServerVersion, Early
<1>2. UNCHANGED <<versionMap, connected, toMap, toList, objects, left, results, at,
                  apiVersionKindCache, conf, report>>
  BY DEF AskServerVersion, judgeUnchanged
<1>3. \/ /\ connected /\ serverVersion' \in {ServerRelease, conf.target}
         /\ pc' = "serverKinds" /\ exit' = Running
      \/ serverVersion' = serverVersion /\ pc' = "stopped" /\ exit' = Panicked
  BY <1>1, EarlyState DEF AskServerVersion, NilDereference, Goes, Stop
<1>4. TypeOK'
  BY <1>1, <1>2, <1>3, EarlyState, ClusterAssumption DEF TypeOK, States, Running, Panicked
<1>5. Ending'
  BY <1>1, <1>2, <1>3, EarlyState
     DEF Ending, ZeroMeansReported, Working, Fetching, Judging, Running, Panicked
<1>6. Versions'
  <2>1. results' = <<>> /\ targets' = targets /\ targetCatalog' = targetCatalog
    BY <1>1, <1>2, EarlyState DEF targets, targetCatalog
  <2> QED
    BY <1>1, <1>2, <1>3, <2>1 DEF IInv, Versions, Working, Fetching, Judging
<1>7. Fetched'
  BY <1>1, <1>2, <1>3 DEF IInv, Fetched, Early, Fetching, Judging
<1>8. (Owned(DocsOf(results), objects, left) /\ Findings /\ NoneLost /\ Verdicted)'
  BY <1>1, <1>2, <1>3, EarlyState, NoResults DEF Early
<1> QED
  BY <1>4, <1>5, <1>6, <1>7, <1>8 DEF IInv

\* A download of a release keeps what is there and Versions.
LEMMA DownloadKeepsVersions ==
    ASSUME TypeOK, Versions, NEW r \in Releases, NEW ok \in BOOLEAN, LoadFromUrl(r, FALSE, ok),
           pc \in Working, r = conf.target \/ r = serverVersion
    PROVE  /\ VersionMapOK'
           /\ versionMap'[conf.target] = targetCatalog
           /\ \A q \in Releases : q # conf.target =>
                 versionMap'[q] \in Published[q] \cup {NotLoaded}
           /\ ok => versionMap'[r] \in Catalogs
           /\ \A q \in Releases : versionMap[q] # NotLoaded => versionMap'[q] = versionMap[q]
<1>1. VersionMapOK /\ conf.target \in Releases /\ conf \in Config
  BY DEF TypeOK, VersionMapOK, Config
<1>2. versionMap[conf.target] # NotLoaded
  BY <1>1, TargetsAreCatalogs, CheckerAssumption DEF Versions, targetCatalog
<1>3. /\ VersionMapOK'
      /\ \A q \in Releases : versionMap[q] # NotLoaded => versionMap'[q] = versionMap[q]
      /\ ok => versionMap'[r] \in Catalogs
  BY <1>1, LoadFromUrlKeeps, CheckerAssumption
<1>4. \A q \in Releases : q # conf.target => versionMap'[q] \in Published[q] \cup {NotLoaded}
  <2>1. CASE versionMap' = versionMap
    BY <2>1 DEF Versions
  <2>2. CASE \E c \in Published[r] : versionMap' = [versionMap EXCEPT ![r] = c]
    BY <1>1, <2>2 DEF Versions, VersionMapOK
  <2> QED
    BY <2>1, <2>2 DEF LoadFromUrl
<1> QED
  BY <1>1, <1>2, <1>3, <1>4 DEF targetCatalog

LEMMA LatestIsOnePerKind ==
    ASSUME NEW cat \in Catalogs
    PROVE  fetchLatestKinds(cat) \subseteq Apis \X Kinds /\ OnePerKind(fetchLatestKinds(cat))
<1>1. Served[cat] \subseteq Apis \X Kinds
  BY CheckerAssumption
<1>2. fetchLatestKinds(cat) \subseteq Served[cat]
  BY DEF fetchLatestKinds
<1>3. ASSUME NEW p \in fetchLatestKinds(cat), NEW q \in fetchLatestKinds(cat), p[2] = q[2]
      PROVE  p = q
  <2>1. p \in Apis \X Kinds /\ q \in Apis \X Kinds
    BY <1>1, <1>2
  <2>2. p[1] = q[1]
    BY <1>3 DEF fetchLatestKinds
  <2> QED
    BY <1>3, <2>1, <2>2
<1> QED
  BY <1>1, <1>2, <1>3 DEF OnePerKind

LEMMA KindsStep == IInv /\ (GetServerKinds \/ GetTargetKinds) => IInv'
<1> SUFFICES ASSUME IInv, GetServerKinds \/ GetTargetKinds
             PROVE  IInv'
  OBVIOUS
<1>1. pc \in {"serverKinds", "targetKinds"} /\ pc \in Early /\ pc \in Working
  BY DEF GetServerKinds, GetTargetKinds, Early, Working
<1>2. UNCHANGED <<connected, serverVersion, toList, objects, left, results, at,
                  apiVersionKindCache, conf, report>>
  BY DEF GetServerKinds, GetTargetKinds, judgeUnchanged
<1>3. PICK r \in {serverVersion, conf.target}, ok \in BOOLEAN :
        /\ LoadFromUrl(r, FALSE, ok)
        /\ IF ok THEN toMap' = fetchLatestKinds(versionMap'[r]) /\ pc' = "map"
                 ELSE UNCHANGED toMap /\ pc' \in {"targetKinds", "emit"}
        /\ exit' = Running
  BY <1>1, EarlyState DEF GetServerKinds, GetTargetKinds, Goes
<1>4. /\ VersionMapOK'
      /\ versionMap'[conf.target] = targetCatalog
      /\ \A q \in Releases : q # conf.target => versionMap'[q] \in Published[q] \cup {NotLoaded}
      /\ ok => versionMap'[r] \in Catalogs
  BY <1>1, <1>3, EarlyState, DownloadKeepsVersions DEF IInv
<1>5. toMap = {} /\ toList = {} /\ objects = {} /\ left = {}
  BY <1>1, EarlyState DEF IInv, Fetched, TypeOK, Early, Fetching
<1>6. toMap' \subseteq Apis \X Kinds /\ OnePerKind(toMap')
  <2>1. CASE ok
    BY <1>3, <1>4, <2>1, LatestIsOnePerKind
  <2>2. CASE ~ok
    BY <1>3, <1>5, <2>2 DEF OnePerKind
  <2> QED
    BY <2>1, <2>2
<1>7. pc' \in {"targetKinds", "map", "emit"}
  BY <1>3
<1>8. TypeOK'
  BY <1>1, <1>2, <1>3, <1>4, <1>6, <1>7, EarlyState DEF TypeOK, VersionMapOK, States, Running
<1>9. Ending'
  BY <1>1, <1>2, <1>3, <1>7, EarlyState
     DEF IInv, Ending, ZeroMeansReported, Working, Fetching, Judging, Running
<1>10. Versions'
  <2>1. results' = <<>> /\ targets' = targets /\ targetCatalog' = targetCatalog
    BY <1>1, <1>2, <1>4, EarlyState DEF targets, targetCatalog
  <2> QED
    BY <1>1, <1>2, <1>4, <1>7, <2>1 DEF IInv, Versions, Working, Fetching, Judging
<1>11. Fetched'
  <2>1. toMap' \cup toList' = toMap'
    BY <1>2, <1>5
  <2>2. pc' = "targetKinds" => toMap' = {}
    BY <1>3, <1>5
  <2> QED
    BY <1>1, <1>2, <1>5, <1>6, <1>7, <2>1, <2>2, EarlyState DEF Fetched, Early, Fetching, Judging
<1>12. (Owned(DocsOf(results), objects, left) /\ Findings /\ NoneLost /\ Verdicted)'
  BY <1>1, <1>2, <1>5, <1>7, EarlyState, NoResults
<1> QED
  BY <1>8, <1>9, <1>10, <1>11, <1>12 DEF IInv

\* Versions says nothing of what FetchK8sObjects changes.
LEMMA VersionsKept ==
    ASSUME IInv, UNCHANGED <<versionMap, serverVersion, conf>>,
           results' = results \/ results' = <<>> \/ versionMap[serverVersion] # NotLoaded,
           pc \in Working
    PROVE  pc' \notin {"connect", "loadTarget"} => Versions'
<1>1. targets' = targets /\ targetCatalog' = targetCatalog
  BY DEF targets, targetCatalog
<1> QED
  BY <1>1 DEF IInv, Versions

LEMMA MapStep == IInv /\ ((\E p \in toMap : MapKind(p)) \/ MapEnds) => IInv'
<1> SUFFICES ASSUME IInv, (\E p \in toMap : MapKind(p)) \/ MapEnds
             PROVE  IInv'
  OBVIOUS
<1>1. pc = "map" /\ pc \in Early /\ pc \in Working
  BY DEF MapKind, MapEnds, Early, Working, Fetching
<1>2. /\ UNCHANGED <<versionMap, exit, connected, serverVersion, objects, left, results, at,
                     apiVersionKindCache, conf, report>>
      /\ pc' \in {"map", "list"}
  BY <1>1 DEF MapKind, MapEnds, judgeUnchanged, clusterVars, Goes
<1>3. toMap' \subseteq toMap /\ toMap' \cup toList' \subseteq toMap \cup toList
  BY DEF MapKind, MapEnds, clusterVars
<1>4. objects = {}
  BY <1>1 DEF IInv, Fetched, Early, Fetching
<1>5. TypeOK'
  BY <1>1, <1>2, <1>3, EarlyState DEF TypeOK, States
<1>6. Ending'
  BY <1>1, <1>2, EarlyState DEF IInv, Ending, ZeroMeansReported, Working, Fetching, Judging
<1>7. Versions'
  BY <1>1, <1>2, VersionsKept
<1>8. Fetched'
  BY <1>1, <1>2, <1>3, <1>4, EarlyState DEF IInv, Fetched, OnePerKind, Early, Fetching, Judging
<1>9. (Owned(DocsOf(results), objects, left) /\ Findings /\ NoneLost /\ Verdicted)'
  BY <1>1, <1>2, EarlyState, NoResults DEF Early, Fetching
<1> QED
  BY <1>5, <1>6, <1>7, <1>8, <1>9 DEF IInv

LEMMA ListStep == IInv /\ (\E p \in toList : ListResource(p)) => IInv'
<1> SUFFICES ASSUME IInv, NEW p \in toList, ListResource(p)
             PROVE  IInv'
  OBVIOUS
<1>1. pc = "list" /\ pc \in Early /\ pc \in Working
  BY DEF ListResource, Early, Working, Fetching
<1>2. /\ UNCHANGED <<versionMap, pc, exit, connected, serverVersion, toMap, left, results, at,
                     apiVersionKindCache, conf, report>>
      /\ toList' = toList \ {p}
      /\ objects' \in {objects, objects \cup {<<o, p[1]>> : o \in listed(p)}}
  BY DEF ListResource, judgeUnchanged
<1>3. /\ toList \subseteq Apis \X Kinds /\ objects \subseteq Objects \X Apis /\ left \subseteq objects
  BY <1>1, EarlyState DEF TypeOK
<1>4. ASSUME NEW f \in objects'
      PROVE  \/ f \in objects
             \/ f \in Objects \X Apis /\ f[2] = p[1] /\ KindOf[f[1]] = p[2]
  <2>1. CASE f \in {<<o, p[1]>> : o \in listed(p)}
    <3>1. PICK o \in listed(p) : f = <<o, p[1]>>
      BY <2>1
    <3>2. o \in Objects /\ KindOf[o] = p[2] /\ p[1] \in Apis
      BY <1>3 DEF listed
    <3> QED
      BY <3>1, <3>2
  <2> QED
    BY <1>2, <2>1
<1>5. objects' \subseteq Objects \X Apis /\ left' \subseteq objects'
  BY <1>2, <1>3, <1>4
<1>6. \A f \in objects, q \in toList : KindOf[f[1]] # q[2]
  BY <1>1 DEF IInv, Fetched
<1>7. \A q \in toList : q # p => q[2] # p[2]
  BY DEF IInv, Fetched, OnePerKind
<1>8. ASSUME NEW f \in objects', NEW q \in toList'
      PROVE  KindOf[f[1]] # q[2]
  BY <1>2, <1>4, <1>6, <1>7
<1>9. ASSUME NEW f \in objects', NEW g \in objects', f[1] = g[1]
      PROVE  f = g
  <2>1. CASE f \in objects /\ g \in objects
    BY <1>9, <2>1 DEF IInv, Fetched
  <2>2. CASE f \notin objects /\ g \notin objects
    <3>1. f[2] = g[2] /\ f \in Objects \X Apis /\ g \in Objects \X Apis
      BY <1>4, <2>2
    <3> QED
      BY <1>9, <3>1
  <2>3. CASE f \in objects /\ g \notin objects
    BY <1>4, <1>6, <1>9, <2>3
  <2>4. CASE f \notin objects /\ g \in objects
    BY <1>4, <1>6, <1>9, <2>4
  <2> QED
    BY <2>1, <2>2, <2>3, <2>4
<1>10. TypeOK'
  BY <1>1, <1>2, <1>3, <1>5, EarlyState DEF TypeOK, States
<1>11. Ending'
  BY <1>1, <1>2, EarlyState DEF IInv, Ending, ZeroMeansReported, Working, Fetching, Judging
<1>12. Versions'
  BY <1>1, <1>2, VersionsKept
<1>13. OnePerKind(toMap \cup toList)'
  BY <1>2 DEF IInv, Fetched, OnePerKind
<1>14. Fetched'
  BY <1>1, <1>2, <1>8, <1>9, <1>13, EarlyState DEF Fetched, Early, Fetching, Judging
<1>15. (Owned(DocsOf(results), objects, left) /\ Findings /\ NoneLost /\ Verdicted)'
  BY <1>1, <1>2, EarlyState, NoResults DEF Early, Fetching
<1> QED
  BY <1>10, <1>11, <1>12, <1>14, <1>15 DEF IInv

LEMMA ListEndsStep == IInv /\ ListEnds => IInv'
<1> SUFFICES ASSUME IInv, ListEnds
             PROVE  IInv'
  OBVIOUS
<1>1. pc = "list" /\ pc \in Early /\ pc \in Working
  BY DEF ListEnds, Early, Working, Fetching
<1>2. /\ UNCHANGED <<versionMap, exit, connected, serverVersion, toMap, toList, objects, results,
                     at, apiVersionKindCache, conf, report>>
      /\ pc' = "objects" /\ left' = objects
  BY DEF ListEnds, judgeUnchanged, Goes
<1>3. TypeOK'
  BY <1>1, <1>2, EarlyState DEF TypeOK, States
<1>4. Ending'
  BY <1>1, <1>2, EarlyState DEF IInv, Ending, ZeroMeansReported, Working, Fetching, Judging
<1>5. Versions'
  BY <1>1, <1>2, VersionsKept
<1>6. Fetched'
  BY <1>1, <1>2, EarlyState DEF IInv, Fetched, OnePerKind, Early, Fetching, Judging
<1>7. (Owned(DocsOf(results), objects, left) /\ Findings /\ NoneLost /\ Verdicted)'
  BY <1>1, <1>2, EarlyState, NoResults
<1> QED
  BY <1>3, <1>4, <1>5, <1>6, <1>7 DEF IInv

-----------------------------------------------------------------------------
LEMMA DocOfIsOwned ==
    ASSUME NEW f \in Objects \X Apis
    PROVE  docOf(f) \in docsOf(f[1]) /\ docOf(f) \in Docs
<1>1. f[1] \in Objects /\ f[2] \in Apis
  OBVIOUS
<1>2. CASE Applied[f[1]] # NoDoc
  <2>1. Applied[f[1]] \in Docs
    BY <1>1, <1>2, ClusterAssumption
  <2> QED
    BY <1>2, <2>1 DEF docOf, docsOf
<1>3. CASE Applied[f[1]] = NoDoc
  <2>1. Live[f[1]][f[2]] \in Docs
    BY <1>1, ClusterAssumption
  <2> QED
    BY <1>1, <1>3, <2>1 DEF docOf, docsOf
<1> QED
  BY <1>2, <1>3

\* An object that is not validated leaves the others their results; one that is has its own.
LEMMA OwnedWithout ==
    ASSUME NEW docs, NEW fetched, NEW free, NEW rest, rest \subseteq free,
           Owned(docs, fetched, free)
    PROVE  Owned(docs, fetched, rest)
BY DEF Owned

LEMMA OneMoreOwned ==
    ASSUME NEW docs \in Seq(Docs), NEW fetched, NEW free \in SUBSET fetched,
           Owned(docs, fetched, free), NEW f \in free
    PROVE  Owned(Append(docs, docOf(f)), fetched, free \ {f})
<1>1. PICK of \in [DOMAIN docs -> fetched \ free] :
        /\ \A i \in DOMAIN docs : docs[i] = docOf(of[i])
        /\ \A i, j \in DOMAIN docs : of[i] = of[j] => i = j
  BY DEF Owned
<1> DEFINE m == Len(docs)
           new == Append(docs, docOf(f))
           by == [i \in 1..(m + 1) |-> IF i = m + 1 THEN f ELSE of[i]]
<1>2. /\ DOMAIN new = 1..(m + 1) /\ DOMAIN docs = 1..m /\ m \in Nat
      /\ new[m + 1] = docOf(f)
      /\ \A i \in 1..m : new[i] = docs[i]
  OBVIOUS
<1>3. \A i \in 1..(m + 1) : i \in 1..m \/ i = m + 1
  BY <1>2
<1>4. /\ \A i \in 1..m : by[i] = of[i] /\ by[i] \in fetched \ free
      /\ by[m + 1] = f
  BY <1>2
<1>5. by \in [DOMAIN new -> fetched \ (free \ {f})]
  BY <1>2, <1>3, <1>4
<1> HIDE DEF by, new, m
<1>6. \A i \in DOMAIN new : new[i] = docOf(by[i])
  BY <1>1, <1>2, <1>3, <1>4
<1>7. ASSUME NEW i \in DOMAIN new, NEW j \in DOMAIN new, by[i] = by[j]
      PROVE  i = j
  BY <1>1, <1>2, <1>3, <1>4, <1>7
<1>8. Owned(new, fetched, free \ {f})
  BY <1>5, <1>6, <1>7 DEF Owned
<1> QED
  BY <1>8 DEF new

\* What every step after FetchK8sObjects finds.
LEMMA LateState ==
    ASSUME IInv, pc \in {"objects", "flush"} \cup Judging
    PROVE  /\ TypeOK /\ VersionMapOK /\ JudgingTypes /\ exit = Running /\ connected
           /\ pc # "flush" => report = <<>>
           /\ conf \in Config /\ conf.target \in Releases /\ serverVersion \in Releases
           /\ targetCatalog \in Catalogs /\ results \in Seq(Result)
           /\ results # <<>> => versionMap[serverVersion] \in Catalogs
<1>1. /\ TypeOK /\ VersionMapOK /\ JudgingTypes /\ exit = Running /\ connected
      /\ pc # "flush" => report = <<>>
      /\ conf \in Config /\ conf.target \in Releases /\ serverVersion \in Releases
      /\ results \in Seq(Result)
  BY DEF IInv, TypeOK, VersionMapOK, JudgingTypes, CacheOK, Config, Ending, Working, Judging
<1>2. targetCatalog \in Catalogs
  BY <1>1, TargetsAreCatalogs DEF IInv, Versions, Working, Judging
<1>3. results # <<>> => versionMap[serverVersion] \in Catalogs
  BY <1>1 DEF IInv, Versions, VersionMapOK
<1> QED
  BY <1>1, <1>2, <1>3

LEMMA ValidateStep == IInv /\ (\E f \in left : ValidateNext(f)) => IInv'
<1> SUFFICES ASSUME IInv, NEW f \in left, ValidateNext(f)
             PROVE  IInv'
  OBVIOUS
<1>1. pc = "objects"
  BY DEF ValidateNext
<1>2. UNCHANGED <<at, apiVersionKindCache, conf, report, connected, serverVersion, toMap, toList,
                  objects>>
  BY DEF ValidateNext
<1>3. PICK ok \in BOOLEAN : LoadFromUrl(serverVersion, FALSE, ok) /\
        IF ~ok \/ ValidationFails(docOf(f))
        THEN pc' = "objects" /\ exit' = Running /\ results' = results /\ left' = left \ {f}
        ELSE IF ValidationPanics(versionMap'[serverVersion], docOf(f))
        THEN pc' = "stopped" /\ exit' = Panicked /\ results' = results /\ left' = left \ {f}
        ELSE /\ pc' = "objects" /\ exit' = Running /\ left' = left \ {f}
             /\ results' = Append(results, ValidateObject(versionMap'[serverVersion], docOf(f)))
  BY <1>1, LateState DEF ValidateNext, Goes, Stop, leftAfterError
<1> DEFINE cat == versionMap'[serverVersion]
           d == docOf(f)
           v == ValidateObject(cat, d)
<1>4. /\ VersionMapOK'
      /\ versionMap'[conf.target] = targetCatalog
      /\ \A q \in Releases : q # conf.target => versionMap'[q] \in Published[q] \cup {NotLoaded}
      /\ ok => cat \in Catalogs
      /\ \A q \in Releases : versionMap[q] # NotLoaded => versionMap'[q] = versionMap[q]
  BY <1>1, <1>3, LateState, DownloadKeepsVersions DEF IInv, Working
<1>5. /\ left \subseteq objects /\ objects \subseteq Objects \X Apis /\ f \in Objects \X Apis
      /\ left' = left \ {f} /\ d \in docsOf(f[1]) /\ d \in Docs
      /\ at = 1 /\ apiVersionKindCache = EmptyCache
  BY <1>1, <1>3, DocOfIsOwned, LateState DEF TypeOK, IInv, Fetched
<1>6. \/ /\ results' = results
         /\ \/ pc' = "objects" /\ exit' = Running /\ (ok => ValidationFails(d))
            \/ pc' = "stopped" /\ exit' = Panicked
      \/ /\ results' = Append(results, v) /\ cat \in Catalogs /\ v \in Result /\ v.doc = d
         /\ pc' = "objects" /\ exit' = Running
  <2>1. ASSUME cat \in Catalogs PROVE v \in Result /\ v.doc = d
    <3>1. v \in Result
      BY <1>5, <2>1, ValidateObjectType, CheckerAssumption
    <3>2. v.doc = d
      BY DEF ValidateObject
    <3> QED
      BY <3>1, <3>2
  <2> QED
    BY <1>3, <1>4, <2>1
<1> HIDE DEF v
<1>7. results \in Seq(Result) /\ results' \in Seq(Result) /\ Len(results') \in Nat
  <2>1. results \in Seq(Result)
    BY <1>1, LateState
  <2>2. results' \in Seq(Result)
    BY <1>6, <2>1
  <2> QED
    BY <2>1, <2>2
<1>8. TypeOK'
  <2>1. at' \in 1..(Len(results') + 1)
    BY <1>2, <1>5, <1>7
  <2> QED
    BY <1>1, <1>2, <1>4, <1>5, <1>6, <1>7, <2>1, LateState
       DEF TypeOK, VersionMapOK, States, Running, Panicked
<1>9. Ending'
  BY <1>1, <1>2, <1>6, LateState
     DEF Ending, ZeroMeansReported, Working, Fetching, Judging, Running, Panicked
<1>10. Versions'
  <2>1. targets' = targets /\ targetCatalog' = targetCatalog
    BY <1>2, <1>4 DEF targets, targetCatalog
  <2>2. results' # <<>> => versionMap'[serverVersion] # NotLoaded
    <3>1. CASE results' = results
      BY <1>1, <1>4, <3>1, LateState DEF IInv, Versions
    <3>2. CASE results' # results
      BY <1>6, <3>2, CheckerAssumption
    <3> QED
      BY <3>1, <3>2
  <2> QED
    BY <1>1, <1>2, <1>4, <1>6, <2>1, <2>2 DEF IInv, Versions, Working, Fetching, Judging
<1>11. Fetched'
  BY <1>1, <1>2, <1>5, <1>6 DEF IInv, Fetched, OnePerKind, Early, Fetching, Judging
<1>12. Owned(DocsOf(results), objects, left)'
  <2>1. Owned(DocsOf(results), objects, left) /\ left \in SUBSET objects
    BY <1>5 DEF IInv
  <2>2. CASE results' = results
    <3>1. Owned(DocsOf(results), objects, left \ {f})
      BY <2>1, OwnedWithout
    <3> QED
      BY <1>2, <1>5, <2>2, <3>1 DEF Owned
  <2>3. CASE results' = Append(results, v) /\ v \in Result /\ v.doc = d
    <3>1. DocsOf(results) \in Seq(Docs) /\ DocsOf(results') = Append(DocsOf(results), d)
      BY <1>7, <2>3, DocsOfAppend
    <3>2. Owned(Append(DocsOf(results), d), objects, left \ {f})
      BY <2>1, <3>1, OneMoreOwned
    <3> QED
      BY <1>2, <1>5, <3>1, <3>2 DEF Owned
  <2> QED
    BY <1>6, <2>2, <2>3
<1>13. Findings'
  <2>1. AllFoundIn(versionMap[serverVersion], FALSE)
    BY <1>1 DEF IInv, Findings
  <2>2. PICK c : c = cat
    OBVIOUS
  <2>3. \A i \in DOMAIN results : FoundIn(results[i], c, FALSE)
    <3>1. CASE results = <<>>
      BY <3>1
    <3>2. CASE results # <<>>
      <4>1. c = versionMap[serverVersion]
        BY <1>1, <1>4, <2>2, <3>2, LateState DEF IInv, Versions
      <4> QED
        BY <2>1, <4>1 DEF AllFoundIn
    <3> QED
      BY <3>1, <3>2
  <2>4. \A i \in DOMAIN results' : FoundIn(results'[i], c, FALSE)
    <3>1. CASE results' = results
      BY <2>3, <3>1
    <3>2. CASE results' = Append(results, v)
      <4>1. FoundIn(v, c, FALSE)
        BY <2>2, FreshIsFound DEF v
      <4>2. \A i \in DOMAIN results' :
              \/ i \in DOMAIN results /\ results'[i] = results[i]
              \/ results'[i] = v
        BY <1>7, <3>2
      <4> QED
        BY <2>3, <4>1, <4>2
    <3> QED
      BY <1>6, <3>1, <3>2
  <2>5. c = versionMap'[serverVersion']
    BY <1>2, <2>2
  <2>6. AllFoundIn(versionMap[serverVersion], FALSE)'
    BY <2>4, <2>5 DEF AllFoundIn
  <2> QED
    BY <1>2, <1>6, <2>6 DEF Findings
<1>14. NoneLost'
  <2> SUFFICES ASSUME serverVersion = conf.target, pc' = "objects", NEW g \in objects,
                      g \notin left \ {f}
               PROVE  ValidationFails(docOf(g)) \/ hasResult(g)'
    BY <1>2, <1>5, <1>6 DEF NoneLost, Judging
  <2>1. CASE g = f
    <3>1. ok
      BY <1>1, <1>3, LateState, CheckerAssumption DEF LoadFromUrl, targetCatalog
    <3>2. CASE results' = Append(results, v) /\ v \in Result /\ v.doc = d
      <4>1. Len(results) + 1 \in DOMAIN results' /\ results'[Len(results) + 1] = v
        BY <1>7, <3>2
      <4> QED
        BY <2>1, <3>2, <4>1 DEF hasResult
    <3> QED
      BY <1>6, <2>1, <3>1, <3>2
  <2>2. CASE g # f
    <3>1. ValidationFails(docOf(g)) \/ hasResult(g)
      BY <1>1, <2>2 DEF IInv, NoneLost
    <3>2. \A i \in DOMAIN results : i \in DOMAIN results' /\ results'[i] = results[i]
      BY <1>6, <1>7
    <3> QED
      BY <3>1, <3>2 DEF hasResult
  <2> QED
    BY <2>1, <2>2
<1>15. Verdicted'
  <2>1. at' = 1 /\ pc' \in {"objects", "stopped"}
    BY <1>2, <1>5, <1>6
  <2> QED
    BY <2>1 DEF Verdicted, JudgedSoFar, Judging
<1> QED
  BY <1>8, <1>9, <1>10, <1>11, <1>12, <1>13, <1>14, <1>15 DEF IInv

LEMMA StartJudgingStep == IInv /\ StartJudging => IInv'
<1> SUFFICES ASSUME IInv, StartJudging
             PROVE  IInv'
  OBVIOUS
<1>1. pc = "objects" /\ left = {} /\ pc \in Working
  BY DEF StartJudging, Working
<1>2. /\ UNCHANGED <<versionMap, connected, serverVersion, toMap, toList, objects, left, results,
                     at, apiVersionKindCache, conf, report, exit>>
      /\ pc' = "judgeLatest"
  BY DEF StartJudging, judgeUnchanged, clusterVars, Goes
<1>3. at = 1 /\ apiVersionKindCache = EmptyCache /\ results \in Seq(Result)
  BY <1>1, LateState DEF IInv, Fetched
<1>4. TypeOK'
  BY <1>1, <1>2, LateState DEF TypeOK, States
<1>5. Ending'
  BY <1>1, <1>2, LateState DEF IInv, Ending, ZeroMeansReported, Working, Fetching, Judging
<1>6. Versions'
  BY <1>1, <1>2, VersionsKept
<1>7. Fetched'
  BY <1>1, <1>2 DEF IInv, Fetched, OnePerKind, Early, Fetching, Judging
<1>8. Owned(DocsOf(results), objects, left)' /\ Findings'
  <2>1. Owned(DocsOf(results), objects, left)'
    BY <1>2 DEF IInv
  <2>2. Findings'
    BY <1>1, <1>2 DEF IInv, Findings, AllFoundIn
  <2> QED
    BY <2>1, <2>2
<1>9. NoneLost'
  BY <1>1, <1>2 DEF IInv, NoneLost, hasResult, Judging
<1>10. Verdicted'
  <2>1. ~\E i \in DOMAIN results' : i < at'
    BY <1>2, <1>3
  <2> QED
    BY <1>2, <1>3, <2>1 DEF Verdicted, JudgedSoFar, CacheSound, EmptyCache
<1> QED
  BY <1>4, <1>5, <1>6, <1>7, <1>8, <1>9, <1>10 DEF IInv

LEMMA JudgeStep == IInv /\ Judge => IInv'
<1> SUFFICES ASSUME IInv, Judge
             PROVE  IInv'
  OBVIOUS
<1>1. /\ pc \in Judging \ {"emit"} /\ pc' \in Judging /\ pc \in Working
      /\ UNCHANGED <<conf, report, exit, connected, serverVersion, toMap, toList, objects, left>>
  BY DEF Judge, JudgeLatest, JudgeCurrent, FilterNullErrors, Judging, Working, clusterVars
<1>2. /\ JudgingTypes /\ conf.target \in Releases /\ conf.ignoreNullErrors \in BOOLEAN
      /\ versionMap[conf.target] # NotLoaded /\ TypeOK
  BY <1>1, LateState, CheckerAssumption DEF Config, targetCatalog
<1>3. PICK t \in Releases : t = conf.target
  BY <1>2
<1>4. CacheSound(versionMap[t]) /\ JudgedSoFar(versionMap[t]) /\ versionMap[t] # NotLoaded
  BY <1>1, <1>2, <1>3 DEF IInv, Verdicted, targetCatalog
<1>5. AllFoundIn(versionMap[serverVersion], FALSE)
  BY <1>1 DEF IInv, Findings, Judging
<1>6. PICK cat : cat = versionMap[serverVersion]
  OBVIOUS
<1>7. PICK b \in BOOLEAN : b = conf.ignoreNullErrors
  BY <1>2
<1>8. /\ versionMap' = versionMap /\ JudgingTypes'
      /\ CacheSound(versionMap[t])' /\ JudgedSoFar(versionMap[t])'
      /\ DocsOf(results') = DocsOf(results)
      /\ IF pc' = "emit" THEN AllFoundIn(cat, b)' ELSE AllFoundIn(cat, FALSE)'
  <2>1. CASE FilterNullErrors(conf.ignoreNullErrors)
    <3>1. FilterNullErrors(b) /\ pc' = "emit"
      BY <1>7, <2>1 DEF FilterNullErrors
    <3>2. PICK c : c = versionMap[t]
      OBVIOUS
    <3>3. versionMap' = versionMap /\ apiVersionKindCache' = apiVersionKindCache
      BY <2>1 DEF FilterNullErrors
    <3>4. JudgingTypes' /\ JudgedSoFar(c)'
      BY <1>2, <1>4, <3>1, <3>2, FilterStep
    <3>5. AllFoundIn(cat, b)' /\ DocsOf(results)' = DocsOf(results)
      BY <1>2, <1>5, <1>6, <3>1, FilterKeepsFindings
    <3> QED
      BY <1>4, <3>1, <3>2, <3>3, <3>4, <3>5 DEF CacheSound, JudgedSoFar
  <2>2. CASE JudgeLatest(conf.target)
    <3>1. pc' # "emit" /\ at \in DOMAIN results
      BY <2>2 DEF JudgeLatest
    <3>2. AllFoundIn(cat, FALSE)' /\ DocsOf(results)' = DocsOf(results)
      BY <1>2, <1>3, <1>5, <1>6, <2>2, <3>1, JudgingKeepsFound
    <3> QED
      BY <1>2, <1>3, <1>4, <2>2, <3>1, <3>2, JudgeLatestStep, CheckerAssumption
  <2>3. CASE JudgeCurrent(conf.target)
    <3>1. pc' # "emit" /\ at \in DOMAIN results
      BY <2>3 DEF JudgeCurrent, IInv, Verdicted, JudgedSoFar
    <3>2. AllFoundIn(cat, FALSE)' /\ DocsOf(results)' = DocsOf(results)
      BY <1>2, <1>3, <1>5, <1>6, <2>3, <3>1, JudgingKeepsFound
    <3> QED
      BY <1>2, <1>3, <1>4, <2>3, <3>1, <3>2, JudgeCurrentStep, CheckerAssumption
  <2> QED
    BY <2>1, <2>2, <2>3 DEF Judge
<1>9. TypeOK'
  BY <1>1, <1>2, <1>8 DEF TypeOK, JudgingTypes, VersionMapOK, CacheOK, States, Judging
<1>10. Ending'
  BY <1>1, LateState DEF IInv, Ending, ZeroMeansReported, Working, Fetching, Judging
<1>11. results' = <<>> <=> results = <<>>
  <2>1. results \in Seq(Result) /\ results' \in Seq(Result)
    BY <1>2, <1>8 DEF JudgingTypes
  <2>2. DOMAIN results' = DOMAIN results
    BY <1>8 DEF DocsOf
  <2> QED
    BY <2>1, <2>2
<1>12. Versions'
  <2>1. targets' = targets /\ targetCatalog' = targetCatalog
    BY <1>1, <1>8 DEF targets, targetCatalog
  <2> QED
    BY <1>1, <1>8, <1>11, <2>1 DEF IInv, Versions, Working, Fetching, Judging
<1>13. Fetched'
  BY <1>1 DEF IInv, Fetched, OnePerKind, Early, Fetching, Judging
<1>14. Owned(DocsOf(results), objects, left)'
  BY <1>1, <1>8 DEF IInv, Owned
<1>15. Findings'
  BY <1>1, <1>6, <1>7, <1>8 DEF Findings, AllFoundIn, Judging
<1>16. NoneLost'
  <2>1. \A f : hasResult(f)' <=> hasResult(f)
    <3>1. DOMAIN results' = DOMAIN results
      BY <1>8 DEF DocsOf
    <3>2. \A i \in DOMAIN results : results'[i].doc = results[i].doc
      BY <1>8 DEF DocsOf
    <3> QED
      BY <3>1, <3>2 DEF hasResult, docOf
  <2> QED
    BY <1>1, <2>1 DEF IInv, NoneLost, Judging
<1>17. Verdicted'
  BY <1>1, <1>3, <1>8 DEF Verdicted, targetCatalog, CacheSound, JudgedSoFar
<1> QED
  BY <1>9, <1>10, <1>12, <1>13, <1>14, <1>15, <1>16, <1>17 DEF IInv

LEMMA EmitStep == IInv /\ Emit => IInv'
<1> SUFFICES ASSUME IInv, Emit
             PROVE  IInv'
  OBVIOUS
<1>1. /\ pc = "emit" /\ pc' = "flush" /\ exit' = exit /\ pc \in Working
      /\ report' = Append(report, PutBulk(conf.format, removeIgnoredKeys(results)))
      /\ UNCHANGED <<versionMap, connected, serverVersion, toMap, toList, objects, left, results,
                     at, apiVersionKindCache, conf>>
  BY DEF Emit, ReportResults, Goes, clusterVars, Working, Judging
<1>2. report = <<>> /\ results \in Seq(Result) /\ conf.format \in Formats
  BY <1>1, LateState DEF Config, Judging
<1>3. PICK bulk \in Bulk : bulk = PutBulk(conf.format, removeIgnoredKeys(results))
  BY <1>2, BulkType
<1>4. report' = <<bulk>> /\ report' \in Seq(Bulk) /\ Len(report') = 1
  BY <1>1, <1>2, <1>3
<1>5. TypeOK'
  BY <1>1, <1>4, LateState DEF TypeOK, States, Judging
<1>6. Ending'
  BY <1>1, <1>4, LateState DEF IInv, Ending, ZeroMeansReported, Working, Fetching, Judging
<1>7. Versions'
  BY <1>1, VersionsKept
<1>8. Fetched' /\ Owned(DocsOf(results), objects, left)'
  BY <1>1 DEF IInv, Fetched, OnePerKind, Early, Fetching, Judging, Owned, DocsOf
<1>9. Findings' /\ NoneLost' /\ Verdicted'
  BY <1>1 DEF Findings, NoneLost, Verdicted, JudgedSoFar, Judging
<1> QED
  BY <1>5, <1>6, <1>7, <1>8, <1>9 DEF IInv

LEMMA FlushStep == IInv /\ Flush => IInv'
<1> SUFFICES ASSUME IInv, Flush
             PROVE  IInv'
  OBVIOUS
<1>1. /\ pc = "flush" /\ pc' = "stopped" /\ exit' = 0 /\ pc \in Working
      /\ UNCHANGED <<versionMap, connected, serverVersion, toMap, toList, objects, left, results,
                     at, apiVersionKindCache, conf, report>>
  BY DEF Flush, Stop, clusterVars, Working
<1>2. connected /\ Len(report) = 1
  BY <1>1 DEF IInv, Ending
<1>3. TypeOK'
  BY <1>1, LateState DEF TypeOK, States
<1>4. Ending'
  BY <1>1, <1>2 DEF Ending, ZeroMeansReported, Working, Fetching, Judging, Running
<1>5. Versions'
  BY <1>1 DEF IInv, Versions, Working, Fetching, Judging
<1>6. Fetched' /\ Owned(DocsOf(results), objects, left)'
  BY <1>1 DEF IInv, Fetched, OnePerKind, Early, Fetching, Judging, Owned, DocsOf
<1>7. Findings' /\ NoneLost' /\ Verdicted'
  BY <1>1 DEF Findings, NoneLost, Verdicted, JudgedSoFar, Judging
<1> QED
  BY <1>3, <1>4, <1>5, <1>6, <1>7 DEF IInv

LEMMA SortPanicsStep == IInv /\ SortPanics => IInv'
<1> SUFFICES ASSUME IInv, SortPanics
             PROVE  IInv'
  OBVIOUS
<1>1. /\ pc' = "stopped" /\ exit' = Panicked
      /\ UNCHANGED <<versionMap, connected, serverVersion, toMap, toList, objects, left, results,
                     at, apiVersionKindCache, conf, report>>
  BY DEF SortPanics, Stop, clusterVars, judgeUnchanged
<1>2. TypeOK'
  BY <1>1 DEF IInv, TypeOK, States, Panicked
<1>3. Ending'
  <2>1. pc \notin {"flush", "stopped"}
    BY DEF SortPanics, asksTarget
  <2>2. report = <<>>
    BY <2>1 DEF IInv, Ending
  <2> QED
    BY <1>1, <2>2 DEF Ending, ZeroMeansReported, Working, Fetching, Judging, Running, Panicked
<1>4. Versions'
  BY <1>1 DEF IInv, Versions, Working, Fetching, Judging
<1>5. Fetched'
  BY <1>1 DEF IInv, Fetched, OnePerKind, Early, Fetching, Judging
<1>6. Owned(DocsOf(results), objects, left)'
  BY <1>1 DEF IInv
<1>7. Findings' /\ NoneLost' /\ Verdicted'
  <2>1. Findings' /\ NoneLost'
    BY <1>1 DEF Findings, NoneLost, Judging
  <2>2. JudgedSoFar(targetCatalog)'
    BY <1>1 DEF JudgedSoFar
  <2> QED
    BY <1>1, <2>1, <2>2 DEF Verdicted, Judging
<1> QED
  BY <1>2, <1>3, <1>4, <1>5, <1>6, <1>7 DEF IInv

LEMMA StutterStep == IInv /\ UNCHANGED vars => IInv'
<1> SUFFICES ASSUME IInv, UNCHANGED vars
             PROVE  IInv'
  OBVIOUS
<1>1. UNCHANGED <<versionMap, connected, serverVersion, toMap, toList, objects, left, results,
                  at, apiVersionKindCache, conf, report, pc, exit>>
  BY DEF vars, verdictVars, clusterVars
<1>2. TypeOK' /\ Ending'
  BY <1>1 DEF IInv, TypeOK, Ending, ZeroMeansReported
<1>3. Versions' /\ Fetched'
  BY <1>1 DEF IInv, Versions, targets, targetCatalog, Fetched
<1>4. Owned(DocsOf(results), objects, left)' /\ Findings'
  <2>1. Owned(DocsOf(results), objects, left)'
    BY <1>1 DEF IInv
  <2>2. Findings'
    BY <1>1 DEF IInv, Findings, AllFoundIn
  <2> QED
    BY <2>1, <2>2
<1>5. NoneLost' /\ Verdicted'
  BY <1>1 DEF IInv, NoneLost, hasResult, Verdicted, JudgedSoFar, CacheSound, targetCatalog
<1> QED
  BY <1>2, <1>3, <1>4, <1>5 DEF IInv

LEMMA InductiveInvariant == IInv /\ [Next]_vars => IInv'
BY ConnectStep, LoadTargetStep, AskServerVersionStep, KindsStep, SortPanicsStep, MapStep,
   ListStep, ListEndsStep, ValidateStep, StartJudgingStep, JudgeStep, EmitStep, FlushStep, StutterStep DEF Next

LEMMA SpecIInv == Spec => []IInv
<1>1. Init => IInv
  BY InitIInv
<1>2. IInv /\ [Next]_vars => IInv'
  BY InductiveInvariant
<1> QED
  BY <1>1, <1>2, PTL DEF Spec

-----------------------------------------------------------------------------
(***************************************************************************)
(* The theorems.                                                           *)
(***************************************************************************)
\* Every variable keeps its type, whatever the cluster and the downloads answer.
THEOREM TypesCorrect == Spec => []TypeOK
<1>1. IInv => TypeOK
  BY DEF IInv
<1> QED
  BY <1>1, SpecIInv, PTL

\* No verdict of a cluster's objects comes from a stale cache entry or another object: each
\* is the target catalog's own answer (kubedd.go 174-200).
THEOREM VerdictsAreExact == Spec => []VerdictsExact
<1>1. IInv => VerdictsExact
  BY DEF IInv, Verdicted, JudgedSoFar, VerdictsExact
<1> QED
  BY <1>1, SpecIInv, PTL

\* However many downloads of the server's release fail on the way, the objects of one report
\* were all checked against one catalog of it (kubedd.go 143-172).
THEOREM OneCatalogForAll == Spec => []OneServerCatalog
<1>1. IInv => OneServerCatalog
  <2> SUFFICES ASSUME IInv, pc = "emit", NEW i \in DOMAIN results
               PROVE  LET r == results[i]
                          v == ValidateObject(versionMap[serverVersion], r.doc)
                      IN  /\ r.latestAPIVersion = v.latestAPIVersion
                          /\ r.deprecated = v.deprecated
                          /\ r.errorsForLatest = Kept(v.errorsForLatest, conf.ignoreNullErrors)
                          /\ r.errorsForOriginal =
                               Kept(v.errorsForOriginal, conf.ignoreNullErrors)
    BY DEF OneServerCatalog
  <2>1. FoundIn(results[i], versionMap[serverVersion], conf.ignoreNullErrors)
    BY DEF IInv, Findings, AllFoundIn
  <2> QED
    BY <2>1 DEF FoundIn, SameFinding
<1> QED
  BY <1>1, SpecIInv, PTL

\* An object is lost only to the server's own release: with the target's catalog every
\* object that was fetched, and can be parsed, has a result (kubedd.go 123-173).
THEOREM NoneLostToTheTarget == Spec => []NoneLostOnTarget
<1>1. IInv => NoneLostOnTarget
  BY DEF IInv, NoneLost, NoneLostOnTarget, Fetched, Judging
<1> QED
  BY <1>1, SpecIInv, PTL

\* Exit status 0 is never that of a run that had no cluster or printed nothing
\* (Cluster.go 41-57, main.go 111-119).
THEOREM ZeroIsReported == Spec => []ZeroMeansReported
<1>1. IInv => ZeroMeansReported
  BY DEF IInv, Ending
<1> QED
  BY <1>1, SpecIInv, PTL

-----------------------------------------------------------------------------
(***************************************************************************)
(* What the patterns mean. A simple pattern is what is between its stars,  *)
(* and that sits somewhere in the text: at the start if there is no star   *)
(* in front, at the end if there is none behind.                           *)
(***************************************************************************)
LEMMA HasFirst ==
    ASSUME NEW M \in SUBSET Nat, M # {}
    PROVE  \E i \in M : \A j \in M : i <= j
<1>1. IsWellFoundedOn(OpToRel(<, Nat), Nat)
  BY NatLessThanWellFounded
<1>2. PICK i \in M : \A j \in M : ~(<<j, i>> \in OpToRel(<, Nat))
  BY <1>1, WFMin
<1>3. \A j \in M : ~(j < i)
  BY <1>2 DEF OpToRel
<1> QED
  BY <1>3

\* What goes up by one at every step goes up by as many as there are steps.
LEMMA GoesUp ==
    ASSUME NEW m \in Nat, NEW f, \A k \in 0..m : f[k] \in Nat,
           \A k \in 0..(m - 1) : f[k + 1] = f[k] + 1
    PROVE  \A k \in 0..m : f[k] = f[0] + k
<1> DEFINE M == {k \in 0..m : f[k] # f[0] + k}
<1> SUFFICES ASSUME M # {}
             PROVE  FALSE
  OBVIOUS
<1>1. M \in SUBSET Nat
  OBVIOUS
<1>2. PICK i \in M : \A j \in M : i <= j
  BY <1>1, HasFirst
<1>3. i \in 0..m /\ f[i] # f[0] + i
  BY <1>2
<1>4. f[0] \in Nat /\ 0 \in 0..m
  OBVIOUS
<1>5. i # 0
  BY <1>3, <1>4
<1>6. i - 1 \in 0..(m - 1) /\ i - 1 \in 0..m /\ (i - 1) + 1 = i
  BY <1>3, <1>5
<1>7. i - 1 \notin M
  BY <1>2, <1>6
<1>8. f[i - 1] = f[0] + (i - 1)
  BY <1>6, <1>7
<1>9. f[i] = f[i - 1] + 1
  BY <1>6
<1> QED
  BY <1>3, <1>4, <1>8, <1>9

\* 1 if a pattern has a star at the front, and if it has another at the back.
front(pattern) == IF 1 \in stars(pattern) THEN 1 ELSE 0
back(pattern)  == IF Len(pattern) > 1 /\ Len(pattern) \in stars(pattern) THEN 1 ELSE 0

\* What is between them sits in the text behind its first c characters.
between(pattern) == Len(pattern) - front(pattern) - back(pattern)

Same(text, pattern, c) ==
    \A k \in 1..between(pattern) :
      Lower[pattern[front(pattern) + k]] = Lower[text[c + k]]

Sits(text, pattern, c) ==
    /\ c + between(pattern) <= Len(text)
    /\ front(pattern) = 0 => c = 0
    /\ back(pattern) = 0 => c + between(pattern) = Len(text)
    /\ Same(text, pattern, c)

LEMMA SimpleShape ==
    ASSUME NEW p \in Seq(Chars), Simple(p), NEW n \in Nat, n = Len(p)
    PROVE  /\ front(p) \in 0..1 /\ back(p) \in 0..1 /\ between(p) \in Nat
           /\ n = front(p) + between(p) + back(p)
           /\ DOMAIN p = 1..n
           /\ \A i \in 1..n : p[i] = Star <=> i <= front(p) \/ i > front(p) + between(p)
           /\ \A i \in 1..n : p[i] = Star <=> i \in stars(p)
           /\ front(p) = 1 <=> 1 \in stars(p)
           /\ back(p) = 1 <=> n > 1 /\ n \in stars(p)
<1>1. DOMAIN p = 1..n
  OBVIOUS
<1>2. stars(p) \subseteq {1, n} /\ stars(p) \subseteq 1..n
  BY <1>1 DEF Simple, stars
<1>3. \A i \in 1..n : p[i] = Star <=> i \in stars(p)
  BY <1>1 DEF stars
<1>4. PICK S \in SUBSET (1..n) : S = stars(p)
  BY <1>2
<1>5. PICK d \in 0..1, e \in 0..1, m \in Int : d = front(p) /\ e = back(p) /\ m = between(p)
  <2>1. front(p) \in 0..1 /\ back(p) \in 0..1
    BY DEF front, back
  <2>2. between(p) \in Int
    BY <2>1 DEF between
  <2> QED
    BY <2>1, <2>2
<1>6. d = 1 <=> 1 \in S
  BY <1>4, <1>5 DEF front
<1>7. e = 1 <=> n > 1 /\ n \in S
  BY <1>4, <1>5 DEF back
<1>8. m = n - d - e
  BY <1>5 DEF between
<1>9. m \in Nat /\ n = d + m + e
  <2>1. d + e <= n
    BY <1>6, <1>7
  <2> QED
    BY <1>8, <2>1
<1>10. ASSUME NEW i \in 1..n
       PROVE  i \in S <=> i <= d \/ i > d + m
  <2>1. CASE i \in S
    <3>1. i = 1 \/ i = n
      BY <1>2, <1>4, <2>1
    <3>2. CASE i = 1
      BY <1>6, <2>1, <3>2
    <3>3. CASE i = n /\ i # 1
      <4>1. e = 1
        BY <1>7, <2>1, <3>3
      <4> QED
        BY <1>9, <2>1, <3>3, <4>1
    <3> QED
      BY <3>1, <3>2, <3>3
  <2>2. CASE i \notin S
    <3>1. ~(i <= d)
      BY <1>6, <2>2
    <3>2. ~(i > d + m)
      BY <1>7, <1>9, <2>2
    <3> QED
      BY <2>2, <3>1, <3>2
  <2> QED
    BY <2>1, <2>2
<1>11. \A i \in 1..n : p[i] = Star <=> i <= d \/ i > d + m
  BY <1>3, <1>4, <1>10
<1> QED
  BY <1>1, <1>3, <1>4, <1>5, <1>6, <1>7, <1>9, <1>11

LEMMA GlobOfSimple ==
    ASSUME NEW t \in Seq(Chars), NEW p \in Seq(Chars), Simple(p)
    PROVE  Glob(t, p) <=> \E c \in 0..Len(t) : Sits(t, p, c)
<1>1. PICK n \in Nat, L \in Nat : n = Len(p) /\ L = Len(t)
  OBVIOUS
<1>2. PICK d \in 0..1, e \in 0..1, m \in Nat :
        /\ d = front(p) /\ e = back(p) /\ m = between(p)
        /\ n = d + m + e
        /\ DOMAIN p = 1..n
        /\ \A i \in 1..n : p[i] = Star <=> i <= d \/ i > d + m
  BY <1>1, SimpleShape
<1>3. ASSUME NEW c
      PROVE  Sits(t, p, c) <=> /\ c + m <= L
                               /\ d = 0 => c = 0
                               /\ e = 0 => c + m = L
                               /\ \A k \in 1..m : Lower[p[d + k]] = Lower[t[c + k]]
  BY <1>1, <1>2 DEF Sits, Same
<1>s. n = d + m + e /\ d + m <= n
  <2>1. n = d + m + e
    BY <1>2
  <2> QED
    BY <2>1
<1>d. DOMAIN p = 1..n
  BY <1>2
<1>p. \A i \in 1..n : p[i] = Star <=> i <= d \/ i > d + m
  BY <1>2
<1>4. Glob(t, p) <=>
        \E cut \in [1..(n + 1) -> 0..L] :
          /\ cut[1] = 0
          /\ cut[n + 1] = L
          /\ \A i \in 1..n :
               IF i <= d \/ i > d + m THEN cut[i + 1] >= cut[i]
               ELSE cut[i + 1] = cut[i] + 1 /\ Lower[p[i]] = Lower[t[cut[i + 1]]]
  <2>1. Len(p) = n /\ Len(t) = L
    BY <1>1
  <2>2. ASSUME NEW cut \in [1..(n + 1) -> 0..L], NEW i \in 1..n
        PROVE  (IF p[i] = Star THEN cut[i + 1] >= cut[i]
                ELSE cut[i + 1] = cut[i] + 1 /\ Lower[p[i]] = Lower[t[cut[i + 1]]])
               <=>
               (IF i <= d \/ i > d + m THEN cut[i + 1] >= cut[i]
                ELSE cut[i + 1] = cut[i] + 1 /\ Lower[p[i]] = Lower[t[cut[i + 1]]])
    <3>1. CASE p[i] = Star
      <4>1. i <= d \/ i > d + m
        BY <1>p, <3>1
      <4> QED
        BY <3>1, <4>1
    <3>2. CASE p[i] # Star
      <4>1. ~(i <= d \/ i > d + m)
        BY <1>p, <3>2
      <4> QED
        BY <3>2, <4>1
    <3> QED
      BY <3>1, <3>2
  <2> DEFINE plain(cut) == \A i \in 1..n :
               IF p[i] = Star THEN cut[i + 1] >= cut[i]
               ELSE cut[i + 1] = cut[i] + 1 /\ Lower[p[i]] = Lower[t[cut[i + 1]]]
             placed(cut) == \A i \in 1..n :
               IF i <= d \/ i > d + m THEN cut[i + 1] >= cut[i]
               ELSE cut[i + 1] = cut[i] + 1 /\ Lower[p[i]] = Lower[t[cut[i + 1]]]
  <2>3. Glob(t, p) <=> \E cut \in [1..(n + 1) -> 0..L] :
                         cut[1] = 0 /\ cut[n + 1] = L /\ plain(cut)
    BY <1>d, <2>1 DEF Glob
  <2>4. \A cut \in [1..(n + 1) -> 0..L] : plain(cut) <=> placed(cut)
    BY Zenon, <2>2
  <2> QED
    BY Zenon, <2>3, <2>4
<1>5. ASSUME Glob(t, p)
      PROVE  \E c \in 0..L : Sits(t, p, c)
  <2>1. PICK cut \in [1..(n + 1) -> 0..L] :
          /\ cut[1] = 0
          /\ cut[n + 1] = L
          /\ \A i \in 1..n :
               IF i <= d \/ i > d + m THEN cut[i + 1] >= cut[i]
               ELSE cut[i + 1] = cut[i] + 1 /\ Lower[p[i]] = Lower[t[cut[i + 1]]]
    BY <1>4, <1>5
  <2>2. PICK c \in 0..L : c = cut[d + 1]
    <3>1. d + 1 \in 1..(n + 1)
      BY <1>s
    <3>2. cut[d + 1] \in 0..L
      BY <3>1
    <3> QED
      BY <3>2
  <2>3. \A k \in 1..m : /\ cut[d + k + 1] = cut[d + k] + 1
                        /\ Lower[p[d + k]] = Lower[t[cut[d + k + 1]]]
    <3>1. \A k \in 1..m : d + k \in 1..n /\ ~(d + k <= d \/ d + k > d + m)
      BY <1>s
    <3> QED
      BY <2>1, <3>1
  <2>4. PICK f : f = [k \in 0..m |-> cut[d + k + 1]]
    OBVIOUS
  <2>5. \A k \in 0..m : f[k] \in Nat
    <3>1. \A k \in 0..m : d + k + 1 \in 1..(n + 1)
      BY <1>s
    <3>2. \A k \in 0..m : cut[d + k + 1] \in 0..L
      BY <3>1
    <3>3. \A k \in 0..m : f[k] = cut[d + k + 1]
      BY <2>4
    <3> QED
      BY <3>2, <3>3
  <2>6. \A k \in 0..(m - 1) : f[k + 1] = f[k] + 1
    <3> SUFFICES ASSUME NEW k \in 0..(m - 1)
                 PROVE  f[k + 1] = f[k] + 1
      OBVIOUS
    <3>1. k + 1 \in 1..m /\ k + 1 \in 0..m /\ k \in 0..m
      OBVIOUS
    <3>2. d + (k + 1) = d + k + 1
      OBVIOUS
    <3> QED
      BY <2>3, <2>4, <3>1, <3>2
  <2>7. \A k \in 0..m : f[k] = f[0] + k
    BY <2>5, <2>6, GoesUp
  <2>8. f[0] = c
    BY <2>2, <2>4
  <2>9. \A k \in 0..m : cut[d + k + 1] = c + k
    BY <2>4, <2>7, <2>8
  <2>10. c + m <= L
    <3>1. d + m + 1 \in 1..(n + 1) /\ m \in 0..m
      BY <1>s
    <3>2. cut[d + m + 1] \in 0..L
      BY <3>1
    <3>3. cut[d + m + 1] = c + m
      BY <2>9, <3>1
    <3> QED
      BY <3>2, <3>3
  <2>11. d = 0 => c = 0
    BY <2>1, <2>2
  <2>12. e = 0 => c + m = L
    <3> SUFFICES ASSUME e = 0
                 PROVE  c + m = L
      OBVIOUS
    <3>1. n + 1 = d + m + 1 /\ m \in 0..m
      BY <1>s
    <3>2. cut[d + m + 1] = c + m
      BY <2>9, <3>1
    <3>3. cut[n + 1] = L
      BY <2>1
    <3> QED
      BY <3>1, <3>2, <3>3
  <2>13. \A k \in 1..m : Lower[p[d + k]] = Lower[t[c + k]]
    <3>1. \A k \in 1..m : k \in 0..m
      OBVIOUS
    <3> QED
      BY <2>3, <2>9, <3>1
  <2> QED
    BY <1>3, <2>10, <2>11, <2>12, <2>13
<1>6. ASSUME NEW c \in 0..L, Sits(t, p, c)
      PROVE  Glob(t, p)
  <2>1. /\ c + m <= L
        /\ d = 0 => c = 0
        /\ e = 0 => c + m = L
        /\ \A k \in 1..m : Lower[p[d + k]] = Lower[t[c + k]]
    BY <1>3, <1>6
  <2> DEFINE place(i) == IF i <= d THEN 0 ELSE IF i <= d + m + 1 THEN c + (i - d - 1) ELSE L
  <2>2. PICK cut : cut = [i \in 1..(n + 1) |-> place(i)]
    OBVIOUS
  <2>3. \A i \in 1..(n + 1) : place(i) \in 0..L
    BY <2>1
  <2>4. cut \in [1..(n + 1) -> 0..L]
    BY <2>2, <2>3
  <2>5. cut[1] = 0
    <3>1. place(1) = 0 /\ 1 \in 1..(n + 1)
      BY <2>1
    <3> QED
      BY <2>2, <3>1
  <2>6. cut[n + 1] = L
    <3>0. n + 1 \in 1..(n + 1) /\ ~(n + 1 <= d)
      BY <1>s
    <3>1. CASE e = 0
      <4>1. n + 1 = d + m + 1 /\ c + m = L
        BY <1>s, <2>1, <3>1
      <4>2. place(n + 1) = c + ((n + 1) - d - 1)
        BY <3>0, <4>1
      <4> QED
        BY <2>2, <3>0, <4>1, <4>2
    <3>2. CASE e = 1
      <4>1. ~(n + 1 <= d + m + 1)
        BY <1>s, <3>2
      <4>2. place(n + 1) = L
        BY <3>0, <4>1
      <4> QED
        BY <2>2, <3>0, <4>2
    <3> QED
      BY <3>1, <3>2
  <2>7. ASSUME NEW i \in 1..n
        PROVE  IF i <= d \/ i > d + m THEN cut[i + 1] >= cut[i]
               ELSE cut[i + 1] = cut[i] + 1 /\ Lower[p[i]] = Lower[t[cut[i + 1]]]
    <3>1. cut[i] = place(i) /\ cut[i + 1] = place(i + 1)
      BY <2>2
    <3>2. CASE i <= d \/ i > d + m
      <4>1. place(i + 1) >= place(i)
        <5>1. CASE i <= d
          BY <2>3, <3>1, <5>1
        <5>2. CASE i > d + m
          BY <2>1, <3>1, <5>2
        <5> QED
          BY <3>2, <5>1, <5>2
      <4> QED
        BY <3>1, <3>2, <4>1
    <3>3. CASE ~(i <= d \/ i > d + m)
      <4>1. PICK k \in 1..m : i = d + k
        <5>1. i - d \in 1..m /\ i = d + (i - d)
          BY <3>3
        <5> QED
          BY <5>1
      <4>2. place(i + 1) = c + k /\ place(i) = c + k - 1
        BY <4>1
      <4>3. cut[i] = c + k - 1 /\ cut[i + 1] = c + k
        BY <3>1, <4>2
      <4>4. Lower[p[i]] = Lower[t[c + k]]
        BY <2>1, <4>1
      <4> QED
        BY <3>3, <4>3, <4>4
    <3> QED
      BY <3>2, <3>3
  <2> QED
    BY <1>4, <2>4, <2>5, <2>6, <2>7
<1> QED
  BY <1>1, <1>5, <1>6

\* Prefix, suffix and inside, character by character.
Begins(s, t) == Len(s) <= Len(t) /\ \A k \in 1..Len(s) : s[k] = t[k]

LEMMA PrefixAt ==
    ASSUME NEW S, NEW s \in Seq(S), NEW t \in Seq(S)
    PROVE  Ext!IsPrefix(s, t) <=> Begins(s, t)
<1>1. PICK m \in Nat, n \in Nat : m = Len(s) /\ n = Len(t)
  OBVIOUS
<1> SUFFICES ASSUME m <= n
             PROVE  SubSeq(s, 1, m) = SubSeq(t, 1, m) <=> \A k \in 1..m : s[k] = t[k]
  BY <1>1 DEF Ext!IsPrefix, Begins
<1>2. /\ SubSeq(s, 1, m) = [k \in 1..m |-> s[k]]
      /\ SubSeq(t, 1, m) = [k \in 1..m |-> t[k]]
  OBVIOUS
<1> QED
  BY <1>2

LEMMA SuffixAt ==
    ASSUME NEW S, NEW s \in Seq(S), NEW t \in Seq(S)
    PROVE  Ext!IsSuffix(s, t) <=> /\ Len(s) <= Len(t)
                                  /\ \A k \in 1..Len(s) : s[k] = t[Len(t) - Len(s) + k]
<1>1. PICK m \in Nat, n \in Nat : m = Len(s) /\ n = Len(t)
  OBVIOUS
<1>2. ASSUME NEW u \in Seq(S), NEW l \in Nat, l = Len(u)
      PROVE  /\ Ext!Reverse(u) \in Seq(S) /\ Len(Ext!Reverse(u)) = l
             /\ \A k \in 1..l : Ext!Reverse(u)[k] = u[l - k + 1]
  <2>1. Ext!Reverse(u) = [k \in 1..l |-> u[(l - k) + 1]]
    BY <1>2 DEF Ext!Reverse
  <2>2. \A k \in 1..l : u[(l - k) + 1] \in S
    <3>1. \A k \in 1..l : (l - k) + 1 \in 1..l
      OBVIOUS
    <3> QED
      BY <1>2, <3>1
  <2> QED
    BY <2>1, <2>2
<1>3. Ext!IsSuffix(s, t) <=> /\ m <= n
                             /\ \A k \in 1..m : s[m - k + 1] = t[n - k + 1]
  <2>1. Ext!IsSuffix(s, t) <=> Ext!IsPrefix(Ext!Reverse(s), Ext!Reverse(t))
    BY DEF Ext!IsSuffix
  <2>2. Ext!IsPrefix(Ext!Reverse(s), Ext!Reverse(t)) <=>
          /\ m <= n
          /\ \A k \in 1..m : Ext!Reverse(s)[k] = Ext!Reverse(t)[k]
    <3>1. PICK u \in Seq(S), w \in Seq(S) : u = Ext!Reverse(s) /\ w = Ext!Reverse(t)
      BY <1>1, <1>2
    <3>2. Len(u) = m /\ Len(w) = n
      BY <1>1, <1>2, <3>1
    <3>3. Ext!IsPrefix(u, w) <=> Begins(u, w)
      BY Zenon, PrefixAt
    <3> QED
      BY <3>1, <3>2, <3>3 DEF Begins
  <2>3. ASSUME m <= n, NEW k \in 1..m
        PROVE  Ext!Reverse(s)[k] = Ext!Reverse(t)[k] <=> s[m - k + 1] = t[n - k + 1]
    <3>1. k \in 1..n
      BY <2>3
    <3> QED
      BY <1>1, <1>2, <3>1
  <2> QED
    BY <2>1, <2>2, <2>3
<1>4. ASSUME m <= n
      PROVE  (\A k \in 1..m : s[m - k + 1] = t[n - k + 1])
             <=> (\A k \in 1..m : s[k] = t[n - m + k])
  <2>1. ASSUME NEW k \in 1..m
        PROVE  /\ m - k + 1 \in 1..m
               /\ n - (m - k + 1) + 1 = n - m + k
               /\ m - (m - k + 1) + 1 = k
               /\ n - m + (m - k + 1) = n - k + 1
    OBVIOUS
  <2>2. ASSUME \A k \in 1..m : s[m - k + 1] = t[n - k + 1], NEW k \in 1..m
        PROVE  s[k] = t[n - m + k]
    BY <2>1, <2>2
  <2>3. ASSUME \A k \in 1..m : s[k] = t[n - m + k], NEW k \in 1..m
        PROVE  s[m - k + 1] = t[n - k + 1]
    BY <2>1, <2>3
  <2> QED
    BY <2>2, <2>3
<1> QED
  BY <1>1, <1>3, <1>4

LEMMA InsideAt ==
    ASSUME NEW S, NEW s \in Seq(S), NEW t \in Seq(S)
    PROVE  HasInside(t, s) <=>
             \E c \in 0..Len(t) : /\ c + Len(s) <= Len(t)
                                  /\ \A k \in 1..Len(s) : s[k] = t[c + k]
<1>1. PICK m \in Nat, n \in Nat : m = Len(s) /\ n = Len(t)
  OBVIOUS
<1>2. ASSUME NEW c \in 0..(n - 1)
      PROVE  Ext!IsPrefix(s, SubSeq(t, c + 1, n)) <=>
               /\ c + m <= n
               /\ \A k \in 1..m : s[k] = t[c + k]
  <2>1. PICK u \in Seq(S) : u = SubSeq(t, c + 1, n)
    <3>1. SubSeq(t, c + 1, n) \in Seq(S)
      BY <1>1
    <3> QED
      BY <3>1
  <2>2. Len(u) = n - c /\ \A k \in 1..(n - c) : u[k] = t[c + k]
    BY <1>1, <2>1
  <2>3. Ext!IsPrefix(s, u) <=> m <= n - c /\ \A k \in 1..m : s[k] = u[k]
    <3>1. Ext!IsPrefix(s, u) <=> Begins(s, u)
      BY Zenon, PrefixAt
    <3> QED
      BY <1>1, <2>2, <3>1 DEF Begins
  <2>4. ASSUME m <= n - c, NEW k \in 1..m
        PROVE  u[k] = t[c + k]
    <3>1. k \in 1..(n - c)
      BY <2>4
    <3> QED
      BY <2>2, <3>1
  <2> QED
    BY <2>1, <2>3, <2>4
<1>3. Ext!IsPrefix(s, <<>>) <=> m = 0
  <2>1. PICK u \in Seq(S) : u = <<>>
    BY EmptySeq
  <2>2. Len(u) = 0
    BY <2>1
  <2>3. Ext!IsPrefix(s, u) <=> m <= 0 /\ \A k \in 1..m : s[k] = u[k]
    <3>1. Ext!IsPrefix(s, u) <=> Begins(s, u)
      BY Zenon, PrefixAt
    <3> QED
      BY <1>1, <2>2, <3>1 DEF Begins
  <2>4. m = 0 => 1..m = {}
    OBVIOUS
  <2> QED
    BY <2>1, <2>3, <2>4
<1>4. HasInside(t, s) <=> \/ \E c \in 0..(n - 1) : Ext!IsPrefix(s, SubSeq(t, c + 1, n))
                          \/ Ext!IsPrefix(s, <<>>)
  <2>1. ASSUME NEW r
        PROVE  r \in Ext!Suffixes(t)
               <=> r = <<>> \/ \E c \in 0..(n - 1) : r = SubSeq(t, c + 1, n)
    <3>1. r \in Ext!Suffixes(t) <=> r = <<>> \/ \E l \in 1..n : r = SubSeq(t, l, n)
      BY <1>1 DEF Ext!Suffixes
    <3>2. ASSUME NEW l \in 1..n
          PROVE  l - 1 \in 0..(n - 1) /\ (l - 1) + 1 = l
      OBVIOUS
    <3>3. ASSUME NEW c \in 0..(n - 1)
          PROVE  c + 1 \in 1..n
      OBVIOUS
    <3>4. (\E l \in 1..n : r = SubSeq(t, l, n))
          <=> (\E c \in 0..(n - 1) : r = SubSeq(t, c + 1, n))
      <4>1. ASSUME NEW l \in 1..n, r = SubSeq(t, l, n)
            PROVE  \E c \in 0..(n - 1) : r = SubSeq(t, c + 1, n)
        <5>1. PICK c \in 0..(n - 1) : c + 1 = l
          BY <3>2
        <5> QED
          BY <4>1, <5>1
      <4> QED
        BY <3>3, <4>1
    <3> QED
      BY <3>1, <3>4
  <2> QED
    BY <2>1 DEF HasInside
<1>5. ASSUME HasInside(t, s)
      PROVE  \E c \in 0..n : c + m <= n /\ \A k \in 1..m : s[k] = t[c + k]
  <2>1. CASE m = 0
    <3>1. 0 \in 0..n /\ 0 + m <= n /\ \A k \in 1..m : s[k] = t[0 + k]
      BY <2>1
    <3> QED
      BY <3>1
  <2>2. CASE m # 0
    <3>1. PICK c \in 0..(n - 1) : Ext!IsPrefix(s, SubSeq(t, c + 1, n))
      BY <1>3, <1>4, <1>5, <2>2
    <3>2. c + m <= n /\ \A k \in 1..m : s[k] = t[c + k]
      BY <1>2, <3>1
    <3>3. c \in 0..n
      OBVIOUS
    <3> QED
      BY <3>2, <3>3
  <2> QED
    BY <2>1, <2>2
<1>6. ASSUME NEW c \in 0..n, c + m <= n, \A k \in 1..m : s[k] = t[c + k]
      PROVE  HasInside(t, s)
  <2>1. CASE m = 0
    BY <1>3, <1>4, <2>1
  <2>2. CASE m # 0
    <3>1. c \in 0..(n - 1)
      BY <1>6, <2>2
    <3>2. Ext!IsPrefix(s, SubSeq(t, c + 1, n))
      BY <1>2, <1>6, <3>1
    <3> QED
      BY <1>4, <3>1, <3>2
  <2> QED
    BY <2>1, <2>2
<1> QED
  BY <1>1, <1>5, <1>6

LEMMA LoweredText ==
    ASSUME NEW t \in Seq(Chars)
    PROVE  /\ ToLower(t) \in Seq(Chars) /\ Len(ToLower(t)) = Len(t)
           /\ DOMAIN ToLower(t) = 1..Len(t)
           /\ \A k \in 1..Len(t) : ToLower(t)[k] = Lower[t[k]]
           /\ stars(ToLower(t)) = stars(t)
<1>1. PICK n \in Nat : n = Len(t)
  OBVIOUS
<1>2. DOMAIN t = 1..n /\ \A k \in 1..n : t[k] \in Chars /\ Lower[t[k]] \in Chars
  BY <1>1, CharsAssumption
<1>3. ToLower(t) = [k \in 1..n |-> Lower[t[k]]]
  BY <1>2 DEF ToLower
<1>4. ToLower(t) \in Seq(Chars) /\ Len(ToLower(t)) = n /\ DOMAIN ToLower(t) = 1..n
  BY <1>2, <1>3
<1>5. \A k \in 1..n : ToLower(t)[k] = Star <=> t[k] = Star
  BY <1>2, <1>3, CharsAssumption
<1>6. stars(ToLower(t)) = stars(t)
  BY <1>2, <1>4, <1>5 DEF stars
<1> QED
  BY <1>1, <1>3, <1>4, <1>6

\* What is left of a simple pattern is what is between its stars.
LEMMA UnstarredSimple ==
    ASSUME NEW p \in Seq(Chars), Simple(p)
    PROVE  /\ unstarred(ToLower(p)) \in Seq(Chars)
           /\ Len(unstarred(ToLower(p))) = between(p)
           /\ \A k \in 1..between(p) :
                unstarred(ToLower(p))[k] = Lower[p[front(p) + k]]
<1>1. PICK n \in Nat : n = Len(p)
  OBVIOUS
<1>2. PICK d \in 0..1, e \in 0..1, m \in Nat : d = front(p) /\ e = back(p) /\ m = between(p)
  BY <1>1, SimpleShape
<1>3. n = d + m + e
  BY <1>1, <1>2, SimpleShape
<1>4. \A i \in 1..n : i \in stars(p) <=> i <= d \/ i > d + m
  BY <1>1, <1>2, SimpleShape
<1>5. PICK q \in Seq(Chars) : q = ToLower(p)
  BY LoweredText
<1>6. DOMAIN q = 1..n /\ stars(q) = stars(p) /\ \A i \in 1..n : q[i] = Lower[p[i]]
  BY <1>1, <1>5, LoweredText
<1>7. DOMAIN q \ stars(q) = (d + 1)..(d + m)
  <2>1. ASSUME NEW i
        PROVE  i \in (1..n) \ stars(p) <=> i \in (d + 1)..(d + m)
    BY <1>3, <1>4
  <2> QED
    BY <1>6, <2>1
<1>8. Cardinality((d + 1)..(d + m)) = m
  <2>1. d + 1 \in Int /\ d + m \in Int
    OBVIOUS
  <2>2. PICK a \in Int, b \in Int : a = d + 1 /\ b = d + m
    BY <2>1
  <2>3. Cardinality(a..b) = IF a > b THEN 0 ELSE b - a + 1
    BY FS_Interval
  <2>4. (IF a > b THEN 0 ELSE b - a + 1) = m
    BY <2>2
  <2> QED
    BY <2>2, <2>3, <2>4
<1>9. ASSUME NEW i \in (d + 1)..(d + m)
      PROVE  Cardinality({j \in (d + 1)..(d + m) : j <= i}) = i - d
  <2>1. {j \in (d + 1)..(d + m) : j <= i} = (d + 1)..i
    OBVIOUS
  <2>2. PICK a \in Int, b \in Int : a = d + 1 /\ b = i
    OBVIOUS
  <2>3. Cardinality(a..b) = IF a > b THEN 0 ELSE b - a + 1
    BY FS_Interval
  <2>4. (IF a > b THEN 0 ELSE b - a + 1) = i - d
    BY <2>2
  <2> QED
    BY <2>1, <2>2, <2>3, <2>4
<1>10. ASSUME NEW k \in 1..m
       PROVE  nth((d + 1)..(d + m), k) = d + k
  <2>1. d + k \in (d + 1)..(d + m) /\ (d + k) - d = k
    OBVIOUS
  <2>2. ASSUME NEW i \in (d + 1)..(d + m)
        PROVE  Cardinality({j \in (d + 1)..(d + m) : j <= i}) = k <=> i = d + k
    <3>1. i - d = k <=> i = d + k
      OBVIOUS
    <3> QED
      BY <1>9, <3>1
  <2> QED
    BY <2>1, <2>2 DEF nth
<1>11. unstarred(q) = [k \in 1..m |-> q[d + k]]
  <2>1. unstarred(q) = [k \in 1..m |-> q[nth((d + 1)..(d + m), k)]]
    BY <1>7, <1>8 DEF unstarred
  <2> QED
    BY <1>10, <2>1
<1>12. \A k \in 1..m : d + k \in 1..n
  BY <1>3
<1>13. \A k \in 1..m : q[d + k] = Lower[p[d + k]] /\ q[d + k] \in Chars
  BY <1>6, <1>12
<1>14. unstarred(q) \in Seq(Chars) /\ Len(unstarred(q)) = m
  <2>1. PICK u : u = [k \in 1..m |-> q[d + k]]
    OBVIOUS
  <2>2. \A k \in 1..m : u[k] \in Chars
    BY <1>13, <2>1
  <2>3. u \in [1..m -> Chars]
    BY <2>1, <2>2
  <2>4. u \in Seq(Chars) /\ Len(u) = m
    BY <2>3
  <2> QED
    BY <1>11, <2>1, <2>4
<1> QED
  BY <1>2, <1>5, <1>11, <1>13, <1>14

LEMMA StarsOfSimple ==
    ASSUME NEW p \in Seq(Chars), Simple(p)
    PROVE  /\ stars(p) = {} <=> front(p) = 0 /\ back(p) = 0
           /\ Cardinality(stars(p)) = 2 <=> front(p) = 1 /\ back(p) = 1
           /\ 1 \in stars(p) <=> front(p) = 1
<1>1. PICK n \in Nat : n = Len(p)
  OBVIOUS
<1>2. PICK d \in 0..1, e \in 0..1, m \in Nat, S \in SUBSET (1..n) :
        d = front(p) /\ e = back(p) /\ m = between(p) /\ S = stars(p)
  <2>1. stars(p) \in SUBSET (1..n)
    BY <1>1 DEF stars
  <2>2. front(p) \in 0..1 /\ back(p) \in 0..1 /\ between(p) \in Nat
    BY <1>1, SimpleShape
  <2> QED
    BY <2>1, <2>2
<1>3. n = d + m + e
  BY <1>1, <1>2, SimpleShape
<1>4. d = 1 <=> 1 \in S
  BY <1>1, <1>2, SimpleShape
<1>5. e = 1 <=> n > 1 /\ n \in S
  BY <1>1, <1>2, SimpleShape
<1>6. S \subseteq {1, n}
  BY <1>1, <1>2 DEF Simple
<1>7. S = {} <=> d = 0 /\ e = 0
  <2>1. ASSUME d = 0, e = 0, NEW i \in S
        PROVE  FALSE
    <3>1. i = 1 \/ i = n
      BY <1>6
    <3>2. i # 1
      BY <1>4, <2>1
    <3>3. i = n /\ i \in 1..n
      BY <3>1, <3>2
    <3> QED
      BY <1>5, <2>1, <3>2, <3>3
  <2> QED
    BY <1>4, <1>5, <2>1
<1>8. Cardinality(S) = 2 <=> d = 1 /\ e = 1
  <2>1. CASE d = 1 /\ e = 1
    <3>0. 1 \in S /\ n \in S /\ n # 1
      BY <1>4, <1>5, <2>1
    <3>1. S = {1} \cup {n} /\ n # 1
      BY Zenon, <1>6, <3>0
    <3>2. IsFiniteSet({1}) /\ Cardinality({1}) = 1
      BY FS_Singleton
    <3>3. Cardinality({1} \cup {n}) = IF n \in {1} THEN Cardinality({1}) ELSE Cardinality({1}) + 1
      BY <3>2, FS_AddElement
    <3>4. n \notin {1}
      BY <3>1
    <3>5. Cardinality({1} \cup {n}) = 1 + 1
      BY Zenon, <3>2, <3>3, <3>4
    <3>6. Cardinality(S) = 1 + 1
      BY Zenon, <3>1, <3>5
    <3>7. Cardinality(S) = 2
      BY <3>6
    <3> QED
      BY <2>1, <3>7
  <2>2. CASE ~(d = 1 /\ e = 1)
    <3>1. S = {} \/ S = {1} \/ S = {n}
      <4>1. ~(1 \in S /\ n \in S /\ n # 1)
        <5>1. n \in S /\ n # 1 => n > 1
          OBVIOUS
        <5> QED
          BY <1>4, <1>5, <2>2, <5>1
      <4> QED
        BY <1>6, <4>1
    <3>2. \A x : Cardinality({x}) = 1
      BY FS_Singleton
    <3>3. Cardinality({}) = 0
      BY FS_EmptySet
    <3>4. Cardinality(S) = 0 \/ Cardinality(S) = 1
      <4>1. CASE S = {}
        BY <3>3, <4>1
      <4>2. CASE S = {1}
        BY Zenon, <3>2, <4>2
      <4>3. CASE S = {n}
        BY Zenon, <3>2, <4>3
      <4> QED
        BY <3>1, <4>1, <4>2, <4>3
    <3> QED
      BY <2>2, <3>4
  <2> QED
    BY <2>1, <2>2
<1> QED
  BY <1>2, <1>4, <1>7, <1>8

LEMMA RegexOfSimple ==
    ASSUME NEW t \in Seq(Chars), NEW p \in Seq(Chars), Simple(p)
    PROVE  RegexMatch(t, p) <=> \E c \in 0..Len(t) : Sits(t, p, c)
<1>1. PICK n \in Nat, L \in Nat : n = Len(p) /\ L = Len(t)
  OBVIOUS
<1>2. PICK d \in 0..1, e \in 0..1, m \in Nat : d = front(p) /\ e = back(p) /\ m = between(p)
  BY <1>1, SimpleShape
<1>3. n = d + m + e
  BY <1>1, <1>2, SimpleShape
<1>4. ASSUME NEW c
      PROVE  Sits(t, p, c) <=> /\ c + m <= L
                               /\ d = 0 => c = 0
                               /\ e = 0 => c + m = L
                               /\ Same(t, p, c)
  BY <1>1, <1>2 DEF Sits
<1>s. ASSUME NEW c
      PROVE  Same(t, p, c) <=> \A k \in 1..m : Lower[p[d + k]] = Lower[t[c + k]]
  BY <1>2 DEF Same
<1>5. PICK ls \in Seq(Chars), lp \in Seq(Chars), np \in Seq(Chars) :
        ls = ToLower(t) /\ lp = ToLower(p) /\ np = unstarred(ToLower(p))
  BY LoweredText, UnstarredSimple
<1>6. Len(ls) = L /\ \A k \in 1..L : ls[k] = Lower[t[k]]
  BY <1>1, <1>5, LoweredText
<1>7. Len(lp) = n /\ \A k \in 1..n : lp[k] = Lower[p[k]]
  BY <1>1, <1>5, LoweredText
<1>8. Len(np) = m /\ \A k \in 1..m : np[k] = Lower[p[d + k]]
  BY <1>2, <1>5, UnstarredSimple
<1>9. CASE d = 0 /\ e = 0
  <2>1. stars(p) = {} /\ Cardinality(stars(p)) # 2
    BY <1>2, <1>9, StarsOfSimple
  <2>2. RegexMatch(t, p) <=> ls = lp
    BY <1>5, <2>1 DEF RegexMatch
  <2>3. n = m
    BY <1>3, <1>9
  <2>4. ls = lp <=> m = L /\ \A k \in 1..m : lp[k] = ls[k]
    <3>1. ASSUME m = L, \A k \in 1..m : lp[k] = ls[k]
          PROVE  ls = lp
      <4>1. ls = [k \in 1..L |-> ls[k]] /\ lp = [k \in 1..L |-> lp[k]]
        BY <1>6, <1>7, <2>3, <3>1
      <4> QED
        BY <3>1, <4>1
    <3> QED
      BY <1>6, <1>7, <2>3, <3>1
  <2>5. ASSUME m = L, NEW k \in 1..m
        PROVE  lp[k] = ls[k] <=> Lower[p[d + k]] = Lower[t[0 + k]]
    <3>1. k \in 1..L /\ k \in 1..n /\ d + k = k /\ 0 + k = k
      BY <1>9, <2>3, <2>5
    <3> QED
      BY <1>6, <1>7, <3>1
  <2>6. ls = lp <=> Sits(t, p, 0)
    <3>1. Sits(t, p, 0) <=> m = L /\ Same(t, p, 0)
      BY <1>4, <1>9
    <3>2. m = L => (Same(t, p, 0) <=> \A k \in 1..m : lp[k] = ls[k])
      BY <1>s, <2>5
    <3> QED
      BY <2>4, <3>1, <3>2
  <2>7. \A c : Sits(t, p, c) => c = 0
    BY <1>4, <1>9
  <2>8. 0 \in 0..Len(t)
    BY <1>1
  <2> QED
    BY <2>2, <2>6, <2>7, <2>8
<1>10. CASE d = 1 /\ e = 1
  <2>1. stars(p) # {} /\ Cardinality(stars(p)) = 2
    BY <1>2, <1>10, StarsOfSimple
  <2>2. RegexMatch(t, p) <=> HasInside(ls, np)
    BY <1>5, <2>1 DEF RegexMatch
  <2>3. HasInside(ls, np) <=> \E c \in 0..L : c + m <= L /\ \A k \in 1..m : np[k] = ls[c + k]
    <3>1. HasInside(ls, np) <=>
            \E c \in 0..Len(ls) : /\ c + Len(np) <= Len(ls)
                                  /\ \A k \in 1..Len(np) : np[k] = ls[c + k]
      BY InsideAt
    <3> QED
      BY <1>6, <1>8, <3>1
  <2>4. ASSUME NEW c \in 0..L, c + m <= L, NEW k \in 1..m
        PROVE  np[k] = ls[c + k] <=> Lower[p[d + k]] = Lower[t[c + k]]
    <3>1. c + k \in 1..L
      BY <2>4
    <3> QED
      BY <1>6, <1>8, <3>1
  <2>5. ASSUME NEW c \in 0..L
        PROVE  (c + m <= L /\ \A k \in 1..m : np[k] = ls[c + k]) <=> Sits(t, p, c)
    <3>1. Sits(t, p, c) <=> c + m <= L /\ Same(t, p, c)
      BY <1>4, <1>10
    <3>2. c + m <= L => (Same(t, p, c) <=> \A k \in 1..m : np[k] = ls[c + k])
      BY <1>s, <2>4
    <3> QED
      BY <3>1, <3>2
  <2> QED
    BY <1>1, <2>2, <2>3, <2>5
<1>11. CASE d = 1 /\ e = 0
  <2>1. stars(p) # {} /\ Cardinality(stars(p)) # 2 /\ 1 \in stars(p)
    BY <1>2, <1>11, StarsOfSimple
  <2>2. RegexMatch(t, p) <=> Ext!IsSuffix(np, ls)
    BY <1>5, <2>1 DEF RegexMatch
  <2>3. Ext!IsSuffix(np, ls) <=> m <= L /\ \A k \in 1..m : np[k] = ls[L - m + k]
    <3>1. Ext!IsSuffix(np, ls) <=>
            /\ Len(np) <= Len(ls)
            /\ \A k \in 1..Len(np) : np[k] = ls[Len(ls) - Len(np) + k]
      BY SuffixAt
    <3> QED
      BY <1>6, <1>8, <3>1
  <2>4. ASSUME m <= L, NEW k \in 1..m
        PROVE  np[k] = ls[L - m + k] <=> Lower[p[d + k]] = Lower[t[L - m + k]]
    <3>1. L - m + k \in 1..L
      BY <2>4
    <3> QED
      BY <1>6, <1>8, <3>1
  <2>5. ASSUME m <= L
        PROVE  /\ L - m \in 0..L
               /\ Ext!IsSuffix(np, ls) <=> Sits(t, p, L - m)
    <3>1. L - m \in 0..L /\ (L - m) + m = L
      BY <2>5
    <3>2. Sits(t, p, L - m) <=> Same(t, p, L - m)
      BY <1>4, <1>11, <3>1
    <3>3. Same(t, p, L - m) <=> \A k \in 1..m : np[k] = ls[L - m + k]
      BY <1>s, <2>4, <2>5
    <3> QED
      BY <2>3, <2>5, <3>1, <3>2, <3>3
  <2>6. ASSUME NEW c \in 0..L, Sits(t, p, c)
        PROVE  m <= L /\ c = L - m
    <3>1. c + m = L
      BY <1>4, <1>11, <2>6
    <3> QED
      BY <3>1
  <2> QED
    BY <1>1, <2>2, <2>3, <2>5, <2>6
<1>12. CASE d = 0 /\ e = 1
  <2>1. stars(p) # {} /\ Cardinality(stars(p)) # 2 /\ 1 \notin stars(p)
    BY <1>2, <1>12, StarsOfSimple
  <2>2. RegexMatch(t, p) <=> Ext!IsPrefix(np, ls)
    BY <1>5, <2>1 DEF RegexMatch
  <2>3. Ext!IsPrefix(np, ls) <=> m <= L /\ \A k \in 1..m : np[k] = ls[k]
    <3>1. Ext!IsPrefix(np, ls) <=> Begins(np, ls)
      BY Zenon, PrefixAt
    <3> QED
      BY <1>6, <1>8, <3>1 DEF Begins
  <2>4. ASSUME m <= L, NEW k \in 1..m
        PROVE  np[k] = ls[k] <=> Lower[p[d + k]] = Lower[t[0 + k]]
    <3>1. k \in 1..L /\ 0 + k = k
      BY <2>4
    <3> QED
      BY <1>6, <1>8, <3>1
  <2>5. Ext!IsPrefix(np, ls) <=> Sits(t, p, 0)
    <3>1. Sits(t, p, 0) <=> m <= L /\ Same(t, p, 0)
      <4>1. 0 + m <= L <=> m <= L
        OBVIOUS
      <4> QED
        BY <1>4, <1>12, <4>1
    <3>2. m <= L => (Same(t, p, 0) <=> \A k \in 1..m : np[k] = ls[k])
      BY <1>s, <2>4
    <3> QED
      BY <2>3, <3>1, <3>2
  <2>6. \A c : Sits(t, p, c) => c = 0
    BY <1>4, <1>12
  <2>7. 0 \in 0..Len(t)
    BY <1>1
  <2> QED
    BY <2>2, <2>5, <2>6, <2>7
<1>13. (d = 0 \/ d = 1) /\ (e = 0 \/ e = 1)
  OBVIOUS
<1> QED
  BY <1>9, <1>10, <1>11, <1>12, <1>13

\* On simple patterns the code's matching is matching with stars (Util.go 185-213).
THEOREM ContainsIsGlob ==
    ASSUME NEW text \in Seq(Chars), NEW patterns \in SUBSET Seq(Chars),
           \A p \in patterns : Simple(p)
    PROVE  Contains(text, patterns) <=> \E p \in patterns : Glob(text, p)
<1>1. ASSUME NEW p \in patterns
      PROVE  RegexMatch(text, p) <=> Glob(text, p)
  BY RegexOfSimple, GlobOfSimple
<1>2. ASSUME NEW p \in patterns, ToLower(p) = ToLower(text)
      PROVE  Glob(text, p)
  <2>1. PICK n \in Nat : n = Len(p)
    OBVIOUS
  <2>2. Len(text) = n
    BY <1>2, <2>1, LoweredText
  <2>3. \A i \in 1..n : Lower[p[i]] = Lower[text[i]]
    BY <1>2, <2>1, <2>2, LoweredText
  <2>4. PICK cut : cut = [i \in 1..(n + 1) |-> i - 1]
    OBVIOUS
  <2>5. \A i \in 1..(n + 1) : i - 1 \in 0..n
    OBVIOUS
  <2>6. cut \in [1..(n + 1) -> 0..n] /\ cut[1] = 0 /\ cut[n + 1] = n
    BY <2>4, <2>5
  <2>7. ASSUME NEW i \in 1..n
        PROVE  cut[i] = i - 1 /\ cut[i + 1] = i
    BY <2>4
  <2>8. DOMAIN p = 1..n
    BY <2>1
  <2>9. ASSUME NEW i \in 1..n
        PROVE  IF p[i] = Star THEN cut[i + 1] >= cut[i]
               ELSE cut[i + 1] = cut[i] + 1 /\ Lower[p[i]] = Lower[text[cut[i + 1]]]
    BY <2>3, <2>7
  <2> QED
    BY <2>1, <2>2, <2>6, <2>8, <2>9 DEF Glob
<1> QED
  BY <1>1, <1>2 DEF Contains

-----------------------------------------------------------------------------
(***************************************************************************)
(* What the filters let through.                                           *)
(***************************************************************************)
Chosen ==
    /\ conf \in Configs
    /\ \A p \in toList : p \in Mapped /\ kindSelected(p[2])
    /\ \A f \in objects :
         /\ KindOf[f[1]] \notin SkippedKinds
         /\ <<f[2], KindOf[f[1]]>> \in Mapped
         /\ kindSelected(KindOf[f[1]])
         /\ namespaceSelected(NamespaceOf[f[1]])

\* No step changes the configuration.
LEMMA ConfKept == [Next]_vars => conf' = conf
BY DEF Next, Connect, LoadTarget, AskServerVersion, GetServerKinds, GetTargetKinds, SortPanics,
       MapKind, MapEnds, ListResource, ListEnds, ValidateNext, StartJudging, Judge, Emit, Flush,
       judgeUnchanged, vars

LEMMA InitChosen == Init => Chosen
BY DEF Init, Chosen

LEMMA ChosenKept == TypeOK /\ Chosen /\ [Next]_vars => Chosen'
<1> SUFFICES ASSUME TypeOK, Chosen, [Next]_vars
             PROVE  Chosen'
  OBVIOUS
<1>1. /\ conf' = conf
      /\ \A k : kindSelected(k)' <=> kindSelected(k)
      /\ \A n : namespaceSelected(n)' <=> namespaceSelected(n)
  <2>1. conf' = conf
    BY ConfKept DEF vars
  <2> QED
    BY <2>1 DEF kindSelected, namespaceSelected
<1>2. ASSUME NEW p \in toMap, MapKind(p)
      PROVE  Chosen'
  <2>1. /\ objects' = objects
        /\ \A q \in toList' : q \in toList \/ (q = p /\ kindSelected(p[2]) /\ p \in Mapped)
    BY <1>2 DEF MapKind
  <2> QED
    BY <1>1, <2>1 DEF Chosen
<1>3. ASSUME NEW p \in toList, ListResource(p)
      PROVE  Chosen'
  <2>1. /\ toList' \subseteq toList
        /\ \/ objects' = objects
           \/ /\ p[2] \notin SkippedKinds
              /\ objects' = objects \cup {<<o, p[1]>> : o \in listed(p)}
    BY <1>3 DEF ListResource
  <2>2. ASSUME NEW o \in listed(p), p[2] \notin SkippedKinds, NEW f, f = <<o, p[1]>>
        PROVE  /\ KindOf[f[1]] \notin SkippedKinds
               /\ <<f[2], KindOf[f[1]]>> \in Mapped
               /\ kindSelected(KindOf[f[1]])
               /\ namespaceSelected(NamespaceOf[f[1]])
    <3>1. f[1] = o /\ f[2] = p[1] /\ KindOf[o] = p[2] /\ namespaceSelected(NamespaceOf[o])
      BY <2>2 DEF listed
    <3>2. p \in Mapped /\ kindSelected(p[2]) /\ p = <<p[1], p[2]>>
      BY DEF Chosen, TypeOK
    <3> QED
      BY <2>2, <3>1, <3>2
  <2>3. \A f \in objects' :
          /\ KindOf[f[1]] \notin SkippedKinds
          /\ <<f[2], KindOf[f[1]]>> \in Mapped
          /\ kindSelected(KindOf[f[1]])
          /\ namespaceSelected(NamespaceOf[f[1]])
    BY <2>1, <2>2 DEF Chosen
  <2> QED
    BY <1>1, <2>1, <2>3 DEF Chosen
<1>4. CASE UNCHANGED <<toList, objects>>
  BY <1>1, <1>4 DEF Chosen
<1>5. \/ \E p \in toMap : MapKind(p)
      \/ \E p \in toList : ListResource(p)
      \/ UNCHANGED <<toList, objects>>
  BY DEF Next, Connect, LoadTarget, AskServerVersion, GetServerKinds, GetTargetKinds, SortPanics,
         MapEnds, ListEnds, ValidateNext, StartJudging, Judge, Emit, Flush, clusterVars, vars
<1> QED
  BY <1>2, <1>3, <1>4, <1>5

LEMMA SpecChosen == Spec => []Chosen
<1>1. Init => Chosen
  BY InitChosen
<1>2. IInv => TypeOK
  BY DEF IInv
<1>3. TypeOK /\ Chosen /\ [Next]_vars => Chosen'
  BY ChosenKept
<1> QED
  BY <1>1, <1>2, <1>3, SpecIInv, PTL DEF Spec

LEMMA SelectedIsGlobSelected ==
    ASSUME NEW text \in Seq(Chars), NEW ignore \in SUBSET Seq(Chars),
           NEW select \in SUBSET Seq(Chars), \A p \in ignore \cup select : Simple(p)
    PROVE  selected(text, ignore, select) <=> globSelected(text, ignore, select)
<1>1. \A p \in ignore : Simple(p)
  OBVIOUS
<1>2. \A p \in select : Simple(p)
  OBVIOUS
<1>3. Contains(text, ignore) <=> \E p \in ignore : Glob(text, p)
  BY <1>1, ContainsIsGlob
<1>4. Contains(text, select) <=> \E p \in select : Glob(text, p)
  BY <1>2, ContainsIsGlob
<1> QED
  BY <1>3, <1>4 DEF selected, globSelected

\* Whatever lists fail and in whatever order they come, the results are those of different
\* objects that the patterns of the configuration select (Cluster.go 66-108, Util.go
\* 185-213).
THEOREM SelectedIsReported == Spec => []ResultsAreSelected
<1>1. ASSUME IInv, Chosen
      PROVE  ResultsAreSelected
  <2> SUFFICES ASSUME simplePatterns(conf)
               PROVE  \E who \in [DOMAIN results -> Wanted[conf]] :
                        /\ \A i, j \in DOMAIN results : who[i] = who[j] => i = j
                        /\ \A i \in DOMAIN results :
                             IF Applied[who[i]] # NoDoc THEN results[i].doc = Applied[who[i]]
                             ELSE \E a \in Apis : /\ <<a, KindOf[who[i]]>> \in Mapped
                                                 /\ results[i].doc = Live[who[i]][a]
    BY DEF ResultsAreSelected
  <2>1. DOMAIN DocsOf(results) = DOMAIN results
    BY DEF DocsOf
  <2>2. PICK of \in [DOMAIN results -> objects \ left] :
          /\ \A i \in DOMAIN results : DocsOf(results)[i] = docOf(of[i])
          /\ \A i, j \in DOMAIN results : of[i] = of[j] => i = j
    BY <1>1, <2>1 DEF IInv, Owned
  <2>3. \A i \in DOMAIN results : results[i].doc = docOf(of[i])
    BY <2>2 DEF DocsOf
  <2>4. ASSUME NEW f \in objects
        PROVE  f[1] \in Wanted[conf] /\ f[2] \in Apis /\ f \in Objects \X Apis
    <3>1. f \in Objects \X Apis /\ f[1] \in Objects /\ f[2] \in Apis
      BY <1>1 DEF IInv, TypeOK
    <3>2. /\ KindOf[f[1]] \notin SkippedKinds
          /\ kindSelected(KindOf[f[1]]) /\ namespaceSelected(NamespaceOf[f[1]])
      BY <1>1 DEF Chosen
    <3>3. conf \in Configs /\ conf \in Config
      BY <1>1, ClusterAssumption DEF Chosen
    <3>4. /\ Spelling[KindOf[f[1]]] \in Seq(Chars)
          /\ Spelling[NamespaceOf[f[1]]] \in Seq(Chars)
      BY <3>1, ClusterAssumption
    <3>5. /\ conf.ignoreKinds \in SUBSET Seq(Chars) /\ conf.selectKinds \in SUBSET Seq(Chars)
          /\ conf.ignoreNamespaces \in SUBSET Seq(Chars)
          /\ conf.selectNamespaces \in SUBSET Seq(Chars)
      BY <3>3 DEF Config
    <3>6. globSelected(Spelling[KindOf[f[1]]], conf.ignoreKinds, conf.selectKinds)
      <4>1. \A p \in conf.ignoreKinds \cup conf.selectKinds : Simple(p)
        BY DEF simplePatterns
      <4>2. selected(Spelling[KindOf[f[1]]], conf.ignoreKinds, conf.selectKinds)
        BY <3>2 DEF kindSelected
      <4> QED
        BY <3>4, <3>5, <4>1, <4>2, SelectedIsGlobSelected
    <3>7. globSelected(Spelling[NamespaceOf[f[1]]], conf.ignoreNamespaces, conf.selectNamespaces)
      <4>1. \A p \in conf.ignoreNamespaces \cup conf.selectNamespaces : Simple(p)
        BY DEF simplePatterns
      <4>2. selected(Spelling[NamespaceOf[f[1]]], conf.ignoreNamespaces, conf.selectNamespaces)
        BY <3>2 DEF namespaceSelected
      <4> QED
        BY <3>4, <3>5, <4>1, <4>2, SelectedIsGlobSelected
    <3> QED
      BY <3>1, <3>2, <3>3, <3>6, <3>7 DEF Wanted
  <2>5. PICK who : who = [i \in DOMAIN results |-> of[i][1]]
    OBVIOUS
  <2>6. who \in [DOMAIN results -> Wanted[conf]]
    BY <2>4, <2>5
  <2>7. ASSUME NEW i \in DOMAIN results, NEW j \in DOMAIN results, who[i] = who[j]
        PROVE  i = j
    <3>1. of[i] = of[j]
      BY <1>1, <2>5, <2>7 DEF IInv, Fetched
    <3> QED
      BY <2>2, <3>1
  <2>8. ASSUME NEW i \in DOMAIN results
        PROVE  IF Applied[who[i]] # NoDoc THEN results[i].doc = Applied[who[i]]
               ELSE \E a \in Apis : /\ <<a, KindOf[who[i]]>> \in Mapped
                                   /\ results[i].doc = Live[who[i]][a]
    <3>1. PICK f \in objects : f = of[i]
      OBVIOUS
    <3>2. who[i] = f[1] /\ results[i].doc = docOf(f)
      BY <2>3, <2>5, <3>1
    <3>3. <<f[2], KindOf[f[1]]>> \in Mapped /\ f[2] \in Apis
      BY <1>1, <2>4 DEF Chosen
    <3> QED
      BY <3>2, <3>3 DEF docOf
  <2> QED
    BY <2>6, <2>7, <2>8
<1> QED
  BY <1>1, SpecIInv, SpecChosen, PTL

-----------------------------------------------------------------------------
(***************************************************************************)
(* The refinement. Migration has its own copies of the operators.          *)
(***************************************************************************)
LEMMA SamePutBulk ==
    ASSUME NEW format, NEW rs
    PROVE  Promise!PutBulk(format, rs) = PutBulk(format, rs)
BY DEF Promise!PutBulk, PutBulk, Promise!section, section, Promise!hasError, hasError,
       Promise!printsBulk, printsBulk, Promise!Summarised, Summarised,
       Promise!migrationStatus, migrationStatus, Promise!rowsOf, rowsOf, Promise!rowKeys, rowKeys,
       Promise!places, places, Promise!TablesOf, TablesOf, Promise!Tables, Tables,
       Promise!ErrorTables, ErrorTables

LEMMA SameVerdict ==
    ASSUME NEW d, NEW source, NEW target, NEW ignoreNull
    PROVE  Promise!Verdict(d, source, target, ignoreNull) = Verdict(d, source, target, ignoreNull)
BY DEF Promise!Verdict, Verdict, Promise!ValidateObject, ValidateObject, Promise!migratesTo,
       migratesTo, Promise!Kept, Kept, Promise!original, original, Promise!latest, latest,
       Promise!moves, moves, Promise!applySchema, applySchema, Promise!atOriginal, atOriginal,
       Promise!atLatest, atLatest, Promise!Clean, Clean

\* The pairs of copies a run may meet, and the abstract configuration. The source is the
\* server's release or, when the server does not tell, the target's one copy.
copies ==
    {<<c, c>> : c \in targets} \cup
    IF ServerRelease = conf.target THEN {} ELSE Published[ServerRelease] \X targets

options == [format |-> conf.format, ignoreNullErrors |-> conf.ignoreNullErrors,
            copies |-> copies]

LEMMA OptionsKept == Next => options' = options
BY ConfKept DEF options, copies, targets, vars

LEMMA InitImplements == Init => Promise!Init
<1> SUFFICES ASSUME Init PROVE Promise!Init
  OBVIOUS
<1>1. conf \in Config /\ report = <<>> /\ exit = Running
  BY ClusterAssumption DEF Init
<1>2. conf.format \in Formats /\ conf.ignoreNullErrors \in BOOLEAN
  BY <1>1 DEF Config
<1>3. targets \subseteq Catalogs /\ Published[ServerRelease] \subseteq Catalogs
  BY <1>1, TargetsAreCatalogs, ClusterAssumption, CheckerAssumption
<1>4. copies \subseteq Catalogs \X Catalogs
  BY <1>3 DEF copies
<1>5. options \in Promise!Options
  BY <1>2, <1>4 DEF options, Promise!Options, Promise!Formats, Formats
<1> QED
  BY <1>1, <1>5 DEF Promise!Init, options, copies, Promise!Running, Running

\* A run whose server could not be loaded has no results, so any source will do.
LEMMA EmitDelivers == IInv /\ Emit => Promise!Deliver
<1> SUFFICES ASSUME IInv, Emit
             PROVE  Promise!Deliver
  OBVIOUS
<1>1. /\ pc = "emit" /\ pc \in Judging /\ pc \in Working /\ conf' = conf /\ exit' = exit
      /\ report' = Append(report, PutBulk(conf.format, removeIgnoredKeys(results)))
  BY DEF Emit, ReportResults, Goes, Judging, Working
<1>2. /\ exit = Running /\ report = <<>> /\ targetCatalog \in Catalogs /\ results \in Seq(Result)
      /\ results # <<>> => versionMap[serverVersion] \in Catalogs
      /\ targetCatalog \in targets /\ conf.target \in Releases
  BY <1>1, LateState DEF IInv, Versions
<1> DEFINE docs == DocsOf(results)
           batches == {ds \in Seq(Docs) :
                         \E who \in [DOMAIN ds -> Objects] :
                           /\ \A i \in DOMAIN ds : ds[i] \in docsOf(who[i])
                           /\ \A i, j \in DOMAIN ds : who[i] = who[j] => i = j}
<1>3. docs \in batches
  <2>1. docs \in Seq(Docs)
    <3>1. ASSUME NEW i \in DOMAIN results
          PROVE  results[i].doc \in Docs
      <4>1. results[i] \in Result
        BY <1>2
      <4> QED
        BY <4>1 DEF Result
    <3> QED
      BY <1>2, <3>1 DEF DocsOf
  <2>2. PICK of \in [DOMAIN docs -> objects \ left] :
          /\ \A i \in DOMAIN docs : docs[i] = docOf(of[i])
          /\ \A i, j \in DOMAIN docs : of[i] = of[j] => i = j
    BY DEF IInv, Owned
  <2>3. \A i \in DOMAIN docs : of[i] \in objects /\ of[i] \in Objects \X Apis
    BY DEF IInv, TypeOK
  <2>4. PICK who : who = [i \in DOMAIN docs |-> of[i][1]]
    OBVIOUS
  <2>5. who \in [DOMAIN docs -> Objects]
    BY <2>3, <2>4
  <2>6. \A i \in DOMAIN docs : docs[i] \in docsOf(who[i])
    BY <2>2, <2>3, <2>4, DocOfIsOwned
  <2>7. ASSUME NEW i \in DOMAIN docs, NEW j \in DOMAIN docs, who[i] = who[j]
        PROVE  i = j
    <3>1. of[i] = of[j]
      BY <2>3, <2>4, <2>7 DEF IInv, Fetched
    <3> QED
      BY <2>2, <3>1
  <2> QED
    BY <2>1, <2>5, <2>6, <2>7
<1>4. PICK s \in Catalogs :
        s = IF results = <<>> THEN targetCatalog ELSE versionMap[serverVersion]
  BY <1>2
<1>5. PICK t, b : t = targetCatalog /\ b = conf.ignoreNullErrors
  OBVIOUS
<1>6. <<s, t>> \in copies
  <2>1. CASE s = t
    BY <1>2, <1>5, <2>1 DEF copies
  <2>2. CASE s # t
    <3>1. results # <<>> /\ s = versionMap[serverVersion] /\ serverVersion # conf.target
      BY <1>4, <1>5, <2>2 DEF targetCatalog
    <3>2. serverVersion = ServerRelease /\ ServerRelease \in Releases
      BY <3>1, ClusterAssumption DEF IInv, Versions
    <3>3. s \in Published[ServerRelease]
      BY <1>4, <3>1, <3>2, CheckerAssumption DEF IInv, Versions
    <3> QED
      BY <1>2, <1>5, <3>1, <3>2, <3>3 DEF copies
  <2> QED
    BY <2>1, <2>2
<1>7. removeIgnoredKeys(results) =
        [i \in DOMAIN docs |-> Verdict(docs[i], s, t, b)]
  <2>1. AllFoundIn(s, b)
    BY <1>1, <1>4, <1>5 DEF IInv, Findings, AllFoundIn
  <2>2. \A i \in DOMAIN results : JudgedBy(results[i], t)
    BY <1>1, <1>5 DEF IInv, Verdicted, JudgedSoFar
  <2>3. results \in Seq(Result)
    BY <1>2
  <2> QED
    BY <2>1, <2>2, <2>3, ReportedAreVerdicts, CheckerAssumption
<1>8. PICK bulk : bulk = PutBulk(conf.format, removeIgnoredKeys(results))
  OBVIOUS
<1>9. /\ Len(report) = 0 /\ Len(report') = Len(report) + 1 /\ report'[Len(report')] = bulk
      /\ report' = Append(report, bulk)
  BY <1>1, <1>2, <1>8
<1>10. bulk.results = results
  BY <1>2, <1>8, NoKeyIsIgnored DEF PutBulk
<1>11. bulk = Promise!BulkOf(docs, s, t)
  BY <1>5, <1>7, <1>8, SamePutBulk, SameVerdict DEF Promise!BulkOf
<1>12. Promise!DocsOf(report'[Len(report')].results) = docs
  BY <1>9, <1>10 DEF Promise!DocsOf, DocsOf
<1>13. options' = options
  BY OptionsKept DEF Next
<1>14. \E copy \in copies : report' = Append(report, Promise!BulkOf(docs, copy[1], copy[2]))
  <2>1. PICK copy \in copies : copy = <<s, t>>
    BY <1>6
  <2>2. copy[1] = s /\ copy[2] = t
    BY <2>1
  <2> QED
    BY <1>9, <1>11, <2>1, <2>2
<1> HIDE DEF docs
<1> QED
  BY <1>1, <1>2, <1>3, <1>9, <1>12, <1>13, <1>14
     DEF Promise!Deliver, options, copies, Promise!Running, Running

LEMMA StepImplements == IInv /\ [Next]_vars => [Promise!Next]_Promise!vars
<1> SUFFICES ASSUME IInv, [Next]_vars
             PROVE  Promise!Next \/ UNCHANGED Promise!vars
  OBVIOUS
<1>1. CASE UNCHANGED vars
  BY <1>1 DEF vars, Promise!vars, targets
<1>2. CASE Emit
  BY <1>2, EmitDelivers DEF Promise!Next
<1>3. CASE Next /\ report' = report
  <2>1. options' = options
    BY <1>3, OptionsKept
  <2>2. CASE exit' = exit
    BY <1>3, <2>1, <2>2 DEF Promise!vars, options, copies
  <2>3. CASE exit' # exit
    <3>1. exit = Running
      <4>1. pc # "stopped"
        BY <1>3 DEF Next, Connect, LoadTarget, AskServerVersion, GetServerKinds, GetTargetKinds,
                    SortPanics, asksTarget, MapKind, MapEnds, ListResource, ListEnds, ValidateNext, StartJudging, Judge,
                    JudgeLatest, JudgeCurrent, FilterNullErrors, Emit, Flush
      <4> QED
        BY <4>1 DEF IInv, Ending
    <3>2. exit' \in {0, 1, Panicked}
      BY <1>3, InductiveInvariant, <2>3, <3>1 DEF IInv, TypeOK
    <3>3. Promise!End
      BY <1>3, <2>1, <3>1, <3>2
         DEF Promise!End, options, copies, Promise!Running, Running, Promise!Panicked, Panicked
    <3> QED
      BY <3>3 DEF Promise!Next
  <2> QED
    BY <2>2, <2>3
<1>4. Next /\ ~Emit => report' = report
  BY DEF Next, Connect, LoadTarget, AskServerVersion, GetServerKinds, GetTargetKinds, SortPanics,
         MapKind, MapEnds, ListResource, ListEnds, ValidateNext, StartJudging, Judge, Flush,
         judgeUnchanged
<1> QED
  BY <1>1, <1>2, <1>3, <1>4

\* However the cluster and the downloads answer, a run prints of the cluster what one
\* copy of the server's release and one of the target's say of objects that exist
\* (kubedd.go 123-220).
THEOREM ClusterRunImplementsMigration == Spec => ImplementsMigration
<1>1. Init => Promise!Init
  BY InitImplements
<1>2. IInv /\ [Next]_vars => [Promise!Next]_Promise!vars
  BY StepImplements
<1>3. Spec => Init /\ [][Next]_vars
  BY PTL DEF Spec
<1> QED
  BY <1>1, <1>2, <1>3, SpecIInv, PTL DEF ImplementsMigration, Promise!Spec
=============================================================================
