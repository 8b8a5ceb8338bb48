----------------------------- MODULE ClusterCheck ---------------------------
(***************************************************************************)
(* A run of the program against a cluster: processCluster (main.go) with   *)
(* kubedd.ValidateCluster and Cluster.FetchK8sObjects (pkg/Cluster.go).    *)
(* Every call to the cluster may fail, and every download.                 *)
(***************************************************************************)
EXTENDS Report, Filters

CONSTANTS
    Objects,         \* the objects that exist in the cluster
    Namespaces,
    Spelling,        \* kind or namespace -> its text
    NamespaceOf,     \* object -> its namespace, "default" if it has none
    KindOf,          \* object -> its kind
    Live,            \* object -> apiVersion -> the document a list at it returns
    Applied,         \* object -> the last-applied document, or NoDoc
    NoDoc,
    ServerRelease,   \* the release the API server reports
    Mapped,          \* the <<apiVersion, kind>> pairs its discovery knows
    SkippedKinds,    \* kinds whose resource is named ...lists, ...reviews or bindings
    Configs

Config ==
    [target : Releases, targetLocation : Locations \cup {NoLocation},
     ignoreNullErrors : BOOLEAN, format : Formats,
     selectNamespaces : SUBSET Seq(Chars), ignoreNamespaces : SUBSET Seq(Chars),
     selectKinds : SUBSET Seq(Chars), ignoreKinds : SUBSET Seq(Chars)]

ASSUME ClusterAssumption ==
    /\ Spelling \in [Kinds \cup Namespaces -> Seq(Chars)]
    /\ NamespaceOf \in [Objects -> Namespaces]
    /\ KindOf \in [Objects -> Kinds]
    /\ Live \in [Objects -> [Apis -> Docs]]
    /\ Applied \in [Objects -> Docs \cup {NoDoc}]
    /\ NoDoc \notin Docs
    /\ ServerRelease \in Releases
    /\ Mapped \subseteq Apis \X Kinds
    /\ SkippedKinds \subseteq Kinds
    /\ Configs \subseteq Config

VARIABLES
    connected,       \* NewCluster returned a cluster, not nil
    serverVersion,   \* the release the objects are validated against
    toMap,           \* <<apiVersion, kind>> pairs FetchK8sObjects has to map
    toList,          \* pairs it has mapped and has to list
    objects,         \* <<object, apiVersion>> pairs it has fetched
    left             \* those of them not validated yet

clusterVars == <<connected, serverVersion, toMap, toList, objects, left>>
vars == <<versionMap, verdictVars, conf, report, exit, clusterVars>>

States == {"connect", "loadTarget", "serverVersion", "serverKinds", "targetKinds",
           "map", "list", "objects", "judgeLatest", "judgeCurrent", "emit", "flush", "stopped"}

Init ==
    /\ conf \in Configs
    /\ connected = FALSE
    /\ serverVersion = conf.target
    /\ toMap = {}
    /\ toList = {}
    /\ objects = {}
    /\ left = {}
    /\ pc = "connect"
    /\ report = <<>>
    /\ exit = Running
    /\ versionMap = NewChecker
    /\ results = <<>>
    /\ at = 1
    /\ apiVersionKindCache = EmptyCache

judgeUnchanged == UNCHANGED <<results, at, apiVersionKindCache, conf, report>>

-----------------------------------------------------------------------------
(***************************************************************************)
(* ValidateCluster up to the kinds to fetch.                               *)
(***************************************************************************)
\* A kubeconfig that cannot be parsed panics. NewCluster hides its other errors: it
\* returns nil, and no one looks.
Connect ==
    /\ pc = "connect"
    /\ \/ connected' \in BOOLEAN /\ Goes("loadTarget")
       \/ connected' = FALSE /\ Stop(Panicked)
    /\ UNCHANGED <<versionMap, serverVersion, toMap, toList, objects, left>>
    /\ judgeUnchanged

LoadTarget ==
    /\ pc = "loadTarget"
    /\ \E ok \in BOOLEAN :
         /\ Load(conf.target, conf.targetLocation, ok)
         /\ IF ok THEN Goes("serverVersion") ELSE LoadError("serverVersion")
    /\ UNCHANGED clusterVars
    /\ judgeUnchanged

\* Faulty variant: the version of a nil cluster is an error like any other.
NilDereferenceAnswers == serverVersion' = conf.target /\ Goes("serverKinds")

NilDereference == Stop(Panicked) /\ UNCHANGED serverVersion

\* A server that does not answer is taken to run the target release.
AskServerVersion ==
    /\ pc = "serverVersion"
    /\ IF connected
       THEN serverVersion' \in {ServerRelease, conf.target} /\ Goes("serverKinds")
       ELSE NilDereference
    /\ UNCHANGED <<versionMap, connected, toMap, toList, objects, left>>
    /\ judgeUnchanged

\* fetchLatestKinds: the latest apiVersion of every kind, where it is supported.
fetchLatestKinds(cat) == {p \in Served[cat] : Latest[cat][p[2]] = p[1]}

\* GetKinds of the server's release; when that cannot be loaded, of the target's.
GetServerKinds ==
    /\ pc = "serverKinds"
    /\ \E ok \in BOOLEAN :
         /\ LoadFromUrl(serverVersion, FALSE, ok)
         /\ IF ok THEN toMap' = fetchLatestKinds(versionMap'[serverVersion]) /\ Goes("map")
                  ELSE UNCHANGED toMap /\ Goes("targetKinds")
    /\ UNCHANGED <<connected, serverVersion, toList, objects, left>>
    /\ judgeUnchanged

\* The objects are still validated against serverVersion. An error ends the call
\* without results.
GetTargetKinds ==
    /\ pc = "targetKinds"
    /\ \E ok \in BOOLEAN :
         /\ LoadFromUrl(conf.target, FALSE, ok)
         /\ IF ok THEN toMap' = fetchLatestKinds(versionMap'[conf.target]) /\ Goes("map")
                  ELSE UNCHANGED toMap /\ Goes("emit")
    /\ UNCHANGED <<connected, serverVersion, toList, objects, left>>
    /\ judgeUnchanged

-----------------------------------------------------------------------------
(***************************************************************************)
(* FetchK8sObjects. Kinds come in any order.                               *)
(***************************************************************************)
\* Patterns to ignore go before patterns to select, and no pattern selects everything.
selected(text, ignore, select) ==
    ~Contains(text, ignore) /\ (select = {} \/ Contains(text, select))

kindSelected(k) == selected(Spelling[k], conf.ignoreKinds, conf.selectKinds)

namespaceSelected(n) == selected(Spelling[n], conf.ignoreNamespaces, conf.selectNamespaces)

\* RESTMapping fails for what discovery does not know, and when discovery fails.
MapKind(p) ==
    /\ pc = "map"
    /\ p \in toMap
    /\ toMap' = toMap \ {p}
    /\ toList' \in {toList} \cup
         IF kindSelected(p[2]) /\ p \in Mapped THEN {toList \cup {p}} ELSE {}
    /\ UNCHANGED <<versionMap, pc, exit, connected, serverVersion, objects, left>>
    /\ judgeUnchanged

MapEnds ==
    /\ pc = "map"
    /\ toMap = {}
    /\ Goes("list")
    /\ UNCHANGED <<versionMap, clusterVars>>
    /\ judgeUnchanged

\* The objects a list of p returns that the namespace filters let through.
listed(p) == {o \in Objects : KindOf[o] = p[2] /\ namespaceSelected(NamespaceOf[o])}

\* A list that fails is printed and passed over.
ListResource(p) ==
    /\ pc = "list"
    /\ p \in toList
    /\ toList' = toList \ {p}
    /\ objects' \in {objects} \cup
         IF p[2] \in SkippedKinds THEN {} ELSE {objects \cup {<<o, p[1]>> : o \in listed(p)}}
    /\ UNCHANGED <<versionMap, pc, exit, connected, serverVersion, toMap, left>>
    /\ judgeUnchanged

ListEnds ==
    /\ pc = "list"
    /\ toList = {}
    /\ left' = objects
    /\ Goes("objects")
    /\ UNCHANGED <<versionMap, connected, serverVersion, toMap, toList, objects>>
    /\ judgeUnchanged

-----------------------------------------------------------------------------
(***************************************************************************)
(* The loop over the objects, the verdicts, and processCluster's ending.   *)
(***************************************************************************)
\* What was applied goes before what the API server converted it to. An object the client
\* decoded from the server's JSON can be encoded again: MarshalJSON returns no error.
docOf(f) == IF Applied[f[1]] # NoDoc THEN Applied[f[1]] ELSE Live[f[1]][f[2]]

\* Faulty variant: the object is tried again.
leftAfterErrorRetries(f) == left

leftAfterError(f) == left \ {f}

\* ValidateJson asks for serverVersion again, so a download that failed before is tried
\* again for every object. An error is printed and the loop goes on.
ValidateNext(f) ==
    /\ pc = "objects"
    /\ f \in left
    /\ \E ok \in BOOLEAN :
         /\ LoadFromUrl(serverVersion, FALSE, ok)
         /\ IF ~ok \/ ValidationFails(docOf(f))
            THEN Goes("objects") /\ UNCHANGED results /\ left' = leftAfterError(f)
            ELSE IF ValidationPanics(versionMap'[serverVersion], docOf(f))
            THEN Stop(Panicked) /\ UNCHANGED results /\ left' = left \ {f}
            ELSE /\ Goes("objects")
                 /\ left' = left \ {f}
                 /\ results' = Append(results,
                      ValidateObject(versionMap'[serverVersion], docOf(f)))
    /\ UNCHANGED <<at, apiVersionKindCache, conf, report, connected, serverVersion, toMap,
                   toList, objects>>

StartJudging ==
    /\ pc = "objects"
    /\ left = {}
    /\ Goes("judgeLatest")
    /\ UNCHANGED <<versionMap, clusterVars>>
    /\ judgeUnchanged

Judge ==
    /\ \/ JudgeLatest(conf.target)
       \/ JudgeCurrent(conf.target)
       \/ FilterNullErrors(conf.ignoreNullErrors)
    /\ UNCHANGED <<conf, report, exit, clusterVars>>

Emit ==
    /\ pc = "emit"
    /\ ReportResults
    /\ Goes("flush")
    /\ UNCHANGED <<versionMap, results, at, apiVersionKindCache, conf, clusterVars>>

\* RootCmd does not look at what processCluster returns: the status is 0.
Flush ==
    /\ pc = "flush"
    /\ Stop(0)
    /\ UNCHANGED <<versionMap, results, at, apiVersionKindCache, conf, report, clusterVars>>

\* The sort of an index panics in a load that the step the run is at has to make. When
\* the target's kinds or verdicts are asked for, its index is there already.
SortPanics ==
    /\ \/ pc = "loadTarget" /\ PanicInLoad(conf.target, conf.targetLocation)
       \/ pc = "serverKinds" /\ PanicInLoad(serverVersion, NoLocation)
       \/ pc = "targetKinds" /\ PanicInLoad(conf.target, NoLocation)
       \/ pc = "objects" /\ left # {} /\ PanicInLoad(serverVersion, NoLocation)
       \/ asksTarget /\ PanicInLoad(conf.target, NoLocation)
    /\ Stop(Panicked)
    /\ UNCHANGED <<versionMap, clusterVars>>
    /\ judgeUnchanged

Next ==
    \/ Connect
    \/ LoadTarget
    \/ AskServerVersion
    \/ GetServerKinds
    \/ GetTargetKinds
    \/ SortPanics
    \/ \E p \in toMap : MapKind(p)
    \/ MapEnds
    \/ \E p \in toList : ListResource(p)
    \/ ListEnds
    \/ \E f \in left : ValidateNext(f)
    \/ StartJudging
    \/ Judge
    \/ Emit
    \/ Flush

\* As for FileCheck: the process goes on, and every call is answered or refused.
Spec == Init /\ [][Next]_vars /\ WF_vars(Next)

-----------------------------------------------------------------------------
(***************************************************************************)
(* Properties.                                                             *)
(***************************************************************************)
TypeOK ==
    /\ versionMap \in [Releases -> Catalogs \cup {NotLoaded}]
    /\ pc \in States
    /\ results \in Seq(Result)
    /\ at \in 1..(Len(results) + 1)
    /\ apiVersionKindCache \in [ApiVersions \X Kinds -> Answers]
    /\ conf \in Config
    /\ report \in Seq(Bulk)
    /\ exit \in {Running, 0, 1, Panicked}
    /\ connected \in BOOLEAN
    /\ serverVersion \in Releases
    /\ toMap \subseteq Apis \X Kinds
    /\ toList \subseteq Apis \X Kinds
    /\ objects \subseteq Objects \X Apis
    /\ left \subseteq objects

\* Every verdict of a reported cluster is the target catalog's answer for that object
\* (kubedd.go 174-200).
VerdictsExact ==
    pc = "emit" => \A i \in DOMAIN results : JudgedBy(results[i], targetCatalog)

\* All reported objects were checked against one catalog of the server's release, even
\* when the first of them came before a download of it succeeded (kubedd.go 143-172).
OneServerCatalog ==
    pc = "emit" =>
      \A i \in DOMAIN results :
        LET r == results[i]
            v == ValidateObject(versionMap[serverVersion], r.doc)
        IN  /\ r.latestAPIVersion = v.latestAPIVersion
            /\ r.deprecated = v.deprecated
            /\ r.errorsForLatest = Kept(v.errorsForLatest, conf.ignoreNullErrors)
            /\ r.errorsForOriginal = Kept(v.errorsForOriginal, conf.ignoreNullErrors)

\* What the patterns of a configuration stand for.
globSelected(text, ignore, select) ==
    /\ ~\E p \in ignore : Glob(text, p)
    /\ select = {} \/ \E p \in select : Glob(text, p)

simplePatterns(c) ==
    \A p \in c.ignoreKinds \cup c.selectKinds \cup c.ignoreNamespaces \cup c.selectNamespaces :
      Simple(p)

Wanted ==
    [c \in Configs |->
        {o \in Objects :
           /\ KindOf[o] \notin SkippedKinds
           /\ globSelected(Spelling[KindOf[o]], c.ignoreKinds, c.selectKinds)
           /\ globSelected(Spelling[NamespaceOf[o]], c.ignoreNamespaces, c.selectNamespaces)}]

\* The results are those of different objects that the filters let through, with stars at
\* the ends of a pattern meaning what they usually do, each of what was applied where that
\* is known (Cluster.go 66-108, Util.go 185-213, kubedd.go 154-173).
ResultsAreSelected ==
    simplePatterns(conf) =>
      \E who \in [DOMAIN results -> Wanted[conf]] :
        /\ \A i, j \in DOMAIN results : who[i] = who[j] => i = j
        /\ \A i \in DOMAIN results :
             IF Applied[who[i]] # NoDoc THEN results[i].doc = Applied[who[i]]
             ELSE \E a \in Apis : /\ <<a, KindOf[who[i]]>> \in Mapped
                                 /\ results[i].doc = Live[who[i]][a]

hasResult(f) == \E i \in DOMAIN results : results[i].doc = docOf(f)

\* When the server does not tell its release, or runs the target's, no fetched object
\* is lost: the catalog it needs is the one that was loaded first.
NoneLostOnTarget ==
    pc = "emit" /\ serverVersion = conf.target =>
      \A f \in objects : ValidationFails(docOf(f)) \/ hasResult(f)

\* A run ends with 0 exactly when it has printed its one bulk. NewCluster hides its errors:
\* what keeps a run without a cluster from ending like a good one is a panic later on
\* (Cluster.go 41-57, kubedd.go 123-152, main.go 111-119).
ZeroMeansReported == exit # Running => (exit = 0 <=> connected /\ Len(report) = 1)

\* The run ends, whatever the cluster answers and however many downloads fail.
Termination == <>(exit # Running)

\* README.md 8: "Validates schema against current kubernetes (in case cluster is
\* provided)". Every object that was fetched, and can be parsed, would be validated.
EveryFetchedObjectValidated ==
    pc = "emit" => \A f \in objects : ValidationFails(docOf(f)) \/ hasResult(f)

-----------------------------------------------------------------------------
(***************************************************************************)
(* The run implements Migration, but for the exit status.                  *)
(***************************************************************************)
targets ==
    IF conf.targetLocation # NoLocation THEN {Stored[conf.targetLocation]} \ {NotLoaded}
    ELSE Published[conf.target]

docsOf(o) == IF Applied[o] # NoDoc THEN {Applied[o]} ELSE {Live[o][a] : a \in Apis}

Promise ==
    INSTANCE Migration WITH
        options <- [format |-> conf.format, ignoreNullErrors |-> conf.ignoreNullErrors,
                    copies |-> {<<c, c>> : c \in targets} \cup
                               IF ServerRelease = conf.target THEN {}
                               ELSE Published[ServerRelease] \X targets],
        Batches <- {docs \in Seq(Docs) :
                      \E who \in [DOMAIN docs -> Objects] :
                        /\ \A i \in DOMAIN docs : docs[i] \in docsOf(who[i])
                        /\ \A i, j \in DOMAIN docs : who[i] = who[j] => i = j},
        StatusTells <- FALSE

\* The cluster is reported in one step, as what one copy of each release says of it, be
\* the source the server's release or, when the server does not tell, the target's
\* (kubedd.go 123-220).
ImplementsMigration == Promise!Spec
=============================================================================
