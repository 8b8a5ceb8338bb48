------------------------------ MODULE FileCheck -----------------------------
(***************************************************************************)
(* A run of the program over files: processFiles (main.go) with the        *)
(* kubedd.Validate call it makes for every file. The run is one sequential *)
(* process; what it cannot foresee is the file system, the outcome of      *)
(* every download, and the objects in the files.                           *)
(***************************************************************************)
EXTENDS Report

CONSTANTS
    Files, Dirs,    \* file names, and directories given with -d
    Contents,       \* file -> the documents it splits into, or Unreadable
    Listing,        \* directory -> what filepath.Walk calls back with
    CommandLines,   \* the files and directories a run may be given
    Configs,        \* the configurations a run may start with
    Empty,          \* the empty release version
    Unreadable

\* yaml: a regular file named *.yaml or *.yml. fails: the callback returns an error,
\* its own or that of a pattern that does not compile.
Entry == [file : Files, yaml : BOOLEAN, ignored : BOOLEAN, fails : BOOLEAN]

Config ==
    [target : Releases, source : Releases,
     targetLocation : Locations \cup {NoLocation},
     sourceLocation : Locations \cup {NoLocation},
     ignoreNullErrors : BOOLEAN, format : Formats,
     ignoreKeysFromDeprecation : SUBSET Keys, ignoreKeysFromValidation : SUBSET Keys]

ASSUME FilesAssumption ==
    /\ Empty \in Releases
    /\ Contents \in [Files -> Seq(Docs) \cup {Unreadable}]
    /\ Unreadable \notin Seq(Docs)
    /\ Listing \in [Dirs -> Seq(Entry)]
    /\ CommandLines \subseteq [args : Seq(Files), dirs : Seq(Dirs)]
    /\ Configs \subseteq Config

VARIABLES
    commandLine,    \* the files and directories given
    dirs,      \* directories aggregateFiles has left to walk
    entryAt,   \* the entry of the first of them it is at
    files,     \* the files to check
    fileAt,    \* the file processFiles is at
    rest,      \* documents of that file not validated yet
    success    \* success of processFiles

fileVars == <<commandLine, dirs, entryAt, files>>
vars == <<versionMap, verdictVars, conf, fileVars, fileAt, rest, success, report, exit>>

States == {"walk", "file", "loadTarget", "loadSource", "splits",
           "judgeLatest", "judgeCurrent", "emit", "stopped"}

Init ==
    /\ conf \in Configs
    /\ commandLine \in CommandLines
    /\ files = commandLine.args
    /\ dirs = commandLine.dirs
    /\ entryAt = 1
    /\ pc = "walk"
    /\ fileAt = 1
    /\ rest = <<>>
    /\ success = TRUE
    /\ report = <<>>
    /\ exit = Running
    /\ versionMap = NewChecker
    /\ results = <<>>
    /\ at = 1
    /\ apiVersionKindCache = EmptyCache

-----------------------------------------------------------------------------
(***************************************************************************)
(* aggregateFiles: the arguments, then the files of every directory.       *)
(***************************************************************************)
walkUnchanged ==
    UNCHANGED <<commandLine, versionMap, results, at, apiVersionKindCache, conf, fileAt, rest,
                report, exit>>

chosen(e) == e.yaml /\ ~e.ignored

\* Faulty variant: a walk that is cut short is only logged.
successAfterErrorLogged == success

successAfterError == FALSE

WalkEntry ==
    /\ pc = "walk"
    /\ dirs # <<>>
    /\ entryAt \in DOMAIN Listing[Head(dirs)]
    /\ LET e == Listing[Head(dirs)][entryAt]
       IN  IF e.fails
           THEN dirs' = Tail(dirs) /\ entryAt' = 1 /\ UNCHANGED files
                /\ success' = successAfterError
           ELSE /\ files' = IF chosen(e) THEN Append(files, e.file) ELSE files
                /\ entryAt' = entryAt + 1
                /\ UNCHANGED <<dirs, success>>
    /\ UNCHANGED pc
    /\ walkUnchanged

WalkNextDirectory ==
    /\ pc = "walk"
    /\ dirs # <<>>
    /\ entryAt \notin DOMAIN Listing[Head(dirs)]
    /\ dirs' = Tail(dirs)
    /\ entryAt' = 1
    /\ UNCHANGED <<pc, files, success>>
    /\ walkUnchanged

WalkEnds ==
    /\ pc = "walk"
    /\ dirs = <<>>
    /\ pc' = "file"
    /\ UNCHANGED <<fileVars, success>>
    /\ walkUnchanged

-----------------------------------------------------------------------------
(***************************************************************************)
(* The loop of processFiles, and Validate for the file it opened.          *)
(***************************************************************************)
SkipUnreadable ==
    /\ pc = "file"
    /\ fileAt \in DOMAIN files
    /\ Contents[files[fileAt]] = Unreadable
    /\ success' = FALSE
    /\ fileAt' = fileAt + 1
    /\ UNCHANGED <<versionMap, verdictVars, conf, fileVars, rest, report, exit>>

\* Faulty variant: the cache outlives the call.
cacheOfCallShared == apiVersionKindCache

\* Every call of Validate makes a cache and a checker of its own.
cacheOfCall == EmptyCache

OpenFile ==
    /\ pc = "file"
    /\ fileAt \in DOMAIN files
    /\ Contents[files[fileAt]] # Unreadable
    /\ rest' = Contents[files[fileAt]]
    /\ versionMap' = NewChecker
    /\ results' = <<>>
    /\ at' = 1
    /\ apiVersionKindCache' = cacheOfCall
    /\ pc' = "loadTarget"
    /\ UNCHANGED <<conf, fileVars, fileAt, success, report, exit>>

LoadTarget ==
    /\ pc = "loadTarget"
    /\ \E ok \in BOOLEAN :
         /\ Load(conf.target, conf.targetLocation, ok)
         /\ IF ok THEN Goes("loadSource") ELSE LoadError("loadSource")
    /\ UNCHANGED <<results, at, apiVersionKindCache, conf, fileVars, fileAt, rest, success, report>>

\* An empty source release is loaded as it is; only then the target takes its place.
LoadSource ==
    /\ pc = "loadSource"
    /\ \E ok \in BOOLEAN :
         /\ Load(conf.source, conf.sourceLocation, ok)
         /\ IF ok THEN Goes("splits") ELSE LoadError("splits")
         /\ conf' = IF ok /\ conf.source = Empty /\ conf.target # Empty
                    THEN [conf EXCEPT !.source = conf.target] ELSE conf
    /\ UNCHANGED <<results, at, apiVersionKindCache, fileVars, fileAt, rest, success, report>>

splitUnchanged ==
    UNCHANGED <<at, apiVersionKindCache, conf, fileVars, fileAt, success, report>>

\* Faulty variants: an error ends the loop; the document is tried again.
restAfterErrorStops == <<>>
restAfterErrorRetries == rest

restAfterError == Tail(rest)

\* ValidateYaml of the next document. An error is printed and the loop goes on.
ValidateSplit ==
    /\ pc = "splits"
    /\ rest # <<>>
    /\ \E ok \in BOOLEAN :
         /\ LoadFromUrl(conf.source, FALSE, ok)
         /\ IF ~ok \/ ValidationFails(Head(rest))
            THEN Goes("splits") /\ UNCHANGED results /\ rest' = restAfterError
            ELSE IF ValidationPanics(versionMap'[conf.source], Head(rest))
            THEN Stop(Panicked) /\ UNCHANGED results /\ rest' = Tail(rest)
            ELSE /\ Goes("splits")
                 /\ rest' = Tail(rest)
                 /\ results' = Append(results,
                      ValidateObject(versionMap'[conf.source], Head(rest)))
    /\ splitUnchanged

StartJudging ==
    /\ pc = "splits"
    /\ rest = <<>>
    /\ Goes("judgeLatest")
    /\ UNCHANGED <<versionMap, results, rest>>
    /\ splitUnchanged

Judge ==
    /\ \/ JudgeLatest(conf.target)
       \/ JudgeCurrent(conf.target)
       \/ FilterNullErrors(conf.ignoreNullErrors)
    /\ UNCHANGED <<conf, fileVars, fileAt, rest, success, report, exit>>

\* Back in processFiles: print the results and keep them for the exit status.
Emit ==
    /\ pc = "emit"
    /\ ReportResults
    /\ fileAt' = fileAt + 1
    /\ pc' = "file"
    /\ UNCHANGED <<versionMap, results, at, apiVersionKindCache, conf, fileVars, rest,
                   success, exit>>

\* After the last file: the exit status looks at the results of all files.
Flush ==
    /\ pc = "file"
    /\ fileAt \notin DOMAIN files
    /\ Stop(IF success /\ \A i \in DOMAIN report : ~hasErrors(report[i].results)
            THEN 0 ELSE 1)
    /\ UNCHANGED <<versionMap, results, at, apiVersionKindCache, conf, fileVars, fileAt,
                   rest, success, report>>

\* The sort of an index panics in a load that the step the run is at has to make. Later
\* than LoadSource none has: both releases are in versionMap.
SortPanics ==
    /\ \/ pc = "loadTarget" /\ PanicInLoad(conf.target, conf.targetLocation)
       \/ pc = "loadSource" /\ PanicInLoad(conf.source, conf.sourceLocation)
       \/ pc = "splits" /\ rest # <<>> /\ PanicInLoad(conf.source, NoLocation)
       \/ asksTarget /\ PanicInLoad(conf.target, NoLocation)
    /\ Stop(Panicked)
    /\ UNCHANGED <<versionMap, results, at, apiVersionKindCache, conf, fileVars, fileAt, rest,
                   success, report>>

Walk == WalkEntry \/ WalkNextDirectory \/ WalkEnds

Next ==
    \/ Walk
    \/ SkipUnreadable
    \/ OpenFile
    \/ LoadTarget
    \/ LoadSource
    \/ SortPanics
    \/ ValidateSplit
    \/ StartJudging
    \/ Judge
    \/ Emit
    \/ Flush

\* The one process of the program takes its next step. That a load does takes for
\* granted that the network answers or refuses: http.Get is called without a timeout.
Spec == Init /\ [][Next]_vars /\ WF_vars(Next)

-----------------------------------------------------------------------------
(***************************************************************************)
(* Properties.                                                             *)
(***************************************************************************)
TypeOK ==
    /\ versionMap \in [Releases -> Catalogs \cup {NotLoaded}]
    /\ pc \in States
    /\ results \in Seq(Result)
    /\ at \in 1..(Len(results) + 1)
    /\ apiVersionKindCache \in [ApiVersions \X Kinds -> Answers]
    /\ conf \in Config
    /\ commandLine \in CommandLines
    /\ dirs \in Seq(Dirs) /\ entryAt \in Nat \ {0} /\ files \in Seq(Files)
    /\ fileAt \in Nat \ {0}
    /\ rest \in Seq(Docs)
    /\ success \in BOOLEAN
    /\ report \in Seq(Bulk)
    /\ exit \in {Running, 0, 1, Panicked}
    /\ pc = "stopped" <=> exit # Running

\* From the first document to the report both releases are in versionMap, so no
\* verdict comes from a load that failed, and none waits for a download
\* (kubedd.go 36-64 before 65-101).
LoadedBeforeUse ==
    pc \in {"splits", "judgeLatest", "judgeCurrent", "emit"} =>
        versionMap[conf.source] # NotLoaded /\ targetCatalog # NotLoaded

\* Within one call of Validate a release is never replaced by another copy of it: all
\* objects of a file are checked against the same two catalogs.
NoReload ==
    [][pc # "file" =>
        \A r \in Releases : versionMap[r] # NotLoaded => versionMap'[r] = versionMap[r]]_vars

\* When a file is reported every verdict is the target catalog's answer for that very
\* object, although most answers come from the cache and the loop writes deleted
\* twice (kubedd.go 75-101).
VerdictsExact ==
    pc = "emit" => \A i \in DOMAIN results : JudgedBy(results[i], targetCatalog)

\* docs are the documents of file f that are not in error, in their order.
Readable(docs, f) ==
    \E place \in [DOMAIN docs -> DOMAIN Contents[f]] :
      /\ \A i \in DOMAIN docs : docs[i] = Contents[f][place[i]]
      /\ \A i, j \in DOMAIN docs : i < j => place[i] < place[j]
      /\ \A n \in DOMAIN Contents[f] :
           ~ValidationFails(Contents[f][n]) <=> \E i \in DOMAIN docs : place[i] = n

\* A document in error costs only itself: every other one has its result, in the order
\* of the file (kubedd.go 65-74).
OneResultPerObject ==
    pc = "emit" => Readable(DocsOf(results), files[fileAt])

\* Exit status 0 means that all files were read and that of no object that could be
\* parsed an error remains, in whichever file (main.go 122-169).
ExitZeroMeansClean ==
    exit = 0 =>
      /\ \A i \in DOMAIN files : Contents[files[i]] # Unreadable
      /\ Len(report) = Len(files)
      /\ \A i \in DOMAIN files : Readable(DocsOf(report[i].results), files[i])
      /\ \A i \in DOMAIN report : \A j \in DOMAIN report[i].results :
           ~hasError(report[i].results[j])

found(f) == \E i \in DOMAIN files : files[i] = f

\* Nothing that was asked for has been passed over at exit status 0: the walk of every
\* directory came to its end, and every argument and every file the walks chose was among
\* the files that were read (main.go 125-129 and 273-298).
ExitZeroMeansAllFound ==
    exit = 0 =>
      /\ \A i \in DOMAIN commandLine.args : found(commandLine.args[i])
      /\ \A i \in DOMAIN commandLine.dirs : \A n \in DOMAIN Listing[commandLine.dirs[i]] :
           LET e == Listing[commandLine.dirs[i]][n]
           IN  ~e.fails /\ (chosen(e) => found(e.file))

\* Every object whose apiVersion the target no longer supports is shown among the
\* removed ones of a printed report (README.md 7).
RemovalsAreShown ==
    pc = "file" /\ report # <<>> /\ printsBulk(conf.format) =>
      LET bulk == report[Len(report)]
      IN  \A i \in DOMAIN bulk.results :
            bulk.sections[i] = "removed"
              <=> <<bulk.results[i].api, bulk.results[i].kind>> \notin Served[targetCatalog]

\* The bulk printed last, whose catalogs are still loaded.
lastBulk == report[Len(report)]

\* Who reads "can be migrated with just apiVersion change" can do so: the target serves
\* the apiVersion named, and the source's schema of it has no error for the object. The
\* status is put together from two caches' answers and a filter (Output.go 172-179,
\* kubedd.go 77-93).
JustApiVersionMigrates ==
    pc = "file" /\ report # <<>> =>
      \A i \in DOMAIN lastBulk.results :
        LET r == lastBulk.results[i]
        IN  lastBulk.statuses[i] = "justApiVersion" =>
              /\ <<r.latestAPIVersion, r.kind>> \in Served[targetCatalog]
              /\ Kept(applySchema(versionMap[conf.source], r.doc, r.latestAPIVersion).errors,
                      conf.ignoreNullErrors) = {}

\* An error below the root of an object is in a row of the printed report, except those
\* under the current apiVersion of an object that is removed, or deprecated with nothing
\* newer. What is left out is decided by the section, the table and the state of the
\* section's other results (Output.go 96-158, 233-281).
ErrorsHaveRows ==
    printsBulk(conf.format) =>
      \A n \in DOMAIN report : \A i \in DOMAIN report[n].results :
        LET r == report[n].results[i]
            has(table) == {table} \X (places(r, table) \ {Root}) \subseteq report[n].rows[i]
        IN  /\ has("latestErrors")
            /\ report[n].sections[i] \in {"newer", "unchanged"}
                 \/ (report[n].sections[i] = "deprecated") => has("currentErrors")

\* The run ends, whatever the files, the configuration and the downloads.
Termination == <>(exit # Running)

-----------------------------------------------------------------------------
(***************************************************************************)
(* The run implements Migration.                                           *)
(***************************************************************************)
Deliverable(release, location) ==
    IF location # NoLocation THEN {Stored[location]} \ {NotLoaded} ELSE Published[release]

targets == Deliverable(conf.target, conf.targetLocation)

\* Without a source release, or with the target's, both are one copy.
copies ==
    IF conf.source \in {Empty, conf.target} THEN {<<c, c>> : c \in targets}
    ELSE Deliverable(conf.source, conf.sourceLocation) \X targets

Promise ==
    INSTANCE Migration WITH
        options <- [format |-> conf.format, ignoreNullErrors |-> conf.ignoreNullErrors,
                    copies |-> copies],
        Batches <- {docs \in Seq(Docs) :
                      \E f \in Files : Contents[f] # Unreadable /\ Readable(docs, f)},
        StatusTells <- TRUE

\* Every file is reported in one step, as what one copy of each release says of it, and
\* exit status 0 is for files without errors (kubedd.go 31-121, main.go 122-169).
ImplementsMigration == Promise!Spec
=============================================================================
