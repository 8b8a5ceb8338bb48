--------------------------- MODULE FileCheckProofs --------------------------
(***************************************************************************)
(* The run over files, for every command line, every set of files,         *)
(* objects, releases and catalogs, and every outcome of the downloads.     *)
(***************************************************************************)
EXTENDS FileCheck, VerdictsProofs

Judging == {"judgeLatest", "judgeCurrent", "emit"}

\* The target is loaded before the source, and both before the first document.
VersionsLoaded ==
    /\ pc \in {"loadSource", "splits"} \cup Judging => targetCatalog # NotLoaded
    /\ pc \in {"splits"} \cup Judging => versionMap[conf.source] # NotLoaded

\* OpenFile leaves nothing of the file before.
FreshStart ==
    pc \in {"loadTarget", "loadSource", "splits"} => at = 1 /\ apiVersionKindCache = EmptyCache

\* The inductive invariant. TypeOK alone does not bound at, and VerdictsExact alone says
\* nothing before the loop is over.
IInv ==
    /\ TypeOK
    /\ VersionsLoaded
    /\ FreshStart
    /\ pc \in Judging => CacheSound(targetCatalog)
    /\ JudgedSoFar(targetCatalog)

-----------------------------------------------------------------------------
LEMMA TypesForJudging ==
    ASSUME TypeOK
    PROVE  JudgingTypes
BY DEF TypeOK, JudgingTypes, VersionMapOK, CacheOK

-----------------------------------------------------------------------------
LEMMA InitIInv == Init => IInv
<1> SUFFICES ASSUME Init PROVE IInv
  OBVIOUS
<1>1. /\ commandLine \in CommandLines /\ commandLine \in [args : Seq(Files), dirs : Seq(Dirs)]
      /\ files = commandLine.args /\ dirs = commandLine.dirs
  BY FilesAssumption DEF Init
<1>2. TypeOK
  BY <1>1, FilesAssumption
     DEF Init, TypeOK, NewChecker, EmptyCache, Answers, States, Running, Panicked
<1> QED
  BY <1>2 DEF Init, IInv, VersionsLoaded, FreshStart, Judging, JudgedSoFar

\* Listing the files and skipping one happen outside Validate.
LEMMA WalkStep == IInv /\ (Walk \/ SkipUnreadable) => IInv'
<1> SUFFICES ASSUME IInv, Walk \/ SkipUnreadable
             PROVE  IInv'
  OBVIOUS
<1>1. TypeOK
  BY DEF IInv
<1>2. /\ UNCHANGED <<versionMap, results, at, apiVersionKindCache, conf, commandLine, rest,
                     report, exit>>
      /\ pc \in {"walk", "file"} /\ pc' \in {"walk", "file"}
  BY DEF Walk, WalkEntry, WalkNextDirectory, WalkEnds, walkUnchanged, SkipUnreadable,
         verdictVars, fileVars
<1>3. /\ dirs' \in Seq(Dirs) /\ entryAt' \in Nat \ {0} /\ files' \in Seq(Files)
      /\ fileAt' \in Nat \ {0}
  <2>0. /\ dirs \in Seq(Dirs) /\ entryAt \in Nat \ {0} /\ files \in Seq(Files)
        /\ fileAt \in Nat \ {0}
    BY <1>1 DEF TypeOK
  <2>1. CASE WalkEntry
    <3>1. Head(dirs) \in Dirs /\ Tail(dirs) \in Seq(Dirs)
      BY <2>0, <2>1 DEF WalkEntry
    <3> DEFINE e == Listing[Head(dirs)][entryAt]
    <3>2. e \in Entry
      BY <3>1, <2>1, FilesAssumption DEF WalkEntry
    <3>3. Append(files, e.file) \in Seq(Files)
      BY <2>0, <3>2 DEF Entry
    <3>4. fileAt' = fileAt
      BY <2>1 DEF WalkEntry, walkUnchanged
    <3>5. CASE e.fails
      BY <2>0, <2>1, <3>1, <3>4, <3>5 DEF WalkEntry
    <3>6. CASE ~e.fails
      <4>1. /\ files' = IF chosen(e) THEN Append(files, e.file) ELSE files
            /\ entryAt' = entryAt + 1 /\ dirs' = dirs
        BY <2>1, <3>6 DEF WalkEntry
      <4> QED
        BY <2>0, <3>3, <3>4, <4>1
    <3> QED
      BY <3>5, <3>6
  <2>2. CASE WalkNextDirectory
    BY <2>0, <2>2 DEF WalkNextDirectory, walkUnchanged
  <2>3. CASE WalkEnds
    BY <2>0, <2>3 DEF WalkEnds, walkUnchanged, fileVars
  <2>4. CASE SkipUnreadable
    BY <2>0, <2>4 DEF SkipUnreadable, fileVars
  <2> QED
    BY <2>1, <2>2, <2>3, <2>4 DEF Walk
<1>4. success' \in BOOLEAN
  <2>1. success \in BOOLEAN
    BY <1>1 DEF TypeOK
  <2>2. success' = FALSE \/ success' = success
    BY DEF Walk, WalkEntry, WalkNextDirectory, WalkEnds, SkipUnreadable, successAfterError
  <2> QED
    BY <2>1, <2>2
<1>5. TypeOK'
  BY <1>1, <1>2, <1>3, <1>4 DEF TypeOK, States
<1> QED
  BY <1>2, <1>5 DEF IInv, VersionsLoaded, FreshStart, Judging, JudgedSoFar

LEMMA OpenFileStep == IInv /\ OpenFile => IInv'
<1> SUFFICES ASSUME IInv, OpenFile
             PROVE  IInv'
  OBVIOUS
<1>1. TypeOK
  BY DEF IInv
<1>2. rest' \in Seq(Docs)
  BY <1>1, FilesAssumption DEF TypeOK, OpenFile
<1>3. /\ versionMap' \in [Releases -> Catalogs \cup {NotLoaded}]
      /\ apiVersionKindCache' \in [ApiVersions \X Kinds -> Answers]
      /\ results' \in Seq(Result) /\ at' \in 1..(Len(results') + 1)
  BY DEF OpenFile, NewChecker, cacheOfCall, EmptyCache, Answers
<1>4. TypeOK'
  BY <1>1, <1>2, <1>3 DEF TypeOK, OpenFile, fileVars, States
<1> QED
  BY <1>4 DEF OpenFile, cacheOfCall, IInv, VersionsLoaded, FreshStart, Judging, JudgedSoFar

LEMMA LoadTargetStep == IInv /\ LoadTarget => IInv'
<1> SUFFICES ASSUME IInv, LoadTarget
             PROVE  IInv'
  OBVIOUS
<1>1. TypeOK /\ pc = "loadTarget" /\ exit = Running
  BY DEF IInv, LoadTarget, TypeOK
<1>2. PICK ok \in BOOLEAN :
        /\ Load(conf.target, conf.targetLocation, ok)
        /\ IF ok THEN Goes("loadSource") ELSE LoadError("loadSource")
  BY DEF LoadTarget
<1>3. conf.target \in Releases /\ conf.targetLocation \in Locations \cup {NoLocation}
  BY <1>1 DEF TypeOK, Config
<1>4. VersionMapOK' /\ (ok => versionMap'[conf.target] \in Catalogs)
  BY <1>1, <1>2, <1>3, LoadKeeps DEF TypeOK, VersionMapOK
<1>5. UNCHANGED <<results, at, apiVersionKindCache, conf, commandLine, dirs, entryAt, files,
                  fileAt, rest, success, report>>
  BY DEF LoadTarget, fileVars
<1>6. IF ok THEN pc' = "loadSource" /\ exit' = Running ELSE pc' = "stopped" /\ exit' = 1
  BY <1>1, <1>2 DEF Goes, LoadError, Stop
<1>7. TypeOK'
  BY <1>1, <1>4, <1>5, <1>6 DEF TypeOK, VersionMapOK, States, Running
<1>8. VersionsLoaded'
  BY <1>4, <1>5, <1>6, CheckerAssumption
     DEF VersionsLoaded, targetCatalog, Judging
<1> QED
  BY <1>1, <1>5, <1>6, <1>7, <1>8 DEF IInv, FreshStart, Judging, JudgedSoFar

LEMMA LoadSourceStep == IInv /\ LoadSource => IInv'
<1> SUFFICES ASSUME IInv, LoadSource
             PROVE  IInv'
  OBVIOUS
<1>1. TypeOK /\ pc = "loadSource" /\ exit = Running /\ versionMap[conf.target] # NotLoaded
  BY DEF IInv, LoadSource, TypeOK, VersionsLoaded, targetCatalog
<1>2. PICK ok \in BOOLEAN :
        /\ Load(conf.source, conf.sourceLocation, ok)
        /\ IF ok THEN Goes("splits") ELSE LoadError("splits")
        /\ conf' = IF ok /\ conf.source = Empty /\ conf.target # Empty
                   THEN [conf EXCEPT !.source = conf.target] ELSE conf
  BY DEF LoadSource
<1>3. /\ conf \in Config
      /\ conf.target \in Releases /\ conf.source \in Releases
      /\ conf.sourceLocation \in Locations \cup {NoLocation}
  BY <1>1 DEF TypeOK, Config
<1>4. /\ VersionMapOK'
      /\ versionMap'[conf.target] # NotLoaded
      /\ ok => versionMap'[conf.source] # NotLoaded
  BY <1>1, <1>2, <1>3, LoadKeeps, CheckerAssumption DEF TypeOK, VersionMapOK
<1>5. /\ conf' \in Config /\ conf'.target = conf.target
      /\ conf'.source = conf.source \/ conf'.source = conf.target
  <2>1. CASE conf' = conf
    BY <1>3, <2>1
  <2>2. CASE conf' = [conf EXCEPT !.source = conf.target]
    BY <1>3, <2>2 DEF Config
  <2> QED
    BY <1>2, <2>1, <2>2
<1>6. UNCHANGED <<results, at, apiVersionKindCache, commandLine, dirs, entryAt, files, fileAt,
                  rest, success, report>>
  BY DEF LoadSource, fileVars
<1>7. IF ok THEN pc' = "splits" /\ exit' = Running ELSE pc' = "stopped" /\ exit' = 1
  BY <1>1, <1>2 DEF Goes, LoadError, Stop
<1>8. TypeOK'
  BY <1>1, <1>4, <1>5, <1>6, <1>7 DEF TypeOK, VersionMapOK, States, Running
<1>9. VersionsLoaded'
  BY <1>4, <1>5, <1>7 DEF VersionsLoaded, targetCatalog, Judging
<1>10. FreshStart'
  BY <1>1, <1>6 DEF IInv, FreshStart
<1> QED
  BY <1>7, <1>8, <1>9, <1>10 DEF IInv, Judging, JudgedSoFar

LEMMA ValidateSplitStep == IInv /\ ValidateSplit => IInv'
<1> SUFFICES ASSUME IInv, ValidateSplit
             PROVE  IInv'
  OBVIOUS
<1>1. /\ TypeOK /\ pc = "splits" /\ exit = Running /\ rest # <<>>
      /\ at = 1 /\ apiVersionKindCache = EmptyCache
      /\ versionMap[conf.target] # NotLoaded /\ versionMap[conf.source] # NotLoaded
  BY DEF IInv, ValidateSplit, TypeOK, VersionsLoaded, FreshStart, targetCatalog
<1>2. conf.source \in Releases /\ conf.target \in Releases
  BY <1>1 DEF TypeOK, Config
<1>3. versionMap' = versionMap
  BY <1>1 DEF ValidateSplit, LoadFromUrl
<1> DEFINE cat == versionMap[conf.source]
           d == Head(rest)
<1>4. cat \in Catalogs /\ d \in Docs /\ Tail(rest) \in Seq(Docs)
  BY <1>1, <1>2 DEF TypeOK
<1>5. ValidateObject(cat, d) \in Result
  BY <1>4, ValidateObjectType, CheckerAssumption
<1>6. rest' = Tail(rest)
  BY DEF ValidateSplit, restAfterError
<1>7. results' = results \/ results' = Append(results, ValidateObject(cat, d))
  BY <1>3 DEF ValidateSplit
<1>8. \/ pc' = "splits" /\ exit' = Running
      \/ pc' = "stopped" /\ exit' = Panicked
  BY <1>1 DEF ValidateSplit, Goes, Stop
<1>9. UNCHANGED <<at, apiVersionKindCache, conf, commandLine, dirs, entryAt, files, fileAt,
                  success, report>>
  BY DEF ValidateSplit, splitUnchanged, fileVars
<1>10. results' \in Seq(Result) /\ at' \in 1..(Len(results') + 1)
  <2>1. results \in Seq(Result)
    BY <1>1 DEF TypeOK
  <2>2. results' \in Seq(Result)
    BY <1>5, <1>7, <2>1
  <2> QED
    BY <1>1, <1>9, <2>2
<1>11. TypeOK'
  BY <1>1, <1>3, <1>4, <1>6, <1>8, <1>9, <1>10 DEF TypeOK, States, Running, Panicked
<1>12. VersionsLoaded'
  BY <1>1, <1>3, <1>9 DEF VersionsLoaded, targetCatalog
<1>13. FreshStart'
  BY <1>1, <1>9 DEF FreshStart, EmptyCache
<1> QED
  BY <1>8, <1>11, <1>12, <1>13 DEF IInv, Judging, JudgedSoFar

LEMMA StartJudgingStep == IInv /\ StartJudging => IInv'
<1> SUFFICES ASSUME IInv, StartJudging
             PROVE  IInv'
  OBVIOUS
<1>1. /\ TypeOK /\ pc = "splits" /\ exit = Running
      /\ at = 1 /\ apiVersionKindCache = EmptyCache
      /\ versionMap[conf.target] # NotLoaded /\ versionMap[conf.source] # NotLoaded
  BY DEF IInv, StartJudging, TypeOK, VersionsLoaded, FreshStart, targetCatalog
<1>2. /\ pc' = "judgeLatest" /\ exit' = Running
      /\ UNCHANGED <<versionMap, results, at, apiVersionKindCache, conf, commandLine, dirs,
                     entryAt, files, fileAt, rest, success, report>>
  BY <1>1 DEF StartJudging, Goes, splitUnchanged, fileVars
<1>3. TypeOK'
  BY <1>1, <1>2 DEF TypeOK, States
<1>4. VersionsLoaded' /\ FreshStart'
  BY <1>1, <1>2 DEF VersionsLoaded, FreshStart, targetCatalog
<1>5. CacheSound(targetCatalog)'
  BY <1>1, <1>2 DEF CacheSound, EmptyCache
<1>6. JudgedSoFar(targetCatalog)'
  <2>1. results \in Seq(Result)
    BY <1>1 DEF TypeOK
  <2>2. ~\E i \in DOMAIN results' : i < at'
    BY <1>1, <1>2, <2>1
  <2> QED
    BY <1>2, <2>2 DEF JudgedSoFar
<1> QED
  BY <1>3, <1>4, <1>5, <1>6 DEF IInv

LEMMA JudgeStep == IInv /\ Judge => IInv'
<1> SUFFICES ASSUME IInv, Judge
             PROVE  IInv'
  OBVIOUS
<1>1. /\ TypeOK /\ pc \in Judging /\ pc' \in Judging /\ pc # "stopped"
      /\ versionMap[conf.target] # NotLoaded
  BY DEF IInv, Judge, JudgeLatest, JudgeCurrent, FilterNullErrors, VersionsLoaded, Judging,
         targetCatalog
<1>2. conf.target \in Releases /\ conf.ignoreNullErrors \in BOOLEAN /\ JudgingTypes
  BY <1>1, TypesForJudging DEF TypeOK, Config
<1>3. PICK t \in Releases : t = conf.target
  BY <1>2
<1>4. CacheSound(versionMap[t]) /\ JudgedSoFar(versionMap[t]) /\ versionMap[t] # NotLoaded
  BY <1>1, <1>3 DEF IInv, targetCatalog
<1>5. UNCHANGED <<conf, commandLine, dirs, entryAt, files, fileAt, rest, success, report,
                  exit>>
  BY DEF Judge, fileVars
<1>6. /\ versionMap' = versionMap /\ JudgingTypes'
      /\ CacheSound(versionMap[t])' /\ JudgedSoFar(versionMap[t])'
  <2>1. CASE JudgeLatest(conf.target)
    BY <1>2, <1>3, <1>4, <2>1, JudgeLatestStep, CheckerAssumption
  <2>2. CASE JudgeCurrent(conf.target)
    BY <1>2, <1>3, <1>4, <2>2, JudgeCurrentStep, CheckerAssumption
  <2>3. CASE FilterNullErrors(conf.ignoreNullErrors)
    <3>1. PICK b \in BOOLEAN : b = conf.ignoreNullErrors
      BY <1>2
    <3>2. PICK c : c = versionMap[t]
      OBVIOUS
    <3>3. versionMap' = versionMap /\ apiVersionKindCache' = apiVersionKindCache
      BY <2>3 DEF FilterNullErrors
    <3>4. JudgingTypes' /\ JudgedSoFar(c)'
      BY <1>2, <1>4, <2>3, <3>1, <3>2, FilterStep
    <3> QED
      BY <1>4, <3>2, <3>3, <3>4 DEF CacheSound, JudgedSoFar
  <2> QED
    BY <2>1, <2>2, <2>3 DEF Judge
<1>7. TypeOK'
  BY <1>1, <1>5, <1>6 DEF TypeOK, JudgingTypes, VersionMapOK, CacheOK, States, Judging
<1>8. VersionsLoaded' /\ FreshStart'
  BY <1>1, <1>5, <1>6 DEF IInv, VersionsLoaded, FreshStart, Judging, targetCatalog
<1>9. CacheSound(targetCatalog)' /\ JudgedSoFar(targetCatalog)'
  BY <1>3, <1>5, <1>6 DEF targetCatalog, CacheSound, JudgedSoFar
<1> QED
  BY <1>7, <1>8, <1>9 DEF IInv

LEMMA EmitStep == IInv /\ Emit => IInv'
<1> SUFFICES ASSUME IInv, Emit
             PROVE  IInv'
  OBVIOUS
<1>1. TypeOK
  BY DEF IInv
<1>2. report' \in Seq(Bulk)
  <2>1. results \in Seq(Result) /\ conf.format \in Formats /\ report \in Seq(Bulk)
    BY <1>1 DEF TypeOK, Config
  <2>2. PutBulk(conf.format, removeIgnoredKeys(results)) \in Bulk
    BY <2>1, BulkType
  <2> QED
    BY <2>1, <2>2 DEF Emit, ReportResults
<1>3. TypeOK'
  BY <1>1, <1>2 DEF TypeOK, Emit, fileVars, States
<1> QED
  BY <1>3 DEF Emit, IInv, VersionsLoaded, FreshStart, Judging, JudgedSoFar

LEMMA FlushStep == IInv /\ Flush => IInv'
<1> SUFFICES ASSUME IInv, Flush
             PROVE  IInv'
  OBVIOUS
<1>1. TypeOK
  BY DEF IInv
<1>2. pc' = "stopped" /\ exit' \in {0, 1}
  BY DEF Flush, Stop
<1>3. TypeOK'
  BY <1>1, <1>2 DEF TypeOK, Flush, fileVars, States, Running
<1> QED
  BY <1>2, <1>3 DEF IInv, VersionsLoaded, FreshStart, Judging, JudgedSoFar

LEMMA SortPanicsStep == IInv /\ SortPanics => IInv'
<1> SUFFICES ASSUME IInv, SortPanics
             PROVE  IInv'
  OBVIOUS
<1>1. TypeOK
  BY DEF IInv
<1>2. pc' = "stopped" /\ exit' = Panicked
  BY DEF SortPanics, Stop
<1>3. TypeOK'
  BY <1>1, <1>2 DEF TypeOK, SortPanics, fileVars, States, Running, Panicked
<1> QED
  BY <1>2, <1>3 DEF SortPanics, IInv, VersionsLoaded, FreshStart, Judging, JudgedSoFar

LEMMA StutterStep == IInv /\ UNCHANGED vars => IInv'
<1> SUFFICES ASSUME IInv, UNCHANGED vars
             PROVE  IInv'
  OBVIOUS
<1>1. UNCHANGED <<versionMap, pc, results, at, apiVersionKindCache, conf, commandLine, dirs,
                  entryAt, files, fileAt, rest, success, report, exit>>
  BY DEF vars, verdictVars, fileVars
<1>2. TypeOK' /\ VersionsLoaded' /\ FreshStart'
  BY <1>1 DEF IInv, TypeOK, VersionsLoaded, FreshStart, targetCatalog
<1>3. (pc \in Judging => CacheSound(targetCatalog))' /\ JudgedSoFar(targetCatalog)'
  BY <1>1 DEF IInv, targetCatalog, CacheSound, JudgedSoFar
<1> QED
  BY <1>2, <1>3 DEF IInv

-----------------------------------------------------------------------------
(***************************************************************************)
(* The theorems.                                                           *)
(***************************************************************************)
LEMMA InductiveInvariant == IInv /\ [Next]_vars => IInv'
BY WalkStep, OpenFileStep, LoadTargetStep, LoadSourceStep, SortPanicsStep, ValidateSplitStep,
   StartJudgingStep, JudgeStep, EmitStep, FlushStep, StutterStep DEF Next

LEMMA SpecIInv == Spec => []IInv
<1>1. Init => IInv
  BY InitIInv
<1>2. IInv /\ [Next]_vars => IInv'
  BY InductiveInvariant
<1> QED
  BY <1>1, <1>2, PTL DEF Spec

\* Every reachable state is well typed: no index leaves its list, no load leaves
\* something other than a catalog behind, and a run that has an exit status has stopped.
THEOREM TypesCorrect == Spec => []TypeOK
<1>1. IInv => TypeOK
  BY DEF IInv
<1> QED
  BY <1>1, SpecIInv, PTL

\* No document is validated, and no verdict given, before both releases are loaded, so
\* a failed download never passes for "not supported" (kubedd.go 36-64).
THEOREM LoadedFirst == Spec => []LoadedBeforeUse
<1>1. IInv => LoadedBeforeUse
  BY DEF IInv, VersionsLoaded, LoadedBeforeUse, Judging
<1> QED
  BY <1>1, SpecIInv, PTL

\* Every verdict reported of a file is the target catalog's answer for that very object,
\* whatever the cache held when it was given (kubedd.go 75-101).
THEOREM VerdictsAreExact == Spec => []VerdictsExact
<1>1. IInv => VerdictsExact
  BY DEF IInv, JudgedSoFar, VerdictsExact
<1> QED
  BY <1>1, SpecIInv, PTL

\* One call of Validate never replaces a release it has loaded: the whole file is
\* checked against the same two catalogs (K8sSchemaParser.go 71-103).
THEOREM NeverReloaded == Spec => NoReload
<1> DEFINE Keeps == \A r \in Releases : versionMap[r] # NotLoaded => versionMap'[r] = versionMap[r]
<1>1. IInv /\ [Next]_vars => [pc # "file" => Keeps]_vars
  <2> SUFFICES ASSUME IInv, Next, pc # "file"
               PROVE  Keeps
    BY DEF vars, verdictVars
  <2>1. /\ VersionMapOK
        /\ conf.target \in Releases /\ conf.source \in Releases
        /\ conf.targetLocation \in Locations \cup {NoLocation}
        /\ conf.sourceLocation \in Locations \cup {NoLocation}
    BY DEF IInv, TypeOK, VersionMapOK, Config
  <2>2. CASE versionMap' = versionMap
    BY <2>2
  <2>3. CASE LoadTarget
    <3>1. PICK ok \in BOOLEAN : Load(conf.target, conf.targetLocation, ok)
      BY <2>3 DEF LoadTarget
    <3> QED
      BY <2>1, <3>1, LoadKeeps
  <2>4. CASE LoadSource
    <3>1. PICK ok \in BOOLEAN : Load(conf.source, conf.sourceLocation, ok)
      BY <2>4 DEF LoadSource
    <3> QED
      BY <2>1, <3>1, LoadKeeps
  <2>5. CASE ValidateSplit
    <3>1. PICK ok \in BOOLEAN : LoadFromUrl(conf.source, FALSE, ok)
      BY <2>5 DEF ValidateSplit
    <3> QED
      BY <2>1, <3>1, LoadFromUrlKeeps, CheckerAssumption
  <2>6. CASE Judge
    <3>1. \/ FilterNullErrors(conf.ignoreNullErrors)
          \/ \E api, kind : LookUp(api, kind, conf.target)
      BY <2>6 DEF Judge, JudgeLatest, JudgeCurrent
    <3>2. \/ versionMap' = versionMap
          \/ \E ok \in BOOLEAN : LoadFromUrl(conf.target, FALSE, ok)
      BY <3>1 DEF FilterNullErrors, LookUp
    <3> QED
      BY <2>1, <2>2, <3>2, LoadFromUrlKeeps, CheckerAssumption
  <2>7. CASE Walk \/ SkipUnreadable \/ SortPanics \/ StartJudging \/ Emit \/ Flush
    BY <2>2, <2>7 DEF Walk, WalkEntry, WalkNextDirectory, WalkEnds, walkUnchanged,
                      SkipUnreadable, SortPanics, StartJudging, Emit, Flush
  <2>8. ~OpenFile
    BY DEF OpenFile
  <2> QED
    BY <2>3, <2>4, <2>5, <2>6, <2>7, <2>8 DEF Next
<1>2. Spec => [][pc # "file" => Keeps]_vars
  <2>1. Spec => [][Next]_vars
    BY PTL DEF Spec
  <2> QED
    BY <1>1, <2>1, SpecIInv, PTL
<1> QED
  BY <1>2 DEF NoReload

-----------------------------------------------------------------------------
(***************************************************************************)
(* What a run over files reports, and that it implements Migration.        *)
(***************************************************************************)
Checking == {"splits"} \cup Judging
AtFile   == {"loadTarget", "loadSource"} \cup Checking

\* docs are the documents among the first k of contents that are not in error.
ReadTo(docs, contents, k) ==
    \E place \in [DOMAIN docs -> 1..k] :
      /\ \A i \in DOMAIN docs : docs[i] = contents[place[i]]
      /\ \A i, j \in DOMAIN docs : i < j => place[i] < place[j]
      /\ \A n \in 1..k : ~ValidationFails(contents[n]) <=> \E i \in DOMAIN docs : place[i] = n

ReadSoFar(contents) ==
    \E k \in Nat :
      /\ k + Len(rest) = Len(contents)
      /\ \A i \in 1..Len(rest) : rest[i] = contents[k + i]
      /\ ReadTo(DocsOf(results), contents, k)

\* Where the run is among its files, and in the documents of one of them.
Place ==
    /\ fileAt \in 1..(Len(files) + 1)
    /\ pc = "walk" => fileAt = 1 /\ report = <<>>
    /\ pc \in AtFile =>
         /\ fileAt \in DOMAIN files
         /\ Contents[files[fileAt]] # Unreadable
    /\ pc \in {"loadTarget", "loadSource"} =>
         results = <<>> /\ rest = Contents[files[fileAt]]
    /\ pc = "splits" => ReadSoFar(Contents[files[fileAt]])
    /\ pc \in Judging => Readable(DocsOf(results), files[fileAt])

\* The catalogs in versionMap are a pair of copies the run may meet.
Loaded ==
    /\ pc = "loadTarget" => versionMap = NewChecker
    /\ pc = "loadSource" =>
         /\ versionMap[conf.target] \in targets
         /\ \A r \in Releases : r # conf.target => versionMap[r] = NotLoaded
    /\ pc \in Checking => <<versionMap[conf.source], versionMap[conf.target]>> \in copies

\* The results say what the source's copy says; its null errors go at the end.
Findings ==
    /\ pc \in Checking \ {"emit"} => AllFoundIn(versionMap[conf.source], FALSE)
    /\ pc = "emit" => AllFoundIn(versionMap[conf.source], conf.ignoreNullErrors)

\* Every bulk is of two catalogs; those of the last one stay until the next file.
Reports ==
    /\ \A n \in DOMAIN report : \E s, t \in Catalogs :
         Printed(report[n], conf.format, s, t, conf.ignoreNullErrors)
    /\ pc = "file" /\ report # <<>> =>
         Printed(lastBulk, conf.format, versionMap[conf.source], targetCatalog,
                 conf.ignoreNullErrors)

\* success says of the files before fileAt what exit status 0 will say of all.
Successes ==
    pc # "stopped" /\ success =>
      /\ Len(report) = fileAt - 1
      /\ \A i \in 1..(fileAt - 1) :
           /\ Contents[files[i]] # Unreadable
           /\ Readable(DocsOf(report[i].results), files[i])

\* The inductive invariant. What a report says is lost when the next file is opened,
\* and success alone does not say of which files it is true.
RInv ==
    /\ IInv
    /\ Place
    /\ Loaded
    /\ Findings
    /\ Reports
    /\ Successes
    /\ ExitZeroMeansClean

-----------------------------------------------------------------------------
(***************************************************************************)
(* Reading the documents of a file.                                        *)
(***************************************************************************)
LEMMA NothingRead ==
    ASSUME NEW contents
    PROVE  ReadTo(<<>>, contents, 0)
<1>1. PICK docs : docs = <<>>
  OBVIOUS
<1>2. DOMAIN docs = {}
  BY <1>1
<1>3. PICK place : place = [i \in {} |-> 1]
  OBVIOUS
<1>4. place \in [DOMAIN docs -> 1..0]
  BY <1>2, <1>3
<1>5. ~\E n \in 1..0 : TRUE
  OBVIOUS
<1>6. ReadTo(docs, contents, 0)
  BY <1>2, <1>4, <1>5 DEF ReadTo
<1> QED
  BY <1>1, <1>6

LEMMA OneSkipped ==
    ASSUME NEW contents, NEW k \in Nat, NEW docs, ReadTo(docs, contents, k),
           ValidationFails(contents[k + 1])
    PROVE  ReadTo(docs, contents, k + 1)
<1>1. PICK place \in [DOMAIN docs -> 1..k] :
        /\ \A i \in DOMAIN docs : docs[i] = contents[place[i]]
        /\ \A i, j \in DOMAIN docs : i < j => place[i] < place[j]
        /\ \A n \in 1..k : ~ValidationFails(contents[n]) <=> \E i \in DOMAIN docs : place[i] = n
  BY DEF ReadTo
<1>2. place \in [DOMAIN docs -> 1..(k + 1)]
  OBVIOUS
<1>3. ~\E i \in DOMAIN docs : place[i] = k + 1
  OBVIOUS
<1>4. \A n \in 1..(k + 1) :
        ~ValidationFails(contents[n]) <=> \E i \in DOMAIN docs : place[i] = n
  <2>1. \A n \in 1..(k + 1) : n \in 1..k \/ n = k + 1
    OBVIOUS
  <2> QED
    BY <1>1, <1>3, <2>1
<1> QED
  BY <1>1, <1>2, <1>4 DEF ReadTo

LEMMA OneRead ==
    ASSUME NEW contents, NEW k \in Nat, NEW docs \in Seq(Docs), ReadTo(docs, contents, k),
           ~ValidationFails(contents[k + 1])
    PROVE  ReadTo(Append(docs, contents[k + 1]), contents, k + 1)
<1>1. PICK place \in [DOMAIN docs -> 1..k] :
        /\ \A i \in DOMAIN docs : docs[i] = contents[place[i]]
        /\ \A i, j \in DOMAIN docs : i < j => place[i] < place[j]
        /\ \A n \in 1..k : ~ValidationFails(contents[n]) <=> \E i \in DOMAIN docs : place[i] = n
  BY DEF ReadTo
<1> DEFINE new == Append(docs, contents[k + 1])
           m == Len(docs)
           to == [i \in 1..(m + 1) |-> IF i = m + 1 THEN k + 1 ELSE place[i]]
<1>2. /\ DOMAIN new = 1..(m + 1) /\ DOMAIN docs = 1..m /\ m \in Nat
      /\ new[m + 1] = contents[k + 1]
      /\ \A i \in 1..m : new[i] = docs[i]
  OBVIOUS
<1>3. \A i \in 1..m : to[i] = place[i] /\ to[i] \in 1..k
  BY <1>2
<1>4. to[m + 1] = k + 1
  BY <1>2
<1>5. \A i \in 1..(m + 1) : i \in 1..m \/ i = m + 1
  BY <1>2
<1>6. to \in [DOMAIN new -> 1..(k + 1)]
  BY <1>2, <1>3, <1>4, <1>5
<1> HIDE DEF to, new
<1>7. \A i \in DOMAIN new : new[i] = contents[to[i]]
  BY <1>1, <1>2, <1>3, <1>4, <1>5
<1>8. ASSUME NEW i \in DOMAIN new, NEW j \in DOMAIN new, i < j
      PROVE  to[i] < to[j]
  <2>1. i \in 1..m
    BY <1>2, <1>8
  <2>2. CASE j \in 1..m
    BY <1>1, <1>2, <1>3, <1>8, <2>1, <2>2
  <2>3. CASE j = m + 1
    BY <1>3, <1>4, <2>1, <2>3
  <2> QED
    BY <1>2, <1>5, <2>2, <2>3
<1>9. ASSUME NEW n \in 1..(k + 1)
      PROVE  ~ValidationFails(contents[n]) <=> \E i \in DOMAIN new : to[i] = n
  <2>1. CASE n = k + 1
    <3>1. m + 1 \in DOMAIN new
      BY <1>2
    <3> QED
      BY <1>4, <2>1, <3>1
  <2>2. CASE n \in 1..k
    <3>1. (\E i \in DOMAIN new : to[i] = n) <=> (\E i \in DOMAIN docs : place[i] = n)
      <4>1. to[m + 1] # n
        BY <1>4, <2>2
      <4>2. DOMAIN new = 1..(m + 1) /\ DOMAIN docs = 1..m /\ 1..m \subseteq 1..(m + 1)
        BY <1>2
      <4>3. ASSUME NEW i \in DOMAIN new, to[i] = n
            PROVE  i \in DOMAIN docs /\ place[i] = n
        BY <1>3, <1>5, <4>1, <4>2, <4>3
      <4>4. ASSUME NEW i \in DOMAIN docs, place[i] = n
            PROVE  i \in DOMAIN new /\ to[i] = n
        BY <1>3, <4>2, <4>4
      <4> QED
        BY <4>3, <4>4
    <3> QED
      BY <1>1, <2>2, <3>1
  <2> QED
    BY <2>1, <2>2
<1> QED
  BY <1>6, <1>7, <1>8, <1>9 DEF ReadTo, new

LEMMA AllRead ==
    ASSUME NEW f, Contents[f] \in Seq(Docs), NEW docs, ReadTo(docs, Contents[f], Len(Contents[f]))
    PROVE  Readable(docs, f)
<1>1. DOMAIN Contents[f] = 1..Len(Contents[f])
  OBVIOUS
<1> QED
  BY <1>1 DEF ReadTo, Readable

-----------------------------------------------------------------------------
(***************************************************************************)
(* RInv is inductive.                                                      *)
(***************************************************************************)
LEMMA InitRInv == Init => RInv
<1> SUFFICES ASSUME Init PROVE RInv
  OBVIOUS
<1>1. IInv
  BY InitIInv
<1>2. /\ pc = "walk" /\ fileAt = 1 /\ report = <<>> /\ exit = Running /\ files \in Seq(Files)
  BY <1>1 DEF Init, IInv, TypeOK
<1>3. Place
  BY <1>2 DEF Place, AtFile, Checking, Judging
<1>4. Loaded /\ Findings
  BY <1>2 DEF Loaded, Findings, Checking, Judging
<1>5. Reports
  BY <1>2 DEF Reports
<1>6. Successes
  BY <1>2 DEF Successes
<1>7. ExitZeroMeansClean
  BY <1>2 DEF ExitZeroMeansClean, Running
<1> QED
  BY <1>1, <1>3, <1>4, <1>5, <1>6, <1>7 DEF RInv

LEMMA WalkRStep == RInv /\ Walk => RInv'
<1> SUFFICES ASSUME RInv, Walk
             PROVE  RInv'
  OBVIOUS
<1>1. IInv'
  BY InductiveInvariant DEF RInv, Next
<1>2. /\ UNCHANGED <<versionMap, conf, fileAt, report, exit>>
      /\ pc = "walk" /\ pc' \in {"walk", "file"}
  BY DEF Walk, WalkEntry, WalkNextDirectory, WalkEnds, walkUnchanged
<1>3. fileAt = 1 /\ report = <<>> /\ exit = Running /\ files' \in Seq(Files)
  BY <1>1, <1>2 DEF RInv, Place, IInv, TypeOK
<1>4. Place'
  BY <1>2, <1>3 DEF Place, AtFile, Checking, Judging
<1>5. Loaded' /\ Findings'
  BY <1>2 DEF Loaded, Findings, Checking, Judging
<1>6. Reports'
  BY <1>2, <1>3 DEF Reports
<1>7. Successes'
  BY <1>2, <1>3 DEF Successes
<1>8. ExitZeroMeansClean'
  BY <1>2, <1>3 DEF ExitZeroMeansClean, Running
<1> QED
  BY <1>1, <1>4, <1>5, <1>6, <1>7, <1>8 DEF RInv

LEMMA SkipRStep == RInv /\ SkipUnreadable => RInv'
<1> SUFFICES ASSUME RInv, SkipUnreadable
             PROVE  RInv'
  OBVIOUS
<1>1. IInv'
  BY InductiveInvariant DEF RInv, Next
<1>2. /\ UNCHANGED <<versionMap, pc, conf, files, report, exit>>
      /\ pc = "file" /\ fileAt \in DOMAIN files /\ fileAt' = fileAt + 1 /\ success' = FALSE
  BY DEF SkipUnreadable, verdictVars, fileVars
<1>3. files \in Seq(Files) /\ exit = Running
  BY <1>2 DEF RInv, IInv, TypeOK
<1>4. Place'
  BY <1>2, <1>3 DEF Place, AtFile, Checking, Judging
<1>5. Loaded' /\ Findings'
  BY <1>2 DEF Loaded, Findings, Checking, Judging
<1>6. Reports'
  BY <1>2 DEF RInv, Reports, lastBulk, targetCatalog
<1>7. Successes' /\ ExitZeroMeansClean'
  BY <1>2, <1>3 DEF Successes, ExitZeroMeansClean, Running
<1> QED
  BY <1>1, <1>4, <1>5, <1>6, <1>7 DEF RInv

\* From opening a file to its report nothing is printed and no file is passed.
LEMMA WithinFileStep ==
    ASSUME RInv, UNCHANGED <<files, fileAt, success, report>>,
           conf'.format = conf.format, conf'.ignoreNullErrors = conf.ignoreNullErrors,
           pc # "stopped", pc' # "file", exit' # 0
    PROVE  Reports' /\ Successes' /\ ExitZeroMeansClean'
<1>1. Reports'
  BY DEF RInv, Reports
<1>2. Successes'
  BY DEF RInv, Successes
<1>3. ExitZeroMeansClean'
  BY DEF ExitZeroMeansClean
<1> QED
  BY <1>1, <1>2, <1>3

LEMMA OpenFileRStep == RInv /\ OpenFile => RInv'
<1> SUFFICES ASSUME RInv, OpenFile
             PROVE  RInv'
  OBVIOUS
<1>1. IInv'
  BY InductiveInvariant DEF RInv, Next
<1>2. /\ UNCHANGED <<conf, files, fileAt, success, report, exit>>
      /\ pc = "file" /\ fileAt \in DOMAIN files /\ Contents[files[fileAt]] # Unreadable
      /\ pc' = "loadTarget" /\ results' = <<>> /\ rest' = Contents[files[fileAt]]
      /\ versionMap' = NewChecker
  BY DEF OpenFile, fileVars
<1>3. exit = Running
  BY <1>2 DEF RInv, IInv, TypeOK
<1>4. Place'
  BY <1>2 DEF RInv, Place, AtFile, Checking, Judging
<1>5. Loaded' /\ Findings'
  BY <1>2 DEF Loaded, Findings, Checking, Judging
<1>6. Reports' /\ Successes' /\ ExitZeroMeansClean'
  BY <1>2, <1>3, WithinFileStep DEF Running
<1> QED
  BY <1>1, <1>4, <1>5, <1>6 DEF RInv

\* A release that is not loaded comes from a download or the file given for it.
LEMMA LoadDelivers ==
    ASSUME VersionMapOK, NEW r \in Releases, NEW location \in Locations \cup {NoLocation},
           versionMap[r] = NotLoaded, Load(r, location, TRUE)
    PROVE  /\ versionMap'[r] \in Deliverable(r, location)
           /\ \A q \in Releases : q # r => versionMap'[q] = versionMap[q]
<1>1. CASE location = NoLocation
  <2>1. PICK c \in Published[r] : versionMap' = [versionMap EXCEPT ![r] = c]
    BY <1>1 DEF Load, LoadFromUrl
  <2> QED
    BY <1>1, <2>1 DEF Deliverable, VersionMapOK
<1>2. CASE location # NoLocation
  <2>1. Stored[location] # NotLoaded /\ versionMap' = [versionMap EXCEPT ![r] = Stored[location]]
    BY <1>2 DEF Load, LoadFromPath
  <2> QED
    BY <1>2, <2>1 DEF Deliverable, VersionMapOK
<1> QED
  BY <1>1, <1>2

LEMMA LoadTargetRStep == RInv /\ LoadTarget => RInv'
<1> SUFFICES ASSUME RInv, LoadTarget
             PROVE  RInv'
  OBVIOUS
<1>1. IInv'
  BY InductiveInvariant DEF RInv, Next
<1>2. PICK ok \in BOOLEAN :
        /\ Load(conf.target, conf.targetLocation, ok)
        /\ IF ok THEN Goes("loadSource") ELSE LoadError("loadSource")
  BY DEF LoadTarget
<1>3. /\ TypeOK /\ pc = "loadTarget" /\ exit = Running /\ versionMap = NewChecker
      /\ UNCHANGED <<results, conf, files, fileAt, rest, success, report>>
  BY DEF RInv, IInv, TypeOK, Loaded, LoadTarget, fileVars
<1>4. IF ok THEN pc' = "loadSource" /\ exit' = Running ELSE pc' = "stopped" /\ exit' = 1
  BY <1>2, <1>3 DEF Goes, LoadError, Stop
<1>5. Place'
  BY <1>3, <1>4 DEF RInv, Place, AtFile, Checking, Judging
<1>6. Loaded'
  <2>1. CASE ok
    <3>1. /\ conf.target \in Releases /\ conf.targetLocation \in Locations \cup {NoLocation}
          /\ VersionMapOK /\ versionMap[conf.target] = NotLoaded
      BY <1>3 DEF TypeOK, Config, VersionMapOK, NewChecker
    <3>2. /\ versionMap'[conf.target] \in Deliverable(conf.target, conf.targetLocation)
          /\ \A q \in Releases : q # conf.target => versionMap'[q] = versionMap[q]
      BY <1>2, <2>1, <3>1, LoadDelivers
    <3> QED
      BY <1>3, <1>4, <2>1, <3>2 DEF Loaded, targets, NewChecker, Checking, Judging
  <2>2. CASE ~ok
    BY <1>4, <2>2 DEF Loaded, Checking, Judging
  <2> QED
    BY <2>1, <2>2
<1>7. Findings'
  BY <1>4 DEF Findings, Checking, Judging
<1>8. Reports' /\ Successes' /\ ExitZeroMeansClean'
  BY <1>3, <1>4, WithinFileStep DEF Running
<1> QED
  BY <1>1, <1>5, <1>6, <1>7, <1>8 DEF RInv

LEMMA LoadSourceRStep == RInv /\ LoadSource => RInv'
<1> SUFFICES ASSUME RInv, LoadSource
             PROVE  RInv'
  OBVIOUS
<1>1. IInv'
  BY InductiveInvariant DEF RInv, Next
<1>2. PICK ok \in BOOLEAN :
        /\ Load(conf.source, conf.sourceLocation, ok)
        /\ IF ok THEN Goes("splits") ELSE LoadError("splits")
        /\ conf' = IF ok /\ conf.source = Empty /\ conf.target # Empty
                   THEN [conf EXCEPT !.source = conf.target] ELSE conf
  BY DEF LoadSource
<1>3. /\ TypeOK /\ pc = "loadSource" /\ exit = Running
      /\ results = <<>> /\ rest = Contents[files[fileAt]] /\ fileAt \in DOMAIN files
      /\ Contents[files[fileAt]] # Unreadable
      /\ versionMap[conf.target] \in targets
      /\ \A r \in Releases : r # conf.target => versionMap[r] = NotLoaded
      /\ UNCHANGED <<results, files, fileAt, rest, success, report>>
  BY DEF RInv, IInv, TypeOK, Loaded, Place, AtFile, LoadSource, fileVars
<1>4. IF ok THEN pc' = "splits" /\ exit' = Running ELSE pc' = "stopped" /\ exit' = 1
  BY <1>2, <1>3 DEF Goes, LoadError, Stop
<1>5. /\ conf \in Config /\ conf.target \in Releases /\ conf.source \in Releases
      /\ conf.sourceLocation \in Locations \cup {NoLocation} /\ VersionMapOK
  BY <1>3 DEF TypeOK, Config, VersionMapOK
<1>6. /\ conf'.format = conf.format /\ conf'.ignoreNullErrors = conf.ignoreNullErrors
      /\ conf'.target = conf.target /\ conf'.targetLocation = conf.targetLocation
      /\ conf'.sourceLocation = conf.sourceLocation
      /\ conf'.source = IF ok /\ conf.source = Empty THEN conf.target ELSE conf.source
  <2>1. CASE conf' = conf
    BY <1>2, <2>1
  <2>2. CASE conf' = [conf EXCEPT !.source = conf.target] /\ conf.source = Empty /\ ok
    BY <1>5, <2>2 DEF Config
  <2> QED
    BY <1>2, <2>1, <2>2
<1>7. Place'
  <2>1. ReadSoFar(Contents[files[fileAt]])'
    <3>1. ReadTo(<<>>, Contents[files[fileAt]], 0) /\ DocsOf(<<>>) = <<>>
      BY NothingRead DEF DocsOf
    <3>2. rest \in Seq(Docs) /\ Len(rest) \in Nat
      BY <1>3 DEF TypeOK
    <3> QED
      BY <1>3, <3>1, <3>2 DEF ReadSoFar
  <2> QED
    BY <1>3, <1>4, <2>1 DEF RInv, Place, AtFile, Checking, Judging
<1>8. Loaded'
  <2>1. CASE ok
    <3>1. versionMap[conf.target] # NotLoaded
      BY <1>3, <1>5, CheckerAssumption DEF targets, Deliverable
    <3>2. versionMap'[conf.target] = versionMap[conf.target]
      BY <1>2, <1>5, <3>1, LoadKeeps
    <3>3. targets' = targets
      BY <1>6 DEF targets
    <3>4. CASE conf'.source = conf.target
      <4>1. conf'.source \in {Empty, conf'.target}
        BY <1>6, <3>4
      <4>2. copies' = {<<c, c>> : c \in targets}
        BY <3>3, <4>1 DEF copies
      <4> QED
        BY <1>3, <1>4, <1>6, <2>1, <3>2, <3>4, <4>2 DEF Loaded, Checking, Judging
    <3>5. CASE conf'.source # conf.target
      <4>1. conf.source # Empty /\ conf.source # conf.target /\ conf'.source = conf.source
        BY <1>6, <2>1, <3>5
      <4>2. versionMap'[conf.source] \in Deliverable(conf.source, conf.sourceLocation)
        BY <1>2, <1>3, <1>5, <2>1, <4>1, LoadDelivers
      <4>3. copies' = Deliverable(conf.source, conf.sourceLocation) \X targets
        BY <1>6, <3>3, <4>1 DEF copies
      <4> QED
        BY <1>3, <1>4, <1>6, <2>1, <3>2, <4>1, <4>2, <4>3 DEF Loaded, Checking, Judging
    <3> QED
      BY <3>4, <3>5
  <2>2. CASE ~ok
    BY <1>4, <2>2 DEF Loaded, Checking, Judging
  <2> QED
    BY <2>1, <2>2
<1>9. Findings'
  BY <1>3, <1>4 DEF Findings, AllFoundIn, Checking, Judging
<1>10. Reports' /\ Successes' /\ ExitZeroMeansClean'
  BY <1>3, <1>4, <1>6, WithinFileStep DEF Running
<1> QED
  BY <1>1, <1>7, <1>8, <1>9, <1>10 DEF RInv

LEMMA SplitRStep == RInv /\ ValidateSplit => RInv'
<1> SUFFICES ASSUME RInv, ValidateSplit
             PROVE  RInv'
  OBVIOUS
<1>1. IInv'
  BY InductiveInvariant DEF RInv, Next
<1>2. /\ TypeOK /\ pc = "splits" /\ exit = Running /\ rest # <<>>
      /\ versionMap[conf.source] # NotLoaded
      /\ UNCHANGED <<conf, files, fileAt, success, report>>
  BY DEF RInv, IInv, TypeOK, VersionsLoaded, ValidateSplit, splitUnchanged, fileVars
<1>3. versionMap' = versionMap /\ rest' = Tail(rest)
  BY <1>2 DEF ValidateSplit, LoadFromUrl, restAfterError
<1> DEFINE cat == versionMap[conf.source]
           d == Head(rest)
           contents == Contents[files[fileAt]]
<1>4. cat \in Catalogs /\ d \in Docs /\ conf.source \in Releases
  BY <1>2 DEF TypeOK, Config
<1>5. \/ ValidationFails(d) /\ pc' = "splits" /\ exit' = Running /\ results' = results
      \/ pc' = "stopped" /\ exit' = Panicked
      \/ /\ ~ValidationFails(d) /\ pc' = "splits" /\ exit' = Running
         /\ results' = Append(results, ValidateObject(cat, d))
  <2>1. PICK ok \in BOOLEAN :
          /\ LoadFromUrl(conf.source, FALSE, ok)
          /\ IF ~ok \/ ValidationFails(d)
             THEN Goes("splits") /\ UNCHANGED results
             ELSE IF ValidationPanics(cat, d) THEN Stop(Panicked)
             ELSE Goes("splits") /\ results' = Append(results, ValidateObject(cat, d))
    BY <1>3 DEF ValidateSplit
  <2>2. ok
    BY <1>2, <2>1 DEF LoadFromUrl
  <2> QED
    BY <1>2, <2>1, <2>2 DEF Goes, Stop
<1>6. ValidateObject(cat, d) \in Result /\ ValidateObject(cat, d).doc = d
  BY <1>4, ValidateObjectType, CheckerAssumption DEF ValidateObject
<1>7. fileAt \in DOMAIN files /\ contents # Unreadable /\ ReadSoFar(contents)
  BY <1>2 DEF RInv, Place, AtFile, Checking
<1>9. CASE pc' = "splits"
  <2>1. PICK k \in Nat :
          /\ k + Len(rest) = Len(contents)
          /\ \A i \in 1..Len(rest) : rest[i] = contents[k + i]
          /\ ReadTo(DocsOf(results), contents, k)
    BY <1>7 DEF ReadSoFar
  <2>2. d = contents[k + 1]
    <3>1. rest \in Seq(Docs) /\ rest # <<>>
      BY <1>2 DEF TypeOK
    <3>2. 1 \in 1..Len(rest) /\ d = rest[1]
      BY <3>1
    <3> QED
      BY <2>1, <3>2
  <2>3. /\ k + 1 + Len(Tail(rest)) = Len(contents)
        /\ \A i \in 1..Len(Tail(rest)) : Tail(rest)[i] = contents[k + 1 + i]
    <3>1. rest \in Seq(Docs)
      BY <1>2 DEF TypeOK
    <3>2. Len(rest) \in Nat /\ Len(rest) > 0
      BY <1>2, <3>1
    <3>3. Len(Tail(rest)) = Len(rest) - 1
      BY <1>2, <3>1
    <3>4. ASSUME NEW i \in 1..Len(Tail(rest))
          PROVE  Tail(rest)[i] = contents[k + 1 + i]
      <4>1. Tail(rest)[i] = rest[i + 1] /\ i + 1 \in 1..Len(rest)
        BY <1>2, <3>1, <3>3
      <4>2. rest[i + 1] = contents[k + (i + 1)] /\ k + (i + 1) = k + 1 + i
        BY <2>1, <4>1
      <4> QED
        BY <4>1, <4>2
    <3>5. k + 1 + Len(Tail(rest)) = k + Len(rest)
      <4>1. PICK a \in Nat : a = Len(rest)
        BY <3>2
      <4>2. Len(Tail(rest)) = a - 1
        BY <3>3, <4>1
      <4>3. k + 1 + (a - 1) = k + a
        OBVIOUS
      <4> QED
        BY <4>1, <4>2, <4>3
    <3> QED
      BY <2>1, <3>4, <3>5
  <2>4. results \in Seq(Result)
    BY <1>2 DEF TypeOK
  <2>5. ReadTo(DocsOf(results'), contents, k + 1)
    <3>1. CASE ValidationFails(d)
      BY <1>5, <1>9, <2>1, <2>2, <3>1, OneSkipped
    <3>2. CASE ~ValidationFails(d)
      <4>1. DocsOf(results) \in Seq(Docs) /\ DocsOf(results') = Append(DocsOf(results), d)
        BY <1>5, <1>6, <1>9, <2>4, <3>2, DocsOfAppend
      <4> QED
        BY <2>1, <2>2, <3>2, <4>1, OneRead
    <3> QED
      BY <3>1, <3>2
  <2>6. ReadSoFar(contents)'
    <3>1. k + 1 \in Nat /\ contents' = contents
      BY <1>2
    <3> QED
      BY <1>3, <2>3, <2>5, <3>1 DEF ReadSoFar
  <2>7. Place'
    BY <1>2, <1>7, <1>9, <2>6 DEF RInv, Place, AtFile, Checking, Judging
  <2>8. Loaded'
    BY <1>2, <1>3, <1>9 DEF RInv, Loaded, Checking, Judging, copies, targets
  <2>9. AllFoundIn(cat, FALSE)'
    <3>1. AllFoundIn(cat, FALSE) /\ conf' = conf
      BY <1>2 DEF RInv, Findings, Checking
    <3>2. CASE results' = results
      BY <1>3, <3>1, <3>2 DEF AllFoundIn
    <3>3. CASE results' = Append(results, ValidateObject(cat, d))
      <4>1. PICK v : v = ValidateObject(cat, d)
        OBVIOUS
      <4>2. v \in Result /\ FoundIn(v, cat, FALSE)
        BY <1>6, <4>1, FreshIsFound
      <4>3. \A i \in DOMAIN results' :
              \/ i \in DOMAIN results /\ results'[i] = results[i]
              \/ results'[i] = v
        BY <2>4, <3>3, <4>1
      <4> QED
        BY <1>3, <3>1, <4>2, <4>3 DEF AllFoundIn
    <3> QED
      BY <1>5, <1>9, <3>2, <3>3
  <2>10. Findings'
    BY <1>2, <1>9, <2>9 DEF Findings
  <2>11. Reports' /\ Successes' /\ ExitZeroMeansClean'
    BY <1>2, <1>5, <1>9, WithinFileStep DEF Running
  <2> QED
    BY <1>1, <2>7, <2>8, <2>10, <2>11 DEF RInv
<1>10. CASE pc' = "stopped"
  <2>1. Place' /\ Loaded' /\ Findings'
    BY <1>2, <1>10 DEF RInv, Place, Loaded, Findings, AtFile, Checking, Judging
  <2>2. Reports' /\ Successes' /\ ExitZeroMeansClean'
    BY <1>2, <1>5, <1>10, WithinFileStep DEF Running, Panicked
  <2> QED
    BY <1>1, <2>1, <2>2 DEF RInv
<1> QED
  BY <1>5, <1>9, <1>10

LEMMA StartJudgingRStep == RInv /\ StartJudging => RInv'
<1> SUFFICES ASSUME RInv, StartJudging
             PROVE  RInv'
  OBVIOUS
<1>1. IInv'
  BY InductiveInvariant DEF RInv, Next
<1>2. /\ pc = "splits" /\ rest = <<>> /\ pc' = "judgeLatest" /\ exit' = exit
      /\ UNCHANGED <<versionMap, results, conf, files, fileAt, success, report>>
  BY DEF StartJudging, Goes, splitUnchanged, fileVars
<1>3. exit = Running /\ files \in Seq(Files)
  BY <1>2 DEF RInv, IInv, TypeOK
<1> DEFINE f == files[fileAt]
<1>4. fileAt \in DOMAIN files /\ Contents[f] # Unreadable /\ ReadSoFar(Contents[f])
  BY <1>2 DEF RInv, Place, AtFile, Checking
<1>5. Readable(DocsOf(results), f)
  <2>1. Contents[f] \in Seq(Docs)
    BY <1>3, <1>4, FilesAssumption
  <2>2. PICK k \in Nat : k + Len(rest) = Len(Contents[f]) /\ ReadTo(DocsOf(results), Contents[f], k)
    BY <1>4 DEF ReadSoFar
  <2>3. k = Len(Contents[f])
    BY <1>2, <2>1, <2>2
  <2> QED
    BY <2>1, <2>2, <2>3, AllRead
<1>6. Place'
  BY <1>2, <1>4, <1>5 DEF RInv, Place, AtFile, Checking, Judging
<1>7. Loaded'
  BY <1>2 DEF RInv, Loaded, Checking, Judging, copies, targets
<1>8. Findings'
  BY <1>2 DEF RInv, Findings, AllFoundIn, Checking, Judging
<1>9. Reports' /\ Successes' /\ ExitZeroMeansClean'
  BY <1>2, <1>3, WithinFileStep DEF Running
<1> QED
  BY <1>1, <1>6, <1>7, <1>8, <1>9 DEF RInv

LEMMA JudgeRStep == RInv /\ Judge => RInv'
<1> SUFFICES ASSUME RInv, Judge
             PROVE  RInv'
  OBVIOUS
<1>1. IInv'
  BY InductiveInvariant DEF RInv, Next
<1>2. /\ TypeOK /\ JudgingTypes /\ pc \in Judging \ {"emit"} /\ pc' \in Judging
      /\ exit = Running /\ exit' = exit
      /\ UNCHANGED <<conf, files, fileAt, success, report>>
  BY TypesForJudging DEF RInv, IInv, TypeOK, Judge, JudgeLatest, JudgeCurrent, FilterNullErrors,
     Judging, fileVars
<1>3. versionMap' = versionMap
  <2>2. /\ conf.target \in Releases /\ VersionMapOK
        /\ versionMap[conf.target] # NotLoaded
    BY <1>2 DEF RInv, IInv, VersionsLoaded, targetCatalog, TypeOK, Config, VersionMapOK
  <2> QED
    BY <2>2 DEF Judge, JudgeLatest, JudgeCurrent, FilterNullErrors, LookUp, LoadFromUrl
<1>4. AllFoundIn(versionMap[conf.source], FALSE)
  BY <1>2 DEF RInv, Findings, Checking, Judging
<1>5. PICK cat : cat = versionMap[conf.source]
  OBVIOUS
<1>6. PICK b \in BOOLEAN : b = conf.ignoreNullErrors
  BY <1>2 DEF TypeOK, Config
<1>7. /\ DocsOf(results') = DocsOf(results)
      /\ IF pc' = "emit" THEN AllFoundIn(cat, b)' ELSE AllFoundIn(cat, FALSE)'
  <2>1. CASE FilterNullErrors(conf.ignoreNullErrors)
    <3>1. AllFoundIn(cat, b)' /\ DocsOf(results)' = DocsOf(results)
      BY <1>2, <1>4, <1>5, <1>6, <2>1, FilterKeepsFindings
    <3>2. pc' = "emit"
      BY <2>1 DEF FilterNullErrors
    <3> QED
      BY <3>1, <3>2
  <2>2. CASE JudgeLatest(conf.target) \/ JudgeCurrent(conf.target)
    <3>1. pc' # "emit" /\ at \in DOMAIN results
      BY <2>2 DEF RInv, IInv, JudgedSoFar, JudgeLatest, JudgeCurrent
    <3>2. PICK t : t = conf.target
      OBVIOUS
    <3>3. AllFoundIn(cat, FALSE)' /\ DocsOf(results)' = DocsOf(results)
      BY <1>2, <1>4, <1>5, <2>2, <3>1, <3>2, JudgingKeepsFound
    <3> QED
      BY <3>1, <3>3
  <2> QED
    BY <2>1, <2>2 DEF Judge
<1>8. Place'
  BY <1>2, <1>7 DEF RInv, Place, AtFile, Checking, Judging
<1>9. Loaded'
  BY <1>2, <1>3 DEF RInv, Loaded, Checking, Judging, copies, targets
<1>10. Findings'
  BY <1>2, <1>3, <1>5, <1>6, <1>7 DEF Findings, AllFoundIn
<1>11. Reports' /\ Successes' /\ ExitZeroMeansClean'
  BY <1>2, WithinFileStep DEF Judging, Running
<1> QED
  BY <1>1, <1>8, <1>9, <1>10, <1>11 DEF RInv

\* The two catalogs of the file are there when it is reported.
LEMMA CatalogsAtEmit ==
    ASSUME IInv, pc = "emit"
    PROVE  /\ conf.source \in Releases /\ conf.target \in Releases
           /\ versionMap[conf.source] \in Catalogs /\ targetCatalog \in Catalogs
           /\ results \in Seq(Result)
BY DEF IInv, TypeOK, Config, VersionsLoaded, targetCatalog, Judging

LEMMA EmitRStep == RInv /\ Emit => RInv'
<1> SUFFICES ASSUME RInv, Emit
             PROVE  RInv'
  OBVIOUS
<1>1. IInv'
  BY InductiveInvariant DEF RInv, Next
<1>2. /\ pc = "emit" /\ pc' = "file" /\ fileAt' = fileAt + 1
      /\ UNCHANGED <<versionMap, results, conf, files, success, exit>>
      /\ report' = Append(report, PutBulk(conf.format, removeIgnoredKeys(results)))
  BY DEF Emit, ReportResults, fileVars
<1>3. /\ TypeOK /\ exit = Running /\ report \in Seq(Bulk) /\ files \in Seq(Files)
  BY <1>2 DEF RInv, IInv, TypeOK
<1>4. /\ versionMap[conf.source] \in Catalogs /\ targetCatalog \in Catalogs
      /\ results \in Seq(Result)
  BY <1>2, CatalogsAtEmit DEF RInv
<1>5. PICK bulk : bulk = PutBulk(conf.format, results)
  OBVIOUS
<1>6. report' = Append(report, bulk) /\ bulk.results = results
  BY <1>2, <1>4, <1>5, NoKeyIsIgnored DEF PutBulk
<1>7. Printed(bulk, conf.format, versionMap[conf.source], targetCatalog, conf.ignoreNullErrors)
  <2>1. AllFoundIn(versionMap[conf.source], conf.ignoreNullErrors)
    BY <1>2 DEF RInv, Findings
  <2>2. \A i \in DOMAIN results : JudgedBy(results[i], targetCatalog)
    BY <1>2 DEF RInv, IInv, JudgedSoFar
  <2> QED
    BY <1>4, <1>5, <2>1, <2>2 DEF Printed, AllFoundIn
<1>8. /\ Len(report') = Len(report) + 1 /\ report'[Len(report')] = bulk
      /\ Len(report) \in Nat
      /\ \A n \in DOMAIN report' :
           \/ n \in DOMAIN report /\ report'[n] = report[n]
           \/ n = Len(report) + 1 /\ report'[n] = bulk
      /\ \A n \in DOMAIN report : report'[n] = report[n]
  BY <1>3, <1>6
<1>9. Reports'
  <2>1. \A n \in DOMAIN report' : \E s, t \in Catalogs :
          Printed(report'[n], conf.format, s, t, conf.ignoreNullErrors)
    BY <1>4, <1>7, <1>8 DEF RInv, Reports
  <2> QED
    BY <1>2, <1>7, <1>8, <2>1 DEF Reports, lastBulk, targetCatalog
<1>10. /\ fileAt \in DOMAIN files /\ Contents[files[fileAt]] # Unreadable
       /\ Readable(DocsOf(results), files[fileAt])
  BY <1>2 DEF RInv, Place, AtFile, Checking, Judging
<1>11. Place'
  BY <1>2, <1>3, <1>10 DEF Place, AtFile, Checking, Judging
<1>12. Successes'
  <2> SUFFICES ASSUME success
               PROVE  /\ Len(report') = fileAt
                      /\ \A i \in 1..fileAt : /\ Contents[files[i]] # Unreadable
                                              /\ Readable(DocsOf(report'[i].results), files[i])
    BY <1>2, <1>3 DEF Successes, TypeOK
  <2>1. /\ Len(report) = fileAt - 1 /\ fileAt \in Nat
        /\ \A i \in 1..(fileAt - 1) : /\ Contents[files[i]] # Unreadable
                                      /\ Readable(DocsOf(report[i].results), files[i])
    BY <1>2, <1>3 DEF RInv, Successes, TypeOK
  <2>2. \A i \in 1..fileAt : i \in 1..(fileAt - 1) \/ i = fileAt
    BY <2>1
  <2>3. \A i \in 1..(fileAt - 1) : report'[i] = report[i]
    BY <1>3, <1>8, <2>1
  <2>4. report'[fileAt] = bulk
    BY <1>8, <2>1
  <2> QED
    BY <1>6, <1>8, <1>10, <2>1, <2>2, <2>3, <2>4
<1>13. Loaded' /\ Findings' /\ ExitZeroMeansClean'
  BY <1>2, <1>3 DEF Loaded, Findings, ExitZeroMeansClean, Checking, Judging, Running
<1> QED
  BY <1>1, <1>9, <1>11, <1>12, <1>13 DEF RInv

LEMMA FlushRStep == RInv /\ Flush => RInv'
<1> SUFFICES ASSUME RInv, Flush
             PROVE  RInv'
  OBVIOUS
<1>1. IInv'
  BY InductiveInvariant DEF RInv, Next
<1>2. /\ pc = "file" /\ pc' = "stopped" /\ fileAt \notin DOMAIN files
      /\ UNCHANGED <<conf, files, fileAt, success, report>>
      /\ exit' = IF success /\ \A i \in DOMAIN report : ~hasErrors(report[i].results)
                 THEN 0 ELSE 1
  BY DEF Flush, Stop, fileVars
<1>3. Place' /\ Loaded' /\ Findings'
  BY <1>2 DEF RInv, Place, Loaded, Findings, AtFile, Checking, Judging
<1>4. Reports' /\ Successes'
  BY <1>2 DEF RInv, Reports, Successes
<1>5. ExitZeroMeansClean'
  <2> SUFFICES ASSUME exit' = 0
               PROVE  ExitZeroMeansClean'
    BY DEF ExitZeroMeansClean
  <2>1. success /\ \A i \in DOMAIN report : ~hasErrors(report[i].results)
    BY <1>2
  <2>2. fileAt = Len(files) + 1 /\ DOMAIN files = 1..Len(files) /\ Len(files) \in Nat
    BY <1>2 DEF RInv, Place, IInv, TypeOK
  <2>3. /\ Len(report) = Len(files)
        /\ \A i \in DOMAIN files : /\ Contents[files[i]] # Unreadable
                                   /\ Readable(DocsOf(report[i].results), files[i])
    BY <1>2, <2>1, <2>2 DEF RInv, Successes
  <2> QED
    BY <1>2, <2>1, <2>3 DEF ExitZeroMeansClean, hasErrors
<1> QED
  BY <1>1, <1>3, <1>4, <1>5 DEF RInv

LEMMA SortPanicsRStep == RInv /\ SortPanics => RInv'
<1> SUFFICES ASSUME RInv, SortPanics
             PROVE  RInv'
  OBVIOUS
<1>1. IInv'
  BY InductiveInvariant DEF RInv, Next
<1>2. /\ UNCHANGED <<versionMap, results, conf, files, fileAt, rest, success, report>>
      /\ pc # "stopped" /\ pc' = "stopped" /\ exit' = Panicked
  BY DEF SortPanics, asksTarget, Stop, fileVars
<1>3. Place'
  BY <1>2 DEF RInv, Place, AtFile, Checking, Judging
<1>4. Loaded' /\ Findings'
  BY <1>2 DEF Loaded, Findings, Checking, Judging
<1>5. Reports' /\ Successes' /\ ExitZeroMeansClean'
  BY <1>2, WithinFileStep DEF Panicked
<1> QED
  BY <1>1, <1>3, <1>4, <1>5 DEF RInv

LEMMA StutterRStep == RInv /\ UNCHANGED vars => RInv'
<1> SUFFICES ASSUME RInv, UNCHANGED vars
             PROVE  RInv'
  OBVIOUS
<1>1. IInv'
  BY InductiveInvariant DEF RInv
<1>2. UNCHANGED <<versionMap, pc, results, conf, files, fileAt, rest, success, report, exit>>
  BY DEF vars, verdictVars, fileVars
<1>3. Place'
  BY <1>2 DEF RInv, Place, ReadSoFar
<1>4. Loaded' /\ Findings'
  BY <1>2 DEF RInv, Loaded, Findings, AllFoundIn, copies, targets
<1>5. Reports' /\ Successes' /\ ExitZeroMeansClean'
  BY <1>2 DEF RInv, Reports, Successes, ExitZeroMeansClean, lastBulk, targetCatalog
<1> QED
  BY <1>1, <1>3, <1>4, <1>5 DEF RInv

LEMMA InductiveReports == RInv /\ [Next]_vars => RInv'
BY WalkRStep, SkipRStep, OpenFileRStep, LoadTargetRStep, LoadSourceRStep, SortPanicsRStep,
   SplitRStep, StartJudgingRStep, JudgeRStep, EmitRStep, FlushRStep, StutterRStep DEF Next

LEMMA SpecRInv == Spec => []RInv
<1>1. Init => RInv
  BY InitRInv
<1>2. RInv /\ [Next]_vars => RInv'
  BY InductiveReports
<1> QED
  BY <1>1, <1>2, PTL DEF Spec

-----------------------------------------------------------------------------
(***************************************************************************)
(* The theorems.                                                           *)
(***************************************************************************)
\* A document in error costs only itself: every other document of a file has its result
\* when the file is reported, in the order of the file (kubedd.go 65-74).
THEOREM EveryObjectHasItsResult == Spec => []OneResultPerObject
<1>1. RInv => OneResultPerObject
  BY DEF RInv, Place, OneResultPerObject, Judging
<1> QED
  BY <1>1, SpecRInv, PTL

\* Exit status 0 is not given before every file is read and every object that can be
\* parsed is reported without an error (main.go 122-169).
THEOREM ZeroIsClean == Spec => []ExitZeroMeansClean
<1>1. RInv => ExitZeroMeansClean
  BY DEF RInv
<1> QED
  BY <1>1, SpecRInv, PTL

\* Of the objects of a printed report those that the target no longer supports, and no
\* others, are shown as removed (Output.go 96-106).
THEOREM RemovalsShown == Spec => []RemovalsAreShown
<1>1. RInv => RemovalsAreShown
  <2> SUFFICES ASSUME RInv, pc = "file", report # <<>>, printsBulk(conf.format),
                      NEW i \in DOMAIN lastBulk.results
               PROVE  lastBulk.sections[i] = "removed"
                        <=> <<lastBulk.results[i].api, lastBulk.results[i].kind>>
                              \notin Served[targetCatalog]
    BY DEF RemovalsAreShown, lastBulk
  <2>1. Printed(lastBulk, conf.format, versionMap[conf.source], targetCatalog,
                conf.ignoreNullErrors)
    BY DEF RInv, Reports
  <2> QED
    BY <2>1, PrintedRemovals
<1> QED
  BY <1>1, SpecRInv, PTL

\* An object said to need nothing but another apiVersion has, under the apiVersion named,
\* the target's support and no error left (Output.go 172-179, kubedd.go 77-93).
THEOREM JustApiVersionIsEnough == Spec => []JustApiVersionMigrates
<1>1. RInv => JustApiVersionMigrates
  <2> SUFFICES ASSUME RInv, pc = "file", report # <<>>, NEW i \in DOMAIN lastBulk.results,
                      lastBulk.statuses[i] = "justApiVersion"
               PROVE  LET r == lastBulk.results[i]
                      IN  /\ <<r.latestAPIVersion, r.kind>> \in Served[targetCatalog]
                          /\ Kept(applySchema(versionMap[conf.source], r.doc,
                                              r.latestAPIVersion).errors,
                                  conf.ignoreNullErrors) = {}
    BY DEF JustApiVersionMigrates
  <2>1. Printed(lastBulk, conf.format, versionMap[conf.source], targetCatalog,
                conf.ignoreNullErrors)
    BY DEF RInv, Reports
  <2> QED
    BY <2>1, PrintedJustApiVersion
<1> QED
  BY <1>1, SpecRInv, PTL

\* No error below the root is left out of a printed report for the section or the company
\* its object is in, but those the property names (Output.go 96-158, 233-281).
THEOREM ErrorsAreInRows == Spec => []ErrorsHaveRows
<1>1. RInv => ErrorsHaveRows
  <2> SUFFICES ASSUME RInv, printsBulk(conf.format), NEW n \in DOMAIN report,
                      NEW i \in DOMAIN report[n].results
               PROVE  LET r == report[n].results[i]
                          has(table) ==
                            {table} \X (places(r, table) \ {Root}) \subseteq report[n].rows[i]
                      IN  /\ has("latestErrors")
                          /\ report[n].sections[i] \in {"newer", "unchanged"}
                               \/ (report[n].sections[i] = "deprecated") => has("currentErrors")
    BY DEF ErrorsHaveRows
  <2>1. PICK s \in Catalogs, t \in Catalogs :
          Printed(report[n], conf.format, s, t, conf.ignoreNullErrors)
    BY DEF RInv, Reports
  <2> QED
    BY <2>1, PrintedErrorsHaveRows
<1> QED
  BY <1>1, SpecRInv, PTL

-----------------------------------------------------------------------------
(***************************************************************************)
(* Nothing that was asked for is passed over at exit status 0.             *)
(***************************************************************************)
Among(fs, f) == \E i \in DOMAIN fs : fs[i] = f

\* The first n - 1 entries of a directory were no errors, and those chosen are among fs.
Taken(fs, entries, n) ==
    \A m \in DOMAIN entries :
      m < n => ~entries[m].fails /\ (chosen(entries[m]) => Among(fs, entries[m].file))

AllTaken(fs, entries) == Taken(fs, entries, Len(entries) + 1)

\* While nothing went wrong, dirs are what is left of the directories given, and the
\* files of those before them are there.
WalkedTo(k) ==
    /\ k + Len(dirs) = Len(commandLine.dirs)
    /\ \A i \in 1..Len(dirs) : dirs[i] = commandLine.dirs[k + i]
    /\ \A i \in 1..k : AllTaken(files, Listing[commandLine.dirs[i]])
    /\ dirs # <<>> => Taken(files, Listing[Head(dirs)], entryAt)

\* An inductive invariant next to IInv. At the end of the run dirs is empty for the
\* directories that were given up too; success tells them apart.
Walked ==
    /\ \A i \in DOMAIN commandLine.args : Among(files, commandLine.args[i])
    /\ success => \E k \in Nat : WalkedTo(k)
    /\ pc # "walk" => dirs = <<>>
    /\ exit = 0 => success

LEMMA AmongMore ==
    ASSUME NEW S, NEW fs \in Seq(S), NEW g \in S
    PROVE  /\ \A f : Among(fs, f) => Among(Append(fs, g), f)
           /\ Among(Append(fs, g), g)
<1>1. /\ Len(Append(fs, g)) = Len(fs) + 1 /\ Append(fs, g)[Len(fs) + 1] = g
      /\ DOMAIN fs = 1..Len(fs) /\ DOMAIN Append(fs, g) = 1..(Len(fs) + 1) /\ Len(fs) \in Nat
      /\ \A i \in 1..Len(fs) : Append(fs, g)[i] = fs[i]
  OBVIOUS
<1> QED
  BY <1>1 DEF Among

LEMMA InitWalked == Init => Walked
<1> SUFFICES ASSUME Init
             PROVE  Walked
  OBVIOUS
<1>1. /\ commandLine \in [args : Seq(Files), dirs : Seq(Dirs)]
      /\ files = commandLine.args /\ dirs = commandLine.dirs /\ entryAt = 1
      /\ pc = "walk" /\ exit = Running
  BY FilesAssumption DEF Init
<1>2. dirs \in Seq(Dirs)
  BY <1>1
<1>3. ASSUME dirs # <<>>
      PROVE  Taken(files, Listing[Head(dirs)], entryAt)
  <2>1. Head(dirs) \in Dirs
    BY <1>2, <1>3
  <2>2. PICK entries \in Seq(Entry) : entries = Listing[Head(dirs)]
    BY <2>1, FilesAssumption
  <2>3. \A m \in DOMAIN entries : ~(m < 1)
    BY <2>2
  <2> QED
    BY <1>1, <2>2, <2>3 DEF Taken
<1>4. WalkedTo(0)
  <2>1. Len(dirs) \in Nat
    BY <1>2
  <2>2. 0 + Len(dirs) = Len(commandLine.dirs)
    BY <1>1, <2>1
  <2>3. \A i \in 1..Len(dirs) : dirs[i] = commandLine.dirs[0 + i]
    BY <1>1, <2>1
  <2>4. \A i \in 1..0 : FALSE
    OBVIOUS
  <2> QED
    BY <1>3, <2>2, <2>3, <2>4 DEF WalkedTo
<1>5. \A i \in DOMAIN commandLine.args : Among(files, commandLine.args[i])
  BY <1>1 DEF Among
<1> QED
  BY <1>1, <1>4, <1>5 DEF Walked, Running

LEMMA EntryWalked == TypeOK /\ Walked /\ WalkEntry => Walked'
<1> SUFFICES ASSUME TypeOK, Walked, WalkEntry
             PROVE  Walked'
  OBVIOUS
<1>1. /\ dirs \in Seq(Dirs) /\ dirs # <<>> /\ entryAt \in Nat /\ files \in Seq(Files)
      /\ pc = "walk" /\ pc' = pc /\ exit = Running /\ exit' = exit
      /\ commandLine' = commandLine
  BY DEF TypeOK, WalkEntry, walkUnchanged
<1>2. Head(dirs) \in Dirs
  BY <1>1
<1>3. PICK entries \in Seq(Entry) : entries = Listing[Head(dirs)]
  BY <1>2, FilesAssumption
<1>4. PICK e \in Entry : e = entries[entryAt]
  BY <1>3 DEF WalkEntry
<1>5. CASE e.fails
  <2>1. files' = files /\ success' = FALSE
    BY <1>3, <1>4, <1>5 DEF WalkEntry, successAfterError
  <2> QED
    BY <1>1, <2>1 DEF Walked, Running
<1>6. CASE ~e.fails
  <2>1. /\ files' = IF chosen(e) THEN Append(files, e.file) ELSE files
        /\ entryAt' = entryAt + 1 /\ dirs' = dirs /\ success' = success
    BY <1>3, <1>4, <1>6 DEF WalkEntry
  <2>2. e.file \in Files
    BY DEF Entry
  <2>3. /\ \A f : Among(files, f) => Among(files', f)
        /\ chosen(e) => Among(files', e.file)
    BY <1>1, <2>1, <2>2, AmongMore
  <2>4. \A es, n : Taken(files, es, n) => Taken(files', es, n)
    BY <2>3 DEF Taken
  <2>5. ASSUME Taken(files, entries, entryAt)
        PROVE  Taken(files', entries, entryAt + 1)
    <3>1. ASSUME NEW m \in DOMAIN entries, m < entryAt + 1
          PROVE  ~entries[m].fails /\ (chosen(entries[m]) => Among(files', entries[m].file))
      <4>1. m < entryAt \/ m = entryAt
        BY <1>1, <1>3, <3>1
      <4>2. CASE m < entryAt
        BY <2>3, <2>5, <4>2 DEF Taken
      <4>3. CASE m = entryAt
        BY <1>4, <1>6, <2>3, <4>3
      <4> QED
        BY <4>1, <4>2, <4>3
    <3> QED
      BY <3>1 DEF Taken
  <2>6. ASSUME NEW k \in Nat, WalkedTo(k)
        PROVE  WalkedTo(k)'
    BY <1>1, <1>3, <2>1, <2>4, <2>5, <2>6 DEF WalkedTo, AllTaken
  <2> QED
    BY <1>1, <2>1, <2>3, <2>6 DEF Walked, Running
<1> QED
  BY <1>5, <1>6

LEMMA NextDirectoryWalked == TypeOK /\ Walked /\ WalkNextDirectory => Walked'
<1> SUFFICES ASSUME TypeOK, Walked, WalkNextDirectory
             PROVE  Walked'
  OBVIOUS
<1>1. /\ dirs \in Seq(Dirs) /\ dirs # <<>> /\ entryAt \in Nat \ {0}
      /\ pc = "walk" /\ pc' = pc /\ exit = Running /\ exit' = exit
      /\ commandLine' = commandLine /\ files' = files /\ success' = success
      /\ dirs' = Tail(dirs) /\ entryAt' = 1 /\ entryAt \notin DOMAIN Listing[Head(dirs)]
  BY DEF TypeOK, WalkNextDirectory, walkUnchanged
<1>2. /\ Head(dirs) \in Dirs /\ Head(dirs) = dirs[1]
      /\ Len(dirs) \in Nat /\ Len(dirs) > 0
      /\ Tail(dirs) \in Seq(Dirs) /\ Len(Tail(dirs)) = Len(dirs) - 1
      /\ \A i \in 1..Len(Tail(dirs)) : Tail(dirs)[i] = dirs[i + 1]
  BY <1>1
<1>3. ASSUME NEW k \in Nat, WalkedTo(k)
      PROVE  WalkedTo(k + 1)'
  <2>1. k + 1 + Len(dirs') = Len(commandLine.dirs)
    <3>1. k + Len(dirs) = Len(commandLine.dirs)
      BY <1>3 DEF WalkedTo
    <3>2. Len(dirs') = Len(dirs) - 1
      BY <1>1, <1>2
    <3>3. k + 1 + (Len(dirs) - 1) = k + Len(dirs)
      BY <1>2
    <3> QED
      BY <3>1, <3>2, <3>3
  <2>2. ASSUME NEW i \in 1..Len(dirs')
        PROVE  dirs'[i] = commandLine.dirs[k + 1 + i]
    <3>1. i + 1 \in 1..Len(dirs) /\ dirs'[i] = dirs[i + 1] /\ k + (i + 1) = k + 1 + i
      BY <1>1, <1>2
    <3> QED
      BY <1>3, <3>1 DEF WalkedTo
  <2>3. AllTaken(files, Listing[commandLine.dirs[k + 1]])
    <3>1. PICK entries \in Seq(Entry) : entries = Listing[Head(dirs)]
      BY <1>2, FilesAssumption
    <3>2. Taken(files, entries, entryAt)
      BY <1>1, <1>3, <3>1 DEF WalkedTo
    <3>3. \A m \in DOMAIN entries : m < entryAt
      BY <1>1, <3>1
    <3>4. AllTaken(files, entries)
      BY <3>2, <3>3 DEF AllTaken, Taken
    <3>5. 1 \in 1..Len(dirs) /\ dirs[1] = commandLine.dirs[k + 1]
      BY <1>2, <1>3 DEF WalkedTo
    <3> QED
      BY <1>2, <3>1, <3>4, <3>5
  <2>4. \A i \in 1..(k + 1) : AllTaken(files, Listing[commandLine.dirs[i]])
    <3>1. \A i \in 1..(k + 1) : i \in 1..k \/ i = k + 1
      OBVIOUS
    <3> QED
      BY <1>3, <2>3, <3>1 DEF WalkedTo
  <2>5. ASSUME dirs' # <<>>
        PROVE  Taken(files, Listing[Head(dirs')], 1)
    <3>1. Head(dirs') \in Dirs
      BY <1>1, <1>2, <2>5
    <3>2. PICK entries \in Seq(Entry) : entries = Listing[Head(dirs')]
      BY <3>1, FilesAssumption
    <3>3. \A m \in DOMAIN entries : ~(m < 1)
      BY <3>2
    <3> QED
      BY <3>2, <3>3 DEF Taken
  <2> QED
    BY <1>1, <2>1, <2>2, <2>4, <2>5 DEF WalkedTo
<1>4. ASSUME success
      PROVE  \E k \in Nat : WalkedTo(k)'
  <2>1. PICK k \in Nat : WalkedTo(k)
    BY <1>4 DEF Walked
  <2>2. k + 1 \in Nat
    OBVIOUS
  <2> QED
    BY <1>3, <2>1, <2>2
<1> QED
  BY <1>1, <1>4 DEF Walked, Running

\* Nothing after the walk changes what was collected.
LEMMA LaterWalked ==
    ASSUME Walked, UNCHANGED fileVars, dirs = <<>>,
           success' => success, exit' = 0 => success'
    PROVE  Walked'
<1>1. UNCHANGED <<commandLine, dirs, entryAt, files>>
  BY DEF fileVars
<1>2. \A k : WalkedTo(k)' <=> WalkedTo(k)
  BY <1>1 DEF WalkedTo
<1> QED
  BY <1>1, <1>2 DEF Walked

LEMMA NextWalked == IInv /\ Walked /\ [Next]_vars => Walked'
<1> SUFFICES ASSUME IInv, Walked, [Next]_vars
             PROVE  Walked'
  OBVIOUS
<1>1. TypeOK
  BY DEF IInv
<1>2. CASE WalkEntry \/ WalkNextDirectory
  BY <1>1, <1>2, EntryWalked, NextDirectoryWalked
<1>3. CASE WalkEnds
  <2>1. /\ UNCHANGED fileVars /\ dirs = <<>> /\ success' = success
        /\ exit' = exit /\ exit = Running
    BY <1>1, <1>3 DEF WalkEnds, walkUnchanged, TypeOK
  <2>2. exit' = 0 => success'
    BY <2>1 DEF Running
  <2> QED
    BY <2>1, <2>2, LaterWalked
<1>4. CASE UNCHANGED vars
  <2>1. UNCHANGED <<commandLine, dirs, entryAt, files, pc, success, exit>>
    BY <1>4 DEF vars, fileVars, verdictVars
  <2> QED
    BY <2>1 DEF Walked, WalkedTo
<1>5. CASE SkipUnreadable
  <2>1. /\ UNCHANGED fileVars /\ dirs = <<>> /\ success' = FALSE
        /\ exit' = exit /\ exit = Running
    BY <1>1, <1>5 DEF SkipUnreadable, TypeOK, Walked
  <2>2. exit' = 0 => success'
    BY <2>1 DEF Running
  <2> QED
    BY <2>1, <2>2, LaterWalked
<1>6. CASE Flush
  <2>1. /\ UNCHANGED fileVars /\ dirs = <<>> /\ success' = success
        /\ exit' = 0 => success
    BY <1>6 DEF Flush, Stop, Walked
  <2> QED
    BY <2>1, LaterWalked
<1>7. CASE OpenFile \/ LoadTarget \/ LoadSource \/ SortPanics \/ ValidateSplit \/ StartJudging
             \/ Judge \/ Emit
  <2>1. UNCHANGED fileVars /\ success' = success
    BY <1>7 DEF OpenFile, LoadTarget, LoadSource, SortPanics, ValidateSplit, splitUnchanged,
                StartJudging, Judge, Emit
  <2>2. pc \notin {"walk", "stopped"}
    BY <1>7 DEF OpenFile, LoadTarget, LoadSource, SortPanics, asksTarget, ValidateSplit,
                StartJudging, Judge, JudgeLatest, JudgeCurrent, FilterNullErrors, Emit
  <2>3. exit = Running
    BY <1>1, <2>2 DEF TypeOK
  <2>4. exit' = exit \/ exit' \in {1, Panicked}
    BY <1>7 DEF OpenFile, LoadTarget, LoadSource, LoadError, SortPanics, ValidateSplit,
                StartJudging, Judge, Emit, Goes, Stop
  <2>5. exit' # 0 /\ dirs = <<>>
    BY <2>2, <2>3, <2>4 DEF Walked, Running, Panicked
  <2> QED
    BY <2>1, <2>5, LaterWalked
<1> QED
  BY <1>2, <1>3, <1>4, <1>5, <1>6, <1>7 DEF Next, Walk

LEMMA WalkedIsFound == TypeOK /\ Walked => ExitZeroMeansAllFound
<1> SUFFICES ASSUME TypeOK, Walked, exit = 0
             PROVE  /\ \A i \in DOMAIN commandLine.args : found(commandLine.args[i])
                    /\ \A i \in DOMAIN commandLine.dirs :
                         \A n \in DOMAIN Listing[commandLine.dirs[i]] :
                           LET e == Listing[commandLine.dirs[i]][n]
                           IN  ~e.fails /\ (chosen(e) => found(e.file))
  BY DEF ExitZeroMeansAllFound
<1>1. \A f : Among(files, f) <=> found(f)
  BY DEF Among, found
<1>2. pc = "stopped" /\ dirs = <<>>
  BY DEF TypeOK, Walked, Running
<1>3. commandLine \in [args : Seq(Files), dirs : Seq(Dirs)]
  BY FilesAssumption DEF TypeOK
<1>4. PICK k \in Nat : WalkedTo(k)
  BY DEF Walked
<1>5. Len(dirs) = 0
  BY <1>2
<1>6. k = Len(commandLine.dirs)
  BY <1>4, <1>5 DEF WalkedTo
<1>7. DOMAIN commandLine.dirs = 1..k
  BY <1>3, <1>6
<1>8. ASSUME NEW i \in DOMAIN commandLine.dirs, NEW n \in DOMAIN Listing[commandLine.dirs[i]]
      PROVE  LET e == Listing[commandLine.dirs[i]][n]
             IN  ~e.fails /\ (chosen(e) => found(e.file))
  <2>1. commandLine.dirs[i] \in Dirs
    BY <1>3
  <2>2. PICK entries \in Seq(Entry) : entries = Listing[commandLine.dirs[i]]
    BY <2>1, FilesAssumption
  <2>3. AllTaken(files, entries)
    BY <1>4, <1>7, <2>2 DEF WalkedTo
  <2>4. n < Len(entries) + 1
    BY <2>2
  <2> QED
    BY <1>1, <2>2, <2>3, <2>4 DEF AllTaken, Taken
<1> QED
  BY <1>1, <1>8 DEF Walked

\* At exit status 0 no walk was cut short, and every argument and every file a walk chose
\* was among the files that were read (main.go 125-129 and 273-298).
THEOREM AllIsFound == Spec => []ExitZeroMeansAllFound
<1>1. Init => Walked
  BY InitWalked
<1>2. IInv /\ Walked /\ [Next]_vars => Walked'
  BY NextWalked
<1>3. IInv /\ Walked => ExitZeroMeansAllFound
  BY WalkedIsFound DEF IInv
<1> QED
  BY <1>1, <1>2, <1>3, SpecIInv, PTL DEF Spec

-----------------------------------------------------------------------------
(***************************************************************************)
(* The refinement. Migration has its own copies of the operators.          *)
(***************************************************************************)
LEMMA SamePutBulk ==
    ASSUME NEW format, NEW rs
    PROVE  Promise!PutBulk(format, rs) = PutBulk(format, rs)
BY DEF Promise!PutBulk, PutBulk, Promise!section, section, Promise!hasError, hasError,
       Promise!printsBulk, printsBulk, Promise!Summarised, Summarised,
       Promise!migrationStatus, migrationStatus, Promise!rowsOf, rowsOf, Promise!rowKeys, rowKeys,
       Promise!places, places, Promise!TablesOf, TablesOf, Promise!Tables, Tables,
       Promise!ErrorTables, ErrorTables

LEMMA SameVerdict ==
    ASSUME NEW d, NEW source, NEW target, NEW ignoreNull
    PROVE  Promise!Verdict(d, source, target, ignoreNull) = Verdict(d, source, target, ignoreNull)
BY DEF Promise!Verdict, Verdict, Promise!ValidateObject, ValidateObject, Promise!migratesTo,
       migratesTo, Promise!Kept, Kept, Promise!original, original, Promise!latest, latest,
       Promise!moves, moves, Promise!applySchema, applySchema, Promise!atOriginal, atOriginal,
       Promise!atLatest, atLatest, Promise!Clean, Clean

\* The abstract configuration: what a run may meet does not change when the source
\* release is filled in.
options == [format |-> conf.format, ignoreNullErrors |-> conf.ignoreNullErrors,
            copies |-> copies]

LEMMA OptionsKept == Next => options' = options
<1> SUFFICES ASSUME Next
             PROVE  options' = options
  OBVIOUS
<1>1. CASE conf' = conf
  BY <1>1 DEF options, copies, targets
<1>2. CASE LoadSource /\ conf' # conf
  <2>1. conf.source = Empty /\ conf' = [conf EXCEPT !.source = conf.target]
    BY <1>2 DEF LoadSource
  <2>2. /\ conf'.target = conf.target /\ conf'.targetLocation = conf.targetLocation
        /\ conf'.format = conf.format /\ conf'.ignoreNullErrors = conf.ignoreNullErrors
    BY <2>1
  <2>3. conf'.source \in {Empty, conf'.target}
    BY <2>1, <2>2
  <2> QED
    BY <2>1, <2>2, <2>3 DEF options, copies, targets
<1> QED
  BY <1>1, <1>2
     DEF Next, Walk, WalkEntry, WalkNextDirectory, WalkEnds, walkUnchanged, SkipUnreadable,
         OpenFile, LoadTarget, SortPanics, ValidateSplit, splitUnchanged, StartJudging, Judge,
         Emit, Flush

LEMMA InitImplements == Init => Promise!Init
<1> SUFFICES ASSUME Init PROVE Promise!Init
  OBVIOUS
<1>1. conf \in Config /\ report = <<>> /\ exit = Running
  BY FilesAssumption DEF Init
<1>2. /\ conf.format \in Formats /\ conf.ignoreNullErrors \in BOOLEAN
      /\ conf.target \in Releases /\ conf.source \in Releases
      /\ conf.targetLocation \in Locations \cup {NoLocation}
      /\ conf.sourceLocation \in Locations \cup {NoLocation}
  BY <1>1 DEF Config
<1>3. ASSUME NEW r \in Releases, NEW l \in Locations \cup {NoLocation}
      PROVE  Deliverable(r, l) \subseteq Catalogs
  BY CheckerAssumption DEF Deliverable
<1>4. copies \subseteq Catalogs \X Catalogs
  BY <1>2, <1>3 DEF copies, targets
<1>5. options \in Promise!Options
  BY <1>2, <1>4 DEF options, Promise!Options, Promise!Formats, Formats
<1> QED
  BY <1>1, <1>5 DEF Promise!Init, options, Promise!Running, Running

LEMMA EmitDelivers == RInv /\ Emit => Promise!Deliver
<1> SUFFICES ASSUME RInv, Emit
             PROVE  Promise!Deliver
  OBVIOUS
<1>1. /\ pc = "emit" /\ conf' = conf /\ exit' = exit
      /\ report' = Append(report, PutBulk(conf.format, removeIgnoredKeys(results)))
  BY DEF Emit, ReportResults
<1>2. TypeOK /\ exit = Running /\ report \in Seq(Bulk)
  BY <1>1 DEF RInv, IInv, TypeOK
<1>3. /\ versionMap[conf.source] \in Catalogs /\ targetCatalog \in Catalogs
      /\ results \in Seq(Result)
  BY <1>1, CatalogsAtEmit DEF RInv
<1> DEFINE docs == DocsOf(results)
           batches == {ds \in Seq(Docs) :
                         \E f \in Files : Contents[f] # Unreadable /\ Readable(ds, f)}
<1>4. docs \in batches
  <2>1. /\ fileAt \in DOMAIN files /\ Contents[files[fileAt]] # Unreadable
        /\ Readable(docs, files[fileAt])
    BY <1>1 DEF RInv, Place, AtFile, Checking, Judging
  <2>2. files[fileAt] \in Files
    BY <1>2, <2>1 DEF TypeOK
  <2>3. docs \in Seq(Docs)
    <3>1. ASSUME NEW i \in DOMAIN results
          PROVE  results[i].doc \in Docs
      <4>1. results[i] \in Result
        BY <1>3
      <4> QED
        BY <4>1 DEF Result
    <3> QED
      BY <1>3, <3>1 DEF DocsOf
  <2> QED
    BY <2>1, <2>2, <2>3
<1>5. removeIgnoredKeys(results) =
        [i \in DOMAIN docs |->
           Verdict(docs[i], versionMap[conf.source], targetCatalog, conf.ignoreNullErrors)]
  <2>1. AllFoundIn(versionMap[conf.source], conf.ignoreNullErrors)
    BY <1>1 DEF RInv, Findings
  <2>2. \A i \in DOMAIN results : JudgedBy(results[i], targetCatalog)
    BY <1>1 DEF RInv, IInv, JudgedSoFar
  <2>3. PICK s \in Catalogs : s = versionMap[conf.source]
    BY <1>3
  <2>4. PICK t, b : t = targetCatalog /\ b = conf.ignoreNullErrors
    OBVIOUS
  <2>5. AllFoundIn(s, b)
    BY <2>1, <2>3, <2>4
  <2>6. \A i \in DOMAIN results : JudgedBy(results[i], t)
    BY <2>2, <2>4
  <2>7. results \in Seq(Result)
    BY <1>3
  <2>8. removeIgnoredKeys(results) =
          [i \in DOMAIN DocsOf(results) |-> Verdict(DocsOf(results)[i], s, t, b)]
    BY <2>5, <2>6, <2>7, ReportedAreVerdicts, CheckerAssumption
  <2> QED
    BY <2>3, <2>4, <2>8
<1>6. PICK bulk : bulk = PutBulk(conf.format, removeIgnoredKeys(results))
  OBVIOUS
<1>7. /\ Len(report') = Len(report) + 1 /\ report'[Len(report')] = bulk
      /\ report' = Append(report, bulk)
  BY <1>1, <1>2, <1>6
<1>8. bulk.results = results
  BY <1>3, <1>6, NoKeyIsIgnored DEF PutBulk
<1>9. <<versionMap[conf.source], targetCatalog>> \in copies
  BY <1>1 DEF RInv, Loaded, Checking, Judging, targetCatalog
<1>10. bulk = Promise!BulkOf(docs, versionMap[conf.source], targetCatalog)
  BY <1>5, <1>6, SamePutBulk, SameVerdict DEF Promise!BulkOf
<1>11. Promise!DocsOf(report'[Len(report')].results) = docs
  BY <1>7, <1>8 DEF Promise!DocsOf, DocsOf
<1>12. options' = options
  BY OptionsKept DEF Next
<1>13. \E copy \in copies : report' = Append(report, Promise!BulkOf(docs, copy[1], copy[2]))
  <2>1. PICK copy \in copies : copy = <<versionMap[conf.source], targetCatalog>>
    BY <1>9
  <2>2. copy[1] = versionMap[conf.source] /\ copy[2] = targetCatalog
    BY <2>1
  <2> QED
    BY <1>7, <1>10, <2>1, <2>2
<1> HIDE DEF docs
<1> QED
  BY <1>1, <1>2, <1>4, <1>7, <1>11, <1>12, <1>13
     DEF Promise!Deliver, options, Promise!Running, Running

LEMMA StepImplements == RInv /\ [Next]_vars => [Promise!Next]_Promise!vars
<1> SUFFICES ASSUME RInv, [Next]_vars
             PROVE  Promise!Next \/ UNCHANGED Promise!vars
  OBVIOUS
<1>1. CASE UNCHANGED vars
  BY <1>1 DEF vars, Promise!vars, copies, targets
<1>2. CASE Emit
  BY <1>2, EmitDelivers DEF Promise!Next
<1>3. CASE Next /\ report' = report
  <2>1. options' = options
    BY <1>3, OptionsKept
  <2>2. CASE exit' = exit
    BY <1>3, <2>1, <2>2 DEF Promise!vars, options
  <2>3. CASE exit' # exit
    <3>1. exit = Running
      <4>1. pc # "stopped"
        BY <1>3 DEF Next, Walk, WalkEntry, WalkNextDirectory, WalkEnds, SkipUnreadable, OpenFile,
                    LoadTarget, LoadSource, SortPanics, asksTarget, ValidateSplit,
                    StartJudging, Judge, JudgeLatest, JudgeCurrent, FilterNullErrors, Emit,
                    Flush
      <4> QED
        BY <4>1 DEF RInv, IInv, TypeOK
    <3>2. /\ exit' \in {0, 1, Panicked}
          /\ exit' = 0 => \A i \in DOMAIN report : ~hasErrors(report[i].results)
      <4>1. CASE Flush
        BY <4>1 DEF Flush, Stop
      <4>2. CASE LoadTarget
        BY <2>3, <4>2 DEF LoadTarget, Goes, LoadError, Stop
      <4>3. CASE LoadSource
        BY <2>3, <4>3 DEF LoadSource, Goes, LoadError, Stop
      <4>4. CASE ValidateSplit
        BY <2>3, <4>4 DEF ValidateSplit, Goes, Stop, Panicked
      <4>5. CASE SortPanics
        BY <2>3, <4>5 DEF SortPanics, Stop, Panicked
      <4> QED
        BY <1>3, <2>3, <4>1, <4>2, <4>3, <4>4, <4>5
           DEF Next, Walk, WalkEntry, WalkNextDirectory, WalkEnds, walkUnchanged,
               SkipUnreadable, OpenFile, StartJudging, Goes, Judge, Emit
    <3>3. \A rs : Promise!hasErrors(rs) <=> hasErrors(rs)
      BY DEF Promise!hasErrors, hasErrors, Promise!hasError, hasError
    <3>4. Promise!End
      BY <1>3, <2>1, <3>1, <3>2, <3>3
         DEF Promise!End, options, Promise!Running, Running, Promise!Panicked, Panicked
    <3> QED
      BY <3>4 DEF Promise!Next
  <2> QED
    BY <2>2, <2>3
<1>4. Next /\ ~Emit => report' = report
  BY DEF Next, Walk, WalkEntry, WalkNextDirectory, WalkEnds, walkUnchanged, SkipUnreadable,
         OpenFile, LoadTarget, LoadSource, SortPanics, ValidateSplit, splitUnchanged,
         StartJudging, Judge, Flush
<1> QED
  BY <1>1, <1>2, <1>3, <1>4

\* Whatever is loaded, cached and retried on the way, a run over files prints of every file
\* what one copy of each release says of its objects, and exit status 0 tells of no error
\* (kubedd.go 31-121, main.go 122-169).
THEOREM FileRunImplementsMigration == Spec => ImplementsMigration
<1>1. Init => Promise!Init
  BY InitImplements
<1>2. RInv /\ [Next]_vars => [Promise!Next]_Promise!vars
  BY StepImplements
<1>3. Spec => Init /\ [][Next]_vars
  BY PTL DEF Spec
<1> QED
  BY <1>1, <1>2, <1>3, SpecRInv, PTL DEF ImplementsMigration, Promise!Spec
=============================================================================
