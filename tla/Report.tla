------------------------------- MODULE Report -------------------------------
(***************************************************************************)
(* A run of the program: its configuration, what it has printed and how it *)
(* ends. FileCheck and ClusterCheck are the two kinds of run.              *)
(***************************************************************************)
EXTENDS Verdicts, Output

CONSTANT NoLocation    \* an empty schema location

ASSUME NoLocationAssumption == NoLocation \notin Locations

VARIABLES
    conf,      \* the configuration; Validate writes the source release back into it
    report,    \* the bulks printed so far
    exit       \* exit status, Running until there is one

targetCatalog == versionMap[conf.target]

Load(release, location, ok) ==
    IF location # NoLocation THEN LoadFromPath(release, location, FALSE, ok)
                             ELSE LoadFromUrl(release, FALSE, ok)

\* Load panics in the sort of the index.
PanicInLoad(release, location) ==
    LoadPanics(release, IF location # NoLocation THEN location ELSE release)

\* os.Exit, the end of main or a panic: nothing more is printed.
Stop(status) == pc' = "stopped" /\ exit' = status

Goes(state) == pc' = state /\ exit' = exit

\* Faulty variant: a release that cannot be loaded is only logged.
LoadErrorLogged(next) == Goes(next)

LoadError(next) == Stop(1)

ReportResults == report' = Append(report, PutBulk(conf.format, removeIgnoredKeys(results)))
=============================================================================
