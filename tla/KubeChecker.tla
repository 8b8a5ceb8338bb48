----------------------------- MODULE KubeChecker ----------------------------
(***************************************************************************)
(* kubeCheckerImpl (pkg/K8sSchemaParser.go): versionMap caches, for every  *)
(* release, the specification loaded for it.                               *)
(***************************************************************************)
EXTENDS Validation

\* Releases and schema files whose specification may have a kind with a version text that
\* the sort of its index panics at (SortPanics of KindIndex): of a release any download
\* may be of that sort, a file always is.
CONSTANT Unsortable

ASSUME UnsortableAssumption == Unsortable \subseteq Releases \cup Locations

VARIABLE versionMap    \* release -> the catalog loaded for it

NewChecker == [r \in Releases |-> NotLoaded]

-----------------------------------------------------------------------------
(***************************************************************************)
(* Loading. ok says whether the call returns without error. A download may *)
(* fail at any time, and what it delivers may differ from one download of  *)
(* a release to the next: the URL names a branch. A load that panics is a  *)
(* step of its own, LoadPanics.                                            *)
(***************************************************************************)
\* Faulty variant: a release is loaded again although versionMap has it.
LoadFromUrlAgain(r, force, ok) ==
    IF ok THEN \E c \in Published[r] : versionMap' = [versionMap EXCEPT ![r] = c]
          ELSE UNCHANGED versionMap

LoadFromUrl(r, force, ok) ==
    IF versionMap[r] # NotLoaded /\ ~force
    THEN ok /\ UNCHANGED versionMap
    ELSE IF ok
         THEN \E c \in Published[r] : versionMap' = [versionMap EXCEPT ![r] = c]
         ELSE UNCHANGED versionMap

LoadFromPath(r, location, force, ok) ==
    IF versionMap[r] # NotLoaded /\ ~force
    THEN ok /\ UNCHANGED versionMap
    ELSE /\ location \notin Unsortable
         /\ ok = (Stored[location] # NotLoaded)
         /\ versionMap' = [versionMap EXCEPT ![r] = IF ok THEN Stored[location] ELSE @]

\* newKubeSpec panics in the sort, before versionMap is written. from is the release that
\* is downloaded or the schema file that is read.
LoadPanics(r, from) == versionMap[r] = NotLoaded /\ from \in Unsortable

\* IsVersionSupported, once its LoadFromUrl returned ok and left loaded in versionMap.
\* A load that failed counts as not supported.
IsVersionSupported(ok, loaded, api, kind) == ok /\ <<api, kind>> \in Served[loaded]
=============================================================================
