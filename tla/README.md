# A formal model of the deprecation checker (kubedd)

The program compares Kubernetes objects, read from files or from a cluster, with the OpenAPI
specifications of two Kubernetes releases, the one the objects run on (*source*) and the one
they are to be moved to (*target*). For every object it reports whether its apiVersion is gone
in the target, deprecated, or has something newer, and which errors the object has under the
schemas. This directory holds TLA+ modules that model how it comes to those verdicts, TLC
configurations that check them on small worlds, and proofs for worlds of any size.

All paths below are those of the repository (`pkg/`, `kubedd/`, `main.go`).

## Inventory

| Component | State | Operations | What makes it correct |
|---|---|---|---|
| **Version comparison** `pkg/Util.go` 85-183 | none | `compareVersion`, `isSmallerVersion`, `getMajorVersion`, `getMinorVersion`, `getVersionType` | it is the order `sort.Slice` needs, alpha < beta < GA, and never panics on texts Kubernetes writes |
| **Kind index** `pkg/K8sSchemaParser.go` 222-332, `pkg/Validator.go` 204-233 | `pathMap`, `kindInfoMap`, the loop being run | `buildGVKRestPathMap`, `buildKindInfoMap`, `fetchLatestKinds`, `IsVersionSupported`, `getKindsMappings` | whatever the map iteration order, its answers are those of the document |
| **Checker and specification cache** `pkg/K8sSchemaParser.go` 47-220 | `versionMap` | `LoadFromUrl`, `LoadFromPath`, `load`, `IsVersionSupported`, `GetKinds` | a loaded release stays the same copy; a failed load leaves nothing behind |
| **Object validation** `pkg/Validator.go` 29-170 | none | `ValidateYaml`, `ValidateJson`, `ValidateObject`, `populateValidationResult`, `applySchema` | a result speaks about the right component; no result is made from an object in error |
| **Schema visitor** `pkg/Visitor.go`, `pkg/Types.go` 77-121 | the open calls, the errors found so far and their paths | `VisitJSON`, `visitJSON`, `visitJSONArray`, `visitJSONObject`, `markSchemaErrorKey`, `markSchemaErrorIndex`, `JSONPointer` | every deprecated place is reported once, under its own name; the visit ends; it panics only at an element without a schema |
| **Verdicts** `kubedd/kubedd.go` 75-121 and 174-220 | `validationResults`, `apiVersionKindCache` | the judging loop, the null-error filter | every verdict is the target's answer for that object, also from the cache |
| **File runs** `main.go` 80-169, 259-298, `kubedd/kubedd.go` 31-121 | files left, documents left, `success`, configuration | `aggregateFiles`, `processFiles`, `Validate` | every readable document is validated once; exit status 0 tells the truth; the run ends |
| **Cluster runs** `main.go` 171-198, `kubedd/kubedd.go` 123-220, `pkg/Cluster.go` | kinds, resources and objects left, `serverVersion` | `processCluster`, `ValidateCluster`, `NewCluster`, `ServerVersion`, `FetchK8sObjects` | only selected objects are reported, all against one copy of the server's release |
| **Report and exit status** `pkg/Output.go`, `main.go` 200-257 | what has been printed; the results put to a manager and the counters of its flush | `PutBulk`, its tables, `Put`, `Flush`, `getStatus`, `removeIgnoredKeys`, `hasErrors` | a removed apiVersion and every error below the root are shown; a status tells the truth; the exit status looks at all results; a flush tells each result once |
| **Name filters** `pkg/Util.go` 185-213 | none | `Contains`, `RegexMatch` | a star at an end of a pattern stands for any text there |
| **Configuration** `pkg/Config.go` | `Config` | flags | *the fields that steer a run are modelled* |

How they interact. `main.go` calls `kubedd.Validate` once per file, or `kubedd.ValidateCluster`
once. Each call makes its own checker, loads the target and then the source release into it (in
a cluster run the source is the server's release, loaded late), validates every object against
the source, asks the checker twice per result about the target, and hands the list of results
back. `main.go` drops ignored keys, prints the list as one bulk, and derives the exit status.
The configuration is one shared struct: `Validate` writes the source release back into it, so
the first file of a run changes what the second one starts from. Inside the checker every loaded
release is an index of kinds, and the order of that index rests on the version comparison.

The program is one goroutine; no two actors share state. What makes it hard is elsewhere:

- *ordering*: every loop of the index runs over a Go map, in any order, and `sort.Slice` is not
  stable, so the index has to come out right for all orders;
- *partial failure*: files, walks, documents, downloads, mappings and lists fail one by one and
  most failures are printed and passed over, but exit status 0 must not be given for it in file mode;
- *unreliable delivery*: the URL of a release names a branch, so two downloads may differ, and a
  download that failed is tried again later by another call;
- *stale state*: verdicts are cached by apiVersion and kind, `Deleted` is written twice, and the
  configuration changes between files;
- *boundaries*: a version text without a match, which panics in the sort of whichever load it comes
  in, or written in two ways; a running number kept by two nested loops; an array where the schema
  has no items; patterns with stars;
- *recursion*: schemas contain each other, and the errors of a visit are shared by pointer with the
  lists of the calls that returned them.

`PROJECT.json` lists these hazards with the line where each bites and the properties for it.

## Modules

`VersionOrder` → `KindIndex` is the index, and `VersionTriples` feeds the comparison every triple of
version texts. The runs are layers of `EXTENDS`: `Validation` →
`KubeChecker` → `Verdicts` and `Validation` → `Output` meet in `Report`, and `FileCheck` and
`ClusterCheck` (with `Filters`) extend it. `Migration`, on top of `Output`, is the abstract
specification both runs instantiate. `Visitor` and `OutputManagers` stand alone. `MC...` modules
give the constants values; `...Proofs` modules hold theorems: `VerdictsProofs` what both runs
share, `FileCheckProofs` file runs, `ClusterCheckProofs` cluster runs. An operator with the comment
*Faulty variant* is a plausible bug in the one that follows it; nothing in the specification uses it.

### VersionOrder

A version text is the record of what the comparison reads from it: spelling, whether it contains
`extensions`, whether the version pattern matches at all, major, stage and minor. `NoDigits`
stands for an empty group, which `getMajorVersion` turns into an error and `getMinorVersion` into
`MaxInt32`. `comparePanics` is the index of a missing match. `StrictWeakOrder` is the contract of
`sort.Slice`, `Canonical` the texts Kubernetes writes (`v1`, `v2beta1`, no leading zeros, no
`extensions`). Stage numbers, `<=` in the last comparison and the error that reads as "not
smaller" are as in the code.

### KindIndex

One document is chosen in `Init`; then `BuildPath` (a path of `buildGVKRestPathMap`),
`AddSchema` (a component of `buildKindInfoMap`), `SortKind` or `SortPanics` (a kind of its last
loop) run until the index is `ready`. An annotation is the list of GVKs it names: `parseGVK`
accepts a list of exactly one. `sort.Slice` is modelled by its contract: a permutation, ordered
if its `less` is a strict weak order, otherwise any permutation. The queries are operators on the
finished index; those of `Validator.go` (`original`, `latest`) are here as well because they only
read `kindInfoMap`. The key text of `getKeyForGVK` is abstracted to the GVK itself: two different
GVKs have different keys, as Kubernetes names contain none of the separators.

### Validation, KubeChecker and Verdicts

A loaded specification is a *catalog*: the pairs it supports, the latest apiVersion of each kind
and what its schemas say of each object. `KindIndex` is how a catalog comes about and
`CatalogIsFaithful` that it loses nothing the validation reads, `Visitor` how
the deprecations of an outcome do. `Validation` has what needs no state: an object (`Manifest`) is
its apiVersion, its kind, how parsing it ends, and the schema's outcome under each catalog and
apiVersion; `ValidateObject` is the result the program makes of it. A missing apiVersion is
accepted by the code and is `NoApi` here; a `namespace` that is not a string, and an array whose
schema has no items, panic. `Root` is the place of an error whose pointer is empty.

`KubeChecker` adds `versionMap`, from releases to catalogs. `LoadFromUrl` may fail, or deliver any
of the copies `Published` has; `LoadFromPath` reads the same file each time. Where the specification
may have a version text without a match (`Unsortable`), a load may also end in the panic that
`KindIndex` calls `SortPanics`: `LoadPanics` says when, and the action `SortPanics` of either run at
which of its loads.

`Verdicts` has the loop the two entry points share: `JudgeLatest` and `JudgeCurrent` are the two
halves of its body, `FilterNullErrors` the loop after it. `LookUp` is the cached question to the
target, with the load it implies.

### Output and Report

`section` sorts a result into the sections of `PutBulk`; `migrationStatus` is what the summary
says; `TablesOf` the tables under each section and `rowsOf` the rows a result has in them: a table
is printed only if one of the section's results has a place below the root in it, and of errors
the rows at the root are left out. `PutBulk` is what one bulk leaves on the terminal. Of a list
of patterns for keys to ignore the set of the keys is kept that they match (`pkg.Contains` on the
joined pointer, `main.go` 212-240). `main.go` 49-50 declares the two lists, no flag is bound to them,
they match nothing, and `removeIgnoredKeys` drops nothing (`ignored_keys_claim`). `PutBulk` of
the JSON and TAP managers does nothing: with `-o json` or `-o tap` the run reports no result and
only the exit status is left.

`Report` is a run: configuration, bulks printed, exit status, and what the two kinds of run have
in common (`Load`, `Stop`, `LoadError`, `ReportResults`).

### OutputManagers

The `Put` and `Flush` protocol of the JSON and TAP managers, one action per step of the two nested
loops of the TAP flush. A result is whether it has a kind, whether it was validated, and how many
errors it has. The program itself calls only `PutBulk` and `Flush`; `Put` is called by the tests of
the package, and nothing outside them sets `ValidationResult.Errors`. A skipped result has one TAP
line whatever errors it has, while the plan counts all of them: `PlanAnnouncesLines` says that the
plan is too high by just these (`unannounced`), `AllTold` that no other error is left out.

### Visitor

`VisitJSON` as a machine whose stack holds the calls that have not returned. A value is a node of a
tree (scalar, array, object, or of a type `visitJSON` does not know, which decoded JSON never has),
a schema a node of a graph that may have cycles. Fields come in any order, elements in theirs.
`Visit` opens a call for a child, `Return` hands its errors to the caller, which marks them with
the key and, with `MultiError` off, may stop. The reference is `Leads`: a path of keys that leads
from the object and its schema to a place that is deprecated (`Reports`) or has no items
(`Breaks`).

### Filters

Texts are sequences of characters, `RegexMatch` counts and looks for stars as the code does, `Glob`
is what matching with stars means. They agree on patterns that are `Simple`: no star, one at either
end, or one at both. The code takes `a*b` for the prefix `ab`, `a*b*` for "contains `ab`", and a
pattern of three stars or more for a suffix or a prefix; no text of the repository says otherwise.

### Migration

What a run promises: every bulk is, in one step, what one copy of the source release and one copy
of the target say of the objects of one batch (`Verdict`, `BulkOf`), and exit status 0 is earned.
There is no download, cache, loop or order of look-ups in it. `FileCheck` and `ClusterCheck`
instantiate it as `Promise`: `report` and `exit` are mapped to themselves, `options` to what the
configuration fixes, with the pairs of copies the run may meet; a file run has one batch per
readable file and a truthful status, a cluster run any sequence of different objects and no
promise about the status.

### FileCheck and ClusterCheck

The two runs. `pc` is the statement the process is at; one action is one step of a loop.
`FileCheck` walks the directories, opens files, loads both releases, validates document by
document, judges, reports, and ends with `Flush`. Every file starts with a new checker and a new cache.
`ClusterCheck` connects, loads, picks the kinds, maps and lists them through the filters, validates
what was fetched, judges and reports. `NewCluster` returns nil for most of its errors; the panic
comes later, when `ServerVersion` dereferences it (`NilDereference`). `exit` is the exit
status: 0, 1, or 2 for a panic. `FileClaims` holds texts of the repository the code contradicts.

## Runs

| Run | States | What it asks |
|---|---|---|
| `version_order` | 2,744 | Every triple of canonical and odd texts: `RankDecides` compares with a numeric order, `SortContract` is what `sort.Slice` needs, `MutualOnlyForSynonyms` says where `<=` shows |
| `kind_index` | 210,368 | 2^4 path sets by 8^3 component annotations, all orders of maps and ties: `SupportMatchesDocument`, `MappingIsFaithful`, `LatestIsNewest`, `FetchedIsCurrent`, `CatalogIsFaithful` (comparing apiVersions decides what the code decides on components), `PanicsOnlyUnmatched` |
| `file_check` | 19,844 | Six command lines over five files and two directories, 96 configurations, every download failing, drifting or panicking: `LoadedBeforeUse`, `NoReload`, `VerdictsExact`, `OneResultPerObject`, `ExitZeroMeansClean`, `ExitZeroMeansAllFound` (status 0 only if no walk was cut short and all arguments and chosen files were read), `RemovalsAreShown`, `JustApiVersionMigrates` (who reads that an apiVersion change is enough can do it), `ErrorsHaveRows` (which errors are in no row), `Termination`, and `ImplementsMigration` |
| `cluster_check` | 28,712 | Six objects in two namespaces, filters with and without stars set or not, every call failing or not: `VerdictsExact`, `OneServerCatalog`, `ResultsAreSelected`, `NoneLostOnTarget`, `ZeroMeansReported` (status 0 exactly if there was a cluster and its one bulk is printed), `Termination`, and `ImplementsMigration` |
| `visitor` | 656 | All orders of fields, with `MultiError` on and off, over objects in arrays in objects and schemas that contain themselves, have no items, or do not know a field: `PointersExact`, `FirstErrorFound`, `PanicsExact`, `Termination` |
| `output_managers` | 8,894 | Up to three results of up to three errors put, and flushed at any time and again, deadlock checked: `NumbersConsecutive`, `PlanAnnouncesLines`, `AllTold` |
| `alert_claim`, `target_schema_claim`, `every_document_claim`, `great_claim`, `cluster_claim`, `ignored_keys_claim` | | One text of the repository each, refuted; see *Findings* |

Every passing run but the first also checks the module's `TypeOK`.

*Why the bounds are enough.* The catalogs of `MCCatalogs` follow the history of Ingress: served
in beta only, in beta and GA, in GA only; a second kind is dropped, a third is never listed by a
cluster run. So an apiVersion can be supported or not, by source or target, and be the latest or
not, in all combinations the code distinguishes. Two apiVersions of one kind and one apiVersion
of two kinds are what a wrong cache key would confuse; a file has the same object twice to hit
the cache; two published copies of a release are what a reload would confuse; a file with an
object in error between good ones, an unreadable file before and a broken walk after a readable
one cover the partial failures. Three components are needed for one kind in two groups at the
same version plus a newer one. For the visitor a place two calls deep shows a key at the wrong end
of a path, two fields show the order, an array with two elements the index, and an empty array
next to one with elements the missing items. For the TAP flush two errors of one result and a
result after it show a running number that is off by one; a second flush shows a counter that is
not reset. The patterns have a star at the front, at the end, at both ends and nowhere, and names
that are a prefix and a suffix of others. The texts with odd spelling are what a schema file written by
hand may hold.

`CHECK_DEADLOCK FALSE` is set where a run of the program ends: a stopped process has no step.

*Fairness.* `WF_vars(Next)`: the one process goes on when it can. This is what the operating
system gives any process, except that `http.Get` and the cluster calls have no timeout; that they
answer or refuse at some time is an assumption about the network. `Termination` is checked under it
for file runs and cluster runs, and for the visitor, which is one recursive call and waits for
nothing. The output managers need no fairness: nothing obliges anyone to call them.

## What is proved

The TLA+ proof system checks the theorems of the `...Proofs` modules for every value of the
constants that satisfies the named assumptions: `DocsAssumption`, `CheckerAssumption`,
`LatestAssumption`, `TriplesAssumption`, `FilesAssumption`, `ClusterAssumption`, `NoLocationAssumption`,
`UnsortableAssumption`, `CharsAssumption`, `BoundsAssumption`, `VisitorAssumption` and `PathsAssumption`. They are types, and
that special values are not among the ordinary ones; `LatestAssumption` adds that a supported kind
has a latest apiVersion, which `CatalogsAreFaithful` proves of every index, `CharsAssumption` that
only the star has the star as its lower case, and `TriplesAssumption` says which texts are
canonical and bounds their minor versions, which have fewer digits than `MaxInt32` does.

- **VersionOrderProofs.** On canonical texts `compareVersion` is the lexicographic order on
  major, stage and minor (`CompareIsLexicographic`); hence it can be sorted by
  (`CanonicalSortable`) and of two texts one is smaller (`CanonicalTotal`).
- **VersionTriplesProofs.** `RankAlwaysDecides`: the lexicographic order is the order of one number,
  as long as no minor reaches the base (`HigherDigitFirst`). `SortAlwaysContracted` follows from
  `CanonicalSortable`. `MutualForSynonymsAlone` is for all texts, canonical or not.
- **KindIndexProofs.** `IInv` says what the index has taken from the visited part of the document:
  `pathMap` holds what the visited paths create (`PathsFound`), every entry comes from a visited
  component (`EntriesSound`), every visited component has its entry (`EntriesComplete`), and a
  sorted kind is in order (`SortedSoFar`). The properties alone speak of a finished index only
  and are not inductive. A sort permutes, so it keeps the two entry parts (`SortKeepsEntries`).
  At the end `SupportIsTheDocuments`, `MappingMatchesDocument` and `FetchedStaysCurrent` follow
  from the entries, the latter two with the last of a set of positions (`HasLast`, from the
  well-foundedness of the naturals), and `LatestIsTheNewest` from `SortedSoFar` and
  `CanonicalSortable`. `PanicsAreUnmatched` needs that every version the sort compares is one the
  document describes (`EntryDescribed`). `CatalogsAreFaithful` joins the index to the runs: what `Validation` keeps
  of an index is enough, because a component describes one GVK alone and the last entry stands
  for its apiVersion (`LastEntryExact`).
- **VerdictsProofs** has the facts that do not depend on the kind of run. A load keeps what is
  there (`LoadKeeps`), a look-up with the target loaded answers from its catalog and keeps the
  cache sound (`LookUpSound`), each half of the loop keeps `JudgedSoFar` and changes no finding
  (`JudgingKeepsFound`), the filter drops the null errors of all results (`FilterKeepsFindings`),
  and a result that says what the source found (`FoundIn`) and what the target answers
  (`JudgedBy`) *is* the `Verdict` of the two (`FoundAndJudged`). `Printed...` are about one bulk.
- **FileCheckProofs.** `IInv` adds to `TypeOK` that the target is loaded before the source and
  both before the first document (`VersionsLoaded`), that a file starts with an empty cache
  (`FreshStart`), that the cache is sound while judging, and `JudgedSoFar`: the results before
  `at` are judged, the one at `at` half. `TypesCorrect`, `LoadedFirst` and `VerdictsAreExact`
  follow, and `NeverReloaded` from `IInv` step by step.
- **FileCheckProofs, second part.** The properties of reports speak of files and catalogs that the run has
  left behind: the next file starts with a new checker. `RInv` keeps what is needed of them:
  how far the documents of the file are read, with the increasing positions the results came from
  (`Place`), that the loaded catalogs are a pair of copies the run may meet (`Loaded`), that the
  results say what the source's copy says (`Findings`), that every bulk is of some two catalogs
  and the last of those still loaded (`Reports`), and of which files `success` is true
  (`Successes`). From it: `EveryObjectHasItsResult`, `ZeroIsClean`, `RemovalsShown`,
  `JustApiVersionIsEnough`, `ErrorsAreInRows` and the refinement `FileRunImplementsMigration`:
  `Emit` is a `Deliver`, a step that ends the process is an `End`, every other step a stutter,
  and filling in the source release does not change which copies the run may meet
  (`OptionsKept`). `AllIsFound` has an invariant of its own: as long as `success` is true, the
  directories left are the last of those given, and of the others every chosen entry is among
  the files (`Walked`).
- **ClusterCheckProofs.** `IInv` says where the catalogs come from (`Versions`: only the target
  may come from a file, and the first result shows that the server's release is loaded), that no
  object is fetched under two apiVersions because every kind is listed under one (`Fetched`), that
  every result is of a fetched object of its own and of none still left (`Owned`), that the results say
  what that one copy says (`Findings`), that with the target's release none is lost
  (`NoneLost`), and that a run that prints has a cluster (`Ending`). From it: `TypesCorrect`,
  `VerdictsAreExact`, `OneCatalogForAll`, `NoneLostToTheTarget`, `ZeroIsReported` and the
  refinement `ClusterRunImplementsMigration`. A run without results meets the target's copy alone.
  `SelectedIsReported` adds that what is listed and fetched has passed the filters (`Chosen`), and
  that the filters mean what their patterns say (`ContainsIsGlob`): a simple pattern is what is
  between its stars (`UnstarredSimple`), and both the code's prefixes, suffixes and substrings
  (`RegexOfSimple`) and the cuts of `Glob` (`GlobOfSimple`) say that this sits somewhere in the
  text, at the end where there is no star. That cuts go up by one at every character needs the
  least one that does not (`HasFirst`, from the well-foundedness of the naturals).
- **OutputManagersProofs.** In the inner loop of the TAP flush the number of the line to print is
  already counted, in the outer one not yet; `IInv` says so, and that the lines printed are those
  of the results and errors the loops have passed (`OnlyPassed`, `AllPassed`), in their order.
  `NumbersAreConsecutive` and `AllIsTold` follow. For `PlanIsExact` a second invariant equates the
  number of lines with the cardinality of the set of places already printed; the plan counts these
  places and, beyond them, the members of `unannounced`.
- **VisitorProofs.** The properties compare the errors of a finished visit with paths from its
  root; `IInv` compares the errors of every open call with paths from the place of that call, so
  that each step concerns one frame or two and no induction over depth is needed. A frame's
  errors lead to reporting places of what it has finished (`ErrorsLead`), each once
  (`ErrorsOnce`), and all of them unless it stopped at an error (`ErrorsAll`); nothing finished is
  broken (`Unbroken`). `Chain` says each open call is the one its caller waits for. When a call
  returns, the key it is marked with goes in front of its pointers (`MarkedInFront`), and a path
  with that key in front leads somewhere from the caller iff the rest of it does from the call
  (`LeadsThroughChild`), whence `ReturnSound`. When an element has no schema, the keys of `Chain` are a path
  to it (`NoItemsStep`). `TypesCorrect`, `PointersAreExact`, `FirstErrorIsFound` and
  `PanicsAreExact` follow for every schema graph, cyclic or not. The last is for all paths
  (`Paths = Seq(Keys)`); only TLC needs them bounded.

*Only model-checked.*

- `Termination` of all runs: liveness is out of the prover's reach.

## Findings

Each is a run that ends in a counterexample.

1. `alert_claim`. The alert "cannot migrate kubernetes version" means only that the target does
   not serve the apiVersion the *source* release calls the latest. The latest is taken from the
   source's specification, so an Ingress that is beta in the source and GA in the target is said
   to have no way forward.
2. `target_schema_claim`. `README.md` 8 has objects validated against the target as well. The
   target is asked for apiVersions only; its schemas never see an object.
3. `every_document_claim`. A document that does not parse into an object, a `List` for one, is
   printed and passed over, and the run exits with 0.
4. `great_claim`. "Great!!! Everything will work as it is" is printed for a file with an object that
   is deprecated, has errors and has nothing newer: it falls through the sections. In the run the
   file's other object has nothing to report.
5. `cluster_claim`. If the specification of the server's release cannot be loaded, the kinds come
   from the target but the objects are still validated against the server's release, and every
   one is dropped. The run exits with 0, as `main.go` 113 ignores what `processCluster` returns.
6. `ignored_keys_claim`. `--ignore-keys-for-deprecation` and `--ignore-keys-for-validation` fill two
   fields of the configuration that nothing reads; `removeIgnoredKeys` filters with two package
   variables of nearly the same names that stay empty. In the run an object has a deprecation and an
   error at a key given with both flags, and both are reported.

Other things the code does that the model shows but no text contradicts: without a source
version, file mode tries to download `release-` and ends with 1, and with a schema file for the
source it stores that file under the empty release and then validates against the target; a kind
that has neither POST nor PUT path counts as unsupported; a kind whose last entry has no rest
path is not fetched from a cluster at all; when two groups serve a kind at the same version,
which of the two is recommended depends on the run.

## What is not modelled

- `loadOpenApi2`, a sequence of library conversions: success or failure. OpenAPI and Kubernetes
  client libraries are seen through what the program does with their answers.
- What kin-openapi's own validation says of an object: the errors of an outcome are a parameter.
- An object of a cluster that cannot be encoded as JSON (`kubedd.go` 162-164): it was decoded from the
  server's JSON, so `MarshalJSON` returns no error.
- Colours, wording, layout and the order of rows, `pkg/log`, and `kubedd/utils.go`, which no code calls.
- `Config.ExitOnError`: no flag sets it, so `earlyExit` never exits. Fields no code reads.
- `Config.Quiet` and `IgnoreMissingSchemas` steer one warning.
- Kind names are lower case and not empty; apiVersions have one spelling each.

## Plan

Done: all modules above, their runs and the theorems above. Left:

1. The safety half of `Termination`, for every value of the constants: in a run that has not ended
   the guard of some action holds, and no step of a visit undoes what an earlier one finished.
