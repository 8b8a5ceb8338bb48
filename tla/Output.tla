------------------------------- MODULE Output -------------------------------
(***************************************************************************)
(* What main.go and pkg/Output.go do with the results of one call of       *)
(* Validate or ValidateCluster: drop the ignored keys, sort the results    *)
(* into the sections of the printed report and fill their tables. Layout   *)
(* and wording are left out, but for what is shown of which result.        *)
(***************************************************************************)
EXTENDS Validation

\* Exit status, Running until there is one.
Running  == -1
Panicked == 2

Formats == {"", "stdout", "json", "tap"}

\* The keys that the patterns main.go filters with match, as pkg.Contains does: none, since
\* the two lists are package variables that no flag is bound to.
ignoreKeysFromDeprecation == {}
ignoreKeysFromValidation  == {}

removeIgnoredKeys(rs) ==
    [i \in DOMAIN rs |->
        [rs[i] EXCEPT
           !.deprecationForOriginal = @ \ ignoreKeysFromDeprecation,
           !.deprecationForLatest = @ \ ignoreKeysFromDeprecation,
           !.errorsForOriginal = {e \in @ : e.key \notin ignoreKeysFromValidation},
           !.errorsForLatest = {e \in @ : e.key \notin ignoreKeysFromValidation}]]

hasError(r) == r.errorsForOriginal # {} \/ r.errorsForLatest # {}

\* Faulty variant: only the errors under the latest apiVersion count.
hasErrorsLatestOnly(rs) == \E i \in DOMAIN rs : rs[i].errorsForLatest # {}

hasErrors(rs) == \E i \in DOMAIN rs : hasError(rs[i])

Sections == {"removed", "deprecated", "newer", "unchanged", "none"}

\* Faulty variant: a removed apiVersion with nothing newer goes with the unchanged.
sectionRemovedNeedsLatest(r) ==
    IF r.deleted /\ r.latestAPIVersion # NoApi THEN "removed"
    ELSE IF r.deprecated
         THEN IF r.latestAPIVersion # NoApi THEN "deprecated" ELSE "none"
    ELSE IF r.latestAPIVersion # NoApi THEN "newer"
    ELSE IF hasError(r) \/ r.deprecationForOriginal # {} \/ r.deprecationForLatest # {}
         THEN "unchanged" ELSE "none"

\* The section of STDOutputManager.PutBulk a result is shown in. A deprecated result
\* with nothing newer is skipped, whatever its errors.
section(r) ==
    IF r.deleted THEN "removed"
    ELSE IF r.deprecated
         THEN IF r.latestAPIVersion # NoApi THEN "deprecated" ELSE "none"
    ELSE IF r.latestAPIVersion # NoApi THEN "newer"
    ELSE IF hasError(r) \/ r.deprecationForOriginal # {} \/ r.deprecationForLatest # {}
         THEN "unchanged" ELSE "none"

\* The JSON and TAP managers implement PutBulk by doing nothing.
printsBulk(format) == format \in {"", "stdout"}

\* What the summary of a section says of migrating an object.
migrationStatus(r) ==
    IF r.isVersionSupported = 2 THEN "alert"
    ELSE IF r.errorsForLatest # {} THEN "issues" ELSE "justApiVersion"

Summarised == {"removed", "deprecated", "newer"}
Statuses == {"alert", "issues", "justApiVersion", "none"}

ErrorTables == {"currentErrors", "latestErrors"}
Tables == ErrorTables \cup {"currentDeprecations", "latestDeprecations"}

\* Faulty variant: the errors under the latest apiVersion are left to the summary.
TablesOfWithoutLatest ==
    [removed    |-> {"latestDeprecations"},
     deprecated |-> Tables \ {"currentDeprecations", "latestErrors"},
     newer      |-> Tables \ {"latestErrors"},
     unchanged  |-> {"currentDeprecations", "currentErrors"},
     none       |-> {}]

\* The tables under each section.
TablesOf ==
    [removed    |-> {"latestErrors", "latestDeprecations"},
     deprecated |-> Tables \ {"currentDeprecations"},
     newer      |-> Tables,
     unchanged  |-> {"currentDeprecations", "currentErrors"},
     none       |-> {}]

places(r, table) ==
    CASE table = "currentErrors"       -> {e.key : e \in r.errorsForOriginal}
      [] table = "latestErrors"        -> {e.key : e \in r.errorsForLatest}
      [] table = "currentDeprecations" -> r.deprecationForOriginal
      [] table = "latestDeprecations"  -> r.deprecationForLatest

\* The places of rs[i] in a table. A section has the table only if one of its results
\* has a place below the root in it; of the errors, those at the root have no row.
rowKeys(rs, sections, i, table) ==
    LET peers == {j \in DOMAIN rs : sections[j] = sections[i]}
    IN  IF \A j \in peers : places(rs[j], table) \subseteq {Root} THEN {}
        ELSE places(rs[i], table) \ IF table \in ErrorTables THEN {Root} ELSE {}

rowsOf(rs, sections, i) ==
    UNION {{table} \X rowKeys(rs, sections, i, table) : table \in TablesOf[sections[i]]}

\* What PutBulk leaves on the terminal for one bulk: the section of every result, what
\* the summary says of it, its rows <<table, place>>, and whether it says "Great!!!
\* Everything will work as it is".
PutBulk(format, rs) ==
    LET sections == [i \in DOMAIN rs |-> IF printsBulk(format) THEN section(rs[i]) ELSE "none"]
    IN  [results  |-> rs,
         sections |-> sections,
         statuses |-> [i \in DOMAIN rs |->
             IF sections[i] \in Summarised THEN migrationStatus(rs[i]) ELSE "none"],
         rows     |-> [i \in DOMAIN rs |-> rowsOf(rs, sections, i)],
         great    |-> /\ printsBulk(format)
                      /\ rs # <<>>
                      /\ \A i \in DOMAIN rs : section(rs[i]) = "none"]

Bulk ==
    [results : Seq(Result), sections : Seq(Sections), statuses : Seq(Statuses),
     rows : Seq(SUBSET (Tables \X Keys)), great : BOOLEAN]
=============================================================================
