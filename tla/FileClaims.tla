------------------------------ MODULE FileClaims ----------------------------
(***************************************************************************)
(* What the repository's own texts say of a run over files, and the code   *)
(* does not do. Each is checked by a run of its own that ends in a         *)
(* counterexample; README.md reads them.                                   *)
(***************************************************************************)
EXTENDS FileCheck

\* README.md 9: "Warns in case it is not possible to migrate from current version to
\* target kubernetes version". The alert of SummaryTableBodyOutput, isVersionSupported
\* = 2, would mean that the target has no apiVersion left for the kind.
AlertMeansImpossible ==
    pc = "emit" =>
      \A i \in DOMAIN results :
        results[i].isVersionSupported = 2 =>
          ~\E a \in Apis : <<a, results[i].kind>> \in Served[targetCatalog]

\* README.md 8: "Validates schema against current kubernetes (in case cluster is
\* provided) as well as target kubernetes version". A result without errors, whose
\* apiVersion the target supports, would have none under the target's schema either.
CleanMeansTargetClean ==
    pc = "emit" =>
      \A i \in DOMAIN results :
        LET r == results[i]
        IN  ~r.deleted /\ ~hasError(r) =>
              Kept(applySchema(targetCatalog, r.doc, r.api).errors, conf.ignoreNullErrors)
                = {}

\* kubedd.go 32-33: "parsing out individual resources and validating them all according
\* to the relevant schemas". Exit status 0 would mean that no document was passed over.
EveryDocumentValidated ==
    exit = 0 =>
      \A i \in DOMAIN files : Len(report[i].results) = Len(Contents[files[i]])

\* Output.go 161 prints "Great!!! Everything will work as it is in new version without
\* any changes". It would not be said of results with errors.
GreatMeansClean ==
    \A i \in DOMAIN report : report[i].great => ~hasErrors(report[i].results)

\* Config.go 81-85: "IgnoreKeysFromDeprecation is the list of keys to be skipped for
\* depreciation check", and the same of validation; the flags of lines 126-127 fill the
\* lists. No deprecation or error at such a key would be reported.
IgnoredKeysAreDropped ==
    \A i \in DOMAIN report : \A j \in DOMAIN report[i].results :
      LET r == report[i].results[j]
      IN  /\ (r.deprecationForOriginal \cup r.deprecationForLatest)
               \cap conf.ignoreKeysFromDeprecation = {}
          /\ {e.key : e \in r.errorsForOriginal \cup r.errorsForLatest}
               \cap conf.ignoreKeysFromValidation = {}
=============================================================================
