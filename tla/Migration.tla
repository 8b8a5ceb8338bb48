------------------------------ MODULE Migration -----------------------------
(***************************************************************************)
(* What a run of the program promises, whatever it does in between: every  *)
(* bulk of results comes from one copy of the source release and one copy  *)
(* of the target release, and is what these two say of the objects of one  *)
(* batch. There are no downloads, caches and loops here. FileCheck and     *)
(* ClusterCheck implement it.                                              *)
(***************************************************************************)
EXTENDS Output

CONSTANTS
    Batches,       \* the sequences of objects a bulk may be about
    StatusTells    \* whether exit status 0 is only for a run without errors

VARIABLES
    options,    \* format, ignoreNullErrors and the pairs of copies the run may meet
    report,     \* the bulks printed so far
    exit        \* exit status

vars == <<options, report, exit>>

Options ==
    [format : Formats, ignoreNullErrors : BOOLEAN, copies : SUBSET (Catalogs \X Catalogs)]

\* The bulk printed of a batch.
BulkOf(docs, source, target) ==
    PutBulk(options.format,
            [i \in DOMAIN docs |-> Verdict(docs[i], source, target, options.ignoreNullErrors)])

-----------------------------------------------------------------------------
Init ==
    /\ options \in Options
    /\ report = <<>>
    /\ exit = Running

\* Batches may be infinite: the batch is read off the bulk, instead of chosen.
Deliver ==
    /\ exit = Running
    /\ Len(report') = Len(report) + 1
    /\ LET docs == DocsOf(report'[Len(report')].results)
       IN  /\ docs \in Batches
           /\ \E copy \in options.copies :
                report' = Append(report, BulkOf(docs, copy[1], copy[2]))
    /\ UNCHANGED <<options, exit>>

\* Status 1 and a panic may come at any time; 0 is earned.
End ==
    /\ exit = Running
    /\ exit' \in {0, 1, Panicked}
    /\ exit' = 0 /\ StatusTells => \A i \in DOMAIN report : ~hasErrors(report[i].results)
    /\ UNCHANGED <<options, report>>

Next == Deliver \/ End

Spec == Init /\ [][Next]_vars
=============================================================================
