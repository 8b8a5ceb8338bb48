--------------------------- MODULE OutputManagers ---------------------------
(***************************************************************************)
(* The JSON and TAP output managers (pkg/Output.go 293-459): Put collects  *)
(* results, Flush prints them. The TAP flush is a loop in a loop with one  *)
(* running number. PutBulk of both managers does nothing; the program      *)
(* calls only PutBulk and Flush, the tests of the package Put as well.     *)
(***************************************************************************)
EXTENDS Integers, Sequences, FiniteSets

CONSTANTS
    MaxErrors,     \* bound: errors of a result
    MaxResults     \* bound: calls of Put

ASSUME BoundsAssumption == MaxErrors \in Nat /\ MaxResults \in Nat

VARIABLES
    format,     \* which of the two managers
    data,       \* the results put so far
    pc,         \* "idle" between calls, else the loop of Flush it is in
    row,        \* the result the loop of Flush is at
    error,      \* the error of that result the inner loop is at
    count,      \* the running number
    plan,       \* the total announced by the last flush, NoPlan if none
    output      \* the lines printed by the last flush

vars == <<format, data, pc, row, error, count, plan, output>>

NoPlan == -1

\* A result as the managers see it; errors are counted.
Results == [kind : BOOLEAN, validated : BOOLEAN, errors : 0..MaxErrors]

Statuses == {"skipped", "invalid", "valid"}

getStatus(r) ==
    IF ~r.kind \/ ~r.validated THEN "skipped"
    ELSE IF r.errors > 0 THEN "invalid" ELSE "valid"

Entry == [status : Statuses, errors : 0..MaxErrors]

\* Line 0 is no number and error 0 no error: a JSON row has the entry as it is.
Line == [row : Nat, status : Statuses, number : Nat, error : Nat]

Init ==
    /\ format \in {"json", "tap"}
    /\ data = <<>>
    /\ pc = "idle"
    /\ row = 1 /\ error = 1 /\ count = 0
    /\ plan = NoPlan
    /\ output = <<>>

\* What both managers keep of a result: its status and all its errors.
evalResult(r) == [status |-> getStatus(r), errors |-> r.errors]

Put(r) ==
    /\ pc = "idle"
    /\ Len(data) < MaxResults
    /\ data' = Append(data, evalResult(r))
    /\ UNCHANGED <<format, pc, row, error, count, plan, output>>

\* The array of all results, "null" when there are none.
FlushJSON ==
    /\ pc = "idle"
    /\ format = "json"
    /\ output' = [i \in DOMAIN data |->
         [row |-> i, status |-> data[i].status, number |-> 0, error |-> data[i].errors]]
    /\ UNCHANGED <<format, data, pc, row, error, count, plan>>

\* Faulty variant: every result counts as one line.
linesOfResults(e) == 1

\* Faulty variant: a result without errors is forgotten.
linesOfErrors(e) == e.errors

\* The lines a result counts for in the plan.
linesOf(e) == IF e.errors > 0 THEN e.errors ELSE 1

total == Cardinality(UNION {{i} \X (1..linesOf(data[i])) : i \in DOMAIN data})

StartFlushTAP ==
    /\ pc = "idle"
    /\ format = "tap"
    /\ output' = <<>>
    /\ IF data = <<>>
       THEN plan' = NoPlan /\ UNCHANGED <<pc, row, count>>
       ELSE plan' = total /\ pc' = "rows" /\ row' = 1 /\ count' = 0
    /\ UNCHANGED <<format, data, error>>

line(n, e) == [row |-> row, status |-> data[row].status, number |-> n, error |-> e]

flushing(loop) == pc = loop /\ UNCHANGED <<format, data, plan>>

\* One line, "ok", for a valid or a skipped result.
FlushRow ==
    /\ flushing("rows")
    /\ row \in DOMAIN data
    /\ data[row].status # "invalid"
    /\ count' = count + 1
    /\ output' = Append(output, line(count + 1, 0))
    /\ row' = row + 1
    /\ UNCHANGED <<pc, error>>

FlushInvalid ==
    /\ flushing("rows")
    /\ row \in DOMAIN data
    /\ data[row].status = "invalid"
    /\ count' = count + 1
    /\ error' = 1
    /\ pc' = "errors"
    /\ UNCHANGED <<row, output>>

\* Faulty variant: the number goes up after the last error too.
countAfterErrorAlways == count + 1

countAfterError == IF data[row].errors # error THEN count + 1 ELSE count

\* Faulty variant: the loop ends one error too early.
moreErrorsOffByOne == error + 1 < data[row].errors

moreErrors == error < data[row].errors

\* One line, "not ok", for every error.
FlushError ==
    /\ flushing("errors")
    /\ output' = Append(output, line(count, error))
    /\ count' = countAfterError
    /\ error' = error + 1
    /\ IF moreErrors THEN UNCHANGED <<pc, row>> ELSE pc' = "rows" /\ row' = row + 1

FlushEnds ==
    /\ flushing("rows")
    /\ row \notin DOMAIN data
    /\ pc' = "idle"
    /\ UNCHANGED <<row, error, count, output>>

FlushTAP == FlushRow \/ FlushInvalid \/ FlushError \/ FlushEnds

Next ==
    \/ \E r \in Results : Put(r)
    \/ FlushJSON
    \/ StartFlushTAP
    \/ FlushTAP

Spec == Init /\ [][Next]_vars

-----------------------------------------------------------------------------
(***************************************************************************)
(* Properties.                                                             *)
(***************************************************************************)
TypeOK ==
    /\ format \in {"json", "tap"}
    /\ data \in Seq(Entry)
    /\ pc \in {"idle", "rows", "errors"}
    /\ row \in 1..(Len(data) + 1)
    /\ error \in 1..(MaxErrors + 1)
    /\ count \in Nat
    /\ plan \in (Nat \ {0}) \cup {NoPlan}
    /\ output \in Seq(Line)

\* The lines of a TAP flush are numbered 1, 2, 3 and so on, through both loops and also
\* when a manager is flushed again (433-456).
NumbersConsecutive ==
    format = "tap" => \A i \in DOMAIN output : output[i].number = i

\* The errors no line is printed for: all but one of a skipped result, whose one line
\* stands in the plan for the first of them.
unannounced ==
    UNION {{i} \X (2..data[i].errors) : i \in {j \in DOMAIN data : data[j].status = "skipped"}}

\* The plan 1..n announces the lines that follow and, beyond them, one line for every
\* further error of a skipped result, which has one line and counts for as many as it has
\* errors (424-432 against 442-455).
PlanAnnouncesLines ==
    [][pc = "rows" /\ pc' = "idle" => plan = Len(output) + Cardinality(unannounced)]_vars

\* What a flush has to say of result i: JSON all its errors; TAP a line for each of them,
\* and one line if there is none or the result is skipped.
expected(i) ==
    LET linePerError == data[i].errors > 0 /\ data[i].status # "skipped"
    IN  {[row |-> i, status |-> data[i].status, error |-> e] :
           e \in IF format = "json" THEN {data[i].errors}
                 ELSE IF linePerError THEN 1..data[i].errors ELSE {0}}

told(lines) ==
    {[row |-> lines[n].row, status |-> lines[n].status, error |-> lines[n].error] :
       n \in DOMAIN lines}

\* A finished flush has told every result that was put, each once and in order, and of a
\* result that is not skipped every error; the errors of a skipped one are in the JSON array
\* but in no TAP line (364-378, 435-456).
AllTold ==
    [][pc' = "idle" /\ output' # <<>> /\ data' = data =>
         /\ told(output') = UNION {expected(i) : i \in DOMAIN data}
         /\ \A m, n \in DOMAIN output' :
              m < n => \/ output'[m].row < output'[n].row
                       \/ output'[m].row = output'[n].row
                            /\ output'[m].error < output'[n].error]_vars
=============================================================================
