------------------------- MODULE OutputManagersProofs -----------------------
(***************************************************************************)
(* The flush of the output managers, for any number of results with any    *)
(* number of errors.                                                       *)
(***************************************************************************)
EXTENDS OutputManagers, FiniteSetTheorems, TLAPS

\* The errors a TAP flush prints of result i, 0 for its one line without.
Errs(i) == IF data[i].status = "invalid" THEN 1..data[i].errors ELSE {0}

\* The two loops are past error e of result i.
Passed(i, e) == i < row \/ (pc = "errors" /\ i = row /\ e < error)

Tells(l, i, e) == l.row = i /\ l.status = data[i].status /\ l.error = e

\* Only what the loops have passed is printed, and all of it.
OnlyPassed ==
    \A n \in DOMAIN output : \E i \in DOMAIN data : \E e \in Errs(i) :
      Passed(i, e) /\ Tells(output[n], i, e)

AllPassed ==
    \A i \in DOMAIN data : \A e \in Errs(i) :
      Passed(i, e) => \E n \in DOMAIN output : Tells(output[n], i, e)

Before(l, m) == l.row < m.row \/ (l.row = m.row /\ l.error < m.error)

InOrder == \A m, n \in DOMAIN output : m < n => Before(output[m], output[n])

\* The status of an entry that is not skipped tells whether it has errors.
EntrySound ==
    \A i \in DOMAIN data :
      /\ data[i].status = "invalid" => data[i].errors > 0
      /\ data[i].status = "valid" => data[i].errors = 0

\* The inductive invariant: in the inner loop the number of the line to print is already
\* counted, in the outer one it is not.
IInv ==
    /\ TypeOK
    /\ EntrySound
    /\ NumbersConsecutive
    /\ pc # "idle" => format = "tap" /\ OnlyPassed /\ AllPassed /\ InOrder
    /\ pc = "rows" => count = Len(output)
    /\ pc = "errors" =>
         /\ count = Len(output) + 1
         /\ row \in DOMAIN data
         /\ data[row].status = "invalid"
         /\ error \in 1..data[row].errors

-----------------------------------------------------------------------------
\* The set total counts.
Planned == UNION {{i} \X (1..linesOf(data[i])) : i \in DOMAIN data}

LEMMA PlannedFinite ==
    ASSUME TypeOK
    PROVE  IsFiniteSet(Planned)
<1> DEFINE Box == (1..Len(data)) \X (1..(MaxErrors + 1))
<1>1. data \in Seq(Entry) /\ MaxErrors \in Nat /\ Len(data) \in Nat
  BY BoundsAssumption DEF TypeOK
<1>2. ASSUME NEW x \in Planned
      PROVE  x \in Box
  <2>1. PICK i \in DOMAIN data : x \in {i} \X (1..linesOf(data[i]))
    BY <1>2 DEF Planned
  <2>2. data[i] \in Entry
    BY <1>1
  <2>3. i \in 1..Len(data) /\ 1..linesOf(data[i]) \subseteq 1..(MaxErrors + 1)
    BY <1>1, <2>2 DEF Entry, linesOf
  <2> QED
    BY <2>1, <2>3
<1>3. IsFiniteSet(1..Len(data)) /\ IsFiniteSet(1..(MaxErrors + 1))
  BY <1>1, FS_Interval
<1>4. IsFiniteSet(Box)
  BY <1>3, FS_Product
<1> QED
  BY <1>2, <1>4, FS_Subset

\* The plan is a positive number: every result counts for a line (Output.go 424-432).
LEMMA TotalType ==
    ASSUME TypeOK, data # <<>>
    PROVE  total \in Nat \ {0}
<1>1. data \in Seq(Entry)
  BY DEF TypeOK
<1>2. IsFiniteSet(Planned) /\ Cardinality(Planned) \in Nat
  BY PlannedFinite, FS_CardinalityType
<1>3. Planned # {}
  <2>1. 1 \in DOMAIN data /\ data[1] \in Entry
    BY <1>1
  <2>2. linesOf(data[1]) \in Nat \ {0}
    BY <2>1, BoundsAssumption DEF linesOf, Entry
  <2>3. <<1, 1>> \in {1} \X (1..linesOf(data[1]))
    BY <2>2
  <2> QED
    BY <2>1, <2>3 DEF Planned
<1> QED
  BY <1>2, <1>3, FS_EmptySet DEF total, Planned

LEMMA InitIInv == Init => IInv
BY BoundsAssumption
   DEF Init, IInv, TypeOK, EntrySound, NumbersConsecutive, Entry, Line

LEMMA PutStep ==
    ASSUME IInv, NEW r \in Results, Put(r)
    PROVE  IInv'
<1> DEFINE e == evalResult(r)
<1>1. /\ e \in Entry
      /\ e.status = "invalid" => e.errors > 0
      /\ e.status = "valid" => e.errors = 0
  BY BoundsAssumption DEF evalResult, getStatus, Results, Entry, Statuses
<1>2. TypeOK /\ data \in Seq(Entry) /\ EntrySound
  BY DEF IInv, TypeOK
<1>3. pc = "idle" /\ data' = Append(data, e)
      /\ UNCHANGED <<format, pc, row, error, count, plan, output>>
  BY DEF Put
<1> HIDE DEF e
<1>4. data' \in Seq(Entry) /\ Len(data') = Len(data) + 1
  BY <1>1, <1>2, <1>3
<1>5. TypeOK'
  BY <1>2, <1>3, <1>4 DEF TypeOK
<1>6. EntrySound'
  BY <1>1, <1>2, <1>3 DEF EntrySound
<1> QED
  BY <1>3, <1>5, <1>6 DEF IInv, NumbersConsecutive

LEMMA FlushJSONStep == IInv /\ FlushJSON => IInv'
<1> SUFFICES ASSUME IInv, FlushJSON PROVE IInv'
  OBVIOUS
<1>1. TypeOK /\ data \in Seq(Entry)
  BY DEF IInv, TypeOK
<1>2. ASSUME NEW i \in DOMAIN data
      PROVE  [row |-> i, status |-> data[i].status, number |-> 0, error |-> data[i].errors]
               \in Line
  <2>1. data[i] \in Entry /\ i \in Nat
    BY <1>1
  <2> QED
    BY <2>1, BoundsAssumption DEF Entry, Line
<1>3. output' \in Seq(Line)
  BY <1>1, <1>2 DEF FlushJSON
<1>4. TypeOK'
  BY <1>1, <1>3 DEF TypeOK, FlushJSON
<1> QED
  BY <1>4 DEF IInv, FlushJSON, NumbersConsecutive, EntrySound

LEMMA StartFlushTAPStep == IInv /\ StartFlushTAP => IInv'
<1> SUFFICES ASSUME IInv, StartFlushTAP PROVE IInv'
  OBVIOUS
<1>1. TypeOK /\ data \in Seq(Entry) /\ EntrySound
  BY DEF IInv, TypeOK
<1>2. output' = <<>> /\ UNCHANGED <<format, data, error>> /\ format = "tap" /\ pc = "idle"
  BY DEF StartFlushTAP
<1>3. CASE data = <<>>
  <2>1. plan' = NoPlan /\ UNCHANGED <<pc, row, count>>
    BY <1>3 DEF StartFlushTAP
  <2>2. TypeOK'
    BY <1>1, <1>2, <2>1 DEF TypeOK
  <2> QED
    BY <1>1, <1>2, <2>1, <2>2 DEF IInv, NumbersConsecutive, EntrySound
<1>4. CASE data # <<>>
  <2>1. plan' \in Nat \ {0} /\ pc' = "rows" /\ row' = 1 /\ count' = 0
    BY <1>1, <1>4, TotalType DEF StartFlushTAP
  <2>2. TypeOK'
    BY <1>1, <1>2, <2>1 DEF TypeOK
  <2>3. AllPassed' /\ OnlyPassed' /\ InOrder'
    BY <1>1, <1>2, <2>1 DEF AllPassed, OnlyPassed, InOrder, Passed
  <2> QED
    BY <1>1, <1>2, <2>1, <2>2, <2>3 DEF IInv, NumbersConsecutive, EntrySound
<1> QED
  BY <1>3, <1>4

\* Printing the line of (row, e) that the loops pass with this step keeps what is printed
\* complete, sound, numbered and in order.
LEMMA PrintStep ==
    ASSUME IInv, pc # "idle", NEW n \in Nat, n = Len(output) + 1,
           row \in DOMAIN data, NEW e \in Errs(row), ~Passed(row, e),
           output' = Append(output, line(n, e)), UNCHANGED <<format, data>>,
           \A i \in DOMAIN data : \A f \in Errs(i) :
             Passed(i, f)' <=> Passed(i, f) \/ (i = row /\ f = e)
    PROVE  /\ output' \in Seq(Line) /\ Len(output') = n
           /\ NumbersConsecutive'
           /\ OnlyPassed' /\ AllPassed' /\ InOrder'
<1> DEFINE l == line(n, e)
<1>1. /\ data \in Seq(Entry) /\ output \in Seq(Line) /\ format = "tap"
      /\ OnlyPassed /\ AllPassed /\ InOrder /\ NumbersConsecutive
  BY DEF IInv, TypeOK
<1>2. data[row] \in Entry /\ row \in Nat
  BY <1>1
<1>3. e \in Nat
  BY <1>2, BoundsAssumption DEF Errs, Entry
<1>4. l \in Line /\ Tells(l, row, e) /\ l.number = n
  BY <1>2, <1>3 DEF line, Line, Entry, Tells
<1> HIDE DEF l
<1>5. /\ output' = Append(output, l) /\ DOMAIN output = 1..(n - 1) /\ DOMAIN output' = 1..n
      /\ output'[n] = l /\ \A m \in DOMAIN output : output'[m] = output[m]
  BY <1>1, <1>4 DEF l
<1>6. output' \in Seq(Line) /\ Len(output') = n
  BY <1>1, <1>4, <1>5
<1>7. NumbersConsecutive'
  BY <1>1, <1>4, <1>5 DEF NumbersConsecutive
<1>8. \A i, f, m : Tells(m, i, f)' <=> Tells(m, i, f)
  BY DEF Tells
<1>9. \A i : Errs(i)' = Errs(i)
  BY DEF Errs
<1>10. OnlyPassed'
  <2>1. ASSUME NEW m \in DOMAIN output'
        PROVE  \E i \in DOMAIN data : \E f \in Errs(i) : Passed(i, f)' /\ Tells(output'[m], i, f)
    <3>1. CASE m = n
      BY <1>4, <1>5, <3>1
    <3>2. CASE m # n
      BY <1>1, <1>5, <3>2 DEF OnlyPassed
    <3> QED
      BY <3>1, <3>2
  <2> QED
    BY <2>1, <1>8, <1>9 DEF OnlyPassed
<1>11. AllPassed'
  <2>1. ASSUME NEW i \in DOMAIN data, NEW f \in Errs(i), Passed(i, f)'
        PROVE  \E m \in DOMAIN output' : Tells(output'[m], i, f)
    <3>1. CASE i = row /\ f = e
      BY <1>4, <1>5, <3>1
    <3>2. CASE Passed(i, f)
      <4>1. PICK m \in DOMAIN output : Tells(output[m], i, f)
        BY <1>1, <3>2 DEF AllPassed
      <4> QED
        BY <1>5, <4>1
    <3> QED
      BY <2>1, <3>1, <3>2
  <2> QED
    BY <2>1, <1>8, <1>9 DEF AllPassed
<1>12. ASSUME NEW m \in DOMAIN output
       PROVE  Before(output[m], l)
  <2>1. PICK i \in DOMAIN data : \E f \in Errs(i) : Passed(i, f) /\ Tells(output[m], i, f)
    BY <1>1 DEF OnlyPassed
  <2>2. PICK f \in Errs(i) : Passed(i, f) /\ Tells(output[m], i, f)
    BY <2>1
  <2>3. CASE i < row
    BY <1>4, <2>2, <2>3 DEF Tells, Before
  <2>4. CASE pc = "errors" /\ i = row /\ f < error
    <3>1. ~(e < error)
      BY <2>4 DEF Passed
    <3>2. f \in Nat /\ error \in Nat
      <4>1. error \in Nat
        BY BoundsAssumption DEF IInv, TypeOK
      <4>2. data[i] \in Entry
        BY <1>1
      <4> QED
        BY <4>1, <4>2, BoundsAssumption DEF Errs, Entry
    <3> QED
      BY <1>3, <1>4, <2>2, <2>4, <3>1, <3>2 DEF Tells, Before
  <2> QED
    BY <2>2, <2>3, <2>4 DEF Passed
<1>13. InOrder'
  <2>1. ASSUME NEW m \in DOMAIN output', NEW k \in DOMAIN output', m < k
        PROVE  Before(output'[m], output'[k])
    <3>1. m \in DOMAIN output
      BY <1>5, <2>1
    <3>2. CASE k = n
      BY <1>5, <1>12, <3>1, <3>2
    <3>3. CASE k # n
      BY <1>1, <1>5, <2>1, <3>1, <3>3 DEF InOrder
    <3> QED
      BY <3>2, <3>3
  <2> QED
    BY <2>1 DEF InOrder, Before
<1> QED
  BY <1>6, <1>7, <1>10, <1>11, <1>13

LEMMA FlushRowStep == IInv /\ FlushRow => IInv'
<1> SUFFICES ASSUME IInv, FlushRow PROVE IInv'
  OBVIOUS
<1>1. /\ TypeOK /\ data \in Seq(Entry) /\ EntrySound /\ count = Len(output) /\ count \in Nat
      /\ row \in DOMAIN data /\ row \in Nat /\ format = "tap"
  BY DEF IInv, TypeOK, FlushRow, flushing
<1>2. /\ pc = "rows" /\ pc' = "rows" /\ count' = count + 1 /\ row' = row + 1
      /\ output' = Append(output, line(count + 1, 0))
      /\ UNCHANGED <<format, data, plan, error>>
  BY DEF FlushRow, flushing
<1>3. Errs(row) = {0}
  BY DEF Errs, FlushRow
<1>4. \A i \in DOMAIN data : \A f \in Errs(i) :
        Passed(i, f)' <=> Passed(i, f) \/ (i = row /\ f = 0)
  <2>1. ASSUME NEW i \in DOMAIN data, NEW f \in Errs(i)
        PROVE  Passed(i, f)' <=> Passed(i, f) \/ (i = row /\ f = 0)
    <3>1. i \in Nat /\ (i = row => f = 0)
      BY <1>1, <1>3
    <3> QED
      BY <1>1, <1>2, <3>1 DEF Passed
  <2> QED
    BY <2>1
<1>5. ~Passed(row, 0)
  BY <1>1, <1>2 DEF Passed
<1>6. /\ output' \in Seq(Line) /\ Len(output') = count + 1
      /\ NumbersConsecutive' /\ OnlyPassed' /\ AllPassed' /\ InOrder'
  <2>1. count + 1 \in Nat /\ count + 1 = Len(output) + 1 /\ 0 \in Errs(row)
    BY <1>1, <1>3
  <2> QED
    BY <1>1, <1>2, <1>4, <1>5, <2>1, PrintStep
<1>7. TypeOK'
  BY <1>1, <1>2, <1>6 DEF TypeOK
<1> QED
  BY <1>1, <1>2, <1>6, <1>7 DEF IInv, EntrySound

LEMMA FlushInvalidStep == IInv /\ FlushInvalid => IInv'
<1> SUFFICES ASSUME IInv, FlushInvalid PROVE IInv'
  OBVIOUS
<1>1. /\ TypeOK /\ data \in Seq(Entry) /\ EntrySound /\ NumbersConsecutive
      /\ count = Len(output) /\ count \in Nat /\ row \in Nat
      /\ format = "tap" /\ OnlyPassed /\ AllPassed /\ InOrder
  BY DEF IInv, TypeOK, FlushInvalid, flushing
<1>2. /\ pc = "rows" /\ pc' = "errors" /\ count' = count + 1 /\ error' = 1
      /\ row \in DOMAIN data /\ data[row].status = "invalid"
      /\ UNCHANGED <<format, data, plan, row, output>>
  BY DEF FlushInvalid, flushing
<1>3. data[row] \in Entry /\ data[row].errors \in Nat
  <2>1. data[row] \in Entry
    BY <1>1, <1>2
  <2> QED
    BY <2>1, BoundsAssumption DEF Entry
<1>4. 1 \in 1..data[row].errors
  BY <1>1, <1>2, <1>3 DEF EntrySound
<1>5. \A i \in DOMAIN data : \A f \in Errs(i) : Passed(i, f)' <=> Passed(i, f)
  <2>1. ASSUME NEW i \in DOMAIN data, NEW f \in Errs(i)
        PROVE  Passed(i, f)' <=> Passed(i, f)
    <3>1. i = row => f \in 1..data[row].errors
      BY <1>2 DEF Errs
    <3>2. i = row => ~(f < 1)
      BY <1>3, <3>1
    <3> QED
      BY <1>1, <1>2, <3>2 DEF Passed
  <2> QED
    BY <2>1
<1>6. (\A i, f, m : Tells(m, i, f)' <=> Tells(m, i, f)) /\ \A i : Errs(i)' = Errs(i)
  BY <1>2 DEF Tells, Errs
<1>7. OnlyPassed' /\ AllPassed' /\ InOrder'
  <2>1. OnlyPassed'
    BY <1>1, <1>2, <1>5, <1>6 DEF OnlyPassed
  <2>2. AllPassed'
    BY <1>1, <1>2, <1>5, <1>6 DEF AllPassed
  <2>3. InOrder'
    BY <1>1, <1>2 DEF InOrder, Before
  <2> QED
    BY <2>1, <2>2, <2>3
<1>8. TypeOK'
  BY <1>1, <1>2, BoundsAssumption DEF TypeOK
<1> QED
  BY <1>1, <1>2, <1>4, <1>7, <1>8 DEF IInv, EntrySound, NumbersConsecutive

LEMMA FlushErrorStep == IInv /\ FlushError => IInv'
<1> SUFFICES ASSUME IInv, FlushError PROVE IInv'
  OBVIOUS
<1>1. /\ TypeOK /\ data \in Seq(Entry) /\ EntrySound /\ count = Len(output) + 1 /\ count \in Nat
      /\ row \in DOMAIN data /\ row \in Nat /\ format = "tap"
      /\ data[row].status = "invalid" /\ error \in 1..data[row].errors
  BY DEF IInv, TypeOK, FlushError, flushing
<1>2. /\ pc = "errors" /\ output' = Append(output, line(count, error))
      /\ count' = countAfterError /\ error' = error + 1
      /\ IF moreErrors THEN UNCHANGED <<pc, row>> ELSE pc' = "rows" /\ row' = row + 1
      /\ UNCHANGED <<format, data, plan>>
  BY DEF FlushError, flushing
<1>3. data[row].errors \in 0..MaxErrors
  <2>1. data[row] \in Entry
    BY <1>1
  <2> QED
    BY <2>1 DEF Entry
<1>4. Errs(row) = 1..data[row].errors
  BY <1>1 DEF Errs
<1>5. \A i \in DOMAIN data : \A f \in Errs(i) :
        Passed(i, f)' <=> Passed(i, f) \/ (i = row /\ f = error)
  <2>1. ASSUME NEW i \in DOMAIN data, NEW f \in Errs(i)
        PROVE  Passed(i, f)' <=> Passed(i, f) \/ (i = row /\ f = error)
    <3>1. i \in Nat /\ (i = row => f \in 1..data[row].errors)
      <4>1. CASE i = row
        BY <1>1, <1>4, <4>1
      <4>2. CASE i # row
        BY <1>1, <4>2
      <4> QED
        BY <4>1, <4>2
    <3>2. CASE moreErrors
      BY <1>1, <1>2, <1>3, <3>1, <3>2, BoundsAssumption DEF Passed
    <3>3. CASE ~moreErrors
      <4>1. error = data[row].errors
        BY <1>1, <1>3, <3>3, BoundsAssumption DEF moreErrors
      <4> QED
        BY <1>1, <1>2, <1>3, <3>1, <3>3, <4>1, BoundsAssumption DEF Passed
    <3> QED
      BY <3>2, <3>3
  <2> QED
    BY <2>1
<1>6. ~Passed(row, error)
  BY <1>1, <1>3, BoundsAssumption DEF Passed
<1>7. /\ output' \in Seq(Line) /\ Len(output') = count
      /\ NumbersConsecutive' /\ OnlyPassed' /\ AllPassed' /\ InOrder'
  BY <1>1, <1>2, <1>4, <1>5, <1>6, PrintStep
<1>8. CASE moreErrors
  <2>1. /\ count' = count + 1 /\ pc' = "errors" /\ row' = row
        /\ error' \in 1..data[row].errors
    BY <1>1, <1>2, <1>3, <1>8, BoundsAssumption DEF moreErrors, countAfterError
  <2>2. TypeOK'
    BY <1>1, <1>2, <1>3, <1>7, <2>1, BoundsAssumption DEF TypeOK
  <2> QED
    BY <1>1, <1>2, <1>7, <2>1, <2>2 DEF IInv, EntrySound
<1>9. CASE ~moreErrors
  <2>1. /\ count' = count /\ pc' = "rows" /\ row' = row + 1
        /\ error = data[row].errors
    BY <1>1, <1>2, <1>3, <1>9, BoundsAssumption DEF moreErrors, countAfterError
  <2>2. TypeOK'
    BY <1>1, <1>2, <1>3, <1>7, <2>1, BoundsAssumption DEF TypeOK
  <2> QED
    BY <1>1, <1>2, <1>7, <2>1, <2>2 DEF IInv, EntrySound
<1> QED
  BY <1>8, <1>9

LEMMA FlushEndsStep == IInv /\ FlushEnds => IInv'
<1> SUFFICES ASSUME IInv, FlushEnds PROVE IInv'
  OBVIOUS
<1>1. TypeOK'
  BY DEF IInv, TypeOK, FlushEnds, flushing
<1> QED
  BY <1>1 DEF IInv, FlushEnds, flushing, EntrySound, NumbersConsecutive

LEMMA StutterStep == IInv /\ UNCHANGED vars => IInv'
<1> SUFFICES ASSUME IInv, UNCHANGED vars PROVE IInv'
  OBVIOUS
<1>1. UNCHANGED <<format, data, pc, row, error, count, plan, output>>
  BY DEF vars
<1>2. TypeOK'
  BY <1>1 DEF IInv, TypeOK
<1>3. (OnlyPassed <=> OnlyPassed') /\ (AllPassed <=> AllPassed') /\ (InOrder <=> InOrder')
  BY <1>1 DEF OnlyPassed, AllPassed, InOrder, Errs, Passed, Tells, Before
<1> QED
  BY <1>1, <1>2, <1>3 DEF IInv, EntrySound, NumbersConsecutive

LEMMA InductiveInvariant == IInv /\ [Next]_vars => IInv'
BY PutStep, FlushJSONStep, StartFlushTAPStep, FlushRowStep, FlushInvalidStep, FlushErrorStep,
   FlushEndsStep, StutterStep DEF Next, FlushTAP

LEMMA SpecIInv == Spec => []IInv
<1>1. Init => IInv
  BY InitIInv
<1>2. IInv /\ [Next]_vars => IInv'
  BY InductiveInvariant
<1> QED
  BY <1>1, <1>2, PTL DEF Spec

-----------------------------------------------------------------------------
(***************************************************************************)
(* The theorems.                                                           *)
(***************************************************************************)
\* No loop of Flush leaves the results or their errors, and a plan announces at least
\* one line (Output.go 421-459).
THEOREM TypesCorrect == Spec => []TypeOK
<1>1. IInv => TypeOK
  BY DEF IInv
<1> QED
  BY <1>1, SpecIInv, PTL

\* However many results and errors there are and however often a manager is flushed, the
\* lines of a TAP flush are numbered 1, 2, 3 and so on (Output.go 433-456).
THEOREM NumbersAreConsecutive == Spec => []NumbersConsecutive
<1>1. IInv => NumbersConsecutive
  BY DEF IInv
<1> QED
  BY <1>1, SpecIInv, PTL

\* What the flushed lines have to say of result i, as the loops count its errors.
\* The lines of a result follow its status; what is expected of it follows its errors.
LEMMA ExpectedTAP ==
    ASSUME format = "tap", TypeOK, EntrySound, NEW i \in DOMAIN data
    PROVE  expected(i) = {[row |-> i, status |-> data[i].status, error |-> e] : e \in Errs(i)}
<1> DEFINE wanted == IF data[i].errors > 0 /\ data[i].status # "skipped"
                     THEN 1..data[i].errors ELSE {0}
<1>1. data \in Seq(Entry)
  BY DEF TypeOK
<1>2. data[i] \in Entry
  BY <1>1
<1>3. data[i].status \in Statuses
  BY <1>2 DEF Entry
<1>4. wanted = Errs(i)
  BY <1>3 DEF EntrySound, Statuses, Errs
<1>5. expected(i) = {[row |-> i, status |-> data[i].status, error |-> e] : e \in wanted}
  BY DEF expected
<1> QED
  BY <1>4, <1>5

LEMMA FlushEndsTells ==
    ASSUME IInv, FlushEnds
    PROVE  /\ told(output') = UNION {expected(i) : i \in DOMAIN data}
           /\ InOrder'
<1>1. /\ data \in Seq(Entry) /\ format = "tap" /\ OnlyPassed /\ AllPassed /\ InOrder
      /\ TypeOK /\ EntrySound
      /\ row \in 1..(Len(data) + 1) /\ row \notin DOMAIN data /\ output' = output
  BY DEF IInv, TypeOK, FlushEnds, flushing
<1>2. row = Len(data) + 1
  BY <1>1
<1>3. ASSUME NEW i \in DOMAIN data, NEW e
      PROVE  Passed(i, e)
  BY <1>1, <1>2 DEF Passed
<1>4. ASSUME NEW n \in DOMAIN output
      PROVE  \E i \in DOMAIN data :
               [row |-> output[n].row, status |-> output[n].status, error |-> output[n].error]
                 \in expected(i)
  <2>1. PICK i \in DOMAIN data : \E e \in Errs(i) : Tells(output[n], i, e)
    BY <1>1 DEF OnlyPassed
  <2>2. PICK e \in Errs(i) : Tells(output[n], i, e)
    BY <2>1
  <2> QED
    BY <1>1, <2>2, ExpectedTAP DEF Tells
<1>5. ASSUME NEW i \in DOMAIN data, NEW t \in expected(i)
      PROVE  \E n \in DOMAIN output :
               t = [row |-> output[n].row, status |-> output[n].status, error |-> output[n].error]
  <2>1. PICK e \in Errs(i) : t = [row |-> i, status |-> data[i].status, error |-> e]
    BY <1>1, <1>5, ExpectedTAP
  <2>2. PICK n \in DOMAIN output : Tells(output[n], i, e)
    BY <1>1, <1>3 DEF AllPassed
  <2> QED
    BY <2>1, <2>2 DEF Tells
<1>6. told(output) = UNION {expected(i) : i \in DOMAIN data}
  <2>1. ASSUME NEW t \in told(output)
        PROVE  t \in UNION {expected(i) : i \in DOMAIN data}
    BY <2>1, <1>4 DEF told
  <2>2. ASSUME NEW t \in UNION {expected(i) : i \in DOMAIN data}
        PROVE  t \in told(output)
    <3>1. PICK i \in DOMAIN data : t \in expected(i)
      BY <2>2
    <3> QED
      BY <1>5, <3>1 DEF told
  <2> QED
    BY <2>1, <2>2
<1> QED
  BY <1>1, <1>6 DEF InOrder

LEMMA FlushJSONTells ==
    ASSUME IInv, FlushJSON
    PROVE  /\ told(output') = UNION {expected(i) : i \in DOMAIN data}
           /\ InOrder'
<1> DEFINE row_(i) == [row |-> i, status |-> data[i].status, number |-> 0, error |-> data[i].errors]
           said(i) == [row |-> i, status |-> data[i].status, error |-> data[i].errors]
<1>1. /\ data \in Seq(Entry) /\ format = "json"
      /\ DOMAIN output' = DOMAIN data /\ \A i \in DOMAIN data : output'[i] = row_(i)
  BY DEF IInv, TypeOK, FlushJSON
<1>2. ASSUME NEW i \in DOMAIN data
      PROVE  expected(i) = {said(i)}
  BY <1>1 DEF expected
<1>3. told(output') = {said(i) : i \in DOMAIN data}
  BY <1>1 DEF told
<1>4. UNION {expected(i) : i \in DOMAIN data} = {said(i) : i \in DOMAIN data}
  BY <1>2
<1>5. InOrder'
  BY <1>1 DEF InOrder, Before
<1> QED
  BY <1>3, <1>4, <1>5

\* Whenever a flush ends it has told every result once, in order, with a line for every
\* error of a result that is not skipped, and nothing else (Output.go 364-378, 421-459).
THEOREM AllIsTold == Spec => AllTold
<1> DEFINE Told ==
             /\ told(output') = UNION {expected(i) : i \in DOMAIN data}
             /\ \A m, n \in DOMAIN output' :
                  m < n => \/ output'[m].row < output'[n].row
                           \/ output'[m].row = output'[n].row
                                /\ output'[m].error < output'[n].error
<1>1. InOrder' => \A m, n \in DOMAIN output' :
                    m < n => \/ output'[m].row < output'[n].row
                             \/ output'[m].row = output'[n].row
                                  /\ output'[m].error < output'[n].error
  BY DEF InOrder, Before
<1>2. IInv /\ [Next]_vars => [pc' = "idle" /\ output' # <<>> /\ data' = data => Told]_vars
  <2> SUFFICES ASSUME IInv, Next, pc' = "idle", output' # <<>>, data' = data
               PROVE  Told
    OBVIOUS
  <2>1. ASSUME NEW r \in Results, Put(r)
        PROVE  FALSE
    <3>1. data \in Seq(Entry) /\ data' = Append(data, evalResult(r))
      BY <2>1 DEF IInv, TypeOK, Put
    <3>2. Len(Append(data, evalResult(r))) = Len(data) + 1 /\ Len(data) \in Nat
      BY <3>1
    <3> QED
      BY <3>1, <3>2
  <2>2. CASE FlushJSON
    BY <1>1, <2>2, FlushJSONTells
  <2>3. ~StartFlushTAP
    BY DEF StartFlushTAP
  <2>4. ~FlushRow /\ ~FlushInvalid
    BY DEF FlushRow, FlushInvalid, flushing
  <2>5. ~FlushError
    BY DEF FlushError, flushing
  <2>6. CASE FlushEnds
    BY <1>1, <2>6, FlushEndsTells
  <2> QED
    BY <2>1, <2>2, <2>3, <2>4, <2>5, <2>6 DEF Next, FlushTAP
<1> QED
  BY <1>2, SpecIInv, PTL DEF Spec, AllTold
-----------------------------------------------------------------------------
(***************************************************************************)
(* The plan: the lines printed are counted as a set of slots <<i, j>>, line *)
(* j of result i.                                                          *)
(***************************************************************************)
Slots(i) == IF data[i].status = "invalid" THEN 1..data[i].errors ELSE {1}

AllSlots == UNION {{i} \X Slots(i) : i \in DOMAIN data}

Printed == {x \in AllSlots : Passed(x[1], x[2])}

\* Added to IInv: the plan is kept through the flush, and every line takes a slot.
PlanInv ==
    pc # "idle" =>
      /\ plan = total
      /\ IsFiniteSet(Printed)
      /\ Len(output) = Cardinality(Printed)

LEMMA SlotsOf ==
    ASSUME NEW i \in DOMAIN data, NEW j
    PROVE  <<i, j>> \in AllSlots <=> j \in Slots(i)
BY DEF AllSlots

\* A line more, a slot more.
LEMMA CountStep ==
    ASSUME PlanInv, pc # "idle", pc' # "idle", NEW s \in AllSlots, ~Passed(s[1], s[2]),
           UNCHANGED <<data, plan>>, output \in Seq(Line), NEW l \in Line,
           output' = Append(output, l),
           \A x \in AllSlots : Passed(x[1], x[2])' <=> Passed(x[1], x[2]) \/ x = s
    PROVE  PlanInv'
<1>1. AllSlots' = AllSlots /\ total' = total
  BY DEF AllSlots, Slots, total
<1>2. Printed' = Printed \cup {s} /\ s \notin Printed
  BY <1>1 DEF Printed
<1>3. /\ IsFiniteSet(Printed') /\ Cardinality(Printed') = Cardinality(Printed) + 1
  BY <1>2, FS_AddElement DEF PlanInv
<1>4. Len(output') = Len(output) + 1
  OBVIOUS
<1> QED
  BY <1>1, <1>3, <1>4 DEF PlanInv

LEMMA PlanInvStep == IInv /\ PlanInv /\ [Next]_vars => PlanInv'
<1> SUFFICES ASSUME IInv, PlanInv, [Next]_vars PROVE PlanInv'
  OBVIOUS
<1>1. /\ TypeOK /\ data \in Seq(Entry) /\ output \in Seq(Line)
      /\ row \in Nat /\ count \in Nat /\ error \in Nat
  BY BoundsAssumption DEF IInv, TypeOK
<1>2. ASSUME NEW r \in Results, Put(r)
      PROVE  PlanInv'
  <2>1. pc' = "idle"
    BY <1>2 DEF Put
  <2> QED
    BY <2>1 DEF PlanInv
<1>3. CASE FlushJSON
  BY <1>3 DEF PlanInv, FlushJSON
<1>4. CASE StartFlushTAP
  <2>1. CASE data = <<>>
    BY <1>4, <2>1 DEF PlanInv, StartFlushTAP
  <2>2. CASE data # <<>>
    <3>1. plan' = total /\ pc' = "rows" /\ row' = 1 /\ output' = <<>> /\ data' = data
      BY <1>4, <2>2 DEF StartFlushTAP
    <3>2. total' = total
      BY <3>1 DEF total
    <3>3. Printed' = {}
      <4>1. ASSUME NEW x \in AllSlots'
            PROVE  ~Passed(x[1], x[2])'
        <5>1. PICK i \in DOMAIN data : x \in {i} \X Slots(i)'
          BY <3>1, <4>1 DEF AllSlots
        <5>2. x[1] = i /\ i \in DOMAIN data
          BY <5>1
        <5> QED
          BY <1>1, <3>1, <5>2 DEF Passed
      <4> QED
        BY <4>1 DEF Printed
    <3>4. IsFiniteSet({}) /\ Cardinality({}) = 0
      BY FS_EmptySet
    <3> QED
      BY <3>1, <3>2, <3>3, <3>4 DEF PlanInv
  <2> QED
    BY <2>1, <2>2
<1>5. CASE FlushRow
  <2>1. /\ pc = "rows" /\ pc' = "rows" /\ row' = row + 1 /\ row \in DOMAIN data
        /\ output' = Append(output, line(count + 1, 0)) /\ UNCHANGED <<data, plan, error>>
        /\ Slots(row) = {1}
    BY <1>5 DEF FlushRow, flushing, Slots
  <2>2. line(count + 1, 0) \in Line
    <3>1. data[row] \in Entry
      BY <1>1, <2>1
    <3> QED
      BY <1>1, <3>1 DEF line, Line, Entry
  <2>3. <<row, 1>> \in AllSlots
    BY <2>1, SlotsOf
  <2>4. ASSUME NEW x \in AllSlots
        PROVE  Passed(x[1], x[2])' <=> Passed(x[1], x[2]) \/ x = <<row, 1>>
    <3>1. PICK i \in DOMAIN data : x \in {i} \X Slots(i)
      BY <2>4 DEF AllSlots
    <3>2. PICK j \in Slots(i) : x = <<i, j>>
      BY <3>1
    <3>3. i \in Nat /\ (i = row => j = 1)
      BY <1>1, <2>1, <3>2
    <3>4. Passed(i, j)' <=> i < row + 1
      BY <2>1 DEF Passed
    <3>5. Passed(i, j) <=> i < row
      BY <2>1 DEF Passed
    <3>6. x[1] = i /\ x[2] = j /\ (x = <<row, 1>> <=> i = row)
      BY <3>2, <3>3
    <3> QED
      BY <1>1, <3>3, <3>4, <3>5, <3>6
  <2>5. ~Passed(row, 1)
    BY <1>1, <2>1 DEF Passed
  <2>6. \A x \in AllSlots : Passed(x[1], x[2])' <=> Passed(x[1], x[2]) \/ x = <<row, 1>>
    BY <2>4
  <2>7. PICK s : s = <<row, 1>>
    OBVIOUS
  <2>8. s \in AllSlots /\ ~Passed(s[1], s[2])
    BY <2>3, <2>5, <2>7
  <2> QED
    BY <1>1, <2>1, <2>2, <2>6, <2>7, <2>8, CountStep
<1>6. CASE FlushInvalid
  <2>1. /\ pc = "rows" /\ pc' = "errors" /\ error' = 1 /\ row \in DOMAIN data
        /\ UNCHANGED <<data, plan, row, output>>
    BY <1>6 DEF FlushInvalid, flushing
  <2>2. AllSlots' = AllSlots /\ total' = total
    BY <2>1 DEF AllSlots, Slots, total
  <2>3. ASSUME NEW x \in AllSlots
        PROVE  Passed(x[1], x[2])' <=> Passed(x[1], x[2])
    <3>1. PICK i \in DOMAIN data : x \in {i} \X Slots(i)
      BY <2>3 DEF AllSlots
    <3>2. data[i] \in Entry
      BY <1>1
    <3>3. ~(x[2] < 1)
      BY <3>1, <3>2, BoundsAssumption DEF Slots, Entry
    <3> QED
      BY <2>1, <3>3 DEF Passed
  <2>4. Printed' = Printed
    BY <2>2, <2>3 DEF Printed
  <2> QED
    BY <2>1, <2>2, <2>4 DEF PlanInv
<1>7. CASE FlushError
  <2>1. /\ pc = "errors" /\ pc' # "idle" /\ row \in DOMAIN data
        /\ output' = Append(output, line(count, error)) /\ UNCHANGED <<data, plan>>
        /\ error' = error + 1
        /\ IF moreErrors THEN UNCHANGED <<pc, row>> ELSE pc' = "rows" /\ row' = row + 1
        /\ error \in 1..data[row].errors /\ Slots(row) = 1..data[row].errors
    BY <1>7 DEF FlushError, flushing, Slots, IInv
  <2>2. data[row] \in Entry /\ data[row].errors \in Nat
    <3>1. data[row] \in Entry
      BY <1>1, <2>1
    <3> QED
      BY <3>1, BoundsAssumption DEF Entry
  <2>3. line(count, error) \in Line
    BY <1>1, <2>2 DEF line, Line, Entry
  <2>4. ASSUME NEW x \in AllSlots
        PROVE  Passed(x[1], x[2])' <=> Passed(x[1], x[2]) \/ x = <<row, error>>
    <3>1. PICK i \in DOMAIN data : x \in {i} \X Slots(i)
      BY <2>4 DEF AllSlots
    <3>2. PICK j \in Slots(i) : x = <<i, j>>
      BY <3>1
    <3>3. i \in Nat
      BY <1>1
    <3>4. x[1] = i /\ x[2] = j /\ (x = <<row, error>> <=> i = row /\ j = error)
      BY <3>2
    <3>5. i = row => j \in 1..data[row].errors
      BY <2>1, <3>2
    <3>6. Passed(i, j)' <=> Passed(i, j) \/ (i = row /\ j = error)
      <4>1. CASE moreErrors
        BY <1>1, <2>1, <2>2, <3>3, <3>5, <4>1 DEF Passed
      <4>2. CASE ~moreErrors
        <5>1. error = data[row].errors
          BY <1>1, <2>1, <2>2, <4>2 DEF moreErrors
        <5> QED
          BY <1>1, <2>1, <2>2, <3>3, <3>5, <4>2, <5>1 DEF Passed
      <4> QED
        BY <4>1, <4>2
    <3> QED
      BY <3>4, <3>6
  <2>5. ~Passed(row, error)
    BY <1>1, <2>1 DEF Passed
  <2>6. \A x \in AllSlots : Passed(x[1], x[2])' <=> Passed(x[1], x[2]) \/ x = <<row, error>>
    BY <2>4
  <2>7. PICK s : s = <<row, error>>
    OBVIOUS
  <2>8. s \in AllSlots /\ ~Passed(s[1], s[2])
    BY <2>1, <2>5, <2>7, SlotsOf
  <2> QED
    BY <1>1, <2>1, <2>3, <2>6, <2>7, <2>8, CountStep
<1>8. CASE FlushEnds
  BY <1>8 DEF PlanInv, FlushEnds, flushing
<1>9. CASE UNCHANGED vars
  <2>1. UNCHANGED <<data, pc, row, error, plan, output>>
    BY <1>9 DEF vars
  <2>2. Printed' = Printed /\ total' = total
    BY <2>1 DEF Printed, AllSlots, Slots, Passed, total
  <2> QED
    BY <2>1, <2>2 DEF PlanInv
<1> QED
  BY <1>2, <1>3, <1>4, <1>5, <1>6, <1>7, <1>8, <1>9 DEF Next, FlushTAP

\* At the end of a flush all slots are printed; what the plan counts besides are the
\* further errors of skipped results.
LEMMA PlanAtEnd ==
    ASSUME IInv, PlanInv, FlushEnds
    PROVE  plan = Len(output) + Cardinality(unannounced)
<1>1. /\ TypeOK /\ data \in Seq(Entry) /\ pc = "rows" /\ EntrySound
      /\ row \in 1..(Len(data) + 1) /\ row \notin DOMAIN data
      /\ plan = Cardinality(Planned) /\ Len(output) = Cardinality(Printed)
  BY DEF IInv, TypeOK, PlanInv, FlushEnds, flushing, total, Planned
<1>2. ASSUME NEW i \in DOMAIN data, NEW j
      PROVE  /\ j \in 1..linesOf(data[i]) <=>
                  \/ j \in Slots(i)
                  \/ data[i].status = "skipped" /\ j \in 2..data[i].errors
             /\ ~(j \in Slots(i) /\ data[i].status = "skipped" /\ j \in 2..data[i].errors)
  <2>1. data[i] \in Entry
    BY <1>1
  <2>2. data[i].errors \in Nat /\ data[i].status \in Statuses
    BY <2>1, BoundsAssumption DEF Entry
  <2>3. CASE data[i].status = "invalid"
    <3>1. data[i].errors > 0
      BY <1>1, <2>3 DEF EntrySound
    <3> QED
      BY <2>2, <2>3, <3>1 DEF Slots, linesOf
  <2>4. CASE data[i].status = "valid"
    <3>1. data[i].errors = 0
      BY <1>1, <2>4 DEF EntrySound
    <3>2. Slots(i) = {1} /\ linesOf(data[i]) = 1
      BY <2>4, <3>1 DEF Slots, linesOf
    <3>3. j \in 1..1 <=> j \in {1}
      OBVIOUS
    <3> QED
      BY <2>4, <3>2, <3>3
  <2>5. CASE data[i].status = "skipped"
    <3>1. Slots(i) = {1}
      BY <2>5 DEF Slots
    <3>2. CASE data[i].errors > 0
      <4>1. linesOf(data[i]) = data[i].errors
        BY <3>2 DEF linesOf
      <4>2. j \in 1..data[i].errors <=> j = 1 \/ j \in 2..data[i].errors
        BY <2>2, <3>2
      <4>3. 1 \notin 2..data[i].errors
        BY <2>2
      <4> QED
        BY <2>5, <3>1, <4>1, <4>2, <4>3
    <3>3. CASE data[i].errors = 0
      <4>1. linesOf(data[i]) = 1
        BY <3>3 DEF linesOf
      <4>2. (j \in 1..1 <=> j = 1) /\ j \notin 2..0
        OBVIOUS
      <4> QED
        BY <2>5, <3>1, <3>3, <4>1, <4>2
    <3> QED
      BY <2>2, <3>2, <3>3
  <2> QED
    BY <2>2, <2>3, <2>4, <2>5 DEF Statuses
<1>3. Printed = AllSlots
  <2>1. ASSUME NEW x \in AllSlots
        PROVE  Passed(x[1], x[2])
    <3>1. PICK i \in DOMAIN data : x \in {i} \X Slots(i)
      BY <2>1 DEF AllSlots
    <3>2. x[1] = i
      BY <3>1
    <3> QED
      BY <1>1, <3>2 DEF Passed
  <2> QED
    BY <2>1 DEF Printed
<1>4. ASSUME NEW i \in DOMAIN data, NEW j
      PROVE  /\ <<i, j>> \in Planned <=> j \in 1..linesOf(data[i])
             /\ <<i, j>> \in unannounced
                  <=> data[i].status = "skipped" /\ j \in 2..data[i].errors
  BY DEF Planned, unannounced
<1>5. ASSUME NEW x
      PROVE  /\ x \in Planned <=> x \in AllSlots \/ x \in unannounced
             /\ ~(x \in AllSlots /\ x \in unannounced)
  <2>1. CASE \E i \in DOMAIN data : \E j : x = <<i, j>>
    <3>1. PICK i \in DOMAIN data : \E j : x = <<i, j>>
      BY <2>1
    <3>2. PICK j : x = <<i, j>>
      BY <3>1
    <3> QED
      BY <1>2, <1>4, <3>2, SlotsOf
  <2>2. CASE ~\E i \in DOMAIN data : \E j : x = <<i, j>>
    <3>1. x \notin AllSlots
      BY <2>2 DEF AllSlots
    <3>2. x \notin Planned
      BY <2>2 DEF Planned
    <3>3. x \notin unannounced
      BY <2>2 DEF unannounced
    <3> QED
      BY <3>1, <3>2, <3>3
  <2> QED
    BY <2>1, <2>2
<1>6. /\ Planned = AllSlots \cup unannounced /\ AllSlots \cap unannounced = {}
      /\ AllSlots \subseteq Planned /\ unannounced \subseteq Planned
  BY <1>5
<1>7. IsFiniteSet(AllSlots) /\ IsFiniteSet(unannounced)
  BY <1>1, <1>6, PlannedFinite, FS_Subset
<1>8. /\ Cardinality(AllSlots \cup unannounced)
           = Cardinality(AllSlots) + Cardinality(unannounced)
             - Cardinality(AllSlots \cap unannounced)
      /\ Cardinality(AllSlots) \in Nat /\ Cardinality(unannounced) \in Nat
  BY <1>7, FS_Union, FS_CardinalityType
<1>9. Cardinality(AllSlots \cap unannounced) = 0
  BY <1>6, FS_EmptySet
<1> QED
  BY <1>1, <1>3, <1>6, <1>8, <1>9

\* The plan printed before the lines of a flush exceeds them by exactly the errors skipped
\* results have beyond their first, and is their number when there are none (Output.go
\* 424-432 against 442-455).
THEOREM PlanIsExact == Spec => PlanAnnouncesLines
<1>1. Init => PlanInv
  BY DEF Init, PlanInv
<1>2. IInv /\ PlanInv /\ [Next]_vars => PlanInv'
  BY PlanInvStep
<1>3. IInv /\ PlanInv /\ [Next]_vars =>
        [pc = "rows" /\ pc' = "idle" => plan = Len(output) + Cardinality(unannounced)]_vars
  <2> SUFFICES ASSUME IInv, PlanInv, Next, pc = "rows", pc' = "idle"
               PROVE  plan = Len(output) + Cardinality(unannounced)
    OBVIOUS
  <2>1. FlushEnds
    BY DEF Next, Put, FlushJSON, StartFlushTAP, FlushTAP, FlushRow, FlushInvalid, FlushError,
           flushing
  <2> QED
    BY <2>1, PlanAtEnd
<1> QED
  BY <1>1, <1>2, <1>3, SpecIInv, PTL DEF Spec, PlanAnnouncesLines
=============================================================================
