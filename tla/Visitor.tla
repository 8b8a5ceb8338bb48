------------------------------- MODULE Visitor ------------------------------
(***************************************************************************)
(* The visit that looks for deprecated places in an object (pkg/Visitor.go *)
(* and the error paths of pkg/Types.go 77-121). A schema is a node of a    *)
(* graph that may have cycles, a value a node of a tree. visitJSON,        *)
(* visitJSONArray and visitJSONObject call each other; the calls that have *)
(* not returned are the frames of a stack.                                 *)
(***************************************************************************)
EXTENDS Integers, Sequences

CONSTANTS
    Schemas,
    NoSchema,
    Deprecated,    \* schemas whose description says deprecated
    Properties,    \* schema -> property name -> schema
    Items,         \* schema -> the schema of its items, or NoSchema
    Values,
    Shape,         \* value -> what visitJSON switches on
    Children,      \* value -> field name or index -> value
    Keys,          \* field names and indexes
    IndexTexts,    \* the indexes 0, 1, ... as FormatInt writes them
    NoKey

Shapes == {"scalar", "array", "object", "unhandled"}

ASSUME VisitorAssumption ==
    /\ NoSchema \notin Schemas
    /\ Deprecated \subseteq Schemas
    /\ Properties \in [Schemas -> UNION {[names -> Schemas] : names \in SUBSET Keys}]
    /\ Items \in [Schemas -> Schemas \cup {NoSchema}]
    /\ Shape \in [Values -> Shapes]
    /\ Children \in [Values -> UNION {[keys -> Values] : keys \in SUBSET Keys}]
    /\ \A v \in Values : Shape[v] \in {"scalar", "unhandled"} => DOMAIN Children[v] = {}
    /\ IndexTexts \in Seq(Keys)
    /\ \A v \in Values : Shape[v] = "array" =>
         \E n \in 0..Len(IndexTexts) : DOMAIN Children[v] = {IndexTexts[i] : i \in 1..n}
    /\ NoKey \notin Keys

VARIABLES
    schema, value,    \* what VisitJSON was called with
    multiError,       \* its setting; the program calls it with TRUE
    stack,            \* the open calls
    errors,           \* what VisitJSON returned: the reversePath of each SchemaError
    outcome

vars == <<schema, value, multiError, stack, errors, outcome>>

\* left: children to visit; at: the child being visited; me: the errors found so far.
Frame ==
    [schema : Schemas, value : Values, left : SUBSET Keys, at : Keys \cup {NoKey},
     me : Seq(Seq(Keys))]

-----------------------------------------------------------------------------
\* A visit has an error of its own for a deprecated place, unless it is an array, and
\* for a value of a type it does not know.
reported(s, v) ==
    \/ Shape[v] = "unhandled"
    \/ Shape[v] \in {"scalar", "object"} /\ s \in Deprecated

own(s, v) == IF reported(s, v) THEN << <<>> >> ELSE <<>>

\* Faulty variant: the visit of the first field is the last, errors or not.
stopsEarlyWithoutError(v, me) == Shape[v] = "object" /\ ~multiError

\* Arrays go on: only visitJSONObject looks at the setting.
stopsEarly(v, me) == Shape[v] = "object" /\ ~multiError /\ me # <<>>

call(s, v) ==
    [schema |-> s, value |-> v, at |-> NoKey, me |-> own(s, v),
     left |-> IF stopsEarly(v, own(s, v)) THEN {} ELSE DOMAIN Children[v]]

\* Faulty variant: the path is built from the front.
markedFront(me, key) == [i \in DOMAIN me |-> <<key>> \o me[i]]

\* markSchemaErrorKey and markSchemaErrorIndex, on every error a call returned.
marked(me, key) == [i \in DOMAIN me |-> Append(me[i], key)]

JSONPointer(reversePath) ==
    [i \in DOMAIN reversePath |-> reversePath[Len(reversePath) + 1 - i]]

Init ==
    /\ schema \in Schemas
    /\ value \in Values
    /\ multiError \in BOOLEAN
    /\ stack = <<call(schema, value)>>
    /\ errors = <<>>
    /\ outcome = "visiting"

top == stack[Len(stack)]

\* The call on top visits its child k with schema s.
Visit(k, s) ==
    stack' = Append([stack EXCEPT ![Len(stack)].left = @ \ {k}, ![Len(stack)].at = k],
                    call(s, Children[top.value][k]))

idle == outcome = "visiting" /\ top.at = NoKey

nextIndex(k) ==
    \E i \in DOMAIN IndexTexts :
      IndexTexts[i] = k /\ \A j \in 1..(i - 1) : IndexTexts[j] \notin top.left

VisitItem(k) ==
    /\ idle
    /\ Shape[top.value] = "array"
    /\ k \in top.left
    /\ nextIndex(k)
    /\ Items[top.schema] # NoSchema
    /\ Visit(k, Items[top.schema])
    /\ UNCHANGED <<schema, value, multiError, errors, outcome>>

\* Faulty variant: schema.Items is dereferenced before the loop over the elements.
dereferencesItemsFirst == TRUE

dereferencesItems == top.left # {}

\* schema.Items is nil: the visit of an element dereferences it.
NoItems ==
    /\ idle
    /\ Shape[top.value] = "array"
    /\ dereferencesItems
    /\ Items[top.schema] = NoSchema
    /\ outcome' = "panicked"
    /\ UNCHANGED <<schema, value, multiError, stack, errors>>

\* Fields come in any order.
VisitField(k) ==
    /\ idle
    /\ Shape[top.value] = "object"
    /\ k \in top.left
    /\ k \in DOMAIN Properties[top.schema]
    /\ Visit(k, Properties[top.schema][k])
    /\ UNCHANGED <<schema, value, multiError, errors, outcome>>

\* Faulty variant: a field without schema is looked at again.
leftAfterSkipAgain(k) == top.left

leftAfterSkip(k) == top.left \ {k}

SkipField(k) ==
    /\ idle
    /\ Shape[top.value] = "object"
    /\ k \in top.left
    /\ k \notin DOMAIN Properties[top.schema]
    /\ stack' = [stack EXCEPT ![Len(stack)].left = leftAfterSkip(k)]
    /\ UNCHANGED <<schema, value, multiError, errors, outcome>>

caller == stack[Len(stack) - 1]

\* Faulty variant: the errors are marked with the key the callee was at.
keyOfCallCallee == top.at

keyOfCall == caller.at

\* A call returns; its caller marks the errors and may stop at them.
Return ==
    /\ idle
    /\ top.left = {}
    /\ Len(stack) > 1
    /\ LET found == marked(top.me, keyOfCall)
       IN  stack' = [i \in 1..(Len(stack) - 1) |->
             IF i < Len(stack) - 1 THEN stack[i]
             ELSE [caller EXCEPT
                     !.me = @ \o found,
                     !.at = NoKey,
                     !.left = IF stopsEarly(caller.value, found) THEN {} ELSE @]]
    /\ UNCHANGED <<schema, value, multiError, errors, outcome>>

ReturnLast ==
    /\ idle
    /\ top.left = {}
    /\ Len(stack) = 1
    /\ errors' = top.me
    /\ outcome' = "returned"
    /\ stack' = <<>>
    /\ UNCHANGED <<schema, value, multiError>>

Next ==
    \/ \E k \in Keys : VisitItem(k) \/ VisitField(k) \/ SkipField(k)
    \/ NoItems
    \/ Return
    \/ ReturnLast

Spec == Init /\ [][Next]_vars /\ WF_vars(Next)

-----------------------------------------------------------------------------
(***************************************************************************)
(* Reference: where a path leads.                                          *)
(***************************************************************************)
\* The schema that the child k of v has under s, or NoSchema.
below(s, v, k) ==
    IF Shape[v] = "array" THEN Items[s]
    ELSE IF k \in DOMAIN Properties[s] THEN Properties[s][k] ELSE NoSchema

\* What is at step i of a way that starts at x and goes on with xs.
along(x, xs, i) == IF i = 0 THEN x ELSE xs[i]

\* From value v under schema s, path leads to one of the places in ends.
Leads(s, v, path, ends) ==
    \E vs \in [1..Len(path) -> Values] :
      /\ \A i \in 1..Len(path) :
           /\ path[i] \in DOMAIN Children[along(v, vs, i - 1)]
           /\ vs[i] = Children[along(v, vs, i - 1)][path[i]]
      /\ \E ss \in [1..Len(path) -> Schemas] :
           /\ \A i \in 1..Len(path) :
                ss[i] = below(along(s, ss, i - 1), along(v, vs, i - 1), path[i])
           /\ <<along(s, ss, Len(path)), along(v, vs, Len(path))>> \in ends

Reporting == {x \in Schemas \X Values : reported(x[1], x[2])}

\* Arrays with elements whose schema has no items.
Breaking ==
    {x \in Schemas \X Values : /\ Shape[x[2]] = "array"
                               /\ DOMAIN Children[x[2]] # {}
                               /\ Items[x[1]] = NoSchema}

\* The paths the properties speak of: all, or for TLC the short ones.
CONSTANT Paths
ASSUME PathsAssumption == Paths \subseteq Seq(Keys)

Reports == [x \in Schemas \X Values |-> {p \in Paths : Leads(x[1], x[2], p, Reporting)}]
Breaks  == [x \in Schemas \X Values |-> {p \in Paths : Leads(x[1], x[2], p, Breaking)}]

pointers == {JSONPointer(errors[i]) : i \in DOMAIN errors}

-----------------------------------------------------------------------------
(***************************************************************************)
(* Properties.                                                             *)
(***************************************************************************)
TypeOK ==
    /\ schema \in Schemas /\ value \in Values /\ multiError \in BOOLEAN
    /\ stack \in Seq(Frame)
    /\ errors \in Seq(Seq(Keys))
    /\ outcome \in {"visiting", "returned", "panicked"}
    /\ outcome = "visiting" => stack # <<>>

\* The pointers of a finished visit are the paths that lead to deprecated places, each
\* once: in whichever order the fields came, however deep the calls, also through schemas
\* that contain themselves. Every return appends one key to errors shared by pointer with
\* the callee's list (Visitor.go 61-102, Types.go 77-121).
PointersExact ==
    outcome = "returned" /\ multiError =>
      /\ pointers \cap Paths = Reports[<<schema, value>>]
      /\ \A i, j \in DOMAIN errors : JSONPointer(errors[i]) = JSONPointer(errors[j]) => i = j

\* With MultiError off a visit reports deprecated places only, and at least one if there
\* is one: stopping at the first error of a field does not stop at none (82-84, 93-95).
FirstErrorFound ==
    outcome = "returned" /\ ~multiError =>
      /\ pointers \cap Paths \subseteq Reports[<<schema, value>>]
      /\ errors = <<>> => Reports[<<schema, value>>] = {}

\* A visit panics exactly when a path leads to an element of an array whose schema has
\* no items; an empty array there is harmless (61-64).
PanicsExact ==
    multiError => /\ outcome = "panicked" => Breaks[<<schema, value>>] # {}
                  /\ outcome = "returned" => Breaks[<<schema, value>>] = {}

\* Every visit ends: a schema that contains itself is entered only as deep as the value.
Termination == <>(outcome # "visiting")
=============================================================================
