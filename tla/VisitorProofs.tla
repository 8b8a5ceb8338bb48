---------------------------- MODULE VisitorProofs ---------------------------
(***************************************************************************)
(* The visit, for every schema graph, every value and every order of the   *)
(* fields of its objects.                                                  *)
(***************************************************************************)
EXTENDS Visitor, SequenceTheorems, TLAPS

\* What a frame has not visited, or not finished.
Open(f) == f.left \cup {f.at}

\* p is a path of frame f that starts where f has finished.
Finished(f, p) == p = <<>> \/ p[1] \notin Open(f)

LeadsFrom(f, p, ends) == Leads(f.schema, f.value, p, ends)

\* The errors of a frame are the reporting places of what it has finished: only those ...
ErrorsLead(f) ==
    \A i \in DOMAIN f.me :
      /\ LeadsFrom(f, JSONPointer(f.me[i]), Reporting)
      /\ Finished(f, JSONPointer(f.me[i]))

\* ... each once ...
ErrorsOnce(f) ==
    \A i, j \in DOMAIN f.me : JSONPointer(f.me[i]) = JSONPointer(f.me[j]) => i = j

\* ... and all of them, unless the visit has stopped at an error.
ErrorsAll(f, multi) ==
    multi \/ f.me = <<>> =>
      \A p \in Seq(Keys) :
        LeadsFrom(f, p, Reporting) /\ Finished(f, p) =>
          \E i \in DOMAIN f.me : JSONPointer(f.me[i]) = p

\* Nothing that a frame has finished is broken. If it is broken itself, it has not begun.
Unbroken(f, multi) ==
    multi =>
      \A p \in Seq(Keys) :
        LeadsFrom(f, p, Breaking) =>
          IF p = <<>> THEN f.left = DOMAIN Children[f.value] ELSE p[1] \in Open(f)

FrameSound(f, multi) ==
    /\ f.left \subseteq DOMAIN Children[f.value]
    /\ f.at \notin f.left
    /\ ErrorsLead(f)
    /\ ErrorsOnce(f)
    /\ ErrorsAll(f, multi)
    /\ Unbroken(f, multi)

\* g is the call that f made for the child it is at.
Calls(f, g) ==
    /\ f.at \in DOMAIN Children[f.value]
    /\ g.value = Children[f.value][f.at]
    /\ g.schema = below(f.schema, f.value, f.at)

\* The open calls: the first is the visit, each made the next, and the last is at no child.
Chain ==
    stack # <<>> =>
      /\ stack[1].schema = schema
      /\ stack[1].value = value
      /\ \A i \in 1..(Len(stack) - 1) : Calls(stack[i], stack[i + 1])
      /\ top.at = NoKey

\* What a finished visit leaves.
Returned ==
    outcome = "returned" =>
      /\ \A i \in DOMAIN errors : Leads(schema, value, JSONPointer(errors[i]), Reporting)
      /\ \A i, j \in DOMAIN errors : JSONPointer(errors[i]) = JSONPointer(errors[j]) => i = j
      /\ multiError \/ errors = <<>> =>
           \A p \in Seq(Keys) : Leads(schema, value, p, Reporting) =>
             \E i \in DOMAIN errors : JSONPointer(errors[i]) = p
      /\ multiError => \A p \in Seq(Keys) : ~Leads(schema, value, p, Breaking)

Panicked ==
    outcome = "panicked" => \E p \in Seq(Keys) : Leads(schema, value, p, Breaking)

\* The inductive invariant. The properties compare the errors of a whole visit with paths
\* from its root; a frame's errors are compared with paths from the frame.
IInv ==
    /\ TypeOK
    /\ Chain
    /\ \A i \in DOMAIN stack : FrameSound(stack[i], multiError)
    /\ Returned
    /\ Panicked

-----------------------------------------------------------------------------
(***************************************************************************)
(* Paths.                                                                  *)
(***************************************************************************)
\* p is q with key k in front.
Fronted(p, k, q) ==
    /\ Len(p) = Len(q) + 1
    /\ p[1] = k
    /\ \A i \in 1..Len(q) : p[i + 1] = q[i]

\* Every path but the empty one has a key in front.
LEMMA FrontAndRest ==
    ASSUME NEW p \in Seq(Keys), p # <<>>
    PROVE  /\ p[1] \in Keys
           /\ \E q \in Seq(Keys) : Fronted(p, p[1], q)
<1>1. PICK n \in Nat : Len(p) = n + 1
  BY Len(p) \in Nat, Len(p) # 0
<1>2. PICK q : q = [i \in 1..n |-> p[i + 1]]
  OBVIOUS
<1>3. \A i \in 1..(n + 1) : p[i] \in Keys
  BY <1>1
<1>4. \A i \in 1..n : p[i + 1] \in Keys
  BY <1>3
<1>5. q \in Seq(Keys) /\ Len(q) = n
  BY <1>2, <1>4
<1>6. Fronted(p, p[1], q)
  BY <1>1, <1>2, <1>5 DEF Fronted
<1> QED
  BY <1>1, <1>5, <1>6

\* A path with another key in front is another path.
LEMMA FrontedEqual ==
    ASSUME NEW p \in Seq(Keys), NEW p2 \in Seq(Keys), NEW q \in Seq(Keys), NEW q2 \in Seq(Keys),
           NEW k, NEW k2, Fronted(p, k, q), Fronted(p2, k2, q2)
    PROVE  p = p2 <=> k = k2 /\ q = q2
<1>1. PICK n \in Nat : Len(q) = n /\ Len(p) = n + 1
  BY DEF Fronted
<1>2. PICK m \in Nat : Len(q2) = m /\ Len(p2) = m + 1
  BY DEF Fronted
<1>3. ASSUME p = p2
      PROVE  k = k2 /\ q = q2
  <2>1. n = m
    BY <1>1, <1>2, <1>3
  <2>2. \A i \in 1..n : q[i] = q2[i]
    BY <1>1, <1>2, <1>3, <2>1 DEF Fronted
  <2>3. k = k2
    BY <1>3 DEF Fronted
  <2> QED
    BY <1>1, <1>2, <2>1, <2>2, <2>3
<1>4. ASSUME k = k2, q = q2
      PROVE  p = p2
  <2>1. \A i \in 1..(n + 1) : i = 1 \/ (i - 1 \in 1..n /\ i = (i - 1) + 1)
    OBVIOUS
  <2>2. \A j \in 1..n : p[j + 1] = p2[j + 1]
    BY <1>1, <1>2, <1>4 DEF Fronted
  <2>3. p[1] = p2[1]
    BY <1>4 DEF Fronted
  <2>4. \A i \in 1..(n + 1) : p[i] = p2[i]
    BY <2>1, <2>2, <2>3
  <2> QED
    BY <1>1, <1>2, <1>4, <2>4
<1> QED
  BY <1>3, <1>4

\* The key a caller appends to a reverse path is in front of the pointer (Types.go 77-121).
LEMMA MarkedInFront ==
    ASSUME NEW r \in Seq(Keys), NEW k \in Keys
    PROVE  /\ JSONPointer(r) \in Seq(Keys)
           /\ Fronted(JSONPointer(Append(r, k)), k, JSONPointer(r))
<1>1. PICK n \in Nat : Len(r) = n /\ DOMAIN r = 1..n
  OBVIOUS
<1>2. PICK m : m = Append(r, k)
  OBVIOUS
<1>3. /\ Len(m) = n + 1 /\ DOMAIN m = 1..(n + 1) /\ m[n + 1] = k
      /\ \A i \in 1..n : m[i] = r[i]
  BY <1>1, <1>2
<1>4. JSONPointer(r) = [i \in 1..n |-> r[n + 1 - i]]
  BY <1>1 DEF JSONPointer
<1>5. JSONPointer(m) = [i \in 1..(n + 1) |-> m[n + 2 - i]]
  <2>1. JSONPointer(m) = [i \in 1..(n + 1) |-> m[(n + 1) + 1 - i]]
    BY <1>3 DEF JSONPointer
  <2>2. \A i \in 1..(n + 1) : (n + 1) + 1 - i = n + 2 - i
    OBVIOUS
  <2> QED
    BY <2>1, <2>2
<1>6. \A i \in 1..n : n + 1 - i \in 1..n /\ r[n + 1 - i] \in Keys
  BY <1>1
<1>7. JSONPointer(r) \in Seq(Keys) /\ Len(JSONPointer(r)) = n
  BY <1>4, <1>6
<1>8. Len(JSONPointer(m)) = n + 1
  BY <1>5
<1>9. JSONPointer(m)[1] = k
  <2>1. 1 \in 1..(n + 1) /\ n + 2 - 1 = n + 1
    OBVIOUS
  <2> QED
    BY <1>3, <1>5, <2>1
<1>10. \A i \in 1..n : JSONPointer(m)[i + 1] = JSONPointer(r)[i]
  <2> SUFFICES ASSUME NEW i \in 1..n
               PROVE  JSONPointer(m)[i + 1] = JSONPointer(r)[i]
    OBVIOUS
  <2>1. i + 1 \in 1..(n + 1) /\ n + 2 - (i + 1) = n + 1 - i
    OBVIOUS
  <2>2. JSONPointer(m)[i + 1] = m[n + 1 - i]
    BY <1>5, <2>1
  <2> QED
    BY <1>3, <1>4, <1>6, <2>2
<1> QED
  BY <1>2, <1>7, <1>8, <1>9, <1>10 DEF Fronted

\* The empty path leads nowhere.
LEMMA LeadsNowhere ==
    ASSUME NEW s \in Schemas, NEW v \in Values, NEW ends
    PROVE  Leads(s, v, <<>>, ends) <=> <<s, v>> \in ends
<1>1. \E vs : vs \in [1..0 -> Values]
  <2>1. [i \in 1..0 |-> v] \in [1..0 -> Values]
    OBVIOUS
  <2> QED
    BY <2>1
<1>2. \E ss : ss \in [1..0 -> Schemas]
  <2>1. [i \in 1..0 |-> s] \in [1..0 -> Schemas]
    OBVIOUS
  <2> QED
    BY <2>1
<1>3. Len(<<>>) = 0
  OBVIOUS
<1>4. \A i \in 1..0 : FALSE
  OBVIOUS
<1> QED
  BY <1>1, <1>2, <1>3, <1>4 DEF Leads, along

\* The way of a path: the values and schemas it passes.
OnWay(s, v, path, vs, ss) ==
    /\ vs \in [1..Len(path) -> Values]
    /\ ss \in [1..Len(path) -> Schemas]
    /\ \A i \in 1..Len(path) :
         /\ path[i] \in DOMAIN Children[along(v, vs, i - 1)]
         /\ vs[i] = Children[along(v, vs, i - 1)][path[i]]
         /\ ss[i] = below(along(s, ss, i - 1), along(v, vs, i - 1), path[i])

LEMMA LeadsOnAWay ==
    ASSUME NEW s, NEW v, NEW path, NEW ends
    PROVE  Leads(s, v, path, ends) <=>
             \E vs \in [1..Len(path) -> Values], ss \in [1..Len(path) -> Schemas] :
               /\ OnWay(s, v, path, vs, ss)
               /\ <<along(s, ss, Len(path)), along(v, vs, Len(path))>> \in ends
BY DEF Leads, OnWay

\* A path leads to an end if its first key leads to a child and the rest from there.
LEMMA LeadsThroughChild ==
    ASSUME NEW s \in Schemas, NEW v \in Values, NEW p \in Seq(Keys), NEW q \in Seq(Keys), NEW k,
           Fronted(p, k, q), NEW ends
    PROVE  Leads(s, v, p, ends) <=>
             /\ k \in DOMAIN Children[v]
             /\ Children[v][k] \in Values
             /\ below(s, v, k) \in Schemas
             /\ Leads(below(s, v, k), Children[v][k], q, ends)
<1>1. PICK n \in Nat : Len(q) = n /\ Len(p) = n + 1
  BY DEF Fronted
<1>2. p[1] = k /\ \A i \in 1..n : p[i + 1] = q[i]
  BY <1>1 DEF Fronted
<1> DEFINE c == Children[v][k]
           t == below(s, v, k)
<1>3. ASSUME Leads(s, v, p, ends)
      PROVE  /\ k \in DOMAIN Children[v] /\ c \in Values /\ t \in Schemas
             /\ Leads(t, c, q, ends)
  <2>1. PICK vs \in [1..(n + 1) -> Values], ss \in [1..(n + 1) -> Schemas] :
          /\ OnWay(s, v, p, vs, ss)
          /\ <<along(s, ss, n + 1), along(v, vs, n + 1)>> \in ends
    BY <1>1, <1>3, LeadsOnAWay
  <2>2. \A i \in 1..(n + 1) :
          /\ p[i] \in DOMAIN Children[along(v, vs, i - 1)]
          /\ vs[i] = Children[along(v, vs, i - 1)][p[i]]
          /\ ss[i] = below(along(s, ss, i - 1), along(v, vs, i - 1), p[i])
    BY <1>1, <2>1 DEF OnWay
  <2>3. along(v, vs, 0) = v /\ along(s, ss, 0) = s
    BY DEF along
  <2>4. 1 \in 1..(n + 1) /\ 1 - 1 = 0
    OBVIOUS
  <2>5. k \in DOMAIN Children[v] /\ vs[1] = c /\ ss[1] = t
    BY <1>2, <2>2, <2>3, <2>4
  <2>6. c \in Values /\ t \in Schemas
    BY <2>1, <2>4, <2>5
  <2> HIDE DEF c, t
  <2>7. PICK ws : ws = [i \in 1..n |-> vs[i + 1]]
    OBVIOUS
  <2>8. PICK ts : ts = [i \in 1..n |-> ss[i + 1]]
    OBVIOUS
  <2>9. \A i \in 1..n : i + 1 \in 1..(n + 1) /\ (i + 1) - 1 = i
    OBVIOUS
  <2>10. ws \in [1..n -> Values] /\ ts \in [1..n -> Schemas]
    BY <2>1, <2>7, <2>8, <2>9
  <2>11. \A i \in 0..n : along(c, ws, i) = vs[i + 1] /\ along(t, ts, i) = ss[i + 1]
    <3>1. \A i \in 0..n : i = 0 \/ i \in 1..n
      OBVIOUS
    <3> QED
      BY <2>5, <2>7, <2>8, <3>1 DEF along
  <2>12. \A i \in 0..n : along(v, vs, i + 1) = vs[i + 1] /\ along(s, ss, i + 1) = ss[i + 1]
    BY DEF along
  <2>13. \A i \in 1..n : /\ q[i] \in DOMAIN Children[along(c, ws, i - 1)]
                         /\ ws[i] = Children[along(c, ws, i - 1)][q[i]]
                         /\ ts[i] = below(along(t, ts, i - 1), along(c, ws, i - 1), q[i])
    <3> SUFFICES ASSUME NEW i \in 1..n
                 PROVE  /\ q[i] \in DOMAIN Children[along(c, ws, i - 1)]
                        /\ ws[i] = Children[along(c, ws, i - 1)][q[i]]
                        /\ ts[i] = below(along(t, ts, i - 1), along(c, ws, i - 1), q[i])
      OBVIOUS
    <3>1. i - 1 \in 0..n /\ (i - 1) + 1 = i
      OBVIOUS
    <3>2. along(c, ws, i - 1) = along(v, vs, i) /\ along(t, ts, i - 1) = along(s, ss, i)
      BY <2>11, <2>12, <3>1
    <3>3. /\ p[i + 1] \in DOMAIN Children[along(v, vs, i)]
          /\ vs[i + 1] = Children[along(v, vs, i)][p[i + 1]]
          /\ ss[i + 1] = below(along(s, ss, i), along(v, vs, i), p[i + 1])
      BY <2>2, <2>9
    <3> QED
      BY <1>2, <2>7, <2>8, <3>2, <3>3
  <2>14. OnWay(t, c, q, ws, ts)
    BY <1>1, <2>10, <2>13 DEF OnWay
  <2>15. along(t, ts, n) = along(s, ss, n + 1) /\ along(c, ws, n) = along(v, vs, n + 1)
    BY <2>11, <2>12
  <2>16. Leads(t, c, q, ends)
    BY <1>1, <2>1, <2>10, <2>14, <2>15, LeadsOnAWay
  <2> QED
    BY <2>5, <2>6, <2>16
<1>4. ASSUME k \in DOMAIN Children[v], c \in Values, t \in Schemas, Leads(t, c, q, ends)
      PROVE  Leads(s, v, p, ends)
  <2> HIDE DEF c, t
  <2>1. PICK ws \in [1..n -> Values], ts \in [1..n -> Schemas] :
          /\ OnWay(t, c, q, ws, ts)
          /\ <<along(t, ts, n), along(c, ws, n)>> \in ends
    BY <1>1, <1>4, LeadsOnAWay
  <2>2. \A i \in 1..n : /\ q[i] \in DOMAIN Children[along(c, ws, i - 1)]
                        /\ ws[i] = Children[along(c, ws, i - 1)][q[i]]
                        /\ ts[i] = below(along(t, ts, i - 1), along(c, ws, i - 1), q[i])
    BY <1>1, <2>1 DEF OnWay
  <2>3. PICK vs : vs = [i \in 1..(n + 1) |-> along(c, ws, i - 1)]
    OBVIOUS
  <2>4. PICK ss : ss = [i \in 1..(n + 1) |-> along(t, ts, i - 1)]
    OBVIOUS
  <2>5. \A i \in 0..n : along(c, ws, i) \in Values /\ along(t, ts, i) \in Schemas
    <3>1. \A i \in 0..n : i = 0 \/ i \in 1..n
      OBVIOUS
    <3> QED
      BY <1>4, <2>1, <3>1 DEF along
  <2>6. \A i \in 1..(n + 1) : i - 1 \in 0..n
    OBVIOUS
  <2>7. vs \in [1..(n + 1) -> Values] /\ ss \in [1..(n + 1) -> Schemas]
    BY <2>3, <2>4, <2>5, <2>6
  <2>8. \A i \in 1..(n + 1) : along(v, vs, i) = along(c, ws, i - 1)
                              /\ along(s, ss, i) = along(t, ts, i - 1)
    BY <2>3, <2>4 DEF along
  <2>9. \A i \in 1..(n + 1) :
          /\ p[i] \in DOMAIN Children[along(v, vs, i - 1)]
          /\ vs[i] = Children[along(v, vs, i - 1)][p[i]]
          /\ ss[i] = below(along(s, ss, i - 1), along(v, vs, i - 1), p[i])
    <3> SUFFICES ASSUME NEW i \in 1..(n + 1)
                 PROVE  /\ p[i] \in DOMAIN Children[along(v, vs, i - 1)]
                        /\ vs[i] = Children[along(v, vs, i - 1)][p[i]]
                        /\ ss[i] = below(along(s, ss, i - 1), along(v, vs, i - 1), p[i])
      OBVIOUS
    <3>1. CASE i = 1
      <4>1. along(v, vs, i - 1) = v /\ along(s, ss, i - 1) = s
        BY <3>1 DEF along
      <4>2. along(c, ws, i - 1) = c /\ along(t, ts, i - 1) = t
        BY <3>1 DEF along
      <4> QED
        BY <1>2, <1>4, <2>3, <2>4, <3>1, <4>1, <4>2 DEF c, t
    <3>2. CASE i # 1
      <4>1. PICK j \in 1..n : i = j + 1
        <5>1. i - 1 \in 1..n /\ i = (i - 1) + 1
          BY <3>2
        <5> QED
          BY <5>1
      <4>2. j \in 1..(n + 1) /\ i - 1 = j
        BY <4>1
      <4>3. along(v, vs, j) = along(c, ws, j - 1) /\ along(s, ss, j) = along(t, ts, j - 1)
        BY <2>8, <4>2
      <4>4. vs[i] = ws[j] /\ ss[i] = ts[j]
        <5>1. along(c, ws, j) = ws[j] /\ along(t, ts, j) = ts[j]
          BY <4>1 DEF along
        <5> QED
          BY <2>3, <2>4, <4>2, <5>1
      <4> QED
        BY <1>2, <2>2, <4>1, <4>2, <4>3, <4>4
    <3> QED
      BY <3>1, <3>2
  <2>10. OnWay(s, v, p, vs, ss)
    BY <1>1, <2>7, <2>9 DEF OnWay
  <2>11. along(v, vs, n + 1) = along(c, ws, n) /\ along(s, ss, n + 1) = along(t, ts, n)
    BY <2>8
  <2> QED
    BY <1>1, <2>1, <2>7, <2>10, <2>11, LeadsOnAWay
<1> QED
  BY <1>3, <1>4

\* A path of a place goes through one of its children.
LEMMA LeadsToAChild ==
    ASSUME NEW s \in Schemas, NEW v \in Values, NEW p \in Seq(Keys), p # <<>>, NEW ends,
           Leads(s, v, p, ends)
    PROVE  /\ p[1] \in DOMAIN Children[v]
           /\ Children[v][p[1]] \in Values
           /\ below(s, v, p[1]) \in Schemas
           /\ \E q \in Seq(Keys) : /\ Fronted(p, p[1], q)
                                   /\ Leads(below(s, v, p[1]), Children[v][p[1]], q, ends)
<1>1. PICK q \in Seq(Keys) : Fronted(p, p[1], q)
  BY FrontAndRest
<1> QED
  BY <1>1, LeadsThroughChild

LEMMA ChildrenTypes ==
    ASSUME NEW v \in Values
    PROVE  /\ DOMAIN Children[v] \subseteq Keys
           /\ \A k \in DOMAIN Children[v] : Children[v][k] \in Values
           /\ NoKey \notin DOMAIN Children[v]
<1>1. Children[v] \in UNION {[keys -> Values] : keys \in SUBSET Keys}
  BY VisitorAssumption
<1>2. PICK keys \in SUBSET Keys : Children[v] \in [keys -> Values]
  BY <1>1
<1> QED
  BY <1>2, VisitorAssumption

-----------------------------------------------------------------------------
(***************************************************************************)
(* Calls.                                                                  *)
(***************************************************************************)
\* A call starts out sound, whatever it stops at (Visitor.go 71-85).
LEMMA CallIsSound ==
    ASSUME NEW s \in Schemas, NEW v \in Values, multiError \in BOOLEAN
    PROVE  /\ call(s, v) \in Frame
           /\ call(s, v).schema = s /\ call(s, v).value = v /\ call(s, v).at = NoKey
           /\ FrameSound(call(s, v), multiError)
<1>1. PICK f : f = call(s, v)
  OBVIOUS
<1>2. PICK left : left = IF stopsEarly(v, own(s, v)) THEN {} ELSE DOMAIN Children[v]
  OBVIOUS
<1>3. f = [schema |-> s, value |-> v, at |-> NoKey, me |-> own(s, v), left |-> left]
  BY <1>1, <1>2 DEF call
<1>4. f.schema = s /\ f.value = v /\ f.at = NoKey /\ f.me = own(s, v) /\ f.left = left
  BY <1>3
<1>5. /\ own(s, v) \in Seq(Seq(Keys)) /\ DOMAIN own(s, v) \subseteq {1}
      /\ \A i \in DOMAIN own(s, v) : own(s, v)[i] = <<>> /\ reported(s, v)
      /\ reported(s, v) => 1 \in DOMAIN own(s, v)
  <2>1. CASE reported(s, v)
    <3>1. own(s, v) = << <<>> >>
      BY <2>1 DEF own
    <3> QED
      BY <2>1, <3>1
  <2>2. CASE ~reported(s, v)
    <3>1. own(s, v) = <<>>
      BY <2>2 DEF own
    <3> QED
      BY <2>2, <3>1
  <2> QED
    BY <2>1, <2>2
<1>6. left \subseteq DOMAIN Children[v] /\ left \subseteq Keys /\ NoKey \notin left
  BY <1>2, ChildrenTypes
<1>7. multiError \/ f.me = <<>> => left = DOMAIN Children[v]
  BY <1>2, <1>4 DEF stopsEarly
<1>8. f \in Frame
  BY <1>3, <1>5, <1>6 DEF Frame
<1>9. \A i \in DOMAIN f.me : JSONPointer(f.me[i]) = <<>>
  <2>1. \A r : r = <<>> => JSONPointer(r) = <<>>
    BY DEF JSONPointer
  <2> QED
    BY <1>4, <1>5, <2>1
<1>10. <<s, v>> \in Reporting <=> reported(s, v)
  BY DEF Reporting
<1>11. ErrorsLead(f)
  <2> SUFFICES ASSUME NEW i \in DOMAIN f.me, NEW p, p = JSONPointer(f.me[i])
               PROVE  Leads(s, v, p, Reporting) /\ p = <<>>
    BY <1>4 DEF ErrorsLead, LeadsFrom, Finished
  <2>1. p = <<>> /\ reported(s, v)
    BY <1>4, <1>5, <1>9
  <2> QED
    BY <1>10, <2>1, LeadsNowhere
<1>12. ErrorsOnce(f)
  BY <1>4, <1>5 DEF ErrorsOnce
<1>13. ErrorsAll(f, multiError)
  <2> SUFFICES ASSUME multiError \/ f.me = <<>>, NEW p \in Seq(Keys),
                      Leads(s, v, p, Reporting), Finished(f, p)
               PROVE  \E i \in DOMAIN f.me : JSONPointer(f.me[i]) = p
    BY <1>4 DEF ErrorsAll, LeadsFrom
  <2>1. p = <<>>
    BY <1>4, <1>7, LeadsToAChild DEF Finished, Open
  <2>2. reported(s, v)
    BY <1>10, <2>1, LeadsNowhere
  <2> QED
    BY <1>4, <1>5, <1>9, <2>1, <2>2
<1>14. Unbroken(f, multiError)
  <2> SUFFICES ASSUME multiError, NEW p \in Seq(Keys), Leads(s, v, p, Breaking)
               PROVE  IF p = <<>> THEN left = DOMAIN Children[v] ELSE p[1] \in Open(f)
    BY <1>4 DEF Unbroken, LeadsFrom
  <2> QED
    BY <1>4, <1>7, LeadsToAChild DEF Open
<1>15. FrameSound(f, multiError)
  BY <1>4, <1>6, <1>11, <1>12, <1>13, <1>14 DEF FrameSound
<1> QED
  BY <1>1, <1>4, <1>8, <1>15

LEMMA InitIInv == Init => IInv
<1> SUFFICES ASSUME Init PROVE IInv
  OBVIOUS
<1>1. schema \in Schemas /\ value \in Values /\ multiError \in BOOLEAN
      /\ errors = <<>> /\ outcome = "visiting"
  BY DEF Init
<1>2. PICK f \in Frame : /\ stack = <<f>>
                         /\ f.schema = schema /\ f.value = value /\ f.at = NoKey
                         /\ FrameSound(f, multiError)
  BY <1>1, CallIsSound DEF Init
<1>3. Len(stack) = 1 /\ DOMAIN stack = {1} /\ stack[1] = f /\ stack \in Seq(Frame) /\ stack # <<>>
  BY <1>2
<1>4. TypeOK
  BY <1>1, <1>3 DEF TypeOK
<1>5. Chain
  BY <1>2, <1>3 DEF Chain, top
<1> QED
  BY <1>1, <1>2, <1>3, <1>4, <1>5 DEF IInv, Returned, Panicked

\* What an action on the call on top finds.
LEMMA TopState ==
    ASSUME IInv, idle
    PROVE  /\ Len(stack) \in Nat \ {0} /\ DOMAIN stack = 1..Len(stack)
           /\ stack \in Seq(Frame) /\ top \in Frame /\ top = stack[Len(stack)]
           /\ top.schema \in Schemas /\ top.value \in Values /\ top.left \subseteq Keys
           /\ top.me \in Seq(Seq(Keys)) /\ top.at = NoKey
           /\ FrameSound(top, multiError) /\ multiError \in BOOLEAN
           /\ schema \in Schemas /\ value \in Values /\ errors \in Seq(Seq(Keys))
<1>1. /\ stack \in Seq(Frame) /\ stack # <<>> /\ multiError \in BOOLEAN
      /\ schema \in Schemas /\ value \in Values /\ errors \in Seq(Seq(Keys))
  BY DEF IInv, TypeOK, idle
<1>2. Len(stack) \in Nat \ {0} /\ DOMAIN stack = 1..Len(stack) /\ Len(stack) \in DOMAIN stack
  BY <1>1
<1>3. top \in Frame /\ top = stack[Len(stack)]
  BY <1>1, <1>2 DEF top
<1>4. /\ top.schema \in Schemas /\ top.value \in Values /\ top.left \subseteq Keys
      /\ top.me \in Seq(Seq(Keys))
  BY <1>3 DEF Frame
<1>5. FrameSound(top, multiError)
  BY <1>2, <1>3 DEF IInv
<1> QED
  BY <1>1, <1>2, <1>3, <1>4, <1>5 DEF idle

\* A frame whose errors stay stays sound if what it takes as finished leads nowhere.
LEMMA StaysSound ==
    ASSUME NEW f \in Frame, NEW g \in Frame, NEW multi \in BOOLEAN, FrameSound(f, multi),
           g.schema = f.schema, g.value = f.value, g.me = f.me,
           g.left \subseteq f.left, g.at \notin g.left,
           Open(g) \cap Keys \subseteq Open(f),
           \A k \in Open(f) \ Open(g) :
             k \in DOMAIN Children[f.value] => below(f.schema, f.value, k) \notin Schemas,
           <<f.schema, f.value>> \notin Breaking
    PROVE  FrameSound(g, multi)
<1>1. /\ f.schema \in Schemas /\ f.value \in Values /\ f.me \in Seq(Seq(Keys))
      /\ f.left \subseteq DOMAIN Children[f.value]
  BY DEF Frame, FrameSound
<1>2. ASSUME NEW p \in Seq(Keys), Finished(f, p)
      PROVE  Finished(g, p)
  BY <1>2, FrontAndRest DEF Finished
<1>3. ASSUME NEW p \in Seq(Keys), NEW ends, Leads(f.schema, f.value, p, ends), Finished(g, p)
      PROVE  Finished(f, p)
  BY <1>1, <1>3, LeadsToAChild DEF Finished
<1>4. \A i \in DOMAIN f.me : JSONPointer(f.me[i]) \in Seq(Keys)
  <2>1. \A r \in Seq(Keys) : JSONPointer(r) \in Seq(Keys)
    <3> SUFFICES ASSUME NEW r \in Seq(Keys) PROVE JSONPointer(r) \in Seq(Keys)
      OBVIOUS
    <3>1. CASE Keys = {}
      <4>1. r = <<>> /\ Len(r) = 0
        BY <3>1
      <4> QED
        BY <4>1 DEF JSONPointer
    <3>2. CASE Keys # {}
      BY <3>2, MarkedInFront
    <3> QED
      BY <3>1, <3>2
  <2> QED
    BY <1>1, <2>1
<1>5. ErrorsLead(g) /\ ErrorsOnce(g)
  BY <1>2, <1>4 DEF FrameSound, ErrorsLead, ErrorsOnce, LeadsFrom
<1>6. ErrorsAll(g, multi)
  BY <1>3 DEF FrameSound, ErrorsAll, LeadsFrom
<1>7. Unbroken(g, multi)
  <2> SUFFICES ASSUME multi, NEW p \in Seq(Keys), Leads(f.schema, f.value, p, Breaking)
               PROVE  p # <<>> /\ p[1] \in Open(g)
    BY DEF Unbroken, LeadsFrom
  <2>1. p # <<>>
    BY <1>1, LeadsNowhere
  <2>2. p[1] \in Open(f)
    BY <2>1 DEF FrameSound, Unbroken, LeadsFrom
  <2> QED
    BY <1>1, <2>1, <2>2, LeadsToAChild
<1> QED
  BY <1>1, <1>5, <1>6, <1>7 DEF FrameSound

\* Visiting a child: the caller waits at its key, the call starts out sound.
LEMMA VisitChildStep ==
    ASSUME IInv, idle, NEW k \in top.left, NEW s \in Schemas,
           s = below(top.schema, top.value, k), Visit(k, s),
           UNCHANGED <<schema, value, multiError, errors, outcome>>
    PROVE  IInv'
<1>1. PICK n \in Nat \ {0} : n = Len(stack)
  BY TopState
<1>2. PICK f \in Frame : f = top
  BY TopState
<1>3. /\ stack \in Seq(Frame) /\ DOMAIN stack = 1..n /\ stack[n] = f /\ f.at = NoKey
      /\ f.schema \in Schemas /\ f.value \in Values /\ f.left \subseteq Keys
      /\ FrameSound(f, multiError) /\ multiError \in BOOLEAN
  BY <1>1, <1>2, TopState
<1>4. k \in f.left /\ k \in Keys /\ k \in DOMAIN Children[f.value]
  BY <1>2, <1>3 DEF FrameSound
<1>5. Children[f.value][k] \in Values /\ k # NoKey
  BY <1>3, <1>4, ChildrenTypes
<1>6. PICK c \in Frame : /\ c = call(s, Children[f.value][k])
                         /\ c.schema = s /\ c.value = Children[f.value][k] /\ c.at = NoKey
                         /\ FrameSound(c, multiError)
  BY <1>3, <1>5, CallIsSound
<1>7. PICK g \in Frame : /\ g = [f EXCEPT !.left = @ \ {k}, !.at = k]
                         /\ g.schema = f.schema /\ g.value = f.value /\ g.me = f.me
                         /\ g.left = f.left \ {k} /\ g.at = k
  <2> DEFINE g == [f EXCEPT !.left = @ \ {k}, !.at = k]
  <2>1. g \in Frame
    BY <1>4 DEF Frame
  <2>2. /\ g.schema = f.schema /\ g.value = f.value /\ g.me = f.me
        /\ g.left = f.left \ {k} /\ g.at = k
    BY DEF Frame
  <2> QED
    BY <2>1, <2>2
<1>8. FrameSound(g, multiError)
  <2>1. Open(g) = (f.left \ {k}) \cup {k} /\ Open(f) = f.left \cup {NoKey}
    BY <1>3, <1>7 DEF Open
  <2>2. Open(g) \subseteq Open(f)
    BY <1>4, <2>1
  <2>3. \A x \in Open(f) \ Open(g) : x = NoKey
    BY <1>4, <2>1
  <2>4. NoKey \notin DOMAIN Children[f.value]
    BY <1>3, ChildrenTypes
  <2>5. <<f.schema, f.value>> \notin Breaking
    <3>1. below(f.schema, f.value, k) # NoSchema
      BY <1>2, VisitorAssumption
    <3> QED
      BY <3>1 DEF Breaking, below
  <2>6. \A x \in Open(f) \ Open(g) :
          x \in DOMAIN Children[f.value] => below(f.schema, f.value, x) \notin Schemas
    BY <2>3, <2>4
  <2>7. Open(g) \cap Keys \subseteq Open(f) /\ g.left \subseteq f.left /\ g.at \notin g.left
    BY <1>7, <2>2
  <2>8. FrameSound(f, multiError) /\ multiError \in BOOLEAN
    BY <1>3
  <2>9. g.schema = f.schema /\ g.value = f.value /\ g.me = f.me
    BY <1>7
  <2> QED
    BY <2>5, <2>6, <2>7, <2>8, <2>9, StaysSound
<1>9. /\ stack' \in Seq(Frame) /\ Len(stack') = n + 1 /\ DOMAIN stack' = 1..(n + 1)
      /\ stack'[n + 1] = c /\ stack'[n] = g
      /\ \A i \in 1..(n - 1) : stack'[i] = stack[i]
  <2> DEFINE changed == [stack EXCEPT ![n].left = @ \ {k}, ![n].at = k]
  <2>1. stack' = Append(changed, c)
    BY <1>1, <1>2, <1>6 DEF Visit
  <2>2. changed = [stack EXCEPT ![n] = g]
    BY <1>1, <1>3, <1>7
  <2> HIDE DEF changed
  <2>3. /\ changed \in Seq(Frame) /\ Len(changed) = n /\ changed[n] = g
        /\ \A i \in 1..(n - 1) : changed[i] = stack[i]
    BY <1>1, <1>3, <2>2
  <2> QED
    BY <2>1, <2>3
<1>10. TypeOK'
  <2>1. stack' # <<>>
    BY <1>9
  <2> QED
    BY <1>9, <2>1 DEF IInv, TypeOK
<1>11. Chain'
  <2>1. /\ stack[1].schema = schema /\ stack[1].value = value
        /\ \A i \in 1..(n - 1) : Calls(stack[i], stack[i + 1])
    BY <1>1, <1>3 DEF IInv, Chain
  <2>2. Calls(g, c)
    BY <1>2, <1>4, <1>6, <1>7 DEF Calls
  <2>3. \A h : Calls(h, f) => Calls(h, g)
    BY <1>7 DEF Calls
  <2>4. \A i \in 1..n : Calls(stack'[i], stack'[i + 1])
    <3> SUFFICES ASSUME NEW i \in 1..n
                 PROVE  Calls(stack'[i], stack'[i + 1])
      OBVIOUS
    <3>1. CASE i = n
      BY <1>9, <2>2, <3>1
    <3>2. CASE i = n - 1
      <4>1. i \in 1..(n - 1) /\ i + 1 = n
        BY <3>2
      <4> QED
        BY <1>3, <1>9, <2>1, <2>3, <4>1
    <3>3. CASE i < n - 1
      <4>1. i \in 1..(n - 1) /\ i + 1 \in 1..(n - 1)
        BY <3>3
      <4> QED
        BY <1>9, <2>1, <4>1
    <3> QED
      BY <3>1, <3>2, <3>3
  <2>5. stack'[1].schema = schema /\ stack'[1].value = value
    <3>1. n = 1 \/ 1 \in 1..(n - 1)
      OBVIOUS
    <3> QED
      BY <1>3, <1>7, <1>9, <2>1, <3>1
  <2>6. stack'[Len(stack')].at = NoKey /\ (Len(stack') - 1) = n
    BY <1>6, <1>9
  <2> QED
    BY <2>4, <2>5, <2>6 DEF Chain, top
<1>12. \A i \in DOMAIN stack' : FrameSound(stack'[i], multiError')
  <2>1. \A i \in 1..(n + 1) : i = n + 1 \/ i = n \/ i \in 1..(n - 1)
    OBVIOUS
  <2>2. \A i \in 1..(n - 1) : FrameSound(stack[i], multiError)
    BY <1>3 DEF IInv
  <2> QED
    BY <1>6, <1>8, <1>9, <2>1, <2>2
<1>13. Returned' /\ Panicked'
  BY DEF idle, Returned, Panicked
<1> QED
  BY <1>10, <1>11, <1>12, <1>13 DEF IInv

LEMMA VisitStep ==
    IInv /\ (\E k \in Keys : VisitItem(k) \/ VisitField(k)) => IInv'
<1> SUFFICES ASSUME IInv, NEW k \in Keys, VisitItem(k) \/ VisitField(k)
             PROVE  IInv'
  OBVIOUS
<1>1. idle /\ k \in top.left /\ UNCHANGED <<schema, value, multiError, errors, outcome>>
  BY DEF VisitItem, VisitField
<1>2. top.schema \in Schemas
  BY <1>1, TopState
<1>3. CASE VisitItem(k)
  <2>1. /\ Visit(k, Items[top.schema]) /\ Items[top.schema] \in Schemas
        /\ Items[top.schema] = below(top.schema, top.value, k)
    BY <1>2, <1>3, VisitorAssumption DEF VisitItem, below
  <2> QED
    BY <1>1, <2>1, VisitChildStep
<1>4. CASE VisitField(k)
  <2>1. /\ Visit(k, Properties[top.schema][k])
        /\ Properties[top.schema][k] = below(top.schema, top.value, k)
        /\ k \in DOMAIN Properties[top.schema]
    BY <1>4 DEF VisitField, below
  <2>2. Properties[top.schema][k] \in Schemas
    <3>1. Properties[top.schema] \in UNION {[names -> Schemas] : names \in SUBSET Keys}
      BY <1>2, VisitorAssumption
    <3>2. PICK names \in SUBSET Keys : Properties[top.schema] \in [names -> Schemas]
      BY <3>1
    <3> QED
      BY <2>1, <3>2
  <2> QED
    BY <1>1, <2>1, <2>2, VisitChildStep
<1> QED
  BY <1>3, <1>4

\* A field the schema does not know leads nowhere.
LEMMA SkipFieldStep == IInv /\ (\E k \in Keys : SkipField(k)) => IInv'
<1> SUFFICES ASSUME IInv, NEW k \in Keys, SkipField(k)
             PROVE  IInv'
  OBVIOUS
<1>1. /\ idle /\ Shape[top.value] = "object" /\ k \in top.left
      /\ k \notin DOMAIN Properties[top.schema]
      /\ stack' = [stack EXCEPT ![Len(stack)].left = top.left \ {k}]
      /\ UNCHANGED <<schema, value, multiError, errors, outcome>>
  BY DEF SkipField, leftAfterSkip
<1>2. PICK n \in Nat \ {0} : n = Len(stack)
  BY <1>1, TopState
<1>3. PICK f \in Frame : f = top
  BY <1>1, TopState
<1>4. /\ stack \in Seq(Frame) /\ DOMAIN stack = 1..n /\ stack[n] = f /\ f.at = NoKey
      /\ f.schema \in Schemas /\ f.value \in Values /\ f.left \subseteq Keys
      /\ FrameSound(f, multiError)
  BY <1>1, <1>2, <1>3, TopState
<1>5. PICK g \in Frame : /\ g = [f EXCEPT !.left = f.left \ {k}]
                         /\ g.schema = f.schema /\ g.value = f.value /\ g.me = f.me
                         /\ g.left = f.left \ {k} /\ g.at = NoKey
  <2> DEFINE g == [f EXCEPT !.left = f.left \ {k}]
  <2>1. g \in Frame
    BY <1>4 DEF Frame
  <2>2. /\ g.schema = f.schema /\ g.value = f.value /\ g.me = f.me
        /\ g.left = f.left \ {k} /\ g.at = NoKey
    BY <1>4 DEF Frame
  <2> QED
    BY <2>1, <2>2
<1>6. FrameSound(g, multiError)
  <2>1. Open(g) = (f.left \ {k}) \cup {NoKey} /\ Open(f) = f.left \cup {NoKey}
    BY <1>4, <1>5 DEF Open
  <2>2. \A x \in Open(f) \ Open(g) : x = k
    BY <2>1
  <2>3. below(f.schema, f.value, k) \notin Schemas
    BY <1>1, <1>3, VisitorAssumption DEF below
  <2>4. <<f.schema, f.value>> \notin Breaking
    BY <1>1, <1>3 DEF Breaking
  <2>5. \A x \in Open(f) \ Open(g) :
          x \in DOMAIN Children[f.value] => below(f.schema, f.value, x) \notin Schemas
    BY <2>2, <2>3
  <2>6. Open(g) \cap Keys \subseteq Open(f) /\ g.left \subseteq f.left /\ g.at \notin g.left
    BY <1>4, <1>5, <2>1, VisitorAssumption
  <2>7. FrameSound(f, multiError) /\ multiError \in BOOLEAN
    BY <1>1, <1>4, TopState
  <2>8. g.schema = f.schema /\ g.value = f.value /\ g.me = f.me
    BY <1>5
  <2> QED
    BY <2>4, <2>5, <2>6, <2>7, <2>8, StaysSound
<1>7. /\ stack' \in Seq(Frame) /\ Len(stack') = n /\ DOMAIN stack' = 1..n /\ stack'[n] = g
      /\ \A i \in 1..(n - 1) : stack'[i] = stack[i]
  <2>1. stack' = [stack EXCEPT ![n] = g]
    BY <1>1, <1>2, <1>3, <1>4, <1>5
  <2> QED
    BY <1>2, <1>4, <2>1
<1>8. TypeOK'
  <2>1. stack' # <<>>
    BY <1>7
  <2> QED
    BY <1>1, <1>7, <2>1 DEF IInv, TypeOK
<1>9. Chain'
  <2>1. /\ stack[1].schema = schema /\ stack[1].value = value
        /\ \A i \in 1..(n - 1) : Calls(stack[i], stack[i + 1])
    BY <1>2, <1>4 DEF IInv, Chain
  <2>2. \A h : Calls(h, f) => Calls(h, g)
    BY <1>5 DEF Calls
  <2>3. \A i \in 1..(n - 1) : Calls(stack'[i], stack'[i + 1])
    <3> SUFFICES ASSUME NEW i \in 1..(n - 1)
                 PROVE  Calls(stack'[i], stack'[i + 1])
      OBVIOUS
    <3>1. i + 1 = n \/ i + 1 \in 1..(n - 1)
      OBVIOUS
    <3> QED
      BY <1>4, <1>7, <2>1, <2>2, <3>1
  <2>4. stack'[1].schema = schema /\ stack'[1].value = value
    <3>1. n = 1 \/ 1 \in 1..(n - 1)
      OBVIOUS
    <3> QED
      BY <1>4, <1>5, <1>7, <2>1, <3>1
  <2> QED
    BY <1>1, <1>5, <1>7, <2>3, <2>4 DEF Chain, top
<1>10. \A i \in DOMAIN stack' : FrameSound(stack'[i], multiError')
  <2>1. \A i \in 1..n : i = n \/ i \in 1..(n - 1)
    OBVIOUS
  <2>2. \A i \in 1..(n - 1) : FrameSound(stack[i], multiError)
    BY <1>4 DEF IInv
  <2>3. multiError' = multiError
    BY <1>1
  <2> QED
    BY <1>6, <1>7, <2>1, <2>2, <2>3
<1>11. Returned' /\ Panicked'
  BY <1>1 DEF idle, Returned, Panicked
<1> QED
  BY <1>8, <1>9, <1>10, <1>11 DEF IInv

\* Where a schema has no items, the keys the open calls are at lead there.
LEMMA NoItemsStep == IInv /\ NoItems => IInv'
<1> SUFFICES ASSUME IInv, NoItems
             PROVE  IInv'
  OBVIOUS
<1>1. /\ idle /\ Shape[top.value] = "array" /\ top.left # {} /\ Items[top.schema] = NoSchema
      /\ outcome' = "panicked" /\ UNCHANGED <<schema, value, multiError, stack, errors>>
  BY DEF NoItems, dereferencesItems
<1>2. PICK n \in Nat \ {0} : n = Len(stack)
  BY <1>1, TopState
<1>3. /\ stack \in Seq(Frame) /\ DOMAIN stack = 1..n /\ stack[n] = top
      /\ top.schema \in Schemas /\ top.value \in Values /\ FrameSound(top, multiError)
      /\ schema \in Schemas /\ value \in Values
  BY <1>1, <1>2, TopState
<1>4. <<top.schema, top.value>> \in Breaking
  BY <1>1, <1>3 DEF Breaking, FrameSound
<1>5. /\ stack[1].schema = schema /\ stack[1].value = value
      /\ \A i \in 1..(n - 1) : Calls(stack[i], stack[i + 1])
  BY <1>2, <1>3 DEF IInv, Chain
<1>6. \A i \in 1..n : stack[i].schema \in Schemas /\ stack[i].value \in Values
  <2>1. \A i \in 1..n : stack[i] \in Frame
    BY <1>3
  <2> QED
    BY <2>1 DEF Frame
<1>7. \A i \in 1..(n - 1) : /\ i \in 1..n /\ i + 1 \in 1..n /\ i - 1 \in 0..(n - 1)
                            /\ (i - 1) + 1 = i
  OBVIOUS
<1> DEFINE path == [i \in 1..(n - 1) |-> stack[i].at]
           vs == [i \in 1..(n - 1) |-> stack[i + 1].value]
           ss == [i \in 1..(n - 1) |-> stack[i + 1].schema]
<1>8. \A i \in 1..(n - 1) : stack[i].at \in Keys
  BY <1>5, <1>6, <1>7, ChildrenTypes DEF Calls
<1>9. path \in Seq(Keys) /\ Len(path) = n - 1
  BY <1>8
<1>10. vs \in [1..(n - 1) -> Values] /\ ss \in [1..(n - 1) -> Schemas]
  BY <1>6, <1>7
<1>11. \A i \in 0..(n - 1) : /\ along(value, vs, i) = stack[i + 1].value
                             /\ along(schema, ss, i) = stack[i + 1].schema
  <2>1. \A i \in 0..(n - 1) : i = 0 \/ i \in 1..(n - 1)
    OBVIOUS
  <2> QED
    BY <1>5, <2>1 DEF along
<1>12. \A i \in 1..(n - 1) :
         /\ path[i] \in DOMAIN Children[along(value, vs, i - 1)]
         /\ vs[i] = Children[along(value, vs, i - 1)][path[i]]
         /\ ss[i] = below(along(schema, ss, i - 1), along(value, vs, i - 1), path[i])
  <2> SUFFICES ASSUME NEW i \in 1..(n - 1)
               PROVE  /\ path[i] \in DOMAIN Children[along(value, vs, i - 1)]
                      /\ vs[i] = Children[along(value, vs, i - 1)][path[i]]
                      /\ ss[i] = below(along(schema, ss, i - 1), along(value, vs, i - 1), path[i])
    OBVIOUS
  <2>1. along(value, vs, i - 1) = stack[i].value /\ along(schema, ss, i - 1) = stack[i].schema
    BY <1>7, <1>11
  <2>2. path[i] = stack[i].at /\ vs[i] = stack[i + 1].value /\ ss[i] = stack[i + 1].schema
    OBVIOUS
  <2> QED
    BY <1>5, <2>1, <2>2 DEF Calls
<1>13. along(value, vs, n - 1) = top.value /\ along(schema, ss, n - 1) = top.schema
  <2>1. n - 1 \in 0..(n - 1) /\ (n - 1) + 1 = n
    OBVIOUS
  <2> QED
    BY <1>3, <1>11, <2>1
<1> HIDE DEF path, vs, ss
<1>14. OnWay(schema, value, path, vs, ss)
  BY <1>9, <1>10, <1>12 DEF OnWay
<1>15. Leads(schema, value, path, Breaking)
  BY <1>4, <1>9, <1>10, <1>13, <1>14, LeadsOnAWay
<1>16. Panicked'
  BY <1>1, <1>9, <1>15 DEF Panicked
<1>17. TypeOK' /\ Chain' /\ Returned'
  BY <1>1 DEF IInv, TypeOK, Chain, top, Returned
<1>18. \A i \in DOMAIN stack' : FrameSound(stack'[i], multiError')
  BY <1>1 DEF IInv
<1> QED
  BY <1>16, <1>17, <1>18 DEF IInv

\* The indexes of a list of length a and of one of length b behind it.
LEMMA JoinedIndexes ==
    ASSUME NEW a \in Nat, NEW b \in Nat
    PROVE  /\ \A i \in 1..a : i \in 1..(a + b) /\ i <= a
           /\ \A j \in 1..b : a + j \in 1..(a + b) /\ ~(a + j <= a) /\ (a + j) - a = j
           /\ \A i \in 1..(a + b) : i \in 1..a \/ \E j \in 1..b : i = a + j
<1>1. ASSUME NEW i \in 1..(a + b)
      PROVE  i \in 1..a \/ \E j \in 1..b : i = a + j
  <2>1. CASE i <= a
    BY <2>1
  <2>2. CASE ~(i <= a)
    <3>1. i - a \in 1..b /\ i = a + (i - a)
      BY <2>2
    <3> QED
      BY <3>1
  <2> QED
    BY <2>1, <2>2
<1> QED
  BY <1>1

\* u is s with the errors of t, marked with k, behind.
Gathered(u, s, t, k) ==
    /\ Len(u) = Len(s) + Len(t)
    /\ \A i \in 1..Len(s) : u[i] = s[i]
    /\ \A j \in 1..Len(t) : u[Len(s) + j] = Append(t[j], k)

LEMMA MarkedBehind ==
    ASSUME NEW s \in Seq(Seq(Keys)), NEW t \in Seq(Seq(Keys)), NEW k \in Keys
    PROVE  /\ s \o marked(t, k) \in Seq(Seq(Keys))
           /\ Gathered(s \o marked(t, k), s, t, k)
<1>0. PICK a \in Nat, b \in Nat : Len(s) = a /\ Len(t) = b
  OBVIOUS
<1>1. PICK found : found = marked(t, k)
  OBVIOUS
<1>2. found = [j \in 1..b |-> Append(t[j], k)]
  BY <1>0, <1>1 DEF marked
<1>3. \A j \in 1..b : Append(t[j], k) \in Seq(Keys)
  BY <1>0
<1>4. found \in Seq(Seq(Keys)) /\ Len(found) = b /\ \A j \in 1..b : found[j] = Append(t[j], k)
  BY <1>2, <1>3
<1>5. PICK u : u = s \o found
  OBVIOUS
<1>6. u \in Seq(Seq(Keys)) /\ Len(u) = a + b /\ DOMAIN u = 1..(a + b)
  <2>1. u \in Seq(Seq(Keys))
    BY <1>4, <1>5
  <2>2. Len(u) = a + b
    <3>1. Len(s \o found) = Len(s) + Len(found)
      BY <1>4, ConcatProperties
    <3> QED
      BY <1>0, <1>4, <1>5, <3>1
  <2> QED
    BY <2>1, <2>2
<1>7. \A i \in 1..(a + b) : u[i] = IF i <= a THEN s[i] ELSE found[i - a]
  BY <1>0, <1>4, <1>5
<1>8. \A i \in 1..a : u[i] = s[i]
  BY <1>7, JoinedIndexes
<1>9. \A j \in 1..b : u[a + j] = Append(t[j], k)
  BY <1>4, <1>7, JoinedIndexes
<1>10. Gathered(u, s, t, k)
  BY <1>0, <1>6, <1>8, <1>9 DEF Gathered
<1> QED
  BY <1>1, <1>5, <1>6, <1>10

\* The errors a call found, with its key in front, are those of the caller's child.
LEMMA ReturnSound ==
    ASSUME NEW f \in Frame, NEW c \in Frame, NEW g \in Frame, NEW multi \in BOOLEAN,
           Calls(f, c), FrameSound(f, multi), FrameSound(c, multi), c.left = {}, c.at = NoKey,
           g.schema = f.schema, g.value = f.value, g.at = NoKey,
           Gathered(g.me, f.me, c.me, f.at), g.left \subseteq f.left, multi \/ g.me = <<>> => g.left = f.left
    PROVE  FrameSound(g, multi)
<1>1. PICK k : k = f.at
  OBVIOUS
<1>2. /\ f.schema \in Schemas /\ f.value \in Values /\ f.me \in Seq(Seq(Keys))
      /\ c.schema \in Schemas /\ c.value \in Values /\ c.me \in Seq(Seq(Keys))
      /\ f.left \subseteq DOMAIN Children[f.value]
  BY DEF Frame, FrameSound
<1>3. /\ k \in DOMAIN Children[f.value] /\ k \in Keys /\ k # NoKey /\ k \notin f.left
      /\ c.value = Children[f.value][k] /\ c.schema = below(f.schema, f.value, k)
  BY <1>1, <1>2, ChildrenTypes DEF Calls, FrameSound
<1>4. Open(g) = g.left \cup {NoKey} /\ Open(f) = f.left \cup {k} /\ Open(c) = {NoKey}
  BY <1>1 DEF Open
<1>0. PICK a \in Nat, b \in Nat : Len(f.me) = a /\ Len(c.me) = b
  BY <1>2
<1>5. g.me \in Seq(Seq(Keys)) /\ Len(g.me) = a + b
  BY <1>0 DEF Frame, Gathered
<1>6. DOMAIN f.me = 1..a /\ DOMAIN c.me = 1..b /\ DOMAIN g.me = 1..(a + b)
  BY <1>0, <1>2, <1>5
<1>7. \A i \in 1..a : g.me[i] = f.me[i]
  BY <1>0 DEF Gathered
<1>8. \A j \in 1..b : a + j \in 1..(a + b) /\ g.me[a + j] = Append(c.me[j], k)
  BY <1>0, <1>1, JoinedIndexes DEF Gathered
<1>10. \A i \in 1..(a + b) : i \in 1..a \/ \E j \in 1..b : i = a + j
  BY JoinedIndexes
<1>11. \A i \in 1..a : i \in 1..(a + b)
  BY JoinedIndexes
<1>12. \A i \in 1..a : /\ JSONPointer(g.me[i]) = JSONPointer(f.me[i])
                       /\ JSONPointer(g.me[i]) \in Seq(Keys)
                       /\ LeadsFrom(f, JSONPointer(g.me[i]), Reporting)
                       /\ Finished(f, JSONPointer(g.me[i]))
  <2>1. \A i \in 1..a : g.me[i] = f.me[i] /\ f.me[i] \in Seq(Keys)
    BY <1>2, <1>6, <1>7
  <2>2. \A r \in Seq(Keys) : JSONPointer(r) \in Seq(Keys)
    BY <1>3, MarkedInFront
  <2>3. \A i \in 1..a : /\ LeadsFrom(f, JSONPointer(f.me[i]), Reporting)
                        /\ Finished(f, JSONPointer(f.me[i]))
    BY <1>6 DEF FrameSound, ErrorsLead
  <2> QED
    BY <2>1, <2>2, <2>3
<1>13. \A j \in 1..b : /\ JSONPointer(c.me[j]) \in Seq(Keys)
                       /\ JSONPointer(g.me[a + j]) \in Seq(Keys)
                       /\ Fronted(JSONPointer(g.me[a + j]), k, JSONPointer(c.me[j]))
                       /\ LeadsFrom(c, JSONPointer(c.me[j]), Reporting)
  <2> SUFFICES ASSUME NEW j \in 1..b
               PROVE  /\ JSONPointer(c.me[j]) \in Seq(Keys)
                      /\ JSONPointer(g.me[a + j]) \in Seq(Keys)
                      /\ Fronted(JSONPointer(g.me[a + j]), k, JSONPointer(c.me[j]))
                      /\ LeadsFrom(c, JSONPointer(c.me[j]), Reporting)
    OBVIOUS
  <2>1. c.me[j] \in Seq(Keys) /\ g.me[a + j] = Append(c.me[j], k) /\ g.me[a + j] \in Seq(Keys)
    <3>1. c.me[j] \in Seq(Keys)
      BY <1>2, <1>6
    <3>2. g.me[a + j] = Append(c.me[j], k)
      BY <1>8
    <3> QED
      BY <1>3, <3>1, <3>2
  <2>2. /\ JSONPointer(c.me[j]) \in Seq(Keys) /\ JSONPointer(g.me[a + j]) \in Seq(Keys)
        /\ Fronted(JSONPointer(g.me[a + j]), k, JSONPointer(c.me[j]))
    BY <1>3, <2>1, MarkedInFront
  <2>3. LeadsFrom(c, JSONPointer(c.me[j]), Reporting)
    BY <1>6 DEF FrameSound, ErrorsLead
  <2> QED
    BY <2>2, <2>3
<1>14. \A p, q \in Seq(Keys) : Fronted(p, k, q) => p # <<>> /\ p[1] = k
  BY DEF Fronted
<1>15. \A p, q \in Seq(Keys) : \A ends : Fronted(p, k, q) =>
          (LeadsFrom(f, p, ends) <=> LeadsFrom(c, q, ends))
  <2> SUFFICES ASSUME NEW p \in Seq(Keys), NEW q \in Seq(Keys), NEW ends, Fronted(p, k, q)
               PROVE  LeadsFrom(f, p, ends) <=> LeadsFrom(c, q, ends)
    OBVIOUS
  <2> QED
    BY <1>2, <1>3, LeadsThroughChild DEF LeadsFrom
<1>21. \A p, p2, q, q2 \in Seq(Keys) :
          Fronted(p, k, q) /\ Fronted(p2, k, q2) => (p = p2 <=> q = q2)
  <2> SUFFICES ASSUME NEW p \in Seq(Keys), NEW p2 \in Seq(Keys), NEW q \in Seq(Keys),
                      NEW q2 \in Seq(Keys), Fronted(p, k, q), Fronted(p2, k, q2)
               PROVE  p = p2 <=> q = q2
    OBVIOUS
  <2> QED
    BY FrontedEqual
<1>16. ErrorsLead(g)
  <2>1. ASSUME NEW i \in 1..a
        PROVE  /\ LeadsFrom(g, JSONPointer(g.me[i]), Reporting)
               /\ Finished(g, JSONPointer(g.me[i]))
    <3>1. PICK p \in Seq(Keys) : p = JSONPointer(g.me[i])
      BY <1>12
    <3>2. LeadsFrom(g, p, Reporting) /\ Finished(f, p)
      BY <1>12, <3>1 DEF LeadsFrom
    <3>3. p # <<>> => p[1] \in Keys
      BY FrontAndRest
    <3>4. NoKey \notin Keys
      BY VisitorAssumption
    <3>5. Finished(g, p)
      BY <1>4, <3>2, <3>3, <3>4 DEF Finished
    <3> QED
      BY <3>1, <3>2, <3>5
  <2>2. ASSUME NEW j \in 1..b
        PROVE  /\ LeadsFrom(g, JSONPointer(g.me[a + j]), Reporting)
               /\ Finished(g, JSONPointer(g.me[a + j]))
    <3>1. LeadsFrom(f, JSONPointer(g.me[a + j]), Reporting)
      BY <1>13, <1>15
    <3>2. JSONPointer(g.me[a + j])[1] = k
      BY <1>13, <1>14
    <3>3. k \notin Open(g)
      BY <1>3, <1>4
    <3> QED
      BY <3>1, <3>2, <3>3 DEF LeadsFrom, Finished
  <2> QED
    BY <1>6, <1>10, <2>1, <2>2 DEF ErrorsLead
<1>17. ErrorsOnce(g)
  <2>1. \A i \in 1..a, j \in 1..b : JSONPointer(g.me[i]) # JSONPointer(g.me[a + j])
    <3> SUFFICES ASSUME NEW i \in 1..a, NEW j \in 1..b,
                        JSONPointer(g.me[i]) = JSONPointer(g.me[a + j])
                 PROVE  FALSE
      OBVIOUS
    <3>1. JSONPointer(g.me[i]) # <<>> /\ JSONPointer(g.me[i])[1] = k
      BY <1>13, <1>14
    <3> QED
      BY <1>4, <1>12, <3>1 DEF Finished
  <2>2. \A i, j \in 1..a : JSONPointer(g.me[i]) = JSONPointer(g.me[j]) => i = j
    BY <1>6, <1>12 DEF FrameSound, ErrorsOnce
  <2>3. \A i, j \in 1..b : JSONPointer(g.me[a + i]) = JSONPointer(g.me[a + j]) => i = j
    <3> SUFFICES ASSUME NEW i \in 1..b, NEW j \in 1..b,
                        JSONPointer(g.me[a + i]) = JSONPointer(g.me[a + j])
                 PROVE  i = j
      OBVIOUS
    <3>1. JSONPointer(c.me[i]) = JSONPointer(c.me[j])
      <4>1. PICK q \in Seq(Keys), q2 \in Seq(Keys) :
              q = JSONPointer(c.me[i]) /\ q2 = JSONPointer(c.me[j])
        BY <1>13
      <4>2. PICK p \in Seq(Keys) : p = JSONPointer(g.me[a + i]) /\ p = JSONPointer(g.me[a + j])
        BY <1>13
      <4>3. Fronted(p, k, q) /\ Fronted(p, k, q2)
        BY <1>13, <4>1, <4>2
      <4>4. q = q2
        BY <1>21, <4>3
      <4> QED
        BY <4>1, <4>4
    <3> QED
      BY <1>6, <3>1 DEF FrameSound, ErrorsOnce
  <2> SUFFICES ASSUME NEW i \in 1..(a + b), NEW j \in 1..(a + b),
                      JSONPointer(g.me[i]) = JSONPointer(g.me[j])
               PROVE  i = j
    BY <1>6 DEF ErrorsOnce
  <2>4. CASE i \in 1..a /\ j \in 1..a
    BY <2>2, <2>4
  <2>5. CASE i \in 1..a /\ j \notin 1..a
    <3>1. PICK y \in 1..b : j = a + y
      BY <1>10, <2>5
    <3> QED
      BY <2>1, <2>5, <3>1
  <2>6. CASE i \notin 1..a /\ j \in 1..a
    <3>1. PICK x \in 1..b : i = a + x
      BY <1>10, <2>6
    <3>2. JSONPointer(g.me[j]) = JSONPointer(g.me[a + x])
      BY <3>1
    <3> QED
      BY <2>1, <2>6, <3>2
  <2>7. CASE i \notin 1..a /\ j \notin 1..a
    <3>1. PICK x \in 1..b, y \in 1..b : i = a + x /\ j = a + y
      BY <1>10, <2>7
    <3>2. JSONPointer(g.me[a + x]) = JSONPointer(g.me[a + y])
      BY <3>1
    <3>3. x = y
      BY <2>3, <3>2
    <3> QED
      BY <3>1, <3>3
  <2> QED
    BY <2>4, <2>5, <2>6, <2>7
<1>18. ErrorsAll(g, multi)
  <2> SUFFICES ASSUME multi \/ g.me = <<>>, NEW p \in Seq(Keys),
                      LeadsFrom(f, p, Reporting), Finished(g, p)
               PROVE  \E i \in DOMAIN g.me : JSONPointer(g.me[i]) = p
    BY DEF ErrorsAll, LeadsFrom
  <2>1. g.left = f.left
    OBVIOUS
  <2>2. multi \/ (f.me = <<>> /\ c.me = <<>>)
    <3>1. g.me = <<>> => a = 0 /\ b = 0
      BY <1>5
    <3>2. (a = 0 => f.me = <<>>) /\ (b = 0 => c.me = <<>>)
      BY <1>0, <1>2
    <3> QED
      BY <3>1, <3>2
  <2>3. CASE Finished(f, p)
    <3>1. PICK i \in DOMAIN f.me : JSONPointer(f.me[i]) = p
      BY <2>2, <2>3 DEF FrameSound, ErrorsAll
    <3> QED
      BY <1>6, <1>11, <1>12, <3>1
  <2>4. CASE ~Finished(f, p)
    <3>1. p # <<>> /\ p[1] = k
      BY <1>4, <2>1, <2>4 DEF Finished
    <3>2. PICK q \in Seq(Keys) : Fronted(p, k, q)
      BY <3>1, FrontAndRest
    <3>3. LeadsFrom(c, q, Reporting)
      BY <1>15, <3>2
    <3>4. Finished(c, q)
      <4>1. q # <<>> => q[1] \in Keys
        BY FrontAndRest
      <4> QED
        BY <1>4, <4>1, VisitorAssumption DEF Finished
    <3>5. PICK j \in 1..b : JSONPointer(c.me[j]) = q
      BY <1>6, <2>2, <3>3, <3>4 DEF FrameSound, ErrorsAll
    <3>6. JSONPointer(g.me[a + j]) = p
      <4>1. /\ JSONPointer(g.me[a + j]) \in Seq(Keys)
            /\ Fronted(JSONPointer(g.me[a + j]), k, q)
        BY <1>13, <3>5
      <4> QED
        BY <1>21, <3>2, <4>1
    <3> QED
      BY <1>6, <1>8, <3>6
  <2> QED
    BY <2>3, <2>4
<1>19. Unbroken(g, multi)
  <2> SUFFICES ASSUME multi, NEW p \in Seq(Keys), LeadsFrom(f, p, Breaking)
               PROVE  p # <<>> /\ p[1] \in Open(g)
    BY DEF Unbroken, LeadsFrom
  <2>1. g.left = f.left
    OBVIOUS
  <2>2. p # <<>>
    BY <1>3 DEF FrameSound, Unbroken
  <2>3. p[1] \in Open(f)
    BY <2>2 DEF FrameSound, Unbroken
  <2>4. p[1] # k
    <3> SUFFICES ASSUME p[1] = k
                 PROVE  FALSE
      OBVIOUS
    <3>1. PICK q \in Seq(Keys) : Fronted(p, k, q)
      BY <2>2, FrontAndRest
    <3>2. LeadsFrom(c, q, Breaking)
      BY <1>15, <3>1
    <3>3. q = <<>>
      <4>1. q # <<>> => q[1] \in Keys /\ q[1] \in Open(c)
        BY <3>2, FrontAndRest DEF FrameSound, Unbroken
      <4> QED
        BY <1>4, <4>1, VisitorAssumption
    <3>4. DOMAIN Children[c.value] = {}
      BY <3>2, <3>3 DEF FrameSound, Unbroken
    <3>5. <<c.schema, c.value>> \in Breaking
      BY <1>2, <3>2, <3>3, LeadsNowhere DEF LeadsFrom
    <3> QED
      BY <3>4, <3>5 DEF Breaking
  <2> QED
    BY <1>4, <2>1, <2>2, <2>3, <2>4
<1>20. g.left \subseteq DOMAIN Children[g.value] /\ g.at \notin g.left
  <2>1. NoKey \notin DOMAIN Children[f.value]
    BY <1>2, ChildrenTypes
  <2> QED
    BY <1>2, <2>1
<1> QED
  BY <1>16, <1>17, <1>18, <1>19, <1>20 DEF FrameSound

\* The frame a call returns to, with the errors of the call.
Resumed(f, found) ==
    [f EXCEPT !.me = @ \o found,
              !.at = NoKey,
              !.left = IF stopsEarly(f.value, found) THEN {} ELSE @]

LEMMA ReturnedTo ==
    ASSUME NEW f \in Frame, NEW c \in Frame, multiError \in BOOLEAN,
           Calls(f, c), FrameSound(f, multiError), FrameSound(c, multiError),
           c.left = {}, c.at = NoKey,
           NEW found, found = marked(c.me, f.at)
    PROVE  /\ Resumed(f, found) \in Frame
           /\ Resumed(f, found).schema = f.schema /\ Resumed(f, found).value = f.value
           /\ Resumed(f, found).at = NoKey
           /\ FrameSound(Resumed(f, found), multiError)
<1>1. /\ f.schema \in Schemas /\ f.value \in Values /\ f.left \subseteq Keys
      /\ f.me \in Seq(Seq(Keys)) /\ c.me \in Seq(Seq(Keys))
  BY DEF Frame
<1>2. f.at \in Keys
  BY <1>1, ChildrenTypes DEF Calls
<1>3. PICK s \in Seq(Seq(Keys)), t \in Seq(Seq(Keys)), k \in Keys :
        s = f.me /\ t = c.me /\ k = f.at
  BY <1>1, <1>2
<1>4. PICK a \in Nat, b \in Nat : Len(s) = a /\ Len(t) = b
  OBVIOUS
<1>5. PICK u \in Seq(Seq(Keys)) : u = s \o marked(t, k) /\ Gathered(u, s, t, k)
  BY MarkedBehind
<1>6. PICK left : left = IF stopsEarly(f.value, found) THEN {} ELSE f.left
  OBVIOUS
<1>7. left \subseteq f.left /\ left \subseteq Keys
  BY <1>1, <1>6
<1>8. multiError \/ u = <<>> => left = f.left
  <2>1. u = <<>> => found = <<>>
    <3>1. found = [i \in DOMAIN t |-> Append(t[i], k)]
      BY <1>3 DEF marked
    <3>2. DOMAIN t = 1..b
      BY <1>4
    <3>3. u = <<>> => b = 0
      BY <1>4, <1>5 DEF Gathered
    <3> QED
      BY <3>1, <3>2, <3>3
  <2> QED
    BY <1>6, <2>1 DEF stopsEarly
<1>9. PICK g : g = Resumed(f, found)
  OBVIOUS
<1>10. /\ g \in Frame
       /\ g.schema = f.schema /\ g.value = f.value /\ g.at = NoKey /\ g.me = u /\ g.left = left
  <2>1. u = f.me \o found
    BY <1>3, <1>5
  <2>2. g = [f EXCEPT !.me = u, !.at = NoKey, !.left = left]
    BY <1>6, <1>9, <2>1 DEF Resumed
  <2>3. g \in Frame
    BY <1>7, <2>2 DEF Frame
  <2> QED
    BY <2>2, <2>3 DEF Frame
<1>11. Gathered(g.me, f.me, c.me, f.at)
  BY <1>3, <1>5, <1>10
<1>12. FrameSound(g, multiError)
  <2>1. g.left \subseteq f.left
    BY <1>7, <1>10
  <2>2. multiError \/ g.me = <<>> => g.left = f.left
    BY <1>8, <1>10
  <2>3. g \in Frame /\ g.schema = f.schema /\ g.value = f.value /\ g.at = NoKey
    BY <1>10
  <2> QED
    BY <1>11, <2>1, <2>2, <2>3, ReturnSound
<1> QED
  BY <1>9, <1>10, <1>12

LEMMA ReturnStep == IInv /\ Return => IInv'
<1> SUFFICES ASSUME IInv, Return
             PROVE  IInv'
  OBVIOUS
<1>1. /\ idle /\ top.left = {} /\ Len(stack) > 1
      /\ UNCHANGED <<schema, value, multiError, errors, outcome>>
  BY DEF Return
<1>2. PICK n \in Nat \ {0} : n + 1 = Len(stack)
  <2>1. Len(stack) \in Nat
    BY <1>1, TopState
  <2>2. PICK m \in Nat : m = Len(stack) /\ m > 1
    BY <1>1, <2>1
  <2>3. m - 1 \in Nat \ {0} /\ (m - 1) + 1 = m
    BY <2>2
  <2> QED
    BY <2>2, <2>3
<1>3. PICK c \in Frame : c = top
  BY <1>1, TopState
<1>4. /\ stack \in Seq(Frame) /\ DOMAIN stack = 1..(n + 1) /\ stack[n + 1] = c
      /\ c.left = {} /\ c.at = NoKey /\ FrameSound(c, multiError) /\ multiError \in BOOLEAN
  BY <1>1, <1>2, <1>3, TopState
<1>5. n \in 1..n /\ \A i \in 1..n : i \in 1..(n + 1)
  OBVIOUS
<1>6. PICK f \in Frame : f = stack[n]
  BY <1>4, <1>5
<1>7. f = caller
  BY <1>2, <1>6 DEF caller
<1>8. /\ stack[1].schema = schema /\ stack[1].value = value
      /\ \A i \in 1..n : Calls(stack[i], stack[i + 1])
  <2>1. Len(stack) - 1 = n /\ stack # <<>>
    BY <1>2
  <2> QED
    BY <2>1 DEF IInv, Chain
<1>9. Calls(f, c)
  BY <1>4, <1>5, <1>6, <1>8
<1>10. FrameSound(f, multiError)
  BY <1>4, <1>5, <1>6 DEF IInv
<1>11. PICK found : found = marked(c.me, f.at)
  OBVIOUS
<1>12. PICK g \in Frame :
         /\ g = Resumed(f, found)
         /\ g.schema = f.schema /\ g.value = f.value /\ g.at = NoKey
         /\ FrameSound(g, multiError)
  BY <1>4, <1>9, <1>10, <1>11, ReturnedTo
<1>13. stack' = [i \in 1..n |-> IF i < n THEN stack[i] ELSE g]
  <2>1. Len(stack) - 1 = n
    BY <1>2
  <2>2. marked(top.me, keyOfCall) = found
    BY <1>3, <1>7, <1>11 DEF keyOfCall
  <2>3. stack' = [i \in 1..(Len(stack) - 1) |->
             IF i < Len(stack) - 1 THEN stack[i]
             ELSE [caller EXCEPT
                     !.me = @ \o found,
                     !.at = NoKey,
                     !.left = IF stopsEarly(caller.value, found) THEN {} ELSE @]]
    BY <2>2 DEF Return
  <2> QED
    BY <1>7, <1>12, <2>1, <2>3 DEF Resumed
<1>14. /\ stack' \in Seq(Frame) /\ Len(stack') = n /\ DOMAIN stack' = 1..n /\ stack'[n] = g
       /\ \A i \in 1..(n - 1) : stack'[i] = stack[i]
  <2>1. \A i \in 1..n : stack[i] \in Frame
    BY <1>4, <1>5
  <2>2. \A i \in 1..n : (IF i < n THEN stack[i] ELSE g) \in Frame
    BY <2>1
  <2>3. \A i \in 1..(n - 1) : i \in 1..n /\ i < n
    OBVIOUS
  <2> QED
    BY <1>5, <1>13, <2>2, <2>3
<1>15. TypeOK'
  <2>1. stack' # <<>>
    BY <1>14
  <2> QED
    BY <1>1, <1>14, <2>1 DEF IInv, TypeOK
<1>16. Chain'
  <2>1. \A h : Calls(h, f) => Calls(h, g)
    BY <1>12 DEF Calls
  <2>2. \A i \in 1..(n - 1) : Calls(stack'[i], stack'[i + 1])
    <3> SUFFICES ASSUME NEW i \in 1..(n - 1)
                 PROVE  Calls(stack'[i], stack'[i + 1])
      OBVIOUS
    <3>1. i \in 1..n /\ (i + 1 = n \/ i + 1 \in 1..(n - 1))
      OBVIOUS
    <3> QED
      BY <1>6, <1>8, <1>14, <2>1, <3>1
  <2>3. stack'[1].schema = schema /\ stack'[1].value = value
    <3>1. n = 1 \/ 1 \in 1..(n - 1)
      OBVIOUS
    <3> QED
      BY <1>6, <1>8, <1>12, <1>14, <3>1
  <2> QED
    BY <1>1, <1>12, <1>14, <2>2, <2>3 DEF Chain, top
<1>17. \A i \in DOMAIN stack' : FrameSound(stack'[i], multiError')
  <2>1. \A i \in 1..n : i = n \/ i \in 1..(n - 1)
    OBVIOUS
  <2>2. \A i \in 1..n : FrameSound(stack[i], multiError)
    BY <1>4, <1>5 DEF IInv
  <2>3. multiError' = multiError
    BY <1>1
  <2> QED
    BY <1>12, <1>14, <2>1, <2>2, <2>3
<1>18. Returned' /\ Panicked'
  BY <1>1 DEF idle, Returned, Panicked
<1> QED
  BY <1>15, <1>16, <1>17, <1>18 DEF IInv

\* The visit returns: what its frame has finished is everything.
LEMMA ReturnLastStep == IInv /\ ReturnLast => IInv'
<1> SUFFICES ASSUME IInv, ReturnLast
             PROVE  IInv'
  OBVIOUS
<1>1. /\ idle /\ top.left = {} /\ Len(stack) = 1 /\ errors' = top.me /\ outcome' = "returned"
      /\ stack' = <<>> /\ UNCHANGED <<schema, value, multiError>>
  BY DEF ReturnLast
<1>2. PICK c \in Frame : c = top
  BY <1>1, TopState
<1>3. /\ stack[1] = c /\ stack # <<>> /\ c.left = {} /\ c.at = NoKey /\ c.me \in Seq(Seq(Keys))
      /\ FrameSound(c, multiError) /\ multiError \in BOOLEAN
      /\ schema \in Schemas /\ value \in Values
  <2>1. stack \in Seq(Frame) /\ top = stack[Len(stack)] /\ top.me \in Seq(Seq(Keys)) /\ top.at = NoKey
    BY <1>1, TopState
  <2>2. FrameSound(top, multiError) /\ multiError \in BOOLEAN /\ schema \in Schemas /\ value \in Values
    BY <1>1, TopState
  <2>3. Len(stack) = 1
    BY <1>1
  <2>4. stack # <<>> /\ top = stack[1]
    <3>1. stack # <<>>
      BY <1>1 DEF IInv, TypeOK, idle
    <3>2. top = stack[1]
      BY <2>1, <2>3
    <3> QED
      BY <3>1, <3>2
  <2> QED
    BY <1>1, <1>2, <2>1, <2>2, <2>4
<1>4. c.schema = schema /\ c.value = value
  BY <1>3 DEF IInv, Chain
<1>5. Open(c) = {NoKey} /\ errors' = c.me
  BY <1>1, <1>2, <1>3 DEF Open
<1>6. \A p \in Seq(Keys) : p # <<>> => p[1] \notin Open(c)
  <2>1. NoKey \notin Keys
    BY VisitorAssumption
  <2> QED
    BY <1>5, <2>1, FrontAndRest
<1>7. /\ \A i \in DOMAIN c.me : Leads(schema, value, JSONPointer(c.me[i]), Reporting)
      /\ \A i, j \in DOMAIN c.me : JSONPointer(c.me[i]) = JSONPointer(c.me[j]) => i = j
  BY <1>3, <1>4 DEF FrameSound, ErrorsLead, ErrorsOnce, LeadsFrom
<1>8. multiError \/ c.me = <<>> =>
        \A p \in Seq(Keys) : Leads(schema, value, p, Reporting) =>
          \E i \in DOMAIN c.me : JSONPointer(c.me[i]) = p
  BY <1>3, <1>4, <1>6 DEF FrameSound, ErrorsAll, LeadsFrom, Finished
<1>9. multiError => \A p \in Seq(Keys) : ~Leads(schema, value, p, Breaking)
  <2> SUFFICES ASSUME multiError, NEW p \in Seq(Keys), Leads(schema, value, p, Breaking)
               PROVE  FALSE
    OBVIOUS
  <2>1. p = <<>> /\ DOMAIN Children[value] = {}
    BY <1>3, <1>4, <1>6 DEF FrameSound, Unbroken, LeadsFrom
  <2>2. <<schema, value>> \in Breaking
    BY <1>3, <2>1, LeadsNowhere
  <2> QED
    BY <2>1, <2>2 DEF Breaking
<1>10. Returned'
  BY <1>1, <1>5, <1>7, <1>8, <1>9 DEF Returned
<1>11. TypeOK' /\ Chain' /\ Panicked'
  <2>1. stack' \in Seq(Frame)
    BY <1>1
  <2> QED
    BY <1>1, <1>3, <1>5, <2>1 DEF TypeOK, Chain, Panicked
<1>12. \A i \in DOMAIN stack' : FrameSound(stack'[i], multiError')
  BY <1>1
<1> QED
  BY <1>10, <1>11, <1>12 DEF IInv

LEMMA StutterStep == IInv /\ UNCHANGED vars => IInv'
BY DEF vars, IInv, TypeOK, Chain, top, Returned, Panicked

LEMMA InductiveInvariant == IInv /\ [Next]_vars => IInv'
<1> SUFFICES ASSUME IInv, [Next]_vars
             PROVE  IInv'
  OBVIOUS
<1>1. CASE \E k \in Keys : VisitItem(k) \/ VisitField(k)
  BY <1>1, VisitStep
<1>2. CASE \E k \in Keys : SkipField(k)
  BY <1>2, SkipFieldStep
<1>3. CASE NoItems
  BY <1>3, NoItemsStep
<1>4. CASE Return
  BY <1>4, ReturnStep
<1>5. CASE ReturnLast
  BY <1>5, ReturnLastStep
<1>6. CASE UNCHANGED vars
  BY <1>6, StutterStep
<1> QED
  BY <1>1, <1>2, <1>3, <1>4, <1>5, <1>6 DEF Next

LEMMA SpecIInv == Spec => []IInv
BY InitIInv, InductiveInvariant, PTL DEF Spec

-----------------------------------------------------------------------------
(***************************************************************************)
(* What a visit finds.                                                     *)
(***************************************************************************)
\* The open calls, the errors and the outcome keep their types.
THEOREM TypesCorrect == Spec => []TypeOK
<1>1. IInv => TypeOK
  BY DEF IInv
<1> QED
  BY <1>1, SpecIInv, PTL

\* A path is reported if it is among the paths considered and leads to a deprecated place.
LEMMA ReportsLead ==
    ASSUME NEW s \in Schemas, NEW v \in Values
    PROVE  /\ Reports[<<s, v>>] = {p \in Paths : Leads(s, v, p, Reporting)}
           /\ Breaks[<<s, v>>] = {p \in Paths : Leads(s, v, p, Breaking)}
BY DEF Reports, Breaks

\* The pointers of a finished visit are the paths to deprecated places, each once, for
\* every graph of schemas and every order of the fields (Visitor.go 61-102).
THEOREM PointersAreExact == Spec => []PointersExact
<1>1. IInv => PointersExact
  <2> SUFFICES ASSUME IInv, outcome = "returned", multiError
               PROVE  /\ pointers \cap Paths = Reports[<<schema, value>>]
                      /\ \A i, j \in DOMAIN errors :
                           JSONPointer(errors[i]) = JSONPointer(errors[j]) => i = j
    BY DEF PointersExact
  <2>1. schema \in Schemas /\ value \in Values
    BY DEF IInv, TypeOK
  <2>2. Returned
    BY DEF IInv
  <2>3. \A p \in Paths : p \in pointers <=> Leads(schema, value, p, Reporting)
    BY <2>2, PathsAssumption DEF Returned, pointers
  <2> QED
    BY <2>1, <2>2, <2>3, ReportsLead DEF Returned
<1> QED
  BY <1>1, SpecIInv, PTL

\* A visit that stops at errors reports deprecated places only, and at least one if there
\* is one (Visitor.go 82-84, 93-95).
THEOREM FirstErrorIsFound == Spec => []FirstErrorFound
<1>1. IInv => FirstErrorFound
  <2> SUFFICES ASSUME IInv, outcome = "returned", ~multiError
               PROVE  /\ pointers \cap Paths \subseteq Reports[<<schema, value>>]
                      /\ errors = <<>> => Reports[<<schema, value>>] = {}
    BY DEF FirstErrorFound
  <2>1. schema \in Schemas /\ value \in Values
    BY DEF IInv, TypeOK
  <2>2. Returned
    BY DEF IInv
  <2>3. \A p \in pointers : Leads(schema, value, p, Reporting)
    BY <2>2 DEF Returned, pointers
  <2>4. errors = <<>> => \A p \in Paths : ~Leads(schema, value, p, Reporting)
    BY <2>2, PathsAssumption DEF Returned
  <2> QED
    BY <2>1, <2>3, <2>4, ReportsLead
<1> QED
  BY <1>1, SpecIInv, PTL

\* A visit panics exactly when a path leads to an element of an array whose schema has no
\* items (Visitor.go 61-64). The paths are all here: TLC's are the short ones.
THEOREM PanicsAreExact ==
    ASSUME Paths = Seq(Keys)
    PROVE  Spec => []PanicsExact
<1>1. IInv => PanicsExact
  <2> SUFFICES ASSUME IInv, multiError
               PROVE  /\ outcome = "panicked" => Breaks[<<schema, value>>] # {}
                      /\ outcome = "returned" => Breaks[<<schema, value>>] = {}
    BY DEF PanicsExact
  <2>1. schema \in Schemas /\ value \in Values
    BY DEF IInv, TypeOK
  <2>2. Breaks[<<schema, value>>] = {p \in Seq(Keys) : Leads(schema, value, p, Breaking)}
    BY <2>1, ReportsLead
  <2> QED
    BY <2>2 DEF IInv, Returned, Panicked
<1> QED
  BY <1>1, SpecIInv, PTL
=============================================================================
