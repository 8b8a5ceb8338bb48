------------------------ MODULE VersionTriplesProofs ------------------------
(***************************************************************************)
(* compareVersion on every triple of every set of version texts.           *)
(***************************************************************************)
EXTENDS VersionTriples, VersionOrderProofs

Fed == first \in Universe /\ second \in Universe /\ third \in Universe

LEMMA MaxIsNatural == MaxInt32 \in Nat
BY SMT DEF MaxInt32

LEMMA SpecFed == Spec => []Fed
<1>1. Init => Fed
  BY DEF Init, Fed
<1>2. Fed /\ [Next]_vars => Fed'
  BY DEF Fed, Next, Feed, vars
<1> QED
  BY <1>1, <1>2, PTL DEF Spec

\* Two numbers below a base order their pair before the next greater multiple of it.
LEMMA HigherDigitFirst ==
    ASSUME NEW b \in Nat, NEW x \in Nat, NEW y \in Nat, NEW p \in 0..b, NEW q \in 0..b, x < y
    PROVE  x * (b + 1) + p < y * (b + 1) + q
<1>1. PICK d \in Nat : y = x + d + 1
  <2>1. y - x - 1 \in Nat /\ y = x + (y - x - 1) + 1
    OBVIOUS
  <2> QED
    BY <2>1
<1>2. d * (b + 1) \in Nat /\ x * (b + 1) \in Nat
  OBVIOUS
<1>3. y * (b + 1) = x * (b + 1) + d * (b + 1) + (b + 1)
  BY <1>1
<1> QED
  BY <1>2, <1>3

\* compareVersion has a numeric order behind it, for every set of canonical texts
\* (Util.go 85-161).
THEOREM RankAlwaysDecides == Spec => []RankDecides
<1>1. ASSUME NEW l \in CanonicalTexts, NEW r \in CanonicalTexts
      PROVE  compareVersion(l, r) <=> Rank(l) < Rank(r)
  <2> DEFINE high(v) == v.major * 3 + v.stage
             low(v) == IF v.minor = NoDigits THEN MinorBound ELSE v.minor
  <2>1. ASSUME NEW v \in CanonicalTexts
        PROVE  /\ v.major \in Nat /\ v.stage \in 1..3 /\ v.minor \in Nat \cup {NoDigits}
               /\ v.minor < MinorBound /\ MinorBound \in 0..MaxInt32
    <3>1. v \in Versions({u.text : u \in Universe})
      BY <2>1, TriplesAssumption
    <3> QED
      BY <2>1, <3>1, TriplesAssumption
         DEF Versions, Canonical, NoDigits, alphaVersion, gaVersion
  <2>2. ASSUME NEW v \in CanonicalTexts
        PROVE  high(v) \in Nat /\ low(v) \in 0..MinorBound /\ MinorBound \in Nat
    BY <2>1, MaxIsNatural DEF NoDigits
  <2>3. compareVersion(l, r) <=>
          \/ l.major < r.major
          \/ l.major = r.major /\ l.stage < r.stage
          \/ /\ l.major = r.major /\ l.stage = r.stage
             /\ getMinorVersion(l) < getMinorVersion(r)
    BY CompareIsLexicographic, TriplesAssumption
  <2>4. getMinorVersion(l) < getMinorVersion(r) <=> low(l) < low(r)
    BY <2>1, MaxIsNatural DEF getMinorVersion, NoDigits
  <2>5. /\ high(l) < high(r) <=> \/ l.major < r.major
                                 \/ l.major = r.major /\ l.stage < r.stage
        /\ high(l) = high(r) <=> l.major = r.major /\ l.stage = r.stage
    BY <2>1
  <2>6. compareVersion(l, r) <=> high(l) < high(r) \/ (high(l) = high(r) /\ low(l) < low(r))
    BY <2>3, <2>4, <2>5
  <2>7. /\ Rank(l) = high(l) * (MinorBound + 1) + low(l)
        /\ Rank(r) = high(r) * (MinorBound + 1) + low(r)
    BY DEF Rank
  <2>8. PICK x \in Nat, y \in Nat, p \in 0..MinorBound, q \in 0..MinorBound :
          x = high(l) /\ y = high(r) /\ p = low(l) /\ q = low(r)
    BY <2>2
  <2> HIDE DEF high, low
  <2>9. x * (MinorBound + 1) \in Nat /\ y * (MinorBound + 1) \in Nat /\ MinorBound \in Nat
    BY <2>2
  <2>10. CASE x < y
    BY <2>6, <2>7, <2>8, <2>9, <2>10, HigherDigitFirst
  <2>11. CASE y < x
    <3>1. y * (MinorBound + 1) + q < x * (MinorBound + 1) + p
      BY <2>9, <2>11, HigherDigitFirst
    <3>2. ~(x * (MinorBound + 1) + p < y * (MinorBound + 1) + q)
      BY <2>9, <3>1
    <3> QED
      BY <2>6, <2>7, <2>8, <2>11, <3>2
  <2>12. CASE x = y
    <3>1. x * (MinorBound + 1) + p < y * (MinorBound + 1) + q <=> p < q
      BY <2>9, <2>12
    <3> QED
      BY <2>6, <2>7, <2>8, <2>12, <3>1
  <2> QED
    BY <2>10, <2>11, <2>12
<1>2. RankDecides
  BY <1>1 DEF RankDecides
<1> QED
  BY <1>2, PTL

\* Any canonical texts can be handed to sort.Slice (K8sSchemaParser.go 286-291).
THEOREM SortAlwaysContracted == Spec => []SortContract
<1>1. SortContract
  <2> SUFFICES ASSUME {first, second, third} \subseteq CanonicalTexts
               PROVE  /\ NoPanic({first, second, third})
                      /\ StrictWeakOrder({first, second, third})
    BY DEF SortContract
  <2>1. StrictWeakOrder(CanonicalTexts) /\ NoPanic(CanonicalTexts)
    BY CanonicalSortable, TriplesAssumption
  <2> QED
    BY <2>1 DEF StrictWeakOrder, NoPanic
<1> QED
  BY <1>1, PTL

\* Whatever texts a schema file carries, only two spellings of one version are each
\* smaller than the other (Util.go 85-161).
THEOREM MutualForSynonymsAlone == Spec => []MutualOnlyForSynonyms
<1>1. Fed => MutualOnlyForSynonyms
  <2> SUFFICES ASSUME first \in Universe, second \in Universe,
                      compareVersion(first, second), compareVersion(second, first)
               PROVE  /\ first # second
                      /\ first.major = second.major
                      /\ first.stage = second.stage
                      /\ getMinorVersion(first) = getMinorVersion(second)
    BY DEF Fed, MutualOnlyForSynonyms
  <2>1. ASSUME NEW v \in Universe
        PROVE  /\ v.extension \in BOOLEAN /\ v.major \in Int /\ v.stage \in Int
               /\ getMinorVersion(v) \in Int
    <3>1. v \in Versions({u.text : u \in Universe})
      BY <2>1, TriplesAssumption
    <3> QED
      BY <3>1, MaxIsNatural DEF Versions, getMinorVersion, NoDigits, alphaVersion, gaVersion
  <2>2. first # second
    BY DEF compareVersion
  <2>3. isSmallerVersion(first, second) /\ isSmallerVersion(second, first)
    BY DEF compareVersion
  <2> QED
    BY <2>1, <2>2, <2>3 DEF isSmallerVersion
<1> QED
  BY <1>1, SpecFed, PTL
=============================================================================
