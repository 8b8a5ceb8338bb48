------------------------- MODULE VersionOrderProofs -------------------------
(***************************************************************************)
(* compareVersion on canonical version texts, for every set of them.       *)
(***************************************************************************)
EXTENDS VersionOrder, TLAPS

\* On canonical texts compareVersion is the lexicographic order on major version,
\* stage and minor version, and equal numbers mean equal texts (Util.go 85-161).
LEMMA CompareIsLexicographic ==
    ASSUME NEW Texts, NEW V \in SUBSET Versions(Texts), Canonical(V),
           NEW l \in V, NEW r \in V
    PROVE  compareVersion(l, r) <=>
             \/ l.major < r.major
             \/ l.major = r.major /\ l.stage < r.stage
             \/ /\ l.major = r.major /\ l.stage = r.stage
                /\ getMinorVersion(l) < getMinorVersion(r)
<1>1. /\ l.major \in Nat /\ l.stage \in Nat /\ getMinorVersion(l) \in Nat
      /\ r.major \in Nat /\ r.stage \in Nat /\ getMinorVersion(r) \in Nat
  BY DEF Versions, Canonical, getMinorVersion, NoDigits, MaxInt32,
         alphaVersion, betaVersion, gaVersion
<1>2. l.major # NoDigits /\ r.major # NoDigits
  BY DEF Canonical
<1>3. l.extension = FALSE /\ r.extension = FALSE
  BY DEF Canonical, Versions
<1>4. l.major = r.major /\ l.stage = r.stage /\ getMinorVersion(l) = getMinorVersion(r)
        => l = r
  BY DEF Canonical
<1>5. compareVersion(l, r) <=> l # r /\ isSmallerVersion(l, r)
  BY <1>3 DEF compareVersion
<1> QED
  BY <1>1, <1>2, <1>4, <1>5 DEF isSmallerVersion

\* The versions of a kind can be sorted: compareVersion never panics on canonical
\* texts and is the strict weak order sort.Slice requires (K8sSchemaParser.go 286-291).
THEOREM CanonicalSortable ==
    ASSUME NEW Texts, NEW V \in SUBSET Versions(Texts), Canonical(V)
    PROVE  StrictWeakOrder(V) /\ NoPanic(V)
<1>1. NoPanic(V)
  BY DEF NoPanic, comparePanics, Canonical
<1>2. ASSUME NEW v \in V
      PROVE  v.major \in Nat /\ v.stage \in Nat /\ getMinorVersion(v) \in Nat
  BY <1>2 DEF Versions, Canonical, getMinorVersion, NoDigits, MaxInt32,
         alphaVersion, betaVersion, gaVersion
<1>3. ASSUME NEW l \in V, NEW r \in V, compareVersion(l, r)
      PROVE  ~compareVersion(r, l)
  BY <1>2, <1>3, CompareIsLexicographic
<1>4. ASSUME NEW l \in V, NEW m \in V, NEW r \in V,
             compareVersion(l, m), compareVersion(m, r)
      PROVE  compareVersion(l, r)
  BY <1>2, <1>4, CompareIsLexicographic
<1>5. ASSUME NEW l \in V, NEW m \in V, NEW r \in V, compareVersion(l, r)
      PROVE  compareVersion(l, m) \/ compareVersion(m, r)
  BY <1>2, <1>5, CompareIsLexicographic
<1> QED
  BY <1>1, <1>3, <1>4, <1>5 DEF StrictWeakOrder

\* A kind has one newest version: of two different canonical texts exactly one is
\* smaller, so "the latest apiVersion" names a single version (up to its group).
THEOREM CanonicalTotal ==
    ASSUME NEW Texts, NEW V \in SUBSET Versions(Texts), Canonical(V),
           NEW l \in V, NEW r \in V, l # r
    PROVE  compareVersion(l, r) <=> ~compareVersion(r, l)
<1>1. ASSUME NEW v \in V
      PROVE  v.major \in Nat /\ v.stage \in Nat /\ getMinorVersion(v) \in Nat
  BY <1>1 DEF Versions, Canonical, getMinorVersion, NoDigits, MaxInt32,
         alphaVersion, betaVersion, gaVersion
<1>2. ~(l.major = r.major /\ l.stage = r.stage /\ getMinorVersion(l) = getMinorVersion(r))
  BY DEF Canonical
<1> QED
  BY <1>1, <1>2, CompareIsLexicographic
=============================================================================
