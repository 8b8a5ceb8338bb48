---------------------------- MODULE VersionTriples --------------------------
(***************************************************************************)
(* Feeds compareVersion (pkg/Util.go) every triple of a set of version     *)
(* texts, of which some are canonical.                                     *)
(***************************************************************************)
EXTENDS VersionOrder

CONSTANTS
    Universe,          \* version texts
    CanonicalTexts,    \* those of them that Kubernetes writes
    MinorBound         \* above all minor versions of canonical texts

ASSUME TriplesAssumption ==
    /\ Universe \subseteq Versions({v.text : v \in Universe})
    /\ CanonicalTexts \subseteq Universe
    /\ Canonical(CanonicalTexts)
    /\ MinorBound \in 0..MaxInt32
    /\ \A v \in CanonicalTexts : v.minor < MinorBound

VARIABLES first, second, third
vars == <<first, second, third>>

Init == first \in Universe /\ second = first /\ third = first

Feed(v) == first' = second /\ second' = third /\ third' = v

Next == \E v \in Universe : Feed(v)

Spec == Init /\ [][Next]_vars

-----------------------------------------------------------------------------
\* The version of a canonical text as one number: major, then stage, then minor,
\* with a text that has no minor above all of its stage.
Rank(v) ==
    (v.major * 3 + v.stage) * (MinorBound + 1)
      + (IF v.minor = NoDigits THEN MinorBound ELSE v.minor)

\* On canonical texts compareVersion is "has the smaller rank" (Util.go 85-161).
RankDecides ==
    {first, second} \subseteq CanonicalTexts
      => (compareVersion(first, second) <=> Rank(first) < Rank(second))

\* On canonical texts compareVersion never panics and is the strict weak order
\* that sort.Slice asks of its less function (K8sSchemaParser.go 286-291).
SortContract ==
    {first, second, third} \subseteq CanonicalTexts
      => /\ NoPanic({first, second, third})
         /\ StrictWeakOrder({first, second, third})

\* On any two texts, compareVersion holds both ways only for two spellings of the
\* same version, the case its <= lets through (Util.go 85-161).
MutualOnlyForSynonyms ==
    /\ ~comparePanics(first, second) /\ ~comparePanics(second, first)
    /\ compareVersion(first, second) /\ compareVersion(second, first)
    => /\ first # second
       /\ first.major = second.major
       /\ first.stage = second.stage
       /\ getMinorVersion(first) = getMinorVersion(second)
=============================================================================
