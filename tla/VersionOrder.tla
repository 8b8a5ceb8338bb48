---------------------------- MODULE VersionOrder ----------------------------
(***************************************************************************)
(* The order that pkg/Util.go puts on the versions of one kind.            *)
(* compareVersion is the "less" that buildKindInfoMap hands to sort.Slice, *)
(* so it decides which apiVersion the program recommends as the latest.    *)
(*                                                                         *)
(* A version text is kept as what the comparison reads from it:            *)
(*   text      its spelling, which only equality looks at                  *)
(*   extension whether "extensions" occurs in it                           *)
(*   matches   whether it has a v: what follows the v may all be empty     *)
(*   major     the digits after the v, NoDigits when there are none        *)
(*   stage     alpha, beta or neither                                      *)
(*   minor     the digits after the stage, NoDigits when there are none    *)
(***************************************************************************)
EXTENDS Integers

NoDigits == -1
MaxInt32 == 2147483647

alphaVersion == 1
betaVersion  == 2
gaVersion    == 3

Versions(Texts) ==
    [text : Texts, extension : BOOLEAN, matches : BOOLEAN,
     major : Nat \cup {NoDigits}, stage : alphaVersion..gaVersion,
     minor : Nat \cup {NoDigits}]

getMinorVersion(v) == IF v.minor = NoDigits THEN MaxInt32 ELSE v.minor

\* Faulty variant: the stage is looked at before the major version.
isSmallerVersionStageFirst(l, r) ==
    \/ l.stage < r.stage
    \/ /\ l.stage = r.stage
       /\ \/ l.major < r.major
          \/ l.major = r.major /\ getMinorVersion(l) <= getMinorVersion(r)

\* Faulty variant: a greater major version does not stop the comparison.
isSmallerVersionNoStop(l, r) ==
    \/ l.major < r.major
    \/ l.stage < r.stage
    \/ l.stage = r.stage /\ getMinorVersion(l) <= getMinorVersion(r)

\* A major version without digits is an error, which compareVersion takes for
\* "not smaller". The last comparison is <=, not <.
isSmallerVersion(l, r) ==
    /\ l.major # NoDigits
    /\ r.major # NoDigits
    /\ \/ l.major < r.major
       \/ /\ l.major = r.major
          /\ \/ l.stage < r.stage
             \/ l.stage = r.stage /\ getMinorVersion(l) <= getMinorVersion(r)

\* Faulty variant: equal texts are not told apart from smaller ones.
compareVersionReflexive(l, r) ==
    \/ l.extension /\ ~r.extension
    \/ l.extension = r.extension /\ isSmallerVersion(l, r)

compareVersion(l, r) ==
    /\ l # r
    /\ \/ l.extension /\ ~r.extension
       \/ l.extension = r.extension /\ isSmallerVersion(l, r)

\* Faulty variant: a major version without digits ends the program too.
comparePanicsWithoutDigits(l, r) ==
    /\ l # r
    /\ l.extension = r.extension
    /\ ~l.matches \/ l.major = NoDigits \/ ~r.matches

\* getMajorVersion indexes the first match. It reads the left side first, and an
\* error there returns before the right side is read.
comparePanics(l, r) ==
    /\ l # r
    /\ l.extension = r.extension
    /\ ~l.matches \/ (l.major # NoDigits /\ ~r.matches)

-----------------------------------------------------------------------------
(***************************************************************************)
(* What sort.Slice needs of its less, and the texts for which it gets it.  *)
(***************************************************************************)
StrictWeakOrder(V) ==
    /\ \A l, r \in V : compareVersion(l, r) => ~compareVersion(r, l)
    /\ \A l, m, r \in V :
         /\ compareVersion(l, m) /\ compareVersion(m, r) => compareVersion(l, r)
         /\ compareVersion(l, r) => compareVersion(l, m) \/ compareVersion(m, r)

NoPanic(V) == \A l, r \in V : ~comparePanics(l, r)

\* The texts Kubernetes writes: vN, vNalphaM, vNbetaM without leading zeros.
Canonical(V) ==
    /\ \A v \in V : v.matches /\ ~v.extension /\ v.major # NoDigits
    /\ \A l, r \in V :
         /\ l.major = r.major
         /\ l.stage = r.stage
         /\ getMinorVersion(l) = getMinorVersion(r)
         => l = r
=============================================================================
