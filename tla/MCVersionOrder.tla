---------------------------- MODULE MCVersionOrder --------------------------
(***************************************************************************)
(* A small universe of version texts: the canonical ones of two major      *)
(* versions, and odd ones that a hand-made schema file could carry.        *)
(***************************************************************************)
EXTENDS VersionTriples

Majors == 1..2
Minors == 1..2

Text(t, e, ok, M, s, m) ==
    [text |-> t, extension |-> e, matches |-> ok, major |-> M, stage |-> s, minor |-> m]

MCCanonicalTexts ==
    {Text("plain", FALSE, TRUE, M, gaVersion, NoDigits) : M \in Majors}
      \cup {Text("plain", FALSE, TRUE, M, s, m) :
              M \in Majors, s \in {alphaVersion, betaVersion}, m \in Minors}

OddTexts ==
    {Text("v01", FALSE, TRUE, 1, gaVersion, NoDigits),
     Text("vbeta1", FALSE, TRUE, NoDigits, betaVersion, 1),
     Text("internal", FALSE, FALSE, NoDigits, gaVersion, NoDigits),
     Text("extensions-v1", TRUE, TRUE, 1, gaVersion, NoDigits)}

MCUniverse == MCCanonicalTexts \cup OddTexts

MCMinorBound == 3
=============================================================================
