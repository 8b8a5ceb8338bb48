------------------------------- MODULE Filters ------------------------------
(***************************************************************************)
(* The patterns that select and ignore kinds, namespaces and keys          *)
(* (pkg/Util.go 185-213), and the matching with stars they stand for.      *)
(* A text is the sequence of its characters.                               *)
(***************************************************************************)
EXTENDS Integers, Sequences, FiniteSets

CONSTANTS
    Chars,    \* the characters names and patterns are written with, the star included
    Lower     \* character -> its lower case

Star == "*"

ASSUME CharsAssumption ==
    /\ Star \in Chars
    /\ Lower \in [Chars -> Chars]
    /\ \A c \in Chars : Lower[c] = Star <=> c = Star

Ext == INSTANCE SequencesExt

ToLower(text) == [i \in DOMAIN text |-> Lower[text[i]]]

stars(pattern) == {i \in DOMAIN pattern : pattern[i] = Star}

nth(positions, n) == CHOOSE i \in positions : Cardinality({j \in positions : j <= i}) = n

\* ReplaceAll(lp, "*", ""): its n-th character is the n-th that is no star.
unstarred(pattern) ==
    LET kept == DOMAIN pattern \ stars(pattern)
    IN  [n \in 1..Cardinality(kept) |-> pattern[nth(kept, n)]]

HasInside(text, part) == \E rest \in Ext!Suffixes(text) : Ext!IsPrefix(part, rest)

\* Faulty variant: a star at the front asks for a prefix, one at the end for a suffix.
RegexMatchSwapped(s, pattern) ==
    LET ls == ToLower(s)
        np == unstarred(ToLower(pattern))
    IN  CASE stars(pattern) = {}             -> ls = ToLower(pattern)
          [] Cardinality(stars(pattern)) = 2 -> HasInside(ls, np)
          [] OTHER -> IF 1 \in stars(pattern) THEN Ext!IsPrefix(np, ls) ELSE Ext!IsSuffix(np, ls)

\* Where the stars are is looked at only when there is one, or are more than two.
RegexMatch(s, pattern) ==
    LET ls == ToLower(s)
        np == unstarred(ToLower(pattern))
    IN  CASE stars(pattern) = {}             -> ls = ToLower(pattern)
          [] Cardinality(stars(pattern)) = 2 -> HasInside(ls, np)
          [] OTHER -> IF 1 \in stars(pattern) THEN Ext!IsSuffix(np, ls) ELSE Ext!IsPrefix(np, ls)

Contains(key, patterns) ==
    \E p \in patterns : ToLower(p) = ToLower(key) \/ RegexMatch(key, p)

-----------------------------------------------------------------------------
\* Reference: what matching with stars means. cut[i] is how much of the text the first
\* i - 1 characters of the pattern stand for.
Glob(text, pattern) ==
    \E cut \in [1..(Len(pattern) + 1) -> 0..Len(text)] :
      /\ cut[1] = 0
      /\ cut[Len(pattern) + 1] = Len(text)
      /\ \A i \in DOMAIN pattern :
           IF pattern[i] = Star THEN cut[i + 1] >= cut[i]
           ELSE cut[i + 1] = cut[i] + 1 /\ Lower[pattern[i]] = Lower[text[cut[i + 1]]]

\* The patterns the two agree on: no star, one at either end, or one at both.
Simple(pattern) == stars(pattern) \subseteq {1, Len(pattern)}
=============================================================================
