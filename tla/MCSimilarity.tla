---------------------------- MODULE MCSimilarity ----------------------------
(***************************************************************************)
(* Text and Similarity on every pair of strings, typed one character at a  *)
(* time, against definitions that say what the loops of the code are to    *)
(* compute without following them: all pairs of MaxLen characters over the *)
(* whole alphabet, and longer ones, for which jaro looks beyond the same   *)
(* position, over Core.                                                    *)
(***************************************************************************)
EXTENDS Similarity

CONSTANTS
    Alphabet,     \* the characters of strings, and
    Core,         \* of long strings
    MaxLen,       \* bound on the length of a string
    MaxCoreLen    \* bound on the length of a string over Core

ASSUME AlphabetAssumption == Alphabet \subseteq Char

VARIABLES a, b

vars == <<a, b>>

Init == a = Empty /\ b = Empty

\* Strings that are looked at together.
InBounds(s, t) ==
    \/ Len(s) <= MaxLen /\ Len(t) <= MaxLen
    \/ /\ Len(s) <= MaxCoreLen /\ Len(t) <= MaxCoreLen
       /\ ToSet(s) \cup ToSet(t) \subseteq Core

TypeA == \E c \in Alphabet : /\ InBounds(Append(a, c), b)
                         /\ a' = Append(a, c)
                         /\ UNCHANGED b

TypeB == \E c \in Alphabet : /\ InBounds(a, Append(b, c))
                         /\ b' = Append(b, c)
                         /\ UNCHANGED a

Next == TypeA \/ TypeB

Spec == Init /\ [][Next]_vars

\* unicode.ToLower on the letters of the instance.
LowerLetter == [c \in Letter |-> IF c = "A" THEN "a" ELSE c]

-----------------------------------------------------------------------------
\* Sets of pairs of positions of s and t in which no position occurs twice: to
\* each position of s its partner, or 0.
PartialMatchings(s, t) ==
    {{<<i, f[i]>> : i \in {k \in DOMAIN s : f[k] # 0}} :
        f \in {g \in [DOMAIN s -> 0 .. Len(t)] :
                  \A i, k \in DOMAIN s : i # k /\ g[i] # 0 => g[i] # g[k]}}

\* The edit distance by alignments: pairs that do not cross are kept or
\* substituted, all other characters are deleted or inserted.
EditDistance(s, t) ==
    LET alignments == {M \in PartialMatchings(s, t) :
                          \A p, q \in M : p[1] < q[1] => p[2] < q[2]}
        cost(M) == Len(s) + Len(t) - 2 * Cardinality(M)
                   + Cardinality({p \in M : s[p[1]] # t[p[2]]})
    IN  Min({cost(M) : M \in alignments})

\* levenshteinDistance with its two swapped rows computes the edit distance:
\* the least cost of an alignment.
EditDistanceExact == LevenshteinDistance(a, b) = EditDistance(a, b)

\* jaro's greedy pass pairs equal characters no further apart than the window,
\* uses no character twice, and although it never revises a pair finds as many
\* as there can be.
JaroMatchesMaximum ==
    LET admissible == {M \in PartialMatchings(a, b) :
                          \A p \in M : /\ a[p[1]] = b[p[2]]
                                       /\ p[1] - p[2] <= MatchWindow(a, b)
                                       /\ p[2] - p[1] <= MatchWindow(a, b)}
        M == JaroMatches(a, b)
    IN  M \in admissible /\ \A N \in admissible : Cardinality(N) <= Cardinality(M)

\* Every similarity function is a similarity, whatever the order in which the
\* matcher passes the extracted and the stored value: between 0 and 1,
\* symmetric, 1 for a string and itself, and except for token_jaccard 1 for
\* nothing else.  A weighted sum therefore never exceeds the sum of weights.
ScoresAreSimilarities ==
    \A fn \in {"exact", "jaro_winkler", "levenshtein", "token_jaccard"} :
        LET score == ComputeSimilarity(fn, a, b)
        IN  /\ ~Less(score, Zero) /\ ~Less(One, score)
            /\ Same(score, ComputeSimilarity(fn, b, a))
            /\ a = b /\ a # Empty => Same(score, One)
            /\ Same(score, One) /\ fn # "token_jaccard" => a = b

\* What is normalized is normalized once and for all: an anchor value read back
\* from the store finds its own row when it is normalized again.  Two strings
\* that lowercase_trim takes for the same have the same tokens.
NormalizersStable ==
    /\ NormalizeLowercaseTrim(NormalizeLowercaseTrim(a)) = NormalizeLowercaseTrim(a)
    /\ NormalizePhone(NormalizePhone(a)) = NormalizePhone(a)
    /\ NormalizeLowercaseTrim(a) = NormalizeLowercaseTrim(b)
         => Tokenize(a) = Tokenize(b)
=============================================================================
