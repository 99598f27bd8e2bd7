----------------------------- MODULE Similarity -----------------------------
(***************************************************************************)
(* The similarity functions of src/matching/similarity.go, with scores as  *)
(* exact fractions <<numerator, denominator>> where the code rounds to     *)
(* float64.                                                                *)
(***************************************************************************)
EXTENDS Text, Integers, FiniteSets, FiniteSetsExt

\* Fractions.
Zero == <<0, 1>>
One == <<1, 1>>
Plus(p, q) == <<p[1] * q[2] + q[1] * p[2], p[2] * q[2]>>
Times(n, p) == <<n * p[1], p[2]>>
Less(p, q) == p[1] * q[2] < q[1] * p[2]
Same(p, q) == p[1] * q[2] = q[1] * p[2]

-----------------------------------------------------------------------------
\* jaro.

MatchWindow(s, t) == Max({0, Max({Len(s), Len(t)}) \div 2 - 1})

\* Mutant of InWindow: the window starts one character early.
InWindowEarly(s, t, i) ==
    LET w == MatchWindow(s, t)
    IN  Max({1, i - w - 1}) .. Min({i + w, Len(t)})

\* The characters of t that s[i] may be matched with.
InWindow(s, t, i) ==
    LET w == MatchWindow(s, t)
    IN  Max({1, i - w}) .. Min({i + w, Len(t)})

\* Mutant of JaroMatches: a character of t may be matched several times.
JaroMatchesReusing(s, t) ==
    {<<i, Min({j \in InWindow(s, t, i) : t[j] = s[i]})>> :
        i \in {k \in DOMAIN s : \E j \in InWindow(s, t, k) : t[j] = s[k]}}

\* The characters of t that s[i] may still be matched with.
FreeFor(s, t, pairs, i) ==
    {j \in InWindow(s, t, i) : t[j] = s[i] /\ \A p \in pairs : p[2] # j}

MatchNext(s, t, pairs, i) ==
    LET free == FreeFor(s, t, pairs, i)
    IN  IF free = {} THEN pairs ELSE pairs \cup {<<i, Min(free)>>}

\* The pairs that the loop "Find matches" makes: each character of s in turn
\* takes the first equal character of its window that is still free.  After i
\* rounds, and at the end.
JaroRounds(s, t) ==
    LET pairs[i \in 0 .. Len(s)] ==
            IF i = 0 THEN {} ELSE MatchNext(s, t, pairs[i - 1], i)
    IN  pairs

JaroMatches(s, t) == JaroRounds(s, t)[Len(s)]

\* The k-th matched character of s is compared with the k-th of t.
Rank(I, i) == Cardinality({k \in I : k <= i})

Transpositions(s, t) ==
    LET pairs == JaroMatches(s, t)
        I == {p[1] : p \in pairs}
        J == {p[2] : p \in pairs}
    IN  Cardinality({q \in I \X J : /\ Rank(I, q[1]) = Rank(J, q[2])
                                    /\ s[q[1]] # t[q[2]]})

\* (m/l1 + m/l2 + (m - transpositions/2)/m) / 3
Jaro(s, t) ==
    LET m == Cardinality(JaroMatches(s, t))
    IN  IF s = t THEN One
        ELSE IF m = 0 THEN Zero
        ELSE LET sum == Plus(Plus(<<m, Len(s)>>, <<m, Len(t)>>),
                             <<2 * m - Transpositions(s, t), 2 * m>>)
             IN  <<sum[1], 3 * sum[2]>>

\* The length of the common prefix, at most 4.
PrefixLen(s, t) ==
    Max({n \in 0 .. Min({4, Len(s), Len(t)}) : SubSeq(s, 1, n) = SubSeq(t, 1, n)})

\* j + prefixLen * 0.1 * (1 - j), unless j is 0.
JaroWinkler(s, t) ==
    LET j == Jaro(s, t)
        p == PrefixLen(s, t)
    IN  IF j[1] = 0 THEN Zero ELSE <<10 * j[1] + p * (j[2] - j[1]), 10 * j[2]>>

-----------------------------------------------------------------------------
\* levenshtein.

\* Mutant of NextRow: the substitution continues from the cell on the left.
NextRowSkewed(prev, s, t, i) ==
    LET curr[j \in 0 .. Len(t)] ==
            IF j = 0 THEN i
            ELSE LET cost == IF s[i] = t[j] THEN 0 ELSE 1
                 IN  Min({prev[j] + 1, curr[j - 1] + cost})
    IN  curr

\* One round of the outer loop: curr from prev, cell by cell.
NextRow(prev, s, t, i) ==
    LET curr[j \in 0 .. Len(t)] ==
            IF j = 0 THEN i
            ELSE LET cost == IF s[i] = t[j] THEN 0 ELSE 1
                 IN  Min({prev[j] + 1, curr[j - 1] + 1, prev[j - 1] + cost})
    IN  curr

\* prev after i rounds.
LevenshteinRows(s, t) ==
    LET prev[i \in 0 .. Len(s)] ==
            IF i = 0 THEN [j \in 0 .. Len(t) |-> j]
            ELSE NextRow(prev[i - 1], s, t, i)
    IN  prev

LevenshteinDistance(s, t) == LevenshteinRows(s, t)[Len(s)][Len(t)]

NormalizedLevenshtein(s, t) ==
    LET maxLen == Max({Len(s), Len(t)})
    IN  IF s = t THEN One ELSE <<maxLen - LevenshteinDistance(s, t), maxLen>>

-----------------------------------------------------------------------------
\* Token Jaccard.

TokenJaccard(s, t) ==
    LET a == TokenSet(s)
        b == TokenSet(t)
    IN  IF a = {} /\ b = {} THEN One
        ELSE IF a = {} \/ b = {} THEN Zero
        ELSE <<Cardinality(a \cap b), Cardinality(a \cup b)>>

Exact(s, t) == IF s = t THEN One ELSE Zero

ComputeSimilarity(fn, s, t) ==
    IF s = Empty \/ t = Empty THEN Zero
    ELSE CASE fn = "exact" -> Exact(s, t)
           [] fn = "jaro_winkler" -> JaroWinkler(s, t)
           [] fn = "levenshtein" -> NormalizedLevenshtein(s, t)
           [] fn = "token_jaccard" -> TokenJaccard(s, t)
           [] OTHER -> Zero

=============================================================================
