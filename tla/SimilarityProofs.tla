-------------------------- MODULE SimilarityProofs --------------------------
(***************************************************************************)
(* The string algorithms, for all strings over all alphabets.              *)
(***************************************************************************)
EXTENDS MCSimilarity, FiniteSetTheorems, WellFoundedInduction, TLAPS

(* Some element of a set of numbers is the least.                          *)
LEMMA LeastNatural ==
    ASSUME NEW S \in SUBSET Nat, S # {}
    PROVE  \E t \in S : \A u \in S : t <= u
  <1> DEFINE R == OpToRel(<, Nat)
  <1>1. \A x, y \in Nat : x < y => <<x, y>> \in R
    BY DEF OpToRel
  <1>2. IsWellFoundedOn(R, Nat)
    BY NatLessThanWellFounded
  <1> HIDE DEF R
  <1>3. \E t \in S : \A u \in S : <<u, t>> \notin R
    BY <1>2, WFMin
  <1>4. PICK t \in S : \A u \in S : <<u, t>> \notin R
    BY <1>3
  <1>5. \A u \in S : ~(u < t)
    BY <1>1, <1>4
  <1>6. \A u \in S : t <= u
    BY <1>5
  <1> QED
    BY <1>6

(* Induction up to n: what is true of 0 and of every successor of a number *)
(* that it is true of is true of all; P is the set of these numbers.       *)
LEMMA UpTo ==
    ASSUME NEW n \in Nat, NEW P, 0 \in P, \A i \in 1 .. n : i - 1 \in P => i \in P
    PROVE  \A i \in 0 .. n : i \in P
  <1> DEFINE Bad == {i \in 0 .. n : i \notin P}
  <1> SUFFICES ASSUME Bad # {} PROVE FALSE
    OBVIOUS
  <1>1. Bad \in SUBSET Nat
    OBVIOUS
  <1>2. PICK i \in Bad : \A k \in Bad : i <= k
    BY <1>1, LeastNatural
  <1>3. i \in 1 .. n /\ i - 1 \in 0 .. n /\ i - 1 \notin Bad
    BY <1>1, <1>2
  <1> QED
    BY <1>2, <1>3

(* A loop of n rounds, F[i] being what round i does to the value, has a    *)
(* value f[i] after every round.                                           *)
AreRounds(f, n, base, F) == f[0] = base /\ \A i \in 1 .. n : f[i] = F[i][f[i - 1]]

LEMMA Rounds ==
    ASSUME NEW n \in Nat, NEW V, NEW base \in V, NEW F \in [1 .. n -> [V -> V]]
    PROVE  \E f \in [0 .. n -> V] : AreRounds(f, n, base, F)
  <1> DEFINE P == {k \in 0 .. n : \E f \in [0 .. k -> V] : AreRounds(f, k, base, F)}
  <1>1. 0 \in P
    <2> DEFINE f == [i \in 0 .. 0 |-> base]
    <2>1. f \in [0 .. 0 -> V] /\ AreRounds(f, 0, base, F)
      BY DEF AreRounds
    <2> HIDE DEF f
    <2>2. 0 \in 0 .. n
      OBVIOUS
    <2> QED
      BY <2>1, <2>2
  <1>2. ASSUME NEW k \in 1 .. n, k - 1 \in P PROVE k \in P
    <2>1. PICK f \in [0 .. (k - 1) -> V] : AreRounds(f, k - 1, base, F)
      BY <1>2
    <2> DEFINE g == [i \in 0 .. k |-> IF i = k THEN F[k][f[k - 1]] ELSE f[i]]
    <2>2. f[k - 1] \in V /\ F[k][f[k - 1]] \in V
      OBVIOUS
    <2>3. g \in [0 .. k -> V]
      BY <2>2
    <2>4. g[k] = F[k][f[k - 1]] /\ \A i \in 0 .. (k - 1) : g[i] = f[i]
      OBVIOUS
    <2> HIDE DEF g
    <2>5. AreRounds(g, k, base, F)
      <3>1. g[0] = base
        BY <2>1, <2>4 DEF AreRounds
      <3>2. ASSUME NEW i \in 1 .. k PROVE g[i] = F[i][g[i - 1]]
        <4>1. i - 1 \in 0 .. (k - 1) /\ (i = k \/ i \in 1 .. (k - 1))
          OBVIOUS
        <4> QED
          BY <2>1, <2>4, <4>1 DEF AreRounds
      <3> QED
        BY <3>1, <3>2 DEF AreRounds
    <2>6. k \in 0 .. n
      OBVIOUS
    <2> QED
      BY <2>3, <2>5, <2>6
  <1> HIDE DEF P
  <1>3. n \in P
    <2>1. \A i \in 1 .. n : i - 1 \in P => i \in P
      BY <1>2
    <2>2. \A i \in 0 .. n : i \in P
      BY <1>1, <2>1, UpTo
    <2> QED
      BY <2>2
  <1> QED
    BY <1>3 DEF P

(* What Min and Max of module FiniteSetsExt choose.                        *)
LEMMA MinIs ==
    ASSUME NEW S \in SUBSET Nat, S # {}
    PROVE  Min(S) \in S /\ \A x \in S : Min(S) <= x
  <1>1. \E x \in S : \A y \in S : x <= y
    BY LeastNatural
  <1> QED
    BY <1>1 DEF Min

LEMMA MinOfThree ==
    ASSUME NEW x \in Nat, NEW y \in Nat, NEW z \in Nat
    PROVE  /\ Min({x, y, z}) \in Nat
           /\ Min({x, y, z}) = x \/ Min({x, y, z}) = y \/ Min({x, y, z}) = z
           /\ Min({x, y, z}) <= x /\ Min({x, y, z}) <= y /\ Min({x, y, z}) <= z
  <1>1. {x, y, z} \in SUBSET Nat /\ {x, y, z} # {}
    OBVIOUS
  <1>2. Min({x, y, z}) \in {x, y, z} /\ \A u \in {x, y, z} : Min({x, y, z}) <= u
    BY <1>1, MinIs
  <1> QED
    BY <1>2

LEMMA MaxOfTwo ==
    ASSUME NEW x \in Int, NEW y \in Int
    PROVE  Max({x, y}) = IF x <= y THEN y ELSE x
  <1> DEFINE m == IF x <= y THEN y ELSE x
  <1>1. m \in {x, y} /\ \A u \in {x, y} : m >= u
    OBVIOUS
  <1>2. \A u \in {x, y} : (\A v \in {x, y} : u >= v) => u = m
    OBVIOUS
  <1> QED
    BY <1>1, <1>2 DEF Max

LEMMA MinOfTwo ==
    ASSUME NEW x \in Int, NEW y \in Int
    PROVE  Min({x, y}) = IF x <= y THEN x ELSE y
  <1> DEFINE m == IF x <= y THEN x ELSE y
  <1>1. m \in {x, y} /\ \A u \in {x, y} : m <= u
    OBVIOUS
  <1>2. \A u \in {x, y} : (\A v \in {x, y} : u <= v) => u = m
    OBVIOUS
  <1> QED
    BY <1>1, <1>2 DEF Min

-----------------------------------------------------------------------------
(* Jaro: the window, and the pairs after every round.                      *)

Str == Seq(Char)

Cells(s, t) == (1 .. Len(s)) \X (1 .. Len(t))

LEMMA MatchWindowIs ==
    ASSUME NEW s \in Str, NEW t \in Str
    PROVE  MatchWindow(s, t) \in Nat /\ MatchWindow(s, t) = MatchWindow(t, s)
  <1> DEFINE m == IF Len(s) <= Len(t) THEN Len(t) ELSE Len(s)
  <1>1. Len(s) \in Nat /\ Len(t) \in Nat
    BY DEF Str
  <1>2. Max({Len(s), Len(t)}) = m /\ Max({Len(t), Len(s)}) = m
    BY <1>1, MaxOfTwo
  <1> DEFINE h == m \div 2 - 1
  <1>3. h \in Int
    BY <1>1
  <1>4. MatchWindow(s, t) = Max({0, h}) /\ MatchWindow(t, s) = Max({0, h})
    BY <1>2 DEF MatchWindow
  <1> HIDE DEF h
  <1>5. Max({0, h}) = IF 0 <= h THEN h ELSE 0
    BY <1>3, MaxOfTwo
  <1> QED
    BY <1>3, <1>4, <1>5

LEMMA InWindowIs ==
    ASSUME NEW s \in Str, NEW t \in Str, NEW i \in 1 .. Len(s)
    PROVE  InWindow(s, t, i) = {j \in 1 .. Len(t) : /\ i - j <= MatchWindow(s, t)
                                                    /\ j - i <= MatchWindow(s, t)}
  <1> DEFINE w == MatchWindow(s, t)
  <1>1. w \in Nat /\ Len(t) \in Nat /\ Len(s) \in Nat
    BY MatchWindowIs DEF Str
  <1> HIDE DEF w
  <1>2. Max({1, i - w}) = IF 1 <= i - w THEN i - w ELSE 1
    BY <1>1, MaxOfTwo
  <1>3. Min({i + w, Len(t)}) = IF i + w <= Len(t) THEN i + w ELSE Len(t)
    BY <1>1, MinOfTwo
  <1>4. InWindow(s, t, i) = Max({1, i - w}) .. Min({i + w, Len(t)})
    BY DEF InWindow, w
  <1>5. InWindow(s, t, i) = {j \in 1 .. Len(t) : i - j <= w /\ j - i <= w}
    BY <1>1, <1>2, <1>3, <1>4
  <1> QED
    BY <1>5 DEF w

(* The positions that one round chooses from.                              *)
LEMMA FreeForIs ==
    ASSUME NEW s \in Str, NEW t \in Str, NEW X, NEW i \in 1 .. Len(s)
    PROVE  /\ FreeFor(s, t, X, i) \in SUBSET (1 .. Len(t))
           /\ FreeFor(s, t, X, i) # {} =>
                  /\ Min(FreeFor(s, t, X, i)) \in FreeFor(s, t, X, i)
                  /\ \A j \in FreeFor(s, t, X, i) : Min(FreeFor(s, t, X, i)) <= j
  <1>1. FreeFor(s, t, X, i) \in SUBSET (1 .. Len(t))
    BY InWindowIs DEF FreeFor
  <1>2. FreeFor(s, t, X, i) \in SUBSET Nat
    BY <1>1
  <1> QED
    BY <1>1, <1>2, MinIs

LEMMA MatchNextType ==
    ASSUME NEW s \in Str, NEW t \in Str, NEW X \in SUBSET Cells(s, t), NEW i \in 1 .. Len(s)
    PROVE  MatchNext(s, t, X, i) \in SUBSET Cells(s, t)
  BY FreeForIs DEF MatchNext, Cells

LEMMA JaroRoundsEquation ==
    ASSUME NEW s \in Str, NEW t \in Str
    PROVE  /\ JaroRounds(s, t) \in [0 .. Len(s) -> SUBSET Cells(s, t)]
           /\ JaroRounds(s, t)[0] = {}
           /\ \A i \in 1 .. Len(s) :
                  JaroRounds(s, t)[i] = MatchNext(s, t, JaroRounds(s, t)[i - 1], i)
  <1> DEFINE n == Len(s)
             V == SUBSET Cells(s, t)
             F == [i \in 1 .. n |-> [v \in V |-> MatchNext(s, t, v, i)]]
             Is(g) == g = [i \in 0 .. n |-> IF i = 0 THEN {} ELSE MatchNext(s, t, g[i - 1], i)]
  <1>1. n \in Nat
    BY DEF Str
  <1>2. \A i \in 1 .. n : \A v \in V : F[i][v] = MatchNext(s, t, v, i) /\ F[i][v] \in V
    BY MatchNextType
  <1> DEFINE none == {}
  <1>3. none \in V
    OBVIOUS
  <1> HIDE DEF n, V, F, none
  <1>4. PICK f \in [0 .. n -> V] : AreRounds(f, n, none, F)
    <2>1. F \in [1 .. n -> [V -> V]]
      BY <1>2 DEF F
    <2> QED
      BY <1>1, <1>3, <2>1, Rounds
  <1>5. \A i \in 1 .. n : f[i] = MatchNext(s, t, f[i - 1], i)
    BY <1>1, <1>2, <1>4 DEF AreRounds
  <1>6. Is(f)
    BY <1>1, <1>4, <1>5 DEF none, AreRounds
  <1>7. Is(CHOOSE g : Is(g))
    BY <1>6, Zenon
  <1>8. JaroRounds(s, t) = CHOOSE g : Is(g)
    BY Zenon DEF JaroRounds, n
  <1> DEFINE J == JaroRounds(s, t)
  <1>9. Is(J)
    BY <1>7, <1>8, Zenon
  <1> HIDE DEF J
  <1>10. J[0] = {} /\ \A i \in 1 .. n : J[i] = MatchNext(s, t, J[i - 1], i)
    <2> DEFINE body(i) == IF i = 0 THEN {} ELSE MatchNext(s, t, J[i - 1], i)
    <2>1. J = [i \in 0 .. n |-> body(i)]
      BY <1>9
    <2> HIDE DEF body
    <2>2. \A i \in 0 .. n : J[i] = body(i)
      BY <2>1
    <2> QED
      BY <1>1, <2>2 DEF body
  <1>11. \A i \in 0 .. n : i \in {k \in 0 .. n : J[k] \in V}
    <2> DEFINE P == {k \in 0 .. n : J[k] \in V}
    <2>1. 0 \in P
      <3>1. J[0] \in V
        BY <1>3, <1>10, Zenon DEF none
      <3>2. 0 \in 0 .. n
        BY <1>1
      <3> QED
        BY <3>1, <3>2
    <2>2. ASSUME NEW i \in 1 .. n, i - 1 \in P PROVE i \in P
      BY <1>1, <1>2, <1>10, <2>2
    <2> HIDE DEF P
    <2> QED
      BY <1>1, <2>1, <2>2, UpTo DEF P
  <1>12. J \in [0 .. n -> V]
    BY <1>9, <1>11
  <1> QED
    BY <1>10, <1>12 DEF J, n, V

(* Pairs of positions, written as the reference definitions of the module  *)
(* MCSimilarity mean them: no position in two pairs, equal characters      *)
(* within the window w.                                                    *)
Apart(M) == \A p, q \in M : p[1] = q[1] \/ p[2] = q[2] => p = q

Fits(s, t, w, p) == s[p[1]] = t[p[2]] /\ p[1] - p[2] <= w /\ p[2] - p[1] <= w

IsMatching(s, t, w, M) ==
    M \in SUBSET Cells(s, t) /\ Apart(M) /\ \A p \in M : Fits(s, t, w, p)

(* The matching leaves no pair out unless one of the two positions has an  *)
(* earlier partner.  Both strings play the same part in this.              *)
Settled(s, t, w, n, M) ==
    \A p \in Cells(s, t) : p[1] <= n /\ Fits(s, t, w, p) =>
        \E q \in M : \/ q[1] = p[1] /\ q[2] <= p[2]
                     \/ q[2] = p[2] /\ q[1] <= p[1]

(* What the greedy pass has after n rounds.                                *)
GreedyOK(s, t, n, M) ==
    /\ IsMatching(s, t, MatchWindow(s, t), M)
    /\ \A p \in M : p[1] <= n
    /\ Settled(s, t, MatchWindow(s, t), n, M)

LEMMA MatchNextOK ==
    ASSUME NEW s \in Str, NEW t \in Str, NEW i \in 1 .. Len(s), NEW M, GreedyOK(s, t, i - 1, M)
    PROVE  GreedyOK(s, t, i, MatchNext(s, t, M, i))
  <1> DEFINE w == MatchWindow(s, t)
             free == FreeFor(s, t, M, i)
             N == MatchNext(s, t, M, i)
  <1>1. w \in Nat /\ Len(s) \in Nat /\ Len(t) \in Nat
    BY MatchWindowIs DEF Str
  <1>2. \A j : j \in free <=> /\ j \in 1 .. Len(t) /\ Fits(s, t, w, <<i, j>>)
                              /\ \A p \in M : p[2] # j
    BY InWindowIs DEF FreeFor, Fits
  <1>3. /\ M \in SUBSET Cells(s, t) /\ Apart(M) /\ \A p \in M : Fits(s, t, w, p)
        /\ \A p \in M : p[1] <= i - 1
        /\ Settled(s, t, w, i - 1, M)
    BY DEF GreedyOK, IsMatching
  <1>4. CASE free = {}
    <2>1. N = M
      BY <1>4 DEF MatchNext
    <2>2. Settled(s, t, w, i, M)
      <3> SUFFICES ASSUME NEW p \in Cells(s, t), p[1] <= i, Fits(s, t, w, p)
                   PROVE  \E q \in M : \/ q[1] = p[1] /\ q[2] <= p[2]
                                       \/ q[2] = p[2] /\ q[1] <= p[1]
        BY DEF Settled
      <3>1. p[1] \in 1 .. Len(s) /\ p[2] \in 1 .. Len(t)
        BY DEF Cells
      <3>2. CASE p[1] <= i - 1
        BY <1>3, <3>2 DEF Settled
      <3>3. CASE p[1] = i
        <4>1. Fits(s, t, w, <<i, p[2]>>)
          BY <3>3 DEF Fits
        <4>2. PICK q \in M : q[2] = p[2]
          BY <1>2, <1>4, <3>1, <4>1
        <4>3. q[1] <= p[1]
          <5>1. q[1] \in 1 .. Len(s) /\ q[1] <= i - 1
            BY <1>3 DEF Cells
          <5> QED
            BY <3>3, <5>1
        <4> QED
          BY <4>2, <4>3
      <3> QED
        BY <3>1, <3>2, <3>3
    <2>3. \A p \in M : p[1] <= i
      <3>1. \A p \in M : p[1] \in 1 .. Len(s)
        BY <1>3 DEF Cells
      <3> QED
        BY <1>3, <3>1
    <2> QED
      BY <1>3, <2>1, <2>2, <2>3 DEF GreedyOK, IsMatching
  <1>5. CASE free # {}
    <2> DEFINE j0 == Min(free)
    <2>1. j0 \in free /\ \A j \in free : j0 <= j
      BY <1>5, FreeForIs
    <2>2. N = M \cup {<<i, j0>>}
      BY <1>5 DEF MatchNext
    <2> HIDE DEF j0, free, N
    <2>3. j0 \in 1 .. Len(t) /\ Fits(s, t, w, <<i, j0>>) /\ \A p \in M : p[2] # j0
      BY <1>2, <2>1
    <2>4. N \in SUBSET Cells(s, t)
      BY <1>3, <2>2, <2>3 DEF Cells
    <2>5. \A p \in M : p[1] \in 1 .. Len(s) /\ p[1] <= i - 1
      BY <1>3 DEF Cells
    <2>6. Apart(N)
      <3> SUFFICES ASSUME NEW p \in N, NEW q \in N, p[1] = q[1] \/ p[2] = q[2] PROVE p = q
        BY DEF Apart
      <3>1. \A x \in M : x[1] # i /\ x[2] # j0
        BY <2>3, <2>5
      <3> QED
        BY <1>3, <2>2, <3>1 DEF Apart
    <2>7. \A p \in N : Fits(s, t, w, p)
      BY <1>3, <2>2, <2>3
    <2>8. \A p \in N : p[1] <= i
      BY <2>2, <2>5
    <2>9. Settled(s, t, w, i, N)
      <3> SUFFICES ASSUME NEW p \in Cells(s, t), p[1] <= i, Fits(s, t, w, p)
                   PROVE  \E q \in N : \/ q[1] = p[1] /\ q[2] <= p[2]
                                       \/ q[2] = p[2] /\ q[1] <= p[1]
        BY DEF Settled
      <3>1. p[1] \in 1 .. Len(s) /\ p[2] \in 1 .. Len(t)
        BY DEF Cells
      <3>2. CASE p[1] <= i - 1
        <4>1. \E q \in M : \/ q[1] = p[1] /\ q[2] <= p[2]
                           \/ q[2] = p[2] /\ q[1] <= p[1]
          BY <1>3, <3>2 DEF Settled
        <4> QED
          BY <2>2, <4>1
      <3>3. CASE p[1] = i
        <4>1. Fits(s, t, w, <<i, p[2]>>)
          BY <3>3 DEF Fits
        <4>2. CASE p[2] \in free
          <5>1. j0 <= p[2] /\ <<i, j0>> \in N
            BY <2>1, <2>2, <4>2
          <5>2. <<i, j0>>[1] = p[1] /\ <<i, j0>>[2] <= p[2]
            BY <3>3, <5>1
          <5> QED
            BY <5>1, <5>2
        <4>3. CASE p[2] \notin free
          <5>1. PICK q \in M : q[2] = p[2]
            BY <1>2, <3>1, <4>1, <4>3
          <5>2. q[1] <= p[1]
            BY <2>5, <3>3
          <5> QED
            BY <2>2, <5>1, <5>2
        <4> QED
          BY <4>2, <4>3
      <3> QED
        BY <3>1, <3>2, <3>3
    <2> QED
      BY <2>4, <2>6, <2>7, <2>8, <2>9 DEF GreedyOK, IsMatching, N
  <1> QED
    BY <1>4, <1>5

LEMMA JaroRoundsOK ==
    ASSUME NEW s \in Str, NEW t \in Str
    PROVE  \A i \in 0 .. Len(s) : GreedyOK(s, t, i, JaroRounds(s, t)[i])
  <1> DEFINE J == JaroRounds(s, t)
             P == {i \in 0 .. Len(s) : GreedyOK(s, t, i, J[i])}
  <1>1. Len(s) \in Nat
    BY DEF Str
  <1>2. J[0] = {} /\ \A i \in 1 .. Len(s) : J[i] = MatchNext(s, t, J[i - 1], i)
    BY JaroRoundsEquation
  <1> HIDE DEF J
  <1>3. GreedyOK(s, t, 0, {})
    <2>1. \A p \in Cells(s, t) : ~(p[1] <= 0)
      BY <1>1 DEF Cells
    <2> QED
      BY <2>1 DEF GreedyOK, IsMatching, Apart, Settled
  <1>4. 0 \in P
    <2>1. GreedyOK(s, t, 0, J[0])
      BY <1>2, <1>3, Zenon
    <2>2. 0 \in 0 .. Len(s)
      BY <1>1
    <2> QED
      BY <2>1, <2>2
  <1>5. ASSUME NEW i \in 1 .. Len(s), i - 1 \in P PROVE i \in P
    BY <1>2, <1>5, MatchNextOK
  <1> HIDE DEF P
  <1>6. \A i \in 0 .. Len(s) : i \in P
    BY <1>1, <1>4, <1>5, UpTo
  <1> QED
    BY <1>6 DEF P, J

(* Two settled matchings are the same: a pair that only one of them has    *)
(* would, if it is the earliest such pair, share a position with an        *)
(* earlier pair that both have.                                            *)
IsJaro(s, t, M) == /\ IsMatching(s, t, MatchWindow(s, t), M)
                   /\ Settled(s, t, MatchWindow(s, t), Len(s), M)

LEMMA JaroMatchesIs ==
    ASSUME NEW s \in Str, NEW t \in Str
    PROVE  IsJaro(s, t, JaroMatches(s, t))
  <1>1. Len(s) \in 0 .. Len(s)
    BY DEF Str
  <1>2. GreedyOK(s, t, Len(s), JaroMatches(s, t))
    BY <1>1, JaroRoundsOK DEF JaroMatches
  <1> QED
    BY <1>2 DEF GreedyOK, IsJaro

LEMMA EarlierPair ==
    ASSUME NEW s \in Str, NEW t \in Str, NEW M, IsJaro(s, t, M), NEW N, IsJaro(s, t, N),
           NEW p \in M, p \notin N
    PROVE  \E q \in N : q \notin M /\ q[1] + q[2] < p[1] + p[2]
  <1>1. Len(s) \in Nat /\ Len(t) \in Nat
    BY DEF Str
  <1>2. \A x \in M \cup N : /\ x \in Cells(s, t)
                            /\ x[1] \in 1 .. Len(s) /\ x[2] \in 1 .. Len(t)
                            /\ x = <<x[1], x[2]>>
    BY DEF IsJaro, IsMatching, Cells
  <1>3. Fits(s, t, MatchWindow(s, t), p) /\ p[1] <= Len(s)
    BY <1>1, <1>2 DEF IsJaro, IsMatching
  <1>4. PICK q \in N : \/ q[1] = p[1] /\ q[2] <= p[2]
                       \/ q[2] = p[2] /\ q[1] <= p[1]
    BY <1>2, <1>3 DEF IsJaro, Settled
  <1>5. q # p
    OBVIOUS
  <1>6. q[1] # p[1] \/ q[2] # p[2]
    BY <1>2, <1>5
  <1>7. q[1] + q[2] < p[1] + p[2]
    BY <1>1, <1>2, <1>4, <1>6
  <1>8. q \notin M
    BY <1>4, <1>5 DEF IsJaro, IsMatching, Apart
  <1> QED
    BY <1>7, <1>8

LEMMA JaroUnique ==
    ASSUME NEW s \in Str, NEW t \in Str, NEW M, IsJaro(s, t, M), NEW N, IsJaro(s, t, N)
    PROVE  M = N
  <1> DEFINE D == (M \ N) \cup (N \ M)
             S == {p[1] + p[2] : p \in D}
  <1>1. \A p \in D : p[1] + p[2] \in Nat
    <2>1. Len(s) \in Nat /\ Len(t) \in Nat
      BY DEF Str
    <2>2. \A x \in D : x[1] \in 1 .. Len(s) /\ x[2] \in 1 .. Len(t)
      BY DEF IsJaro, IsMatching, Cells
    <2> QED
      BY <2>1, <2>2
  <1>2. ASSUME D # {} PROVE FALSE
    <2>1. S \in SUBSET Nat /\ S # {}
      BY <1>1, <1>2
    <2>2. PICK k \in S : \A m \in S : k <= m
      BY <2>1, LeastNatural
    <2>3. PICK p \in D : k = p[1] + p[2]
      BY <2>2
    <2>4. PICK q \in D : q[1] + q[2] < p[1] + p[2]
      <3>1. CASE p \in M \ N
        BY <3>1, EarlierPair
      <3>2. CASE p \in N \ M
        BY <3>2, EarlierPair
      <3> QED
        BY <3>1, <3>2
    <2>5. q[1] + q[2] \in S /\ q[1] + q[2] \in Nat /\ p[1] + p[2] \in Nat
      BY <1>1
    <2>6. k <= q[1] + q[2]
      BY <2>2, <2>5
    <2> HIDE DEF D, S
    <2> QED
      BY <2>3, <2>4, <2>5, <2>6
  <1> QED
    BY <1>2

(* The greedy pass over t finds the same pairs as the one over s.          *)
Flip(M) == {<<p[2], p[1]>> : p \in M}

LEMMA JaroFlip ==
    ASSUME NEW s \in Str, NEW t \in Str
    PROVE  JaroMatches(t, s) = Flip(JaroMatches(s, t))
  <1> DEFINE M == JaroMatches(s, t)
             w == MatchWindow(s, t)
  <1>1. Len(s) \in Nat /\ Len(t) \in Nat /\ w \in Nat /\ w = MatchWindow(t, s)
    BY MatchWindowIs DEF Str
  <1>2. IsJaro(s, t, M)
    BY JaroMatchesIs
  <1> HIDE DEF M, w
  <1>3. \A p \in M : p[1] \in 1 .. Len(s) /\ p[2] \in 1 .. Len(t) /\ p = <<p[1], p[2]>>
    BY <1>2 DEF IsJaro, IsMatching, Cells
  <1>4. \A q \in Flip(M) : <<q[2], q[1]>> \in M
    BY <1>3 DEF Flip
  <1>5. Flip(M) \in SUBSET Cells(t, s)
    BY <1>3 DEF Flip, Cells
  <1>6. Apart(Flip(M))
    <2> SUFFICES ASSUME NEW p \in M, NEW q \in M,
                        <<p[2], p[1]>>[1] = <<q[2], q[1]>>[1]
                            \/ <<p[2], p[1]>>[2] = <<q[2], q[1]>>[2]
                 PROVE  <<p[2], p[1]>> = <<q[2], q[1]>>
      BY DEF Apart, Flip
    <2>1. p[1] = q[1] \/ p[2] = q[2]
      OBVIOUS
    <2>2. p = q
      BY <1>2, <2>1 DEF IsJaro, IsMatching, Apart
    <2> QED
      BY <2>2
  <1>7. \A q \in Flip(M) : Fits(t, s, w, q)
    <2> SUFFICES ASSUME NEW p \in M PROVE Fits(t, s, w, <<p[2], p[1]>>)
      BY DEF Flip
    <2>1. Fits(s, t, w, p)
      BY <1>2 DEF IsJaro, IsMatching, w
    <2> QED
      BY <2>1 DEF Fits
  <1>8. Settled(t, s, w, Len(t), Flip(M))
    <2> SUFFICES ASSUME NEW p \in Cells(t, s), Fits(t, s, w, p)
                 PROVE  \E q \in Flip(M) : \/ q[1] = p[1] /\ q[2] <= p[2]
                                           \/ q[2] = p[2] /\ q[1] <= p[1]
      BY DEF Settled
    <2> DEFINE r == <<p[2], p[1]>>
    <2>1. p[1] \in 1 .. Len(t) /\ p[2] \in 1 .. Len(s)
      BY DEF Cells
    <2>2. r \in Cells(s, t) /\ Fits(s, t, w, r) /\ r[1] <= Len(s) /\ r[1] = p[2] /\ r[2] = p[1]
      BY <1>1, <2>1 DEF Cells, Fits
    <2> HIDE DEF r
    <2>3. PICK q \in M : \/ q[1] = r[1] /\ q[2] <= r[2]
                         \/ q[2] = r[2] /\ q[1] <= r[1]
      BY <1>2, <2>2 DEF IsJaro, Settled, w
    <2>4. <<q[2], q[1]>> \in Flip(M)
      BY DEF Flip
    <2> QED
      BY <2>2, <2>3, <2>4
  <1>9. IsJaro(t, s, Flip(M))
    BY <1>1, <1>5, <1>6, <1>7, <1>8 DEF IsJaro, IsMatching
  <1>10. IsJaro(t, s, JaroMatches(t, s))
    BY JaroMatchesIs
  <1>11. JaroMatches(t, s) = Flip(M)
    BY <1>9, <1>10, JaroUnique
  <1> QED
    BY <1>11 DEF M

(* No matching has more pairs than the greedy one: it can be changed, row  *)
(* by row, into the greedy one without losing a pair.                      *)
LEMMA CellsFinite ==
    ASSUME NEW s \in Str, NEW t \in Str
    PROVE  IsFiniteSet(Cells(s, t))
  <1>1. 1 \in Int /\ Len(s) \in Int /\ Len(t) \in Int
    BY DEF Str
  <1>2. IsFiniteSet(1 .. Len(s)) /\ IsFiniteSet(1 .. Len(t))
    BY <1>1, FS_Interval
  <1> QED
    BY <1>2, FS_Product DEF Cells

LEMMA FewerPairs ==
    ASSUME NEW s, NEW t, NEW w, NEW M, IsMatching(s, t, w, M), NEW N \in SUBSET M
    PROVE  IsMatching(s, t, w, N)
  <1>1. N \in SUBSET Cells(s, t)
    BY DEF IsMatching
  <1>2. Apart(N)
    BY DEF IsMatching, Apart
  <1>3. \A p \in N : Fits(s, t, w, p)
    BY DEF IsMatching
  <1> QED
    BY <1>1, <1>2, <1>3 DEF IsMatching

LEMMA AnotherPair ==
    ASSUME NEW s, NEW t, NEW w, NEW M, IsMatching(s, t, w, M),
           NEW x \in Cells(s, t), Fits(s, t, w, x),
           \A p \in M : p[1] # x[1] /\ p[2] # x[2]
    PROVE  IsMatching(s, t, w, M \cup {x})
  <1>1. M \cup {x} \in SUBSET Cells(s, t)
    BY DEF IsMatching
  <1>2. Apart(M \cup {x})
    BY DEF IsMatching, Apart
  <1>3. \A p \in M \cup {x} : Fits(s, t, w, p)
    BY DEF IsMatching
  <1> QED
    BY <1>1, <1>2, <1>3 DEF IsMatching

LEMMA Exchanged ==
    ASSUME NEW N, IsFiniteSet(N), NEW p \in N, NEW x, x \notin N
    PROVE  /\ IsFiniteSet((N \ {p}) \cup {x})
           /\ Cardinality((N \ {p}) \cup {x}) = Cardinality(N)
  <1> DEFINE R == N \ {p}
  <1>1. IsFiniteSet(R) /\ Cardinality(R) = Cardinality(N) - 1
    BY FS_RemoveElement
  <1>2. x \notin R
    OBVIOUS
  <1> HIDE DEF R
  <1>3. IsFiniteSet(R \cup {x}) /\ Cardinality(R \cup {x}) = Cardinality(R) + 1
    BY <1>1, <1>2, FS_AddElement
  <1>4. Cardinality(N) \in Nat
    BY FS_CardinalityType
  <1> QED
    BY <1>1, <1>3, <1>4 DEF R

\* The pairs of the first n characters.
FirstRows(M, n) == {p \in M : p[1] <= n}

(* A matching that agrees with the greedy pass before round i can be made  *)
(* to agree with it after round i without losing a pair.  If it has both   *)
(* characters of the greedy pair x in other pairs, x and the pair of their *)
(* partners take their place.                                              *)
LEMMA Exchange ==
    ASSUME NEW s \in Str, NEW t \in Str, NEW i \in 1 .. Len(s), NEW M,
           NEW N, IsMatching(s, t, MatchWindow(s, t), N), FirstRows(N, i - 1) = M
    PROVE  \E N2 : /\ IsMatching(s, t, MatchWindow(s, t), N2)
                   /\ FirstRows(N2, i) = MatchNext(s, t, M, i)
                   /\ Cardinality(N) <= Cardinality(N2)
  <1> DEFINE w == MatchWindow(s, t)
             free == FreeFor(s, t, M, i)
  <1>1. w \in Nat /\ Len(s) \in Nat /\ Len(t) \in Nat
    BY MatchWindowIs DEF Str
  <1>2. \A j : j \in free <=> /\ j \in 1 .. Len(t) /\ Fits(s, t, w, <<i, j>>)
                              /\ \A p \in M : p[2] # j
    BY InWindowIs DEF FreeFor, Fits
  <1>3. /\ IsMatching(s, t, w, N) /\ N \in SUBSET Cells(s, t) /\ Apart(N)
        /\ \A p \in N : /\ Fits(s, t, w, p) /\ p = <<p[1], p[2]>>
                        /\ p[1] \in 1 .. Len(s) /\ p[2] \in 1 .. Len(t)
    BY DEF IsMatching, Cells
  <1>4. IsFiniteSet(N) /\ Cardinality(N) \in Nat
    BY <1>3, CellsFinite, FS_Subset, FS_CardinalityType
  <1>5. \A p \in N : p \in M <=> p[1] <= i - 1
    BY DEF FirstRows
  <1>6. M \in SUBSET N
    BY DEF FirstRows
  <1>7. \A p \in N : p[1] = i => p[2] \in free
    <2> SUFFICES ASSUME NEW p \in N, p[1] = i PROVE p[2] \in free
      OBVIOUS
    <2>1. p[2] \in 1 .. Len(t) /\ Fits(s, t, w, <<i, p[2]>>)
      BY <1>3 DEF Fits
    <2>2. ASSUME NEW q \in M PROVE q[2] # p[2]
      <3>1. q \in N /\ q[1] <= i - 1 /\ q[1] \in 1 .. Len(s)
        BY <1>3, <1>5, <1>6
      <3>2. q # p
        BY <3>1
      <3> QED
        BY <1>3, <3>1, <3>2 DEF Apart
    <2> QED
      BY <1>2, <2>1, <2>2
  <1> HIDE DEF w
  <1>8. CASE free = {}
    <2>1. MatchNext(s, t, M, i) = M
      BY <1>8 DEF MatchNext
    <2>2. \A p \in N : p[1] # i
      BY <1>7, <1>8
    <2>3. FirstRows(N, i) = M
      <3>1. \A p \in N : p[1] <= i <=> p[1] <= i - 1
        BY <1>3, <2>2
      <3> QED
        BY <1>5, <1>6, <3>1 DEF FirstRows
    <2> QED
      BY <1>3, <1>4, <2>1, <2>3 DEF w
  <1>9. CASE free # {}
    <2> DEFINE j == Min(free)
               x == <<i, j>>
    <2>1. j \in free /\ \A k \in free : j <= k
      BY <1>9, FreeForIs
    <2>2. MatchNext(s, t, M, i) = M \cup {x}
      BY <1>9 DEF MatchNext
    <2> HIDE DEF j, free
    <2>3. j \in 1 .. Len(t) /\ Fits(s, t, w, x) /\ \A p \in M : p[2] # j
      BY <1>2, <2>1
    <2>4. x \in Cells(s, t) /\ x[1] = i /\ x[2] = j
      BY <2>3 DEF Cells
    <2> HIDE DEF x
    \* A matching with x that has the other pairs of the rows above.
    <2>5. ASSUME NEW N2, IsMatching(s, t, w, N2), x \in N2,
                 \A p \in N2 : p[1] <= i - 1 => p \in N,
                 \A p \in M : p \in N2
          PROVE  FirstRows(N2, i) = M \cup {x}
      <3>1. \A p \in N2 : p[1] \in 1 .. Len(s)
        BY <2>5 DEF IsMatching, Cells
      <3>2. ASSUME NEW p \in N2, p[1] <= i PROVE p \in M \cup {x}
        <4>1. CASE p[1] <= i - 1
          BY <1>5, <2>5, <4>1
        <4>2. CASE p[1] = i
          BY <2>4, <2>5, <4>2 DEF IsMatching, Apart
        <4> QED
          BY <3>1, <3>2, <4>1, <4>2
      <3>3. ASSUME NEW p \in M \cup {x} PROVE p \in N2 /\ p[1] <= i
        <4>1. CASE p = x
          BY <2>4, <2>5, <4>1
        <4>2. CASE p \in M
          <5>1. p[1] <= i - 1 /\ p[1] \in 1 .. Len(s)
            BY <1>3, <1>5, <1>6, <4>2
          <5> QED
            BY <2>5, <4>2, <5>1
        <4> QED
          BY <4>1, <4>2
      <3> QED
        BY <3>2, <3>3 DEF FirstRows
    <2>6. CASE x \in N
      <3>1. FirstRows(N, i) = M \cup {x}
        BY <1>3, <1>6, <2>5, <2>6
      <3> QED
        BY <1>3, <1>4, <2>2, <3>1 DEF w
    <2>7. CASE x \notin N
      \* x takes its column from a row further down, if from any.
      <3>1. ASSUME NEW q \in N, q[2] = j PROVE q[1] \in 1 .. Len(s) /\ q[1] > i
        <4>1. q \notin M /\ q # x
          BY <2>3, <2>7, <3>1
        <4>2. q[1] \in 1 .. Len(s) /\ q[1] # i
          BY <1>3, <3>1, <4>1 DEF x
        <4>3. ~(q[1] <= i - 1)
          BY <1>5, <4>1
        <4> QED
          BY <4>2, <4>3
      <3>2. CASE \A p \in N : p[1] # i /\ p[2] # j
        <4> DEFINE N2 == N \cup {x}
        <4>1. IsMatching(s, t, w, N2)
          BY <1>3, <2>3, <2>4, <3>2, AnotherPair
        <4>2. Cardinality(N2) = Cardinality(N) + 1
          BY <1>4, <2>7, FS_AddElement
        <4>3. \A p \in N2 : p[1] <= i - 1 => p \in N
          BY <2>4
        <4>4. FirstRows(N2, i) = M \cup {x}
          BY <1>6, <2>5, <4>1, <4>3
        <4> HIDE DEF N2
        <4>5. Cardinality(N) <= Cardinality(N2)
          BY <1>4, <4>2
        <4> QED
          BY <2>2, <4>1, <4>4, <4>5 DEF w
      \* One pair makes room for x.
      <3>3. ASSUME NEW q \in N, q[1] >= i,
                   \A p \in N : p # q => p[1] # i /\ p[2] # j
            PROVE  \E N2 : /\ IsMatching(s, t, w, N2)
                           /\ FirstRows(N2, i) = M \cup {x}
                           /\ Cardinality(N) <= Cardinality(N2)
        <4> DEFINE R == N \ {q}
                   N2 == R \cup {x}
        <4>1. IsMatching(s, t, w, R)
          BY <1>3, FewerPairs
        <4>2. IsMatching(s, t, w, N2)
          BY <2>3, <2>4, <3>3, <4>1, AnotherPair
        <4>3. Cardinality(N2) = Cardinality(N)
          BY <1>4, <2>7, Exchanged
        <4>4. \A p \in N2 : p[1] <= i - 1 => p \in N
          BY <2>4
        <4>5. \A p \in M : p \in N2
          <5>1. q[1] \in 1 .. Len(s)
            BY <1>3
          <5>2. q \notin M
            BY <1>5, <3>3, <5>1
          <5> QED
            BY <1>6, <5>2
        <4>6. FirstRows(N2, i) = M \cup {x}
          BY <2>5, <4>2, <4>4, <4>5
        <4> HIDE DEF N2
        <4>7. Cardinality(N) <= Cardinality(N2)
          BY <1>4, <4>3
        <4> QED
          BY <4>2, <4>6, <4>7
      <3>4. CASE \E q \in N : q[1] = i /\ \A p \in N : p[2] # j
        <4>1. PICK q \in N : q[1] = i /\ \A p \in N : p[2] # j
          BY <3>4
        <4>2. \A p \in N : p # q => p[1] # i /\ p[2] # j
          BY <1>3, <4>1 DEF Apart
        <4> QED
          BY <2>2, <3>3, <4>1, <4>2 DEF w
      <3>5. CASE \E q \in N : q[2] = j /\ \A p \in N : p[1] # i
        <4>1. PICK q \in N : q[2] = j /\ \A p \in N : p[1] # i
          BY <3>5
        <4>2. \A p \in N : p # q => p[1] # i /\ p[2] # j
          BY <1>3, <4>1 DEF Apart
        <4>3. q[1] >= i
          BY <3>1, <4>1
        <4> QED
          BY <2>2, <3>3, <4>1, <4>2, <4>3 DEF w
      \* Two pairs: they swap their columns.
      <3>6. CASE \E q, r \in N : q[1] = i /\ r[2] = j
        <4>1. PICK q \in N : q[1] = i /\ \E r \in N : r[2] = j
          BY <3>6
        <4>2. PICK r \in N : r[2] = j
          BY <4>1
        <4> DEFINE y == <<r[1], q[2]>>
                   R == (N \ {q}) \cup {x}
                   R1 == N \ {q}
                   R2 == R1 \ {r}
                   R3 == R2 \cup {x}
                   N2 == R3 \cup {y}
        <4>3. r[1] \in 1 .. Len(s) /\ r[1] > i
          BY <3>1, <4>2
        <4>4. q # r
          BY <4>1, <4>3
        <4>5. q[2] \in 1 .. Len(t) /\ q[2] >= j /\ q[2] # j
          <5>1. q[2] \in free
            BY <1>7, <4>1
          <5>2. q[2] \in 1 .. Len(t) /\ q[2] >= j
            BY <1>3, <2>1, <2>3, <5>1
          <5>3. q[2] # j
            BY <1>3, <4>2, <4>4 DEF Apart
          <5> QED
            BY <5>2, <5>3
        <4>6. y \in Cells(s, t) /\ y[1] = r[1] /\ y[2] = q[2]
          BY <4>3, <4>5 DEF Cells
        <4>7. Fits(s, t, w, y)
          <5>1. s[i] = t[q[2]] /\ q[2] - i <= w
            BY <1>3, <4>1 DEF Fits
          <5>2. s[r[1]] = t[j] /\ r[1] - j <= w
            BY <1>3, <4>2 DEF Fits
          <5>3. s[i] = t[j]
            BY <2>3, <2>4 DEF Fits
          <5>4. r[1] - q[2] <= w /\ q[2] - r[1] <= w
            <6>1. /\ i \in Int /\ j \in Int /\ w \in Int /\ r[1] \in Int /\ q[2] \in Int
                  /\ r[1] > i /\ q[2] >= j
              BY <1>1, <2>3, <4>3, <4>5
            <6> QED
              BY <5>1, <5>2, <6>1
          <5> QED
            BY <4>6, <5>1, <5>2, <5>3, <5>4 DEF Fits
        <4>8. \A p \in R2 : p \in N /\ p[1] # i /\ p[2] # j /\ p[1] # r[1] /\ p[2] # q[2]
          BY <1>3, <4>1, <4>2 DEF Apart
        <4>9. IsMatching(s, t, w, R2)
          BY <1>3, FewerPairs
        <4>10. IsMatching(s, t, w, R3)
          BY <2>3, <2>4, <4>8, <4>9, AnotherPair
        <4>11. \A p \in R3 : p[1] # y[1] /\ p[2] # y[2]
          <5>1. x[1] # y[1] /\ x[2] # y[2]
            BY <2>4, <4>3, <4>5, <4>6
          <5> QED
            BY <4>6, <4>8, <5>1
        <4> HIDE DEF y, R2
        <4>12. IsMatching(s, t, w, N2)
          BY <4>6, <4>7, <4>10, <4>11, AnotherPair
        <4>13. Cardinality(N2) = Cardinality(N)
          <5>1. IsFiniteSet(R) /\ Cardinality(R) = Cardinality(N)
            BY <1>4, <2>7, Exchanged
          <5>2. r \in R /\ x # r
            BY <2>7, <4>4
          <5>3. y \notin N
            BY <1>3, <4>1, <4>2, <4>4, <4>6 DEF Apart
          <5>4. y \notin R /\ y \notin R3
            BY <4>11, <5>3
          <5>5. N2 = (R \ {r}) \cup {y}
            BY <5>2 DEF R2
          <5> HIDE DEF R, N2
          <5> QED
            BY <5>1, <5>2, <5>4, <5>5, Exchanged
        <4>14. \A p \in N2 : p[1] <= i - 1 => p \in N
          <5>1. ~(y[1] <= i - 1) /\ ~(x[1] <= i - 1)
            BY <2>4, <4>3, <4>6
          <5> QED
            BY <4>8, <5>1
        <4>15. \A p \in M : p \in N2
          <5>1. q \notin M /\ r \notin M
            BY <1>5, <4>1, <4>3
          <5> QED
            BY <1>6, <5>1 DEF R2
        <4>16. FirstRows(N2, i) = M \cup {x}
          BY <2>5, <4>12, <4>14, <4>15
        <4> HIDE DEF N2
        <4>17. Cardinality(N) <= Cardinality(N2)
          BY <1>4, <4>13
        <4> QED
          BY <2>2, <4>12, <4>16, <4>17 DEF w
      <3> QED
        BY <3>2, <3>4, <3>5, <3>6
    <2> QED
      BY <2>6, <2>7
  <1> QED
    BY <1>8, <1>9

LEMMA JaroMaximum ==
    ASSUME NEW s \in Str, NEW t \in Str, NEW N, IsMatching(s, t, MatchWindow(s, t), N)
    PROVE  Cardinality(N) <= Cardinality(JaroMatches(s, t))
  <1> DEFINE J == JaroRounds(s, t)
             w == MatchWindow(s, t)
             OK(i, N2) == /\ IsMatching(s, t, w, N2)
                          /\ FirstRows(N2, i) = J[i]
                          /\ Cardinality(N) <= Cardinality(N2)
             P == {i \in 0 .. Len(s) : \E N2 : OK(i, N2)}
  <1>1. Len(s) \in Nat /\ Len(t) \in Nat
    BY DEF Str
  <1>2. J[0] = {} /\ \A i \in 1 .. Len(s) : J[i] = MatchNext(s, t, J[i - 1], i)
    BY JaroRoundsEquation
  <1>3. ASSUME NEW N2, IsMatching(s, t, w, N2)
        PROVE  /\ Cardinality(N2) \in Nat
               /\ \A p \in N2 : p[1] \in 1 .. Len(s)
    <2>1. N2 \in SUBSET Cells(s, t)
      BY <1>3 DEF IsMatching
    <2>2. Cardinality(N2) \in Nat
      BY <2>1, CellsFinite, FS_Subset, FS_CardinalityType
    <2> QED
      BY <2>1, <2>2 DEF Cells
  <1> HIDE DEF J, w
  <1>4. 0 \in P
    <2>1. Cardinality(N) <= Cardinality(N)
      BY <1>3 DEF w
    <2>2. FirstRows(N, 0) = {}
      BY <1>1, <1>3 DEF FirstRows, w
    <2>3. OK(0, N)
      BY <1>2, <2>1, <2>2 DEF w
    <2>4. 0 \in 0 .. Len(s)
      BY <1>1
    <2> QED
      BY <2>3, <2>4
  <1>5. ASSUME NEW i \in 1 .. Len(s), i - 1 \in P PROVE i \in P
    <2>1. PICK N1 : OK(i - 1, N1)
      BY <1>5
    <2>2. PICK N2 : /\ IsMatching(s, t, w, N2)
                    /\ FirstRows(N2, i) = MatchNext(s, t, J[i - 1], i)
                    /\ Cardinality(N1) <= Cardinality(N2)
      BY <2>1, Exchange DEF w
    <2>3. Cardinality(N) <= Cardinality(N2)
      BY <1>3, <2>1, <2>2 DEF w
    <2>4. OK(i, N2)
      BY <1>2, <2>2, <2>3
    <2>5. i \in 0 .. Len(s)
      BY <1>1
    <2> QED
      BY <2>4, <2>5
  <1> HIDE DEF P
  <1>6. Len(s) \in P
    <2>1. \A i \in 1 .. Len(s) : i - 1 \in P => i \in P
      BY <1>5
    <2>2. \A i \in 0 .. Len(s) : i \in P
      BY <1>1, <1>4, <2>1, UpTo
    <2> QED
      BY <1>1, <2>2
  <1>7. PICK N2 : OK(Len(s), N2)
    BY <1>6 DEF P
  <1>8. FirstRows(N2, Len(s)) = N2
    BY <1>1, <1>3, <1>7 DEF FirstRows
  <1> QED
    BY <1>7, <1>8 DEF JaroMatches, J

-----------------------------------------------------------------------------
(* The reference definitions.                                              *)

LEMMA PartialMatchingsAre ==
    ASSUME NEW s \in Str, NEW t \in Str, NEW M
    PROVE  M \in PartialMatchings(s, t) <=> M \in SUBSET Cells(s, t) /\ Apart(M)
  <1> DEFINE Inj(f) == \A i, k \in DOMAIN s : i # k /\ f[i] # 0 => f[i] # f[k]
             G(f) == {<<i, f[i]>> : i \in {k \in DOMAIN s : f[k] # 0}}
  <1>1. /\ Len(s) \in Nat /\ Len(t) \in Nat /\ DOMAIN s = 1 .. Len(s)
    BY DEF Str
  <1>2. M \in PartialMatchings(s, t) <=>
            \E f \in [DOMAIN s -> 0 .. Len(t)] : Inj(f) /\ M = G(f)
    BY DEF PartialMatchings
  <1>3. ASSUME NEW f \in [DOMAIN s -> 0 .. Len(t)], Inj(f), M = G(f)
        PROVE  M \in SUBSET Cells(s, t) /\ Apart(M)
    <2>1. \A p \in M : /\ p[1] \in DOMAIN s /\ f[p[1]] # 0 /\ p[2] = f[p[1]]
                       /\ p = <<p[1], p[2]>>
      BY <1>3
    <2>2. M \in SUBSET Cells(s, t)
      BY <1>1, <2>1 DEF Cells
    <2>3. Apart(M)
      BY <1>3, <2>1 DEF Apart
    <2> QED
      BY <2>2, <2>3
  <1>4. ASSUME M \in SUBSET Cells(s, t), Apart(M)
        PROVE  \E f \in [DOMAIN s -> 0 .. Len(t)] : Inj(f) /\ M = G(f)
    <2> DEFINE at(i) == {p \in M : p[1] = i}
               f == [i \in DOMAIN s |-> IF at(i) = {} THEN 0 ELSE (CHOOSE p \in at(i) : TRUE)[2]]
    <2>1. \A p \in M : /\ p[1] \in DOMAIN s /\ p[2] \in 1 .. Len(t) /\ p = <<p[1], p[2]>>
      BY <1>1, <1>4 DEF Cells
    <2>2. ASSUME NEW i \in DOMAIN s
          PROVE  \/ at(i) = {} /\ f[i] = 0
                 \/ \E p \in M : p[1] = i /\ p[2] = f[i]
      <3>1. CASE at(i) = {}
        BY <3>1
      <3>2. CASE at(i) # {}
        <4> DEFINE c == CHOOSE p \in at(i) : TRUE
        <4>1. c \in at(i)
          BY <3>2
        <4>2. f[i] = c[2]
          BY <3>2
        <4> HIDE DEF c, f
        <4> QED
          BY <4>1, <4>2
      <3> QED
        BY <3>1, <3>2
    <2>3. f = [i \in DOMAIN s |-> f[i]] /\ DOMAIN f = DOMAIN s
      OBVIOUS
    <2> HIDE DEF f
    <2>4. f \in [DOMAIN s -> 0 .. Len(t)]
      <3>1. \A i \in DOMAIN s : f[i] \in 0 .. Len(t)
        BY <1>1, <2>1, <2>2
      <3> QED
        BY <2>3, <3>1
    <2>5. \A i \in DOMAIN s : f[i] # 0 => <<i, f[i]>> \in M
      BY <2>1, <2>2
    <2>6. \A p \in M : f[p[1]] = p[2] /\ p[2] # 0
      BY <1>1, <1>4, <2>1, <2>2 DEF Apart
    <2>7. Inj(f)
      <3> SUFFICES ASSUME NEW i \in DOMAIN s, NEW k \in DOMAIN s, i # k, f[i] # 0, f[i] = f[k]
                   PROVE  FALSE
        OBVIOUS
      <3>1. <<i, f[i]>> \in M /\ <<k, f[k]>> \in M
        BY <2>5
      <3>2. <<i, f[i]>> = <<k, f[k]>>
        BY <1>4, <3>1 DEF Apart
      <3> QED
        BY <3>2
    <2>8. M = G(f)
      <3>1. \A p \in M : p \in G(f)
        BY <2>1, <2>6
      <3>2. \A p \in G(f) : p \in M
        BY <2>5
      <3> QED
        BY <3>1, <3>2
    <2> QED
      BY <2>4, <2>7, <2>8
  <1> QED
    BY <1>2, <1>3, <1>4

(* What is typed is a string.                                              *)
Strings == a \in Str /\ b \in Str

LEMMA AlwaysStrings == Spec => []Strings
  <1>1. Init => Strings
    BY DEF Init, Strings, Str, Empty
  <1>2. Strings /\ [Next]_vars => Strings'
    <2> SUFFICES ASSUME Strings, [Next]_vars PROVE Strings'
      OBVIOUS
    <2>1. ASSUME NEW s \in Str, NEW c \in Alphabet PROVE Append(s, c) \in Str
      BY AlphabetAssumption DEF Str
    <2>2. CASE TypeA
      BY <2>1, <2>2 DEF TypeA, Strings
    <2>3. CASE TypeB
      BY <2>1, <2>3 DEF TypeB, Strings
    <2>4. CASE UNCHANGED vars
      BY <2>4 DEF vars, Strings
    <2> QED
      BY <2>2, <2>3, <2>4 DEF Next
  <1> QED
    BY <1>1, <1>2, PTL DEF Spec

LEMMA MatchesMaximum == Strings => JaroMatchesMaximum
  <1> SUFFICES ASSUME Strings PROVE JaroMatchesMaximum
    OBVIOUS
  <1> DEFINE w == MatchWindow(a, b)
             admissible == {M \in PartialMatchings(a, b) :
                               \A p \in M : /\ a[p[1]] = b[p[2]]
                                            /\ p[1] - p[2] <= w
                                            /\ p[2] - p[1] <= w}
  <1>1. a \in Str /\ b \in Str
    BY DEF Strings
  <1>2. \A M : M \in admissible <=> IsMatching(a, b, w, M)
    BY <1>1, PartialMatchingsAre DEF IsMatching, Fits
  <1>3. IsMatching(a, b, w, JaroMatches(a, b))
    BY <1>1, JaroMatchesIs DEF IsJaro
  <1>4. \A N : IsMatching(a, b, w, N) => Cardinality(N) <= Cardinality(JaroMatches(a, b))
    BY <1>1, JaroMaximum
  <1>5. JaroMatchesMaximum <=>
            /\ JaroMatches(a, b) \in admissible
            /\ \A N \in admissible : Cardinality(N) <= Cardinality(JaroMatches(a, b))
    BY DEF JaroMatchesMaximum
  <1> HIDE DEF admissible
  <1> QED
    BY <1>2, <1>3, <1>4, <1>5

(* jaro's greedy pass finds a largest set of pairs, for all strings over   *)
(* all alphabets.                                                          *)
THEOREM JaroOptimal == Spec => []JaroMatchesMaximum
  BY AlwaysStrings, MatchesMaximum, PTL

-----------------------------------------------------------------------------
(* Levenshtein: the table that the two swapped rows run through.           *)

Cost(s, t, i, j) == IF s[i] = t[j] THEN 0 ELSE 1

IsNextRow(r, prev, s, t, i) ==
    /\ r \in [0 .. Len(t) -> Nat]
    /\ r[0] = i
    /\ \A j \in 1 .. Len(t) :
           r[j] = Min({prev[j] + 1, r[j - 1] + 1, prev[j - 1] + Cost(s, t, i, j)})

LEMMA NextRowEquation ==
    ASSUME NEW s \in Str, NEW t \in Str, NEW i \in 1 .. Len(s),
           NEW prev \in [0 .. Len(t) -> Nat]
    PROVE  IsNextRow(NextRow(prev, s, t, i), prev, s, t, i)
  <1> DEFINE n == Len(t)
             cell(v, j) == Min({prev[j] + 1, v + 1, prev[j - 1] + Cost(s, t, i, j)})
             F == [j \in 1 .. n |-> [v \in Nat |-> cell(v, j)]]
             Is(g) == g = [j \in 0 .. n |-> IF j = 0 THEN i ELSE cell(g[j - 1], j)]
  <1>1. n \in Nat /\ i \in Nat
    BY DEF Str
  <1>2. ASSUME NEW j \in 1 .. n, NEW v \in Nat PROVE cell(v, j) \in Nat
    <2>1. prev[j] \in Nat /\ prev[j - 1] \in Nat /\ Cost(s, t, i, j) \in Nat
      BY <1>1 DEF Cost
    <2>2. prev[j] + 1 \in Nat /\ v + 1 \in Nat /\ prev[j - 1] + Cost(s, t, i, j) \in Nat
      BY <2>1
    <2> QED
      BY <2>2, MinOfThree
  <1>3. \A j : \A v : cell(v, j) = Min({prev[j] + 1, v + 1,
                                        prev[j - 1] + IF s[i] = t[j] THEN 0 ELSE 1})
    BY DEF Cost
  <1>4. NextRow(prev, s, t, i) = CHOOSE g : Is(g)
    BY Zenon DEF NextRow, Cost
  <1> HIDE DEF cell
  <1>5. F \in [1 .. n -> [Nat -> Nat]]
    BY <1>2
  <1>6. \A j \in 1 .. n : \A v \in Nat : F[j][v] = cell(v, j)
    OBVIOUS
  <1> HIDE DEF F, n
  <1>7. PICK f \in [0 .. n -> Nat] : AreRounds(f, n, i, F)
    BY <1>1, <1>5, Rounds
  <1>8. ASSUME NEW j \in 1 .. n PROVE f[j] = cell(f[j - 1], j)
    <2>1. f[j - 1] \in Nat
      BY <1>1
    <2>2. f[j] = F[j][f[j - 1]]
      BY <1>7 DEF AreRounds
    <2>3. F[j][f[j - 1]] = cell(f[j - 1], j)
      BY <1>6, <2>1
    <2> QED
      BY <2>2, <2>3
  <1>9. Is(f)
    BY <1>1, <1>7, <1>8 DEF AreRounds
  <1>10. Is(CHOOSE g : Is(g))
    BY <1>9, Zenon
  <1> DEFINE R == NextRow(prev, s, t, i)
  <1>11. Is(R)
    BY <1>4, <1>10, Zenon
  <1> HIDE DEF R
  <1>12. R[0] = i /\ \A j \in 1 .. n : R[j] = cell(R[j - 1], j)
    <2> DEFINE body(j) == IF j = 0 THEN i ELSE cell(R[j - 1], j)
    <2>1. R = [j \in 0 .. n |-> body(j)]
      BY <1>11
    <2> HIDE DEF body
    <2>2. \A j \in 0 .. n : R[j] = body(j)
      BY <2>1
    <2> QED
      BY <1>1, <2>2 DEF body
  <1>13. \A j \in 0 .. n : j \in {k \in 0 .. n : R[k] \in Nat}
    <2> DEFINE P == {k \in 0 .. n : R[k] \in Nat}
    <2>1. 0 \in P
      BY <1>1, <1>12
    <2>2. ASSUME NEW j \in 1 .. n, j - 1 \in P PROVE j \in P
      <3>1. R[j - 1] \in Nat /\ j \in 0 .. n
        BY <1>1, <2>2
      <3>2. R[j] = cell(R[j - 1], j)
        BY <1>12
      <3>3. cell(R[j - 1], j) \in Nat
        BY <1>2, <3>1
      <3> QED
        BY <3>1, <3>2, <3>3
    <2> HIDE DEF P
    <2> QED
      BY <1>1, <2>1, <2>2, UpTo DEF P
  <1>14. R \in [0 .. n -> Nat]
    BY <1>11, <1>13
  <1> QED
    BY <1>12, <1>14 DEF R, n, cell, IsNextRow

IsTable(s, t, D) ==
    /\ D \in [0 .. Len(s) -> [0 .. Len(t) -> Nat]]
    /\ \A j \in 0 .. Len(t) : D[0][j] = j
    /\ \A i \in 0 .. Len(s) : D[i][0] = i
    /\ \A i \in 1 .. Len(s) : \A j \in 1 .. Len(t) :
           D[i][j] = Min({D[i - 1][j] + 1, D[i][j - 1] + 1, D[i - 1][j - 1] + Cost(s, t, i, j)})

LEMMA LevenshteinTable ==
    ASSUME NEW s \in Str, NEW t \in Str
    PROVE  IsTable(s, t, LevenshteinRows(s, t))
  <1> DEFINE n == Len(s)
             V == [0 .. Len(t) -> Nat]
             first == [j \in 0 .. Len(t) |-> j]
             F == [i \in 1 .. n |-> [v \in V |-> NextRow(v, s, t, i)]]
             Is(g) == g = [i \in 0 .. n |-> IF i = 0 THEN first ELSE NextRow(g[i - 1], s, t, i)]
  <1>1. n \in Nat /\ Len(t) \in Nat
    BY DEF Str
  <1>2. first \in V /\ \A j \in 0 .. Len(t) : first[j] = j
    BY <1>1
  <1>3. \A i \in 1 .. n : \A v \in V : F[i][v] = NextRow(v, s, t, i) /\ NextRow(v, s, t, i) \in V
    <2>1. \A i \in 1 .. n : \A v \in V : IsNextRow(NextRow(v, s, t, i), v, s, t, i)
      BY NextRowEquation
    <2>2. \A i \in 1 .. n : \A v \in V : NextRow(v, s, t, i) \in V
      BY <2>1 DEF IsNextRow
    <2> QED
      BY <2>2
  <1>4. F \in [1 .. n -> [V -> V]]
    BY <1>3
  <1>5. LevenshteinRows(s, t) = CHOOSE g : Is(g)
    BY Zenon DEF LevenshteinRows
  <1> HIDE DEF n, V, F, first
  <1>6. PICK f \in [0 .. n -> V] : AreRounds(f, n, first, F)
    BY <1>1, <1>2, <1>4, Rounds
  <1>7. \A i \in 1 .. n : f[i] = NextRow(f[i - 1], s, t, i)
    BY <1>1, <1>3, <1>6 DEF AreRounds
  <1>8. Is(f)
    BY <1>1, <1>6, <1>7 DEF AreRounds
  <1>9. Is(CHOOSE g : Is(g))
    BY <1>8, Zenon
  <1> DEFINE D == LevenshteinRows(s, t)
  <1>10. Is(D)
    BY <1>5, <1>9, Zenon
  <1> HIDE DEF D
  <1>11. D[0] = first /\ \A i \in 1 .. n : D[i] = NextRow(D[i - 1], s, t, i)
    <2> DEFINE body(i) == IF i = 0 THEN first ELSE NextRow(D[i - 1], s, t, i)
    <2>1. D = [i \in 0 .. n |-> body(i)]
      BY <1>10
    <2> HIDE DEF body
    <2>2. \A i \in 0 .. n : D[i] = body(i)
      BY <2>1
    <2> QED
      BY <1>1, <2>2 DEF body
  <1>12. \A i \in 0 .. n : D[i] \in V
    <2> DEFINE P == {k \in 0 .. n : D[k] \in V}
    <2>1. 0 \in P
      <3>1. D[0] \in V
        BY <1>2, <1>11, Zenon
      <3> QED
        BY <1>1, <3>1
    <2>2. ASSUME NEW i \in 1 .. n, i - 1 \in P PROVE i \in P
      BY <1>1, <1>3, <1>11, <2>2
    <2> HIDE DEF P
    <2>3. \A i \in 0 .. n : i \in P
      BY <1>1, <2>1, <2>2, UpTo
    <2> QED
      BY <2>3 DEF P
  <1>13. D \in [0 .. n -> V]
    BY <1>10, <1>12
  <1>14. \A j \in 0 .. Len(t) : D[0][j] = j
    BY <1>2, <1>11
  <1>15. ASSUME NEW i \in 1 .. n
         PROVE  /\ D[i][0] = i
                /\ \A j \in 1 .. Len(t) :
                       D[i][j] = Min({D[i - 1][j] + 1, D[i][j - 1] + 1,
                                      D[i - 1][j - 1] + Cost(s, t, i, j)})
    <2>1. D[i - 1] \in [0 .. Len(t) -> Nat] /\ D[i] = NextRow(D[i - 1], s, t, i)
      BY <1>1, <1>11, <1>12 DEF V
    <2>2. i \in 1 .. Len(s)
      BY DEF n
    <2> DEFINE prev == D[i - 1]
    <2> HIDE DEF prev
    <2>3. prev \in [0 .. Len(t) -> Nat] /\ D[i] = NextRow(prev, s, t, i)
      BY <2>1 DEF prev
    <2>4. /\ D[i][0] = i
          /\ \A j \in 1 .. Len(t) :
                 D[i][j] = Min({prev[j] + 1, D[i][j - 1] + 1, prev[j - 1] + Cost(s, t, i, j)})
      <3>1. IsNextRow(D[i], prev, s, t, i)
        BY <2>2, <2>3, NextRowEquation
      <3> QED
        BY <3>1 DEF IsNextRow
    <2> QED
      BY <2>4 DEF prev
  <1>16. D[0][0] = 0
    BY <1>1, <1>14
  <1>17. \A i \in 0 .. n : D[i][0] = i
    BY <1>1, <1>15, <1>16
  <1> QED
    BY <1>13, <1>14, <1>15, <1>17 DEF IsTable, D, V, n

(* Induction over the cells of a table.                                    *)
LEMMA EveryCell ==
    ASSUME NEW m \in Nat, NEW n \in Nat, NEW P,
           \A j \in 0 .. n : <<0, j>> \in P,
           \A i \in 0 .. m : <<i, 0>> \in P,
           \A i \in 1 .. m : \A j \in 1 .. n :
               <<i - 1, j>> \in P /\ <<i, j - 1>> \in P /\ <<i - 1, j - 1>> \in P
                   => <<i, j>> \in P
    PROVE  \A i \in 0 .. m : \A j \in 0 .. n : <<i, j>> \in P
  <1> DEFINE Q == {i \in 0 .. m : \A j \in 0 .. n : <<i, j>> \in P}
  <1>1. 0 \in Q
    OBVIOUS
  <1>2. ASSUME NEW i \in 1 .. m, i - 1 \in Q PROVE i \in Q
    <2> DEFINE R == {j \in 0 .. n : <<i, j>> \in P}
    <2>1. 0 \in R
      OBVIOUS
    <2>2. ASSUME NEW j \in 1 .. n, j - 1 \in R PROVE j \in R
      <3>1. <<i, j - 1>> \in P
        BY <2>2
      <3>2. <<i - 1, j>> \in P /\ <<i - 1, j - 1>> \in P
        BY <1>2
      <3> QED
        BY <3>1, <3>2
    <2> HIDE DEF R
    <2>3. \A j \in 0 .. n : j \in R
      BY <2>1, <2>2, UpTo
    <2> QED
      BY <2>3 DEF R
  <1> HIDE DEF Q
  <1>3. \A i \in 0 .. m : i \in Q
    BY <1>1, <1>2, UpTo
  <1> QED
    BY <1>3 DEF Q

(* Alignments of the first i characters of s with the first j of t, and    *)
(* what they cost.                                                         *)
Ordered(M) == \A p, q \in M : p[1] < q[1] => p[2] < q[2]

IsAlignment(i, j, M) ==
    M \in SUBSET ((1 .. i) \X (1 .. j)) /\ Apart(M) /\ Ordered(M)

Changed(s, t, M) == {p \in M : s[p[1]] # t[p[2]]}

CostOf(s, t, i, j, M) == i + j - 2 * Cardinality(M) + Cardinality(Changed(s, t, M))

LEMMA AlignmentFinite ==
    ASSUME NEW s, NEW t, NEW i \in Nat, NEW j \in Nat, NEW M, IsAlignment(i, j, M)
    PROVE  /\ IsFiniteSet(M) /\ IsFiniteSet(Changed(s, t, M))
           /\ Cardinality(M) \in Nat /\ Cardinality(Changed(s, t, M)) \in Nat
           /\ CostOf(s, t, i, j, M) \in Int
  <1>1. IsFiniteSet((1 .. i) \X (1 .. j))
    <2>1. IsFiniteSet(1 .. i) /\ IsFiniteSet(1 .. j)
      BY FS_Interval
    <2> QED
      BY <2>1, FS_Product
  <1>2. M \in SUBSET ((1 .. i) \X (1 .. j)) /\ Changed(s, t, M) \in SUBSET M
    BY DEF IsAlignment, Changed
  <1>3. IsFiniteSet(M)
    BY <1>1, <1>2, FS_Subset
  <1>4. IsFiniteSet(Changed(s, t, M))
    BY <1>2, <1>3, FS_Subset
  <1>5. Cardinality(M) \in Nat /\ Cardinality(Changed(s, t, M)) \in Nat
    BY <1>3, <1>4, FS_CardinalityType
  <1> QED
    BY <1>3, <1>4, <1>5 DEF CostOf

(* The last characters are aligned with each other.                        *)
LEMMA AlignLast ==
    ASSUME NEW s, NEW t, NEW i \in Nat \ {0}, NEW j \in Nat \ {0},
           NEW M, IsAlignment(i - 1, j - 1, M)
    PROVE  /\ IsAlignment(i, j, M \cup {<<i, j>>})
           /\ CostOf(s, t, i, j, M \cup {<<i, j>>})
                  = CostOf(s, t, i - 1, j - 1, M) + Cost(s, t, i, j)
  <1> DEFINE x == <<i, j>>
             N == M \cup {x}
  <1>1. \A p \in M : /\ p[1] \in 1 .. (i - 1) /\ p[2] \in 1 .. (j - 1)
                     /\ p[1] # i /\ p[2] # j /\ p = <<p[1], p[2]>>
    BY DEF IsAlignment
  <1>2. x[1] = i /\ x[2] = j /\ x \in (1 .. i) \X (1 .. j) /\ x \notin M
    BY <1>1
  <1> HIDE DEF x
  <1>3. N \in SUBSET ((1 .. i) \X (1 .. j))
    <2>1. \A p \in M : p \in (1 .. i) \X (1 .. j)
      BY <1>1
    <2> QED
      BY <1>2, <2>1
  <1>4. Apart(N)
    BY <1>1, <1>2 DEF IsAlignment, Apart
  <1>5. Ordered(N)
    <2> SUFFICES ASSUME NEW p \in N, NEW q \in N, p[1] < q[1] PROVE p[2] < q[2]
      BY DEF Ordered
    <2>1. CASE p \in M /\ q \in M
      BY <2>1 DEF IsAlignment, Ordered
    <2>2. CASE p \in M /\ q = x
      BY <1>1, <1>2, <2>2
    <2>3. CASE p = x
      BY <1>1, <1>2, <2>3
    <2> QED
      BY <2>1, <2>2, <2>3
  <1>6. i - 1 \in Nat /\ j - 1 \in Nat
    OBVIOUS
  <1>7. /\ IsFiniteSet(M) /\ IsFiniteSet(Changed(s, t, M))
        /\ Cardinality(M) \in Nat /\ Cardinality(Changed(s, t, M)) \in Nat
    BY <1>6, AlignmentFinite
  <1>8. Cardinality(N) = Cardinality(M) + 1
    BY <1>2, <1>7, FS_AddElement
  <1>9. Cardinality(Changed(s, t, N)) = Cardinality(Changed(s, t, M)) + Cost(s, t, i, j)
    <2>1. CASE s[i] = t[j]
      <3>1. Changed(s, t, N) = Changed(s, t, M)
        BY <1>2, <2>1 DEF Changed
      <3> QED
        BY <1>7, <2>1, <3>1 DEF Cost
    <2>2. CASE s[i] # t[j]
      <3>1. Changed(s, t, N) = Changed(s, t, M) \cup {x}
        BY <1>2, <2>2 DEF Changed
      <3>2. x \notin Changed(s, t, M)
        BY <1>2 DEF Changed
      <3>3. Cardinality(Changed(s, t, M) \cup {x}) = Cardinality(Changed(s, t, M)) + 1
        BY <1>7, <3>2, FS_AddElement
      <3> QED
        BY <2>2, <3>1, <3>3 DEF Cost
    <2> QED
      BY <2>1, <2>2
  <1>10. CostOf(s, t, i, j, N) = CostOf(s, t, i - 1, j - 1, M) + Cost(s, t, i, j)
    <2>1. Cost(s, t, i, j) \in Nat
      BY DEF Cost
    <2> HIDE DEF N
    <2> QED
      BY <1>7, <1>8, <1>9, <2>1 DEF CostOf
  <1> QED
    BY <1>3, <1>4, <1>5, <1>10 DEF IsAlignment, x

(* Or one of them is deleted or inserted.                                  *)
LEMMA LastOfAlignment ==
    ASSUME NEW i \in Nat \ {0}, NEW j \in Nat \ {0}, NEW M, IsAlignment(i, j, M)
    PROVE  \/ IsAlignment(i - 1, j, M)
           \/ IsAlignment(i, j - 1, M)
           \/ <<i, j>> \in M /\ IsAlignment(i - 1, j - 1, M \ {<<i, j>>})
  <1>1. \A p \in M : /\ p[1] \in 1 .. i /\ p[2] \in 1 .. j /\ p = <<p[1], p[2]>>
    BY DEF IsAlignment
  <1>2. ASSUME NEW N \in SUBSET M PROVE Apart(N) /\ Ordered(N)
    BY DEF IsAlignment, Apart, Ordered
  <1>3. CASE \A p \in M : p[1] # i
    <2>1. M \in SUBSET ((1 .. (i - 1)) \X (1 .. j))
      BY <1>1, <1>3
    <2> QED
      BY <1>2, <2>1 DEF IsAlignment
  <1>4. CASE \A p \in M : p[2] # j
    <2>1. M \in SUBSET ((1 .. i) \X (1 .. (j - 1)))
      BY <1>1, <1>4
    <2> QED
      BY <1>2, <2>1 DEF IsAlignment
  <1>5. CASE \E p, q \in M : p[1] = i /\ q[2] = j
    <2>1. PICK p \in M : p[1] = i /\ \E q \in M : q[2] = j
      BY <1>5
    <2>2. PICK q \in M : q[2] = j
      BY <2>1
    <2>3. p = q
      <3>1. ~(q[1] < p[1])
        BY <1>1, <2>1, <2>2 DEF IsAlignment, Ordered
      <3>2. q[1] = p[1]
        BY <1>1, <2>1, <3>1
      <3> QED
        BY <3>2 DEF IsAlignment, Apart
    <2>4. <<i, j>> \in M
      BY <1>1, <2>1, <2>2, <2>3
    <2>5. \A r \in M \ {<<i, j>>} : r[1] # i /\ r[2] # j
      BY <2>4 DEF IsAlignment, Apart
    <2>6. M \ {<<i, j>>} \in SUBSET ((1 .. (i - 1)) \X (1 .. (j - 1)))
      <3> SUFFICES ASSUME NEW r \in M \ {<<i, j>>}
                   PROVE  r \in (1 .. (i - 1)) \X (1 .. (j - 1))
        OBVIOUS
      <3>1. r[1] \in 1 .. (i - 1) /\ r[2] \in 1 .. (j - 1) /\ r = <<r[1], r[2]>>
        BY <1>1, <2>5
      <3> QED
        BY <3>1
    <2> QED
      BY <1>2, <2>4, <2>6 DEF IsAlignment
  <1> QED
    BY <1>3, <1>4, <1>5

(* A cell of the table is the least cost of an alignment of the prefixes.  *)
LeastCost(s, t, i, j, d) ==
    /\ \E M : IsAlignment(i, j, M) /\ CostOf(s, t, i, j, M) = d
    /\ \A M : IsAlignment(i, j, M) => d <= CostOf(s, t, i, j, M)

LEMMA LeastCostEdge ==
    ASSUME NEW s, NEW t, NEW i \in Nat, NEW j \in Nat, i = 0 \/ j = 0, NEW d, d = i + j
    PROVE  LeastCost(s, t, i, j, d)
  <1>1. \A M : IsAlignment(i, j, M) => M = {}
    <2>1. (1 .. i) \X (1 .. j) = {}
      OBVIOUS
    <2> QED
      BY <2>1 DEF IsAlignment
  <1>2. IsAlignment(i, j, {})
    BY DEF IsAlignment, Apart, Ordered
  <1>3. CostOf(s, t, i, j, {}) = i + j
    <2>1. Changed(s, t, {}) = {}
      BY DEF Changed
    <2>2. Cardinality({}) = 0
      BY FS_EmptySet
    <2>3. Cardinality(Changed(s, t, {})) = 0
      BY <2>1, <2>2, Zenon
    <2> QED
      BY <2>2, <2>3 DEF CostOf
  <1> QED
    BY <1>1, <1>2, <1>3 DEF LeastCost

LEMMA LeastCostStep ==
    ASSUME NEW s, NEW t, NEW i \in Nat \ {0}, NEW j \in Nat \ {0},
           NEW k, k = i - 1, NEW l, l = j - 1,
           NEW up \in Nat, LeastCost(s, t, k, j, up),
           NEW left \in Nat, LeastCost(s, t, i, l, left),
           NEW diag \in Nat, LeastCost(s, t, k, l, diag),
           NEW d, d = Min({up + 1, left + 1, diag + Cost(s, t, i, j)})
    PROVE  LeastCost(s, t, i, j, d)
  <1> DEFINE c == Cost(s, t, i, j)
  <1>0. /\ LeastCost(s, t, i - 1, j, up) /\ LeastCost(s, t, i, j - 1, left)
        /\ LeastCost(s, t, i - 1, j - 1, diag)
    OBVIOUS
  <1>1. c \in Nat /\ i - 1 \in Nat /\ j - 1 \in Nat
    BY DEF Cost
  <1>2. up + 1 \in Nat /\ left + 1 \in Nat /\ diag + c \in Nat
    BY <1>1
  <1>3. /\ d \in Nat
        /\ d = up + 1 \/ d = left + 1 \/ d = diag + c
        /\ d <= up + 1 /\ d <= left + 1 /\ d <= diag + c
    BY <1>2, MinOfThree
  <1> HIDE DEF c
  <1>4. ASSUME NEW M, IsAlignment(i - 1, j, M)
        PROVE  IsAlignment(i, j, M) /\ CostOf(s, t, i, j, M) = CostOf(s, t, i - 1, j, M) + 1
    <2>1. M \in SUBSET ((1 .. (i - 1)) \X (1 .. j))
      BY <1>4 DEF IsAlignment
    <2>2. M \in SUBSET ((1 .. i) \X (1 .. j))
      BY <2>1
    <2>3. IsAlignment(i, j, M)
      BY <1>4, <2>2 DEF IsAlignment
    <2>4. Cardinality(M) \in Nat /\ Cardinality(Changed(s, t, M)) \in Nat
      BY <2>3, AlignmentFinite
    <2> QED
      BY <2>3, <2>4 DEF CostOf
  <1>5. ASSUME NEW M, IsAlignment(i, j - 1, M)
        PROVE  IsAlignment(i, j, M) /\ CostOf(s, t, i, j, M) = CostOf(s, t, i, j - 1, M) + 1
    <2>1. M \in SUBSET ((1 .. i) \X (1 .. (j - 1)))
      BY <1>5 DEF IsAlignment
    <2>2. M \in SUBSET ((1 .. i) \X (1 .. j))
      BY <2>1
    <2>3. IsAlignment(i, j, M)
      BY <1>5, <2>2 DEF IsAlignment
    <2>4. Cardinality(M) \in Nat /\ Cardinality(Changed(s, t, M)) \in Nat
      BY <2>3, AlignmentFinite
    <2> QED
      BY <2>3, <2>4 DEF CostOf
  <1>6. ASSUME NEW M, IsAlignment(i - 1, j - 1, M)
        PROVE  /\ IsAlignment(i, j, M \cup {<<i, j>>})
               /\ CostOf(s, t, i, j, M \cup {<<i, j>>}) = CostOf(s, t, i - 1, j - 1, M) + c
    BY <1>6, AlignLast DEF c
  <1>7. \E M : IsAlignment(i, j, M) /\ CostOf(s, t, i, j, M) = d
    <2>1. CASE d = up + 1
      <3>1. PICK M : IsAlignment(i - 1, j, M) /\ CostOf(s, t, i - 1, j, M) = up
        BY <1>0 DEF LeastCost
      <3> QED
        BY <1>4, <2>1, <3>1
    <2>2. CASE d = left + 1
      <3>1. PICK M : IsAlignment(i, j - 1, M) /\ CostOf(s, t, i, j - 1, M) = left
        BY <1>0 DEF LeastCost
      <3> QED
        BY <1>5, <2>2, <3>1
    <2>3. CASE d = diag + c
      <3>1. PICK M : IsAlignment(i - 1, j - 1, M) /\ CostOf(s, t, i - 1, j - 1, M) = diag
        BY <1>0 DEF LeastCost
      <3> QED
        BY <1>6, <2>3, <3>1
    <2> QED
      BY <1>3, <2>1, <2>2, <2>3
  <1>8. ASSUME NEW M, IsAlignment(i, j, M) PROVE d <= CostOf(s, t, i, j, M)
    <2>0. CostOf(s, t, i, j, M) \in Int
      BY <1>8, AlignmentFinite
    <2>1. CASE IsAlignment(i - 1, j, M)
      <3>1. up <= CostOf(s, t, i - 1, j, M)
        BY <1>0, <2>1 DEF LeastCost
      <3>2. CostOf(s, t, i - 1, j, M) \in Int
        BY <1>1, <2>1, AlignmentFinite
      <3> QED
        BY <1>3, <1>4, <2>1, <3>1, <3>2
    <2>2. CASE IsAlignment(i, j - 1, M)
      <3>1. left <= CostOf(s, t, i, j - 1, M)
        BY <1>0, <2>2 DEF LeastCost
      <3>2. CostOf(s, t, i, j - 1, M) \in Int
        BY <1>1, <2>2, AlignmentFinite
      <3> QED
        BY <1>3, <1>5, <2>2, <3>1, <3>2
    <2>3. CASE <<i, j>> \in M /\ IsAlignment(i - 1, j - 1, M \ {<<i, j>>})
      <3> DEFINE N == M \ {<<i, j>>}
      <3>1. M = N \cup {<<i, j>>}
        BY <2>3
      <3>2. diag <= CostOf(s, t, i - 1, j - 1, N)
        BY <1>0, <2>3 DEF LeastCost
      <3>3. CostOf(s, t, i - 1, j - 1, N) \in Int
        BY <1>1, <2>3, AlignmentFinite
      <3>4. CostOf(s, t, i, j, M) = CostOf(s, t, i - 1, j - 1, N) + c
        BY <1>6, <2>3, <3>1
      <3> HIDE DEF N
      <3> QED
        BY <1>1, <1>3, <3>2, <3>3, <3>4
    <2> QED
      BY <1>8, <2>1, <2>2, <2>3, LastOfAlignment
  <1> QED
    BY <1>7, <1>8 DEF LeastCost

LEMMA TableIsLeast ==
    ASSUME NEW s \in Str, NEW t \in Str, NEW D, IsTable(s, t, D)
    PROVE  \A i \in 0 .. Len(s) : \A j \in 0 .. Len(t) : LeastCost(s, t, i, j, D[i][j])
  <1> DEFINE P == {p \in (0 .. Len(s)) \X (0 .. Len(t)) :
                      LeastCost(s, t, p[1], p[2], D[p[1]][p[2]])}
  <1>1. Len(s) \in Nat /\ Len(t) \in Nat
    BY DEF Str
  <1>2. \A i \in 0 .. Len(s) : \A j \in 0 .. Len(t) :
            D[i][j] \in Nat /\ (<<i, j>> \in P <=> LeastCost(s, t, i, j, D[i][j]))
    BY DEF IsTable
  <1> HIDE DEF P
  <1>3. \A j \in 0 .. Len(t) : <<0, j>> \in P
    <2> SUFFICES ASSUME NEW j \in 0 .. Len(t) PROVE <<0, j>> \in P
      OBVIOUS
    <2> DEFINE d == D[0][j]
               o == 0
    <2>1. d = o + j /\ o \in 0 .. Len(s) /\ j \in Nat /\ o \in Nat /\ (o = 0 \/ j = 0)
      BY <1>1 DEF IsTable
    <2>2. d = D[o][j] /\ <<o, j>> = <<0, j>>
      OBVIOUS
    <2> HIDE DEF d, o
    <2>3. LeastCost(s, t, o, j, d)
      BY <2>1, LeastCostEdge
    <2>4. <<o, j>> \in P
      BY <1>2, <2>1, <2>2, <2>3
    <2> QED
      BY <2>2, <2>4
  <1>4. \A i \in 0 .. Len(s) : <<i, 0>> \in P
    <2> SUFFICES ASSUME NEW i \in 0 .. Len(s) PROVE <<i, 0>> \in P
      OBVIOUS
    <2> DEFINE d == D[i][0]
    <2>1. d = i + 0 /\ 0 \in 0 .. Len(t) /\ i \in Nat /\ 0 \in Nat
      BY <1>1 DEF IsTable
    <2> HIDE DEF d
    <2>2. LeastCost(s, t, i, 0, d)
      BY <2>1, LeastCostEdge
    <2> QED
      BY <1>2, <2>1, <2>2 DEF d
  <1>5. ASSUME NEW i \in 1 .. Len(s), NEW j \in 1 .. Len(t),
               <<i - 1, j>> \in P, <<i, j - 1>> \in P, <<i - 1, j - 1>> \in P
        PROVE  <<i, j>> \in P
    <2>1. /\ i \in 0 .. Len(s) /\ i - 1 \in 0 .. Len(s) /\ i \in Nat \ {0}
          /\ j \in 0 .. Len(t) /\ j - 1 \in 0 .. Len(t) /\ j \in Nat \ {0}
      BY <1>1
    <2> DEFINE up == D[i - 1][j]
               left == D[i][j - 1]
               diag == D[i - 1][j - 1]
    <2>2. /\ up \in Nat /\ LeastCost(s, t, i - 1, j, up)
          /\ left \in Nat /\ LeastCost(s, t, i, j - 1, left)
          /\ diag \in Nat /\ LeastCost(s, t, i - 1, j - 1, diag)
      BY <1>2, <1>5, <2>1
    <2>3. D[i][j] = Min({up + 1, left + 1, diag + Cost(s, t, i, j)})
      BY DEF IsTable
    <2> DEFINE k == i - 1
               l == j - 1
    <2>4. /\ LeastCost(s, t, k, j, up) /\ LeastCost(s, t, i, l, left)
          /\ LeastCost(s, t, k, l, diag) /\ k = i - 1 /\ l = j - 1
      BY <2>2
    <2> HIDE DEF up, left, diag, k, l
    <2>5. LeastCost(s, t, i, j, D[i][j])
      BY <2>1, <2>2, <2>3, <2>4, LeastCostStep
    <2> QED
      BY <1>2, <2>1, <2>5
  <1>6. \A i \in 0 .. Len(s) : \A j \in 0 .. Len(t) : <<i, j>> \in P
    BY <1>1, <1>3, <1>4, <1>5, EveryCell
  <1> QED
    BY <1>2, <1>6

LEMMA DistanceIsLeast ==
    ASSUME NEW s \in Str, NEW t \in Str
    PROVE  LevenshteinDistance(s, t) = EditDistance(s, t)
  <1> DEFINE alignments == {M \in PartialMatchings(s, t) :
                               \A p, q \in M : p[1] < q[1] => p[2] < q[2]}
             cost(M) == Len(s) + Len(t) - 2 * Cardinality(M)
                        + Cardinality({p \in M : s[p[1]] # t[p[2]]})
             C == {cost(M) : M \in alignments}
             d == LevenshteinDistance(s, t)
  <1>1. EditDistance(s, t) = Min(C)
    BY DEF EditDistance
  <1>2. \A M : M \in alignments <=> IsAlignment(Len(s), Len(t), M)
    BY PartialMatchingsAre DEF IsAlignment, Ordered, Cells
  <1>3. \A M : cost(M) = CostOf(s, t, Len(s), Len(t), M)
    BY DEF CostOf, Changed
  <1>4. Len(s) \in Nat /\ Len(t) \in Nat
    BY DEF Str
  <1>5. LeastCost(s, t, Len(s), Len(t), d)
    BY <1>4, LevenshteinTable, TableIsLeast DEF LevenshteinDistance
  <1>6. d \in Nat
    <2> DEFINE D == LevenshteinRows(s, t)
    <2>1. D \in [0 .. Len(s) -> [0 .. Len(t) -> Nat]]
      BY LevenshteinTable DEF IsTable
    <2> HIDE DEF D
    <2>2. D[Len(s)][Len(t)] \in Nat
      BY <1>4, <2>1
    <2> QED
      BY <2>2 DEF D, LevenshteinDistance
  <1> HIDE DEF alignments, cost, d
  <1>7. d \in C
    BY <1>2, <1>3, <1>5 DEF LeastCost
  <1>8. \A c \in C : c \in Int /\ d <= c
    BY <1>2, <1>3, <1>4, <1>5, AlignmentFinite DEF LeastCost
  <1> HIDE DEF C
  <1>9. \A x \in C : (\A y \in C : x <= y) => x = d
    BY <1>6, <1>7, <1>8
  <1>10. Min(C) = d
    BY <1>7, <1>8, <1>9 DEF Min
  <1> QED
    BY <1>1, <1>10 DEF d

LEMMA DistanceExact == Strings => EditDistanceExact
  BY DistanceIsLeast DEF Strings, EditDistanceExact

(* levenshteinDistance computes the edit distance, for all strings over    *)
(* all alphabets.                                                          *)
THEOREM LevenshteinExact == Spec => []EditDistanceExact
  BY AlwaysStrings, DistanceExact, PTL

-----------------------------------------------------------------------------
(* Normalizers: sequences by their elements.                               *)

LEMMA SameSeq ==
    ASSUME NEW T, NEW s \in Seq(T), NEW t \in Seq(T), Len(s) = Len(t),
           \A i \in 1 .. Len(s) : s[i] = t[i]
    PROVE  s = t
  OBVIOUS

LEMMA SubSeqIs ==
    ASSUME NEW T, NEW s \in Seq(T), NEW m \in 1 .. Len(s), NEW n \in m .. Len(s)
    PROVE  /\ SubSeq(s, m, n) \in Seq(T)
           /\ Len(SubSeq(s, m, n)) = n - m + 1
           /\ \A i \in 1 .. (n - m + 1) : SubSeq(s, m, n)[i] = s[m + i - 1]
  OBVIOUS

(* What the loop selects is in the set, and if everything is in the set,   *)
(* it selects everything.                                                  *)
LEMMA SelectedEquation ==
    ASSUME NEW T, NEW s \in Seq(T), NEW S
    PROVE  /\ \A i \in 0 .. Len(s) : Selected(s, S)[i] \in Seq(S)
           /\ Selected(s, S)[0] = <<>>
           /\ \A i \in 1 .. Len(s) :
                  Selected(s, S)[i] = IF s[i] \in S THEN Append(Selected(s, S)[i - 1], s[i])
                                      ELSE Selected(s, S)[i - 1]
  <1> DEFINE n == Len(s)
             V == Seq(S)
             step(v, i) == IF s[i] \in S THEN Append(v, s[i]) ELSE v
             F == [i \in 1 .. n |-> [v \in V |-> step(v, i)]]
             Is(g) == g = [i \in 0 .. n |-> IF i = 0 THEN <<>> ELSE step(g[i - 1], i)]
             none == <<>>
  <1>1. n \in Nat /\ none \in V
    OBVIOUS
  <1>2. ASSUME NEW i \in 1 .. n, NEW v \in V PROVE step(v, i) \in V
    OBVIOUS
  <1>3. Selected(s, S) = CHOOSE g : Is(g)
    BY Zenon DEF Selected
  <1> HIDE DEF step
  <1>4. F \in [1 .. n -> [V -> V]]
    BY <1>2
  <1>5. \A i \in 1 .. n : \A v \in V : F[i][v] = step(v, i)
    OBVIOUS
  <1> HIDE DEF F, n, V, none
  <1>6. PICK f \in [0 .. n -> V] : AreRounds(f, n, none, F)
    BY <1>1, <1>4, Rounds
  <1>7. ASSUME NEW i \in 1 .. n PROVE f[i] = step(f[i - 1], i)
    <2>1. f[i - 1] \in V
      BY <1>1
    <2>2. f[i] = F[i][f[i - 1]]
      BY <1>6 DEF AreRounds
    <2>3. F[i][f[i - 1]] = step(f[i - 1], i)
      BY <1>5, <2>1
    <2> QED
      BY <2>2, <2>3
  <1>8. Is(f)
    BY <1>1, <1>6, <1>7 DEF AreRounds, none
  <1>9. Is(CHOOSE g : Is(g))
    BY <1>8, Zenon
  <1> DEFINE K == Selected(s, S)
  <1>10. Is(K)
    BY <1>3, <1>9, Zenon
  <1> HIDE DEF K
  <1>11. K[0] = none /\ \A i \in 1 .. n : K[i] = step(K[i - 1], i)
    <2> DEFINE body(i) == IF i = 0 THEN <<>> ELSE step(K[i - 1], i)
    <2>1. K = [i \in 0 .. n |-> body(i)]
      BY <1>10
    <2> HIDE DEF body
    <2>2. \A i \in 0 .. n : K[i] = body(i)
      BY <2>1
    <2> QED
      BY <1>1, <2>2 DEF body, none
  <1>12. \A i \in 0 .. n : K[i] \in V
    <2> DEFINE P == {k \in 0 .. n : K[k] \in V}
    <2>1. 0 \in P
      <3>1. K[0] \in V
        BY <1>1, <1>11, Zenon
      <3> QED
        BY <1>1, <3>1
    <2>2. ASSUME NEW i \in 1 .. n, i - 1 \in P PROVE i \in P
      <3>1. K[i - 1] \in V /\ i \in 0 .. n
        BY <1>1, <2>2
      <3>2. step(K[i - 1], i) \in V
        BY <1>2, <3>1
      <3> QED
        BY <1>11, <3>1, <3>2
    <2> HIDE DEF P
    <2>3. \A i \in 0 .. n : i \in P
      BY <1>1, <2>1, <2>2, UpTo
    <2> QED
      BY <2>3 DEF P
  <1> QED
    BY <1>11, <1>12 DEF K, n, V, step, none

LEMMA SelectType ==
    ASSUME NEW T, NEW s \in Seq(T), NEW S
    PROVE  Select(s, S) \in Seq(S)
  BY SelectedEquation DEF Select

LEMMA SelectAll ==
    ASSUME NEW S, NEW s \in Seq(S)
    PROVE  Select(s, S) = s
  <1> DEFINE K == Selected(s, S)
             OK(i) == Len(K[i]) = i /\ \A k \in 1 .. i : K[i][k] = s[k]
             P == {i \in 0 .. Len(s) : OK(i)}
  <1>1. /\ \A i \in 0 .. Len(s) : K[i] \in Seq(S)
        /\ K[0] = <<>>
        /\ \A i \in 1 .. Len(s) : K[i] = IF s[i] \in S THEN Append(K[i - 1], s[i]) ELSE K[i - 1]
    BY SelectedEquation
  <1> HIDE DEF K
  <1>2. 0 \in P
    BY <1>1
  <1>3. ASSUME NEW i \in 1 .. Len(s), i - 1 \in P PROVE i \in P
    <2> DEFINE k == K[i - 1]
    <2>1. k \in Seq(S) /\ Len(k) = i - 1 /\ \A m \in 1 .. (i - 1) : k[m] = s[m]
      BY <1>1, <1>3
    <2>2. K[i] = Append(k, s[i])
      <3>1. s[i] \in S
        OBVIOUS
      <3> QED
        BY <1>1, <3>1
    <2> HIDE DEF k
    <2>3. /\ Len(Append(k, s[i])) = i
          /\ \A m \in 1 .. i : Append(k, s[i])[m] = s[m]
      BY <2>1
    <2> QED
      BY <2>2, <2>3
  <1> HIDE DEF P
  <1>4. Len(s) \in P
    <2>1. Len(s) \in Nat
      OBVIOUS
    <2>2. \A i \in 0 .. Len(s) : i \in P
      BY <1>2, <1>3, <2>1, UpTo
    <2> QED
      BY <2>1, <2>2
  <1>5. OK(Len(s)) /\ K[Len(s)] \in Seq(S)
    BY <1>1, <1>4 DEF P
  <1>6. K[Len(s)] = s
    BY <1>5, SameSeq
  <1> QED
    BY <1>6 DEF K, Select

(* Lower case is a matter of letters.                                      *)
LEMMA LowerCharIs ==
    ASSUME NEW c \in Char
    PROVE  /\ LowerChar(c) \in Char
           /\ LowerChar(c) \in Space <=> c \in Space
           /\ LowerChar(LowerChar(c)) = LowerChar(c)
  <1>1. CASE c \in Letter
    <2>1. Lower[c] \in Letter /\ Lower[Lower[c]] = Lower[c]
      BY <1>1, CharAssumption
    <2>2. c \notin Space /\ Lower[c] \notin Space
      BY <1>1, <2>1, CharAssumption
    <2> QED
      BY <1>1, <2>1, <2>2 DEF LowerChar, Char
  <1>2. CASE c \notin Letter
    BY <1>2 DEF LowerChar
  <1> QED
    BY <1>1, <1>2

LEMMA ToLowerIs ==
    ASSUME NEW s \in Str
    PROVE  /\ ToLower(s) \in Str
           /\ Len(ToLower(s)) = Len(s)
           /\ \A i \in 1 .. Len(s) : ToLower(s)[i] = LowerChar(s[i])
  <1>1. DOMAIN s = 1 .. Len(s) /\ Len(s) \in Nat /\ \A i \in 1 .. Len(s) : s[i] \in Char
    BY DEF Str
  <1>2. ToLower(s) = [i \in 1 .. Len(s) |-> LowerChar(s[i])]
    BY <1>1 DEF ToLower
  <1>3. ToLower(s) \in [1 .. Len(s) -> Char]
    BY <1>1, <1>2, LowerCharIs
  <1>4. ToLower(s) \in Seq(Char) /\ Len(ToLower(s)) = Len(s)
    BY <1>1, <1>3
  <1> QED
    BY <1>2, <1>4 DEF Str

LEMMA ToLowerTwice ==
    ASSUME NEW s \in Str
    PROVE  ToLower(ToLower(s)) = ToLower(s)
  <1> DEFINE l == ToLower(s)
  <1>1. /\ l \in Str /\ Len(l) = Len(s)
        /\ \A i \in 1 .. Len(s) : l[i] = LowerChar(s[i]) /\ s[i] \in Char
    BY ToLowerIs DEF Str
  <1> HIDE DEF l
  <1>2. /\ ToLower(l) \in Str /\ Len(ToLower(l)) = Len(l)
        /\ \A i \in 1 .. Len(l) : ToLower(l)[i] = LowerChar(l[i])
    BY <1>1, ToLowerIs
  <1>3. \A i \in 1 .. Len(l) : ToLower(l)[i] = l[i]
    BY <1>1, <1>2, LowerCharIs
  <1>4. ToLower(l) = l
    BY <1>1, <1>2, <1>3, SameSeq DEF Str
  <1> QED
    BY <1>4 DEF l

(* TrimSpace leaves out spaces, and nothing else.                          *)
IsTrimmed(s) == s = Empty \/ (s[1] \notin Space /\ s[Len(s)] \notin Space)

LEMMA TrimSpaceIs ==
    ASSUME NEW s \in Str
    PROVE  \/ TrimSpace(s) = Empty /\ \A i \in 1 .. Len(s) : s[i] \in Space
           \/ \E m \in 1 .. Len(s) : \E n \in m .. Len(s) :
                  /\ TrimSpace(s) = SubSeq(s, m, n)
                  /\ s[m] \notin Space /\ s[n] \notin Space
                  /\ \A i \in 1 .. Len(s) : s[i] \notin Space => i \in m .. n
  <1> DEFINE ink == {i \in DOMAIN s : s[i] \notin Space}
  <1>1. DOMAIN s = 1 .. Len(s) /\ Len(s) \in Nat
    BY DEF Str
  <1>2. ink \in SUBSET (1 .. Len(s)) /\ \A i \in 1 .. Len(s) : i \in ink <=> s[i] \notin Space
    BY <1>1
  <1>3. TrimSpace(s) = IF ink = {} THEN Empty
                       ELSE SubSeq(s, CHOOSE i \in ink : \A j \in ink : i <= j,
                                      CHOOSE i \in ink : \A j \in ink : i >= j)
    BY DEF TrimSpace
  <1> HIDE DEF ink
  <1>4. CASE ink = {}
    BY <1>2, <1>3, <1>4
  <1>5. CASE ink # {}
    <2> DEFINE m == CHOOSE i \in ink : \A j \in ink : i <= j
               n == CHOOSE i \in ink : \A j \in ink : i >= j
    <2>1. m \in ink /\ \A j \in ink : m <= j
      <3>1. ink \in SUBSET Nat
        BY <1>1, <1>2
      <3>2. \E i \in ink : \A j \in ink : i <= j
        BY <1>5, <3>1, LeastNatural
      <3> QED
        BY <3>2
    <2>2. n \in ink /\ \A j \in ink : n >= j
      <3> DEFINE far == {Len(s) - i : i \in ink}
      <3>1. far \in SUBSET Nat /\ far # {}
        <4>1. \A i \in ink : Len(s) - i \in Nat
          BY <1>1, <1>2
        <4> QED
          BY <1>5, <4>1
      <3>2. PICK d \in far : \A e \in far : d <= e
        BY <3>1, LeastNatural
      <3>3. PICK i \in ink : d = Len(s) - i
        BY <3>2
      <3>4. \A j \in ink : i >= j
        <4> SUFFICES ASSUME NEW j \in ink PROVE i >= j
          OBVIOUS
        <4>1. Len(s) - j \in far
          OBVIOUS
        <4>2. Len(s) - i <= Len(s) - j
          BY <3>2, <3>3, <4>1
        <4>3. i \in Int /\ j \in Int
          BY <1>1, <1>2
        <4> QED
          BY <1>1, <4>2, <4>3
      <3>5. \E x \in ink : \A j \in ink : x >= j
        BY <3>4
      <3> QED
        BY <3>5
    <2>3. TrimSpace(s) = SubSeq(s, m, n)
      BY <1>3, <1>5
    <2> HIDE DEF m, n
    <2>4. m \in 1 .. Len(s) /\ n \in m .. Len(s)
      BY <1>1, <1>2, <2>1, <2>2
    <2>5. s[m] \notin Space /\ s[n] \notin Space
      BY <1>1, <1>2, <2>1, <2>2
    <2>6. \A i \in 1 .. Len(s) : s[i] \notin Space => i \in m .. n
      BY <1>1, <1>2, <2>1, <2>2, <2>4
    <2> QED
      BY <2>3, <2>4, <2>5, <2>6
  <1> QED
    BY <1>4, <1>5

LEMMA TrimSpaceTrims ==
    ASSUME NEW s \in Str
    PROVE  TrimSpace(s) \in Str /\ IsTrimmed(TrimSpace(s))
  <1>1. CASE TrimSpace(s) = Empty
    BY <1>1 DEF IsTrimmed, Str, Empty
  <1>2. CASE TrimSpace(s) # Empty
    <2>1. PICK m \in 1 .. Len(s) : \E n \in m .. Len(s) :
              TrimSpace(s) = SubSeq(s, m, n) /\ s[m] \notin Space /\ s[n] \notin Space
      BY <1>2, TrimSpaceIs
    <2>2. PICK n \in m .. Len(s) :
              TrimSpace(s) = SubSeq(s, m, n) /\ s[m] \notin Space /\ s[n] \notin Space
      BY <2>1
    <2> DEFINE t == SubSeq(s, m, n)
    <2>3. /\ t \in Seq(Char) /\ Len(t) = n - m + 1
          /\ \A i \in 1 .. (n - m + 1) : t[i] = s[m + i - 1]
      BY SubSeqIs DEF Str
    <2>4. Len(s) \in Nat
      BY DEF Str
    <2> HIDE DEF t
    <2>5. 1 \in 1 .. (n - m + 1) /\ n - m + 1 \in 1 .. (n - m + 1)
      BY <2>4
    <2>6. t[1] = s[m + 1 - 1] /\ t[n - m + 1] = s[m + (n - m + 1) - 1]
      BY <2>3, <2>5
    <2>7. m + 1 - 1 = m /\ m + (n - m + 1) - 1 = n
      BY <2>4
    <2>8. t[1] \notin Space /\ t[Len(t)] \notin Space
      BY <2>2, <2>3, <2>6, <2>7
    <2> QED
      BY <2>2, <2>3, <2>8 DEF t, IsTrimmed, Str
  <1> QED
    BY <1>1, <1>2

LEMMA TrimSpaceTwice ==
    ASSUME NEW s \in Str, IsTrimmed(s)
    PROVE  TrimSpace(s) = s
  <1>1. CASE s = Empty
    <2>1. Len(s) = 0
      BY <1>1 DEF Empty
    <2>2. TrimSpace(s) = Empty
      BY <2>1, TrimSpaceIs
    <2> QED
      BY <1>1, <2>2
  <1>2. CASE s # Empty
    <2>1. Len(s) \in Nat \ {0} /\ s[1] \notin Space /\ s[Len(s)] \notin Space
      BY <1>2 DEF IsTrimmed, Str, Empty
    <2>2. 1 \in 1 .. Len(s) /\ Len(s) \in 1 .. Len(s)
      BY <2>1
    <2>3. PICK m \in 1 .. Len(s) : \E n \in m .. Len(s) :
              /\ TrimSpace(s) = SubSeq(s, m, n)
              /\ \A i \in 1 .. Len(s) : s[i] \notin Space => i \in m .. n
      BY <2>1, <2>2, TrimSpaceIs
    <2>4. PICK n \in m .. Len(s) :
              /\ TrimSpace(s) = SubSeq(s, m, n)
              /\ \A i \in 1 .. Len(s) : s[i] \notin Space => i \in m .. n
      BY <2>3
    <2>5. m = 1 /\ n = Len(s)
      <3>1. 1 \in m .. n /\ Len(s) \in m .. n
        BY <2>1, <2>2, <2>4
      <3> QED
        BY <2>1, <3>1
    <2>6. SubSeq(s, 1, Len(s)) = s
      BY DEF Str
    <2> QED
      BY <2>4, <2>5, <2>6
  <1> QED
    BY <1>1, <1>2

LEMMA LowercaseTrimTwice ==
    ASSUME NEW s \in Str
    PROVE  NormalizeLowercaseTrim(NormalizeLowercaseTrim(s)) = NormalizeLowercaseTrim(s)
  <1> DEFINE t == TrimSpace(s)
             l == ToLower(t)
  <1>1. t \in Str /\ IsTrimmed(t)
    BY TrimSpaceTrims
  <1> HIDE DEF t
  <1>2. /\ l \in Str /\ Len(l) = Len(t)
        /\ \A i \in 1 .. Len(t) : l[i] = LowerChar(t[i])
    BY <1>1, ToLowerIs
  <1>3. IsTrimmed(l)
    <2>1. CASE t = Empty
      <3>1. Len(l) = 0 /\ l \in Seq(Char)
        BY <1>2, <2>1 DEF Empty, Str
      <3>2. l = Empty
        <4> HIDE DEF l
        <4> QED
          BY <3>1 DEF Empty
      <3> QED
        BY <3>2 DEF IsTrimmed
    <2>2. CASE t # Empty
      <3>1. /\ Len(t) \in Nat \ {0} /\ t[1] \notin Space /\ t[Len(t)] \notin Space
            /\ t[1] \in Char /\ t[Len(t)] \in Char
        BY <1>1, <2>2 DEF IsTrimmed, Str, Empty
      <3>2. l[1] = LowerChar(t[1]) /\ l[Len(l)] = LowerChar(t[Len(t)])
        BY <1>2, <3>1
      <3>3. l[1] \notin Space /\ l[Len(l)] \notin Space
        BY <3>1, <3>2, LowerCharIs
      <3> QED
        BY <3>3 DEF IsTrimmed
    <2> QED
      BY <2>1, <2>2
  <1>4. TrimSpace(l) = l
    BY <1>2, <1>3, TrimSpaceTwice
  <1>5. ToLower(TrimSpace(l)) = l
    <2>1. ToLower(l) = l
      BY <1>1, ToLowerTwice
    <2> QED
      BY <1>4, <2>1
  <1> QED
    BY <1>5 DEF NormalizeLowercaseTrim, t

(* A phone number once normalized: an optional plus sign and digits.       *)
LEMMA PhoneIs ==
    ASSUME NEW s \in Str
    PROVE  \E d \in Seq(Digit) : NormalizePhone(s) = d \/ NormalizePhone(s) = <<"+">> \o d
  <1> DEFINE t == TrimSpace(s)
  <1>1. t \in Seq(Char)
    BY TrimSpaceTrims DEF Str
  <1>2. NormalizePhone(s) = IF t = Empty THEN Empty
                            ELSE IF Head(t) = "+" THEN <<"+">> \o Select(Tail(t), Digit)
                            ELSE Select(t, Digit)
    BY DEF NormalizePhone
  <1> HIDE DEF t
  <1>3. CASE t = Empty
    <2>1. <<>> \in Seq(Digit) /\ NormalizePhone(s) = <<>>
      BY <1>2, <1>3 DEF Empty
    <2> QED
      BY <2>1
  <1>4. CASE t # Empty
    <2>1. Tail(t) \in Seq(Char)
      BY <1>1, <1>4 DEF Empty
    <2>2. Select(Tail(t), Digit) \in Seq(Digit) /\ Select(t, Digit) \in Seq(Digit)
      BY <1>1, <2>1, SelectType
    <2> QED
      BY <1>2, <1>4, <2>2
  <1> QED
    BY <1>3, <1>4

LEMMA PhoneOfDigits ==
    ASSUME NEW d \in Seq(Digit)
    PROVE  NormalizePhone(d) = d /\ NormalizePhone(<<"+">> \o d) = <<"+">> \o d
  <1>1. \A c \in Digit : c \in Char /\ c \notin Space /\ c # "+"
    BY CharAssumption DEF Char
  <1>2. "+" \in Char /\ "+" \notin Space
    BY CharAssumption DEF Char
  <1>3. d \in Str /\ IsTrimmed(d)
    <2>1. d \in Seq(Char)
      BY <1>1
    <2>2. d # Empty => d[1] \in Digit /\ d[Len(d)] \in Digit
      BY DEF Empty
    <2> QED
      BY <1>1, <2>1, <2>2 DEF Str, IsTrimmed
  <1>4. TrimSpace(d) = d
    BY <1>3, TrimSpaceTwice
  <1>5. Select(d, Digit) = d
    BY SelectAll
  <1>6. NormalizePhone(d) = d
    <2>1. NormalizePhone(d) = IF d = Empty THEN Empty
                              ELSE IF Head(d) = "+" THEN <<"+">> \o Select(Tail(d), Digit)
                              ELSE Select(d, Digit)
      BY <1>4 DEF NormalizePhone
    <2>2. d # Empty => Head(d) \in Digit
      BY DEF Empty
    <2> QED
      BY <1>1, <1>5, <2>1, <2>2
  <1> DEFINE e == <<"+">> \o d
  <1>7. /\ e \in Seq(Char) /\ Len(e) = Len(d) + 1
        /\ e[1] = "+" /\ \A i \in 1 .. Len(d) : e[i + 1] = d[i]
        /\ Head(e) = "+" /\ e # Empty /\ Len(d) \in Nat
    BY <1>1, <1>2 DEF Empty
  <1>8. Tail(e) = d
    OBVIOUS
  <1> HIDE DEF e
  <1>9. e[Len(e)] \notin Space
    <2>1. CASE Len(d) = 0
      BY <1>2, <1>7, <2>1
    <2>2. CASE Len(d) # 0
      <3>1. Len(d) \in 1 .. Len(d) /\ d[Len(d)] \in Digit
        BY <2>2
      <3>2. e[Len(d) + 1] = d[Len(d)]
        BY <1>7, <3>1
      <3> QED
        BY <1>1, <1>7, <3>1, <3>2
    <2> QED
      BY <2>1, <2>2
  <1>10. e \in Str /\ IsTrimmed(e)
    BY <1>2, <1>7, <1>9 DEF Str, IsTrimmed
  <1>11. TrimSpace(e) = e
    BY <1>10, TrimSpaceTwice
  <1>12. NormalizePhone(e) = IF e = Empty THEN Empty
                             ELSE IF Head(e) = "+" THEN <<"+">> \o Select(Tail(e), Digit)
                             ELSE Select(e, Digit)
    BY <1>11 DEF NormalizePhone
  <1>13. NormalizePhone(e) = <<"+">> \o d
    BY <1>5, <1>7, <1>8, <1>12
  <1> QED
    BY <1>6, <1>13 DEF e

LEMMA PhoneTwice ==
    ASSUME NEW s \in Str
    PROVE  NormalizePhone(NormalizePhone(s)) = NormalizePhone(s)
  <1>1. PICK d \in Seq(Digit) : NormalizePhone(s) = d \/ NormalizePhone(s) = <<"+">> \o d
    BY PhoneIs
  <1> QED
    BY <1>1, PhoneOfDigits

(* Tokens do not depend on what surrounds them: u is the part of s between *)
(* m and n, and no character outside belongs to a token.                   *)
Run(s, Keep, x, y) ==
    /\ x \in 1 .. Len(s) /\ y \in 1 .. Len(s) /\ x <= y
    /\ \A i \in x .. y : s[i] \in Keep
    /\ ~(x - 1 \in 1 .. Len(s) /\ s[x - 1] \in Keep)
    /\ ~(y + 1 \in 1 .. Len(s) /\ s[y + 1] \in Keep)

LEMMA RunsAre ==
    ASSUME NEW s \in Str, NEW Keep, NEW w
    PROVE  w \in Runs(s, Keep) <=>
               \E x, y \in 1 .. Len(s) : Run(s, Keep, x, y) /\ w = SubSeq(s, x, y)
  <1>1. DOMAIN s = 1 .. Len(s) /\ Len(s) \in Nat
    BY DEF Str
  <1> DEFINE in(i) == i \in DOMAIN s /\ s[i] \in Keep
             Q == {q \in (DOMAIN s) \X (DOMAIN s) :
                       /\ q[1] <= q[2]
                       /\ \A i \in q[1] .. q[2] : in(i)
                       /\ ~in(q[1] - 1) /\ ~in(q[2] + 1)}
  <1>2. Runs(s, Keep) = {SubSeq(s, r[1], r[2]) : r \in Q}
    BY DEF Runs
  <1>3. \A x, y \in 1 .. Len(s) : <<x, y>> \in Q <=> Run(s, Keep, x, y)
    BY <1>1 DEF Run
  <1>4. \A r \in Q : r[1] \in 1 .. Len(s) /\ r[2] \in 1 .. Len(s) /\ r = <<r[1], r[2]>>
    BY <1>1
  <1> HIDE DEF Q
  <1> QED
    BY <1>2, <1>3, <1>4

Part(u, s, m, n) ==
    /\ m \in 1 .. Len(s) /\ n \in m .. Len(s)
    /\ Len(u) = n - m + 1 /\ \A i \in 1 .. (n - m + 1) : u[i] = s[m + i - 1]

(* The characters of u from x to y are those of s from X to Y.             *)
Placed(u, x, y, s, X, Y) ==
    /\ x \in 1 .. Len(u) /\ y \in x .. Len(u)
    /\ X \in 1 .. Len(s) /\ Y \in X .. Len(s) /\ Y - X + 1 = y - x + 1
    /\ \A i \in 1 .. (y - x + 1) : u[x + i - 1] = s[X + i - 1]

Slice(s, x, y) == SubSeq(s, x, y)

LEMMA PlacedSlice ==
    ASSUME NEW s \in Str, NEW u \in Str, NEW x, NEW y, NEW X, NEW Y,
           Placed(u, x, y, s, X, Y)
    PROVE  Slice(u, x, y) = Slice(s, X, Y)
  <1>1. /\ SubSeq(u, x, y) \in Seq(Char) /\ Len(SubSeq(u, x, y)) = y - x + 1
        /\ \A i \in 1 .. (y - x + 1) : SubSeq(u, x, y)[i] = u[x + i - 1]
    BY SubSeqIs DEF Str, Placed
  <1>2. /\ SubSeq(s, X, Y) \in Seq(Char) /\ Len(SubSeq(s, X, Y)) = Y - X + 1
        /\ \A i \in 1 .. (Y - X + 1) : SubSeq(s, X, Y)[i] = s[X + i - 1]
    BY SubSeqIs DEF Str, Placed
  <1>3. \A i \in 1 .. (y - x + 1) : SubSeq(u, x, y)[i] = SubSeq(s, X, Y)[i]
    BY <1>1, <1>2 DEF Placed
  <1>4. Y - X + 1 = y - x + 1
    BY DEF Placed
  <1> QED
    BY <1>1, <1>2, <1>3, <1>4, SameSeq DEF Slice

Shifted(x, m, X) == X = m + x - 1

LEMMA PartPlaced ==
    ASSUME NEW s \in Str, NEW u \in Str, NEW m, NEW n, Part(u, s, m, n),
           NEW Keep, NEW x, NEW y, Run(u, Keep, x, y),
           NEW X, NEW Y, Shifted(x, m, X), Shifted(y, m, Y)
    PROVE  Placed(u, x, y, s, X, Y)
  <1>1. /\ Len(s) \in Nat /\ Len(u) \in Nat
        /\ x \in 1 .. Len(u) /\ y \in 1 .. Len(u) /\ y \in x .. Len(u)
    BY DEF Str, Run
  <1>2. X \in 1 .. Len(s) /\ Y \in X .. Len(s) /\ Y - X + 1 = y - x + 1
    BY <1>1 DEF Part, Shifted
  <1>3. ASSUME NEW i \in 1 .. (y - x + 1) PROVE u[x + i - 1] = s[X + i - 1]
    <2>1. x + i - 1 \in 1 .. (n - m + 1) /\ m + (x + i - 1) - 1 = X + i - 1
      BY <1>1 DEF Part, Shifted
    <2>2. u[x + i - 1] = s[m + (x + i - 1) - 1]
      BY <2>1 DEF Part
    <2> QED
      BY <2>1, <2>2
  <1> QED
    BY <1>1, <1>2, <1>3 DEF Placed

LEMMA ShiftedRun ==
    ASSUME NEW s \in Str, NEW u \in Str, NEW m, NEW n, Part(u, s, m, n), NEW Keep,
           \A i \in 1 .. Len(s) : s[i] \in Keep => i \in m .. n,
           NEW x \in 1 .. Len(u), NEW y \in 1 .. Len(u)
    PROVE  Run(u, Keep, x, y) <=> Run(s, Keep, m + x - 1, m + y - 1)
  <1> DEFINE k == m - 1
             X == m + x - 1
             Y == m + y - 1
             inU(i) == i \in 1 .. Len(u) /\ u[i] \in Keep
             inS(i) == i \in 1 .. Len(s) /\ s[i] \in Keep
  <1>1. /\ Len(s) \in Nat /\ Len(u) \in Nat /\ m \in Int /\ n \in Int
        /\ 1 <= m /\ m <= n /\ n <= Len(s) /\ Len(u) = n - m + 1
    BY DEF Str, Part
  <1>2. ASSUME NEW i \in Int PROVE inU(i) <=> inS(m + i - 1)
    <2>1. i \in 1 .. Len(u) <=> m + i - 1 \in m .. n
      BY <1>1
    <2>2. i \in 1 .. Len(u) => u[i] = s[m + i - 1] /\ m + i - 1 \in 1 .. Len(s)
      BY <1>1 DEF Part
    <2> QED
      BY <2>1, <2>2
  <1>3. /\ X \in 1 .. Len(s) /\ Y \in 1 .. Len(s) /\ (x <= y <=> X <= Y)
        /\ x \in Int /\ y \in Int /\ X \in Int /\ Y \in Int
    BY <1>1
  <1>4. m + (x - 1) - 1 = X - 1 /\ m + (y + 1) - 1 = Y + 1
    BY <1>1
  <1>5. (inU(x - 1) <=> inS(X - 1)) /\ (inU(y + 1) <=> inS(Y + 1))
    <2>1. (inU(x - 1) <=> inS(m + (x - 1) - 1)) /\ (inU(y + 1) <=> inS(m + (y + 1) - 1))
      BY <1>2, <1>3
    <2> QED
      BY <1>4, <2>1
  <1>6. (\A i \in x .. y : u[i] \in Keep) <=> (\A i \in X .. Y : s[i] \in Keep)
    <2>1. ASSUME \A i \in x .. y : u[i] \in Keep, NEW i \in X .. Y PROVE s[i] \in Keep
      <3>1. i - m + 1 \in x .. y /\ i - m + 1 \in 1 .. Len(u) /\ m + (i - m + 1) - 1 = i
            /\ i - m + 1 \in Int
        BY <1>1
      <3>2. inS(m + (i - m + 1) - 1)
        BY <1>2, <2>1, <3>1
      <3> QED
        BY <3>1, <3>2
    <2>2. ASSUME \A i \in X .. Y : s[i] \in Keep, NEW i \in x .. y PROVE u[i] \in Keep
      <3>1. m + i - 1 \in X .. Y /\ m + i - 1 \in 1 .. Len(s) /\ i \in Int
        BY <1>1
      <3> QED
        BY <1>2, <2>2, <3>1
    <2> QED
      BY <2>1, <2>2
  <1>7. Run(u, Keep, x, y) <=> x <= y /\ (\A i \in x .. y : u[i] \in Keep)
                               /\ ~inU(x - 1) /\ ~inU(y + 1)
    BY DEF Run
  <1> HIDE DEF X, Y
  <1>8. Run(s, Keep, X, Y) <=> X <= Y /\ (\A i \in X .. Y : s[i] \in Keep)
                               /\ ~inS(X - 1) /\ ~inS(Y + 1)
    BY <1>3 DEF Run
  <1> HIDE DEF inU, inS
  <1>9. Run(u, Keep, x, y) <=> Run(s, Keep, X, Y)
    BY <1>3, <1>5, <1>6, <1>7, <1>8
  <1> QED
    BY <1>9 DEF X, Y

LEMMA PartRuns ==
    ASSUME NEW s \in Str, NEW u \in Str, NEW m, NEW n, Part(u, s, m, n), NEW Keep,
           \A i \in 1 .. Len(s) : s[i] \in Keep => i \in m .. n
    PROVE  Runs(u, Keep) = Runs(s, Keep)
  <1>1. /\ Len(s) \in Nat /\ Len(u) \in Nat /\ m \in Int /\ n \in Int
        /\ 1 <= m /\ m <= n /\ n <= Len(s) /\ Len(u) = n - m + 1
    BY DEF Str, Part
  <1>2. ASSUME NEW w \in Runs(u, Keep) PROVE w \in Runs(s, Keep)
    <2>1. PICK x \in 1 .. Len(u), y \in 1 .. Len(u) : Run(u, Keep, x, y) /\ w = SubSeq(u, x, y)
      BY <1>2, RunsAre
    <2> DEFINE X == m + x - 1
               Y == m + y - 1
    <2>2. Run(s, Keep, X, Y)
      BY <2>1, ShiftedRun
    <2>3. Run(s, Keep, X, Y) /\ w = SubSeq(s, X, Y)
      <3>1. Shifted(x, m, X) /\ Shifted(y, m, Y)
        BY DEF Shifted
      <3> HIDE DEF X, Y
      <3>2. Placed(u, x, y, s, X, Y)
        BY <2>1, <3>1, PartPlaced
      <3>3. SubSeq(u, x, y) = SubSeq(s, X, Y)
        <4>1. Slice(u, x, y) = Slice(s, X, Y)
          BY <3>2, PlacedSlice
        <4> QED
          BY <4>1 DEF Slice
      <3> QED
        BY <2>1, <2>2, <3>3, Zenon
    <2> HIDE DEF X, Y
    <2>4. X \in 1 .. Len(s) /\ Y \in 1 .. Len(s)
      BY <2>3 DEF Run
    <2> QED
      BY <2>3, <2>4, RunsAre
  <1>3. ASSUME NEW w \in Runs(s, Keep) PROVE w \in Runs(u, Keep)
    <2>1. PICK X \in 1 .. Len(s), Y \in 1 .. Len(s) : Run(s, Keep, X, Y) /\ w = SubSeq(s, X, Y)
      BY <1>3, RunsAre
    <2>2. X \in m .. n /\ Y \in m .. n /\ X <= Y
      BY <2>1 DEF Run
    <2>3. PICK x \in 1 .. Len(u), y \in 1 .. Len(u) :
              x <= y /\ X = m + x - 1 /\ Y = m + y - 1
      <3>1. /\ X - m + 1 \in 1 .. Len(u) /\ Y - m + 1 \in 1 .. Len(u)
            /\ X - m + 1 <= Y - m + 1
            /\ X = m + (X - m + 1) - 1 /\ Y = m + (Y - m + 1) - 1
        BY <1>1, <2>2
      <3> QED
        BY <3>1, Zenon
    <2>4. Run(s, Keep, m + x - 1, m + y - 1)
      BY <2>1, <2>3
    <2>5. Run(u, Keep, x, y) <=> Run(s, Keep, m + x - 1, m + y - 1)
      BY <2>3, ShiftedRun
    <2>6. SubSeq(u, x, y) = SubSeq(s, X, Y)
      <3>1. Run(u, Keep, x, y) /\ Shifted(x, m, X) /\ Shifted(y, m, Y)
        BY <2>3, <2>4, <2>5 DEF Shifted
      <3>2. Placed(u, x, y, s, X, Y)
        BY <3>1, PartPlaced
      <3>3. SubSeq(u, x, y) = SubSeq(s, X, Y)
        <4>1. Slice(u, x, y) = Slice(s, X, Y)
          BY <3>2, PlacedSlice
        <4> QED
          BY <4>1 DEF Slice
      <3> QED
        BY <3>3
    <2>7. Run(u, Keep, x, y) /\ w = SubSeq(u, x, y)
      BY <2>1, <2>4, <2>5, <2>6
    <2> QED
      BY <2>3, <2>7, RunsAre
  <1> QED
    BY <1>2, <1>3

(* The tokens of a text are those of the trimmed text in lower case.       *)
LEMMA TokensOfNormalized ==
    ASSUME NEW s \in Str
    PROVE  Tokenize(s) = Runs(NormalizeLowercaseTrim(s), Letter \cup Digit)
  <1> DEFINE Keep == Letter \cup Digit
             l == ToLower(s)
             t == TrimSpace(s)
             u == ToLower(t)
  <1>1. Len(s) \in Nat /\ \A i \in 1 .. Len(s) : s[i] \in Char
    BY DEF Str
  <1>2. /\ l \in Str /\ Len(l) = Len(s)
        /\ \A i \in 1 .. Len(s) : l[i] = LowerChar(s[i])
    BY ToLowerIs
  <1>3. t \in Str
    BY TrimSpaceTrims
  <1>4. /\ u \in Str /\ Len(u) = Len(t)
        /\ \A i \in 1 .. Len(t) : u[i] = LowerChar(t[i])
    BY <1>3, ToLowerIs
  <1>5. \A c \in Keep : c \notin Space
    BY CharAssumption
  <1>6. \A i \in 1 .. Len(s) : l[i] \in Keep => s[i] \notin Space
    BY <1>1, <1>2, <1>5, LowerCharIs
  <1>7. Tokenize(s) = Runs(l, Keep) /\ NormalizeLowercaseTrim(s) = u
    BY DEF Tokenize, NormalizeLowercaseTrim
  <1> HIDE DEF Keep, l, u
  <1>8. CASE t = Empty /\ \A i \in 1 .. Len(s) : s[i] \in Space
    <2>1. \A w : w \notin Runs(l, Keep)
      <3> SUFFICES ASSUME NEW x \in 1 .. Len(l), NEW y \in 1 .. Len(l), Run(l, Keep, x, y)
                   PROVE  FALSE
        BY <1>2, RunsAre
      <3>1. x \in x .. y
        BY DEF Run
      <3>2. l[x] \in Keep
        BY <3>1 DEF Run
      <3> QED
        BY <1>2, <1>6, <1>8, <3>2
    <2>2. Len(u) = 0
      BY <1>4, <1>8 DEF Empty
    <2>3. \A w : w \notin Runs(u, Keep)
      <3>1. 1 .. Len(u) = {}
        BY <2>2
      <3> QED
        BY <1>4, <3>1, RunsAre
    <2> QED
      BY <1>7, <2>1, <2>3 DEF Keep
  <1>9. CASE \E m \in 1 .. Len(s) : \E n \in m .. Len(s) :
                 /\ t = SubSeq(s, m, n)
                 /\ \A i \in 1 .. Len(s) : s[i] \notin Space => i \in m .. n
    <2>1. PICK m \in 1 .. Len(s) : \E n \in m .. Len(s) :
                 /\ t = SubSeq(s, m, n)
                 /\ \A i \in 1 .. Len(s) : s[i] \notin Space => i \in m .. n
      BY <1>9
    <2>2. PICK n \in m .. Len(s) :
                 /\ t = SubSeq(s, m, n)
                 /\ \A i \in 1 .. Len(s) : s[i] \notin Space => i \in m .. n
      BY <2>1
    <2>3. Len(t) = n - m + 1 /\ \A i \in 1 .. (n - m + 1) : t[i] = s[m + i - 1]
      BY <2>2, SubSeqIs DEF Str
    <2> HIDE DEF t
    <2>4. ASSUME NEW i \in 1 .. (n - m + 1) PROVE u[i] = l[m + i - 1]
      <3>1. m + i - 1 \in 1 .. Len(s)
        BY <1>1
      <3>2. u[i] = LowerChar(t[i]) /\ l[m + i - 1] = LowerChar(s[m + i - 1])
        BY <1>2, <1>4, <2>3, <3>1
      <3> QED
        BY <2>3, <3>2
    <2>5. Part(u, l, m, n)
      BY <1>2, <1>4, <2>3, <2>4 DEF Part
    <2>6. \A i \in 1 .. Len(l) : l[i] \in Keep => i \in m .. n
      BY <1>2, <1>6, <2>2
    <2>7. Runs(u, Keep) = Runs(l, Keep)
      BY <1>2, <1>4, <2>5, <2>6, PartRuns
    <2> QED
      BY <1>7, <2>7 DEF Keep
  <1> QED
    BY <1>8, <1>9, TrimSpaceIs

LEMMA Stable == Strings => NormalizersStable
  <1> SUFFICES ASSUME Strings PROVE NormalizersStable
    OBVIOUS
  <1>1. a \in Str /\ b \in Str
    BY DEF Strings
  <1>2. NormalizeLowercaseTrim(NormalizeLowercaseTrim(a)) = NormalizeLowercaseTrim(a)
    BY <1>1, LowercaseTrimTwice
  <1>3. NormalizePhone(NormalizePhone(a)) = NormalizePhone(a)
    BY <1>1, PhoneTwice
  <1>4. NormalizeLowercaseTrim(a) = NormalizeLowercaseTrim(b) => Tokenize(a) = Tokenize(b)
    BY <1>1, TokensOfNormalized
  <1> QED
    BY <1>2, <1>3, <1>4 DEF NormalizersStable

(* A normalized value is its own normalization, and lower case and trimming*)
(* lose no token, for all strings over all alphabets.                      *)
THEOREM NormalizedOnce == Spec => []NormalizersStable
  BY AlwaysStrings, Stable, PTL

-----------------------------------------------------------------------------
(* Scores.  A fraction between 0 and 1, by its numerator and denominator.  *)

LEMMA FractionIs ==
    ASSUME NEW x \in Nat, NEW d \in Nat, x <= d
    PROVE  /\ ~Less(<<x, d>>, Zero) /\ ~Less(One, <<x, d>>)
           /\ Same(<<x, d>>, One) <=> x = d
  BY DEF Less, Same, Zero, One

(* What ScoresAreSimilarities says of one function: p is the score of s    *)
(* with t, and q of t with s.                                              *)
Similar(p, q, s, t, identifies) ==
    /\ ~Less(p, Zero) /\ ~Less(One, p)
    /\ Same(p, q)
    /\ s = t /\ s # Empty => Same(p, One)
    /\ Same(p, One) /\ identifies => s = t

LEMMA OneSimilar == ASSUME NEW s, NEW identifies PROVE Similar(One, One, s, s, identifies)
  BY DEF Similar, Less, Same, Zero, One

LEMMA ZeroSimilar ==
    ASSUME NEW s, NEW t, s # t \/ s = Empty, NEW identifies
    PROVE  Similar(Zero, Zero, s, t, identifies)
  BY DEF Similar, Less, Same, Zero, One

LEMMA FractionSimilar ==
    ASSUME NEW s, NEW t, NEW identifies, NEW x \in Nat, NEW d \in Nat, x <= d,
           s = t => x = d, x = d /\ identifies => s = t,
           NEW p, p = <<x, d>>
    PROVE  Similar(p, p, s, t, identifies)
  <1>1. ~Less(p, Zero) /\ ~Less(One, p) /\ (Same(p, One) <=> x = d)
    BY FractionIs
  <1>2. Same(p, p)
    BY DEF Same
  <1> QED
    BY <1>1, <1>2 DEF Similar

LEMMA ExactSimilar ==
    ASSUME NEW s \in Str, NEW t \in Str
    PROVE  Similar(Exact(s, t), Exact(t, s), s, t, TRUE)
  <1>1. CASE s = t
    BY <1>1, OneSimilar DEF Exact
  <1>2. CASE s # t
    BY <1>2, ZeroSimilar DEF Exact
  <1> QED
    BY <1>1, <1>2

(* The edit distance is at most the longer length, 0 only for equal        *)
(* strings, and the same in both directions.                               *)
SameTo(s, t, i, j) == i = j /\ \A k \in 1 .. i : s[k] = t[k]

CellOK(s, t, D, E, i, j) ==
    /\ D[i][j] <= i \/ D[i][j] <= j
    /\ D[i][j] = 0 => SameTo(s, t, i, j)
    /\ D[i][j] = E[j][i]

LEMMA CellStep ==
    ASSUME NEW s \in Str, NEW t \in Str, NEW D, IsTable(s, t, D), NEW E, IsTable(t, s, E),
           NEW i \in 1 .. Len(s), NEW j \in 1 .. Len(t),
           CellOK(s, t, D, E, i - 1, j), CellOK(s, t, D, E, i, j - 1),
           CellOK(s, t, D, E, i - 1, j - 1)
    PROVE  CellOK(s, t, D, E, i, j)
  <1> DEFINE up == D[i - 1][j]
             left == D[i][j - 1]
             diag == D[i - 1][j - 1]
             c == Cost(s, t, i, j)
  <1>1. /\ Len(s) \in Nat /\ Len(t) \in Nat /\ i \in Nat /\ j \in Nat
        /\ i \in 0 .. Len(s) /\ i - 1 \in 0 .. Len(s)
        /\ j \in 0 .. Len(t) /\ j - 1 \in 0 .. Len(t)
    BY DEF Str
  <1>2. up \in Nat /\ left \in Nat /\ diag \in Nat
    <2>1. D \in [0 .. Len(s) -> [0 .. Len(t) -> Nat]]
      BY DEF IsTable
    <2> QED
      BY <1>1, <2>1
  <1>3. c \in {0, 1} /\ (c = 0 => s[i] = t[j]) /\ c = Cost(t, s, j, i)
    BY DEF Cost
  <1>4. D[i][j] = Min({up + 1, left + 1, diag + c})
    BY DEF IsTable
  <1>5. E[j][i] = Min({left + 1, up + 1, diag + c})
    <2>1. E[j][i] = Min({E[j - 1][i] + 1, E[j][i - 1] + 1, E[j - 1][i - 1] + Cost(t, s, j, i)})
      BY DEF IsTable
    <2>2. E[j - 1][i] = left /\ E[j][i - 1] = up /\ E[j - 1][i - 1] = diag
      BY DEF CellOK
    <2> QED
      BY <1>3, <2>1, <2>2
  <1>6. (up <= i - 1 \/ up <= j) /\ (left <= i \/ left <= j - 1) /\ (diag <= i - 1 \/ diag <= j - 1)
    BY DEF CellOK
  <1>7. diag = 0 => SameTo(s, t, i - 1, j - 1)
    BY DEF CellOK
  <1> HIDE DEF up, left, diag, c
  <1>8. {left + 1, up + 1, diag + c} = {up + 1, left + 1, diag + c}
    OBVIOUS
  <1>9. D[i][j] = E[j][i]
    BY <1>4, <1>5, <1>8
  <1> DEFINE d == D[i][j]
  <1>10. /\ d \in Nat
         /\ d = up + 1 \/ d = left + 1 \/ d = diag + c
         /\ d <= up + 1 /\ d <= left + 1 /\ d <= diag + c
    <2>1. up + 1 \in Nat /\ left + 1 \in Nat /\ diag + c \in Nat
      BY <1>2, <1>3
    <2> QED
      BY <1>4, <2>1, MinOfThree
  <1> HIDE DEF d
  <1>11. d <= i \/ d <= j
    BY <1>1, <1>2, <1>3, <1>6, <1>10
  <1>12. d = 0 => SameTo(s, t, i, j)
    <2> SUFFICES ASSUME d = 0 PROVE SameTo(s, t, i, j)
      OBVIOUS
    <2>1. diag = 0 /\ c = 0
      BY <1>2, <1>3, <1>10
    <2>2. i - 1 = j - 1 /\ \A k \in 1 .. (i - 1) : s[k] = t[k]
      BY <1>7, <2>1 DEF SameTo
    <2> QED
      BY <1>1, <1>3, <2>1, <2>2 DEF SameTo
  <1> QED
    BY <1>9, <1>11, <1>12 DEF CellOK, d

LEMMA EveryCellOK ==
    ASSUME NEW s \in Str, NEW t \in Str, NEW D, IsTable(s, t, D), NEW E, IsTable(t, s, E)
    PROVE  CellOK(s, t, D, E, Len(s), Len(t))
  <1> DEFINE P == {p \in (0 .. Len(s)) \X (0 .. Len(t)) : CellOK(s, t, D, E, p[1], p[2])}
  <1>1. Len(s) \in Nat /\ Len(t) \in Nat
    BY DEF Str
  <1>2. \A i \in 0 .. Len(s) : \A j \in 0 .. Len(t) : <<i, j>> \in P <=> CellOK(s, t, D, E, i, j)
    OBVIOUS
  <1> HIDE DEF P
  <1>3. \A j \in 0 .. Len(t) : <<0, j>> \in P
    <2> SUFFICES ASSUME NEW j \in 0 .. Len(t) PROVE CellOK(s, t, D, E, 0, j)
      BY <1>1, <1>2
    <2>1. D[0][j] = j /\ E[j][0] = j
      BY DEF IsTable
    <2> QED
      BY <1>1, <2>1 DEF CellOK, SameTo
  <1>4. \A i \in 0 .. Len(s) : <<i, 0>> \in P
    <2> SUFFICES ASSUME NEW i \in 0 .. Len(s) PROVE CellOK(s, t, D, E, i, 0)
      BY <1>1, <1>2
    <2>1. D[i][0] = i /\ E[0][i] = i
      BY DEF IsTable
    <2> QED
      BY <1>1, <2>1 DEF CellOK, SameTo
  <1>5. ASSUME NEW i \in 1 .. Len(s), NEW j \in 1 .. Len(t),
               <<i - 1, j>> \in P, <<i, j - 1>> \in P, <<i - 1, j - 1>> \in P
        PROVE  <<i, j>> \in P
    <2>1. /\ i \in 0 .. Len(s) /\ i - 1 \in 0 .. Len(s)
          /\ j \in 0 .. Len(t) /\ j - 1 \in 0 .. Len(t)
      BY <1>1
    <2>2. /\ CellOK(s, t, D, E, i - 1, j) /\ CellOK(s, t, D, E, i, j - 1)
          /\ CellOK(s, t, D, E, i - 1, j - 1)
      BY <1>2, <1>5, <2>1
    <2>3. CellOK(s, t, D, E, i, j)
      BY <2>2, CellStep
    <2> QED
      BY <1>2, <2>1, <2>3
  <1>6. \A i \in 0 .. Len(s) : \A j \in 0 .. Len(t) : <<i, j>> \in P
    BY <1>1, <1>3, <1>4, <1>5, EveryCell
  <1>7. Len(s) \in 0 .. Len(s) /\ Len(t) \in 0 .. Len(t)
    BY <1>1
  <1>8. <<Len(s), Len(t)>> \in P
    BY <1>6, <1>7, Zenon
  <1> QED
    BY <1>2, <1>7, <1>8, Zenon

LEMMA LevenshteinSimilar ==
    ASSUME NEW s \in Str, NEW t \in Str
    PROVE  Similar(NormalizedLevenshtein(s, t), NormalizedLevenshtein(t, s), s, t, TRUE)
  <1> DEFINE d == LevenshteinDistance(s, t)
             n == IF Len(s) <= Len(t) THEN Len(t) ELSE Len(s)
  <1>1. Len(s) \in Nat /\ Len(t) \in Nat
    BY DEF Str
  <1>2. CASE s = t
    BY <1>2, OneSimilar DEF NormalizedLevenshtein
  <1>3. CASE s # t
    <2> DEFINE D == LevenshteinRows(s, t)
               E == LevenshteinRows(t, s)
    <2>1. IsTable(s, t, D) /\ IsTable(t, s, E)
      BY LevenshteinTable
    <2>2. d = D[Len(s)][Len(t)] /\ LevenshteinDistance(t, s) = E[Len(t)][Len(s)]
      BY DEF LevenshteinDistance
    <2> HIDE DEF D, E, d
    <2>3. CellOK(s, t, D, E, Len(s), Len(t))
      BY <2>1, EveryCellOK
    <2>4. d \in Nat
      <3>1. D \in [0 .. Len(s) -> [0 .. Len(t) -> Nat]]
        BY <2>1 DEF IsTable
      <3> QED
        BY <1>1, <2>2, <3>1
    <2>5. LevenshteinDistance(t, s) = d /\ (d <= Len(s) \/ d <= Len(t))
      BY <2>2, <2>3 DEF CellOK
    <2>6. d # 0
      <3> SUFFICES ASSUME d = 0 PROVE s = t
        BY <1>3
      <3>1. Len(s) = Len(t) /\ \A k \in 1 .. Len(s) : s[k] = t[k]
        BY <2>2, <2>3 DEF CellOK, SameTo
      <3> QED
        BY <3>1, SameSeq DEF Str
    <2>7. Max({Len(s), Len(t)}) = n /\ Max({Len(t), Len(s)}) = n
      BY <1>1, MaxOfTwo
    <2>8. /\ NormalizedLevenshtein(s, t) = <<n - d, n>>
          /\ NormalizedLevenshtein(t, s) = <<n - d, n>>
      BY <1>3, <2>5, <2>7 DEF NormalizedLevenshtein, d
    <2>9. n \in Nat /\ n - d \in Nat /\ n - d <= n /\ n - d # n
      BY <1>1, <2>4, <2>5, <2>6
    <2> DEFINE x == n - d
    <2> HIDE DEF n
    <2>10. x \in Nat /\ x <= n /\ x # n
      BY <2>9
    <2> DEFINE p == <<x, n>>
    <2>11. NormalizedLevenshtein(s, t) = p /\ NormalizedLevenshtein(t, s) = p
      BY <2>8
    <2> HIDE DEF x
    <2>12. p = <<x, n>>
      OBVIOUS
    <2> HIDE DEF p
    <2>13. Similar(p, p, s, t, TRUE)
      BY <1>3, <2>9, <2>10, <2>12, FractionSimilar
    <2> QED
      BY <2>11, <2>13
  <1> QED
    BY <1>2, <1>3

(* Tokens: a string has finitely many.                                     *)
LEMMA FiniteImage ==
    ASSUME NEW S, IsFiniteSet(S), NEW f, DOMAIN f = S, f = [x \in S |-> f[x]]
    PROVE  IsFiniteSet({f[x] : x \in S})
  <1> DEFINE T == {f[x] : x \in S}
  <1>1. f \in Surjection(S, T)
    BY DEF Surjection
  <1> HIDE DEF T
  <1>2. IsFiniteSet(T)
    BY <1>1, FS_Surjection
  <1> QED
    BY <1>2 DEF T

LEMMA RunsFinite ==
    ASSUME NEW s \in Str, NEW Keep
    PROVE  IsFiniteSet(Runs(s, Keep))
  <1> DEFINE S == Cells(s, s)
             f == [r \in S |-> Slice(s, r[1], r[2])]
             T == {f[r] : r \in S}
  <1>1. IsFiniteSet(S)
    BY CellsFinite
  <1> HIDE DEF S
  <1>2. DOMAIN f = S /\ f = [r \in S |-> f[r]]
    OBVIOUS
  <1>3. \A r \in S : f[r] = Slice(s, r[1], r[2])
    OBVIOUS
  <1> HIDE DEF f
  <1>4. IsFiniteSet(T)
    BY <1>1, <1>2, FiniteImage
  <1>5. Runs(s, Keep) \subseteq T
    <2> SUFFICES ASSUME NEW w \in Runs(s, Keep) PROVE w \in T
      OBVIOUS
    <2>1. PICK x \in 1 .. Len(s), y \in 1 .. Len(s) : Run(s, Keep, x, y) /\ w = SubSeq(s, x, y)
      BY RunsAre
    <2>2. <<x, y>> \in S
      BY DEF S, Cells
    <2>3. w = f[<<x, y>>]
      BY <1>3, <2>1, <2>2 DEF Slice
    <2> QED
      BY <2>2, <2>3
  <1> HIDE DEF T
  <1> QED
    BY <1>4, <1>5, FS_Subset

LEMMA JaccardSimilar ==
    ASSUME NEW s \in Str, NEW t \in Str
    PROVE  Similar(TokenJaccard(s, t), TokenJaccard(t, s), s, t, FALSE)
  <1> DEFINE S == TokenSet(s)
             T == TokenSet(t)
             x == Cardinality(S \cap T)
             d == Cardinality(S \cup T)
  <1>1. ToLower(s) \in Str /\ ToLower(t) \in Str
    BY ToLowerIs
  <1>2. IsFiniteSet(S) /\ IsFiniteSet(T)
    BY <1>1, RunsFinite DEF TokenSet
  <1>3. s = t => S = T
    OBVIOUS
  <1>4. TokenJaccard(s, t) = IF S = {} /\ T = {} THEN One
                             ELSE IF S = {} \/ T = {} THEN Zero
                             ELSE <<x, d>>
    BY DEF TokenJaccard
  <1>5. TokenJaccard(t, s) = IF T = {} /\ S = {} THEN One
                             ELSE IF T = {} \/ S = {} THEN Zero
                             ELSE <<Cardinality(T \cap S), Cardinality(T \cup S)>>
    BY DEF TokenJaccard
  <1> HIDE DEF S, T
  <1>6. T \cap S = S \cap T /\ T \cup S = S \cup T
    OBVIOUS
  <1>7. x \in Nat /\ d \in Nat /\ x <= d /\ (S = T => x = d)
    <2>1. IsFiniteSet(S \cup T)
      BY <1>2, FS_Union
    <2>2. S \cap T \in SUBSET (S \cup T)
      OBVIOUS
    <2>3. IsFiniteSet(S \cap T) /\ x <= d
      BY <2>1, <2>2, FS_Subset
    <2>4. S = T => S \cap T = S \cup T
      OBVIOUS
    <2> QED
      BY <2>1, <2>3, <2>4, FS_CardinalityType
  <1>8. <<Cardinality(T \cap S), Cardinality(T \cup S)>> = <<x, d>>
    BY <1>6, Zenon
  <1> HIDE DEF x, d
  <1>9. TokenJaccard(t, s) = TokenJaccard(s, t)
    <2> DEFINE score == <<x, d>>
    <2>1. TokenJaccard(t, s) = IF T = {} /\ S = {} THEN One
                               ELSE IF T = {} \/ S = {} THEN Zero ELSE score
      BY <1>5, <1>8
    <2>2. TokenJaccard(s, t) = IF S = {} /\ T = {} THEN One
                               ELSE IF S = {} \/ T = {} THEN Zero ELSE score
      BY <1>4
    <2> HIDE DEF score
    <2> QED
      BY <2>1, <2>2
  <1>10. CASE S = {} /\ T = {}
    <2>1. TokenJaccard(s, t) = One
      BY <1>4, <1>10
    <2> QED
      BY <1>9, <2>1 DEF Similar, Less, Same, Zero, One
  <1>11. CASE (S = {} \/ T = {}) /\ ~(S = {} /\ T = {})
    <2>1. TokenJaccard(s, t) = Zero /\ s # t
      BY <1>3, <1>4, <1>11
    <2> QED
      BY <1>9, <2>1, ZeroSimilar
  <1>12. CASE S # {} /\ T # {}
    <2>1. TokenJaccard(s, t) = <<x, d>>
      BY <1>4, <1>12
    <2> QED
      BY <1>3, <1>7, <1>9, <2>1, FractionSimilar
  <1> QED
    BY <1>10, <1>11, <1>12

(* The common prefix: what Max chooses, and that it is at most 4 long.     *)
LEMMA MaxIs ==
    ASSUME NEW n \in Nat, NEW S \in SUBSET (0 .. n), S # {}
    PROVE  Max(S) \in S
  <1> DEFINE R == {n - x : x \in S}
  <1>1. R \in SUBSET Nat /\ R # {}
    <2>1. \A x \in S : n - x \in Nat
      <3> SUFFICES ASSUME NEW x \in S PROVE n - x \in Nat
        OBVIOUS
      <3>1. x \in 0 .. n
        OBVIOUS
      <3> QED
        BY <3>1
    <2> QED
      BY <2>1
  <1>2. PICK r \in R : \A u \in R : r <= u
    BY <1>1, LeastNatural
  <1>3. PICK x \in S : r = n - x
    BY <1>2
  <1>4. \A y \in S : x >= y
    BY <1>2, <1>3
  <1> QED
    BY <1>3, <1>4 DEF Max

LEMMA PrefixLenIs ==
    ASSUME NEW s \in Str, NEW t \in Str
    PROVE  PrefixLen(s, t) \in 0 .. 4 /\ PrefixLen(t, s) = PrefixLen(s, t)
  <1> DEFINE n == Min({4, Len(s), Len(t)})
             S == {k \in 0 .. n : Slice(s, 1, k) = Slice(t, 1, k)}
  <1>1. Len(s) \in Nat /\ Len(t) \in Nat
    BY DEF Str
  <1>2. n \in Nat /\ n <= 4
    BY <1>1, MinOfThree
  <1>3. {4, Len(t), Len(s)} = {4, Len(s), Len(t)}
    OBVIOUS
  <1>4. Min({4, Len(t), Len(s)}) = n
    BY <1>3
  <1>5. PrefixLen(s, t) = Max(S)
    BY DEF PrefixLen, Slice
  <1> HIDE DEF n
  <1>6. PrefixLen(t, s) = Max(S)
    <2> DEFINE T == {k \in 0 .. n : Slice(t, 1, k) = Slice(s, 1, k)}
    <2>1. PrefixLen(t, s) = Max(T)
      BY <1>4 DEF PrefixLen, Slice
    <2>2. T = S
      OBVIOUS
    <2> QED
      BY <2>1, <2>2
  <1>7. Slice(s, 1, 0) = Slice(t, 1, 0)
    BY DEF Slice, Str
  <1>8. S \in SUBSET (0 .. n) /\ S # {}
    BY <1>2, <1>7
  <1> HIDE DEF S
  <1>9. Max(S) \in S
    BY <1>2, <1>8, MaxIs
  <1>10. Max(S) \in 0 .. 4
    <2> DEFINE v == Max(S)
    <2> HIDE DEF v
    <2>1. v \in 0 .. n
      BY <1>8, <1>9 DEF v
    <2>2. v \in 0 .. 4
      BY <1>2, <2>1
    <2> QED
      BY <2>2 DEF v
  <1> QED
    BY <1>5, <1>6, <1>10

(* The matched positions of either string: as many as there are pairs, and *)
(* no two of the same rank.                                                *)
Firsts(M) == {p[1] : p \in M}
Seconds(M) == {p[2] : p \in M}

LEMMA FirstsOf ==
    ASSUME NEW M, IsFiniteSet(M), Apart(M)
    PROVE  IsFiniteSet(Firsts(M)) /\ Cardinality(Firsts(M)) = Cardinality(M)
  <1> DEFINE f == [p \in M |-> p[1]]
  <1>1. f \in Bijection(M, Firsts(M))
    <2>1. f \in Surjection(M, Firsts(M))
      BY DEF Surjection, Firsts
    <2>2. f \in Injection(M, Firsts(M))
      BY DEF Injection, IsInjective, Firsts, Apart
    <2> QED
      BY <2>1, <2>2 DEF Bijection
  <1>2. ExistsBijection(M, Firsts(M))
    BY <1>1 DEF ExistsBijection
  <1> QED
    BY <1>2, FS_Bijection

LEMMA SecondsOf ==
    ASSUME NEW M, IsFiniteSet(M), Apart(M)
    PROVE  IsFiniteSet(Seconds(M)) /\ Cardinality(Seconds(M)) = Cardinality(M)
  <1> DEFINE f == [p \in M |-> p[2]]
  <1>1. f \in Bijection(M, Seconds(M))
    <2>1. f \in Surjection(M, Seconds(M))
      BY DEF Surjection, Seconds
    <2>2. f \in Injection(M, Seconds(M))
      BY DEF Injection, IsInjective, Seconds, Apart
    <2> QED
      BY <2>1, <2>2 DEF Bijection
  <1>2. ExistsBijection(M, Seconds(M))
    BY <1>1 DEF ExistsBijection
  <1> QED
    BY <1>2, FS_Bijection

LEMMA RankGrows ==
    ASSUME NEW I \in SUBSET Nat, IsFiniteSet(I), NEW i \in I, NEW k \in I, i < k
    PROVE  Rank(I, i) < Rank(I, k)
  <1> DEFINE A == {x \in I : x <= i}
             B == {x \in I : x <= k}
  <1>1. IsFiniteSet(B)
    BY FS_Subset
  <1>2. A \in SUBSET B /\ k \in B /\ k \notin A
    <2>1. i \in Nat /\ k \in Nat /\ \A x \in I : x \in Nat
      OBVIOUS
    <2>2. \A x \in I : x <= i => x <= k
      BY <2>1
    <2>3. k <= k /\ ~(k <= i)
      BY <2>1
    <2> QED
      BY <2>2, <2>3, Zenon
  <1>3. Rank(I, i) = Cardinality(A) /\ Rank(I, k) = Cardinality(B)
    BY DEF Rank
  <1> HIDE DEF A, B
  <1>4. IsFiniteSet(A) /\ Cardinality(A) <= Cardinality(B) /\ Cardinality(A) # Cardinality(B)
    BY <1>1, <1>2, FS_Subset
  <1>5. Cardinality(A) \in Nat /\ Cardinality(B) \in Nat
    BY <1>1, <1>4, FS_CardinalityType
  <1> QED
    BY <1>3, <1>4, <1>5

LEMMA RankApart ==
    ASSUME NEW I \in SUBSET Nat, IsFiniteSet(I), NEW i \in I, NEW k \in I,
           Rank(I, i) = Rank(I, k)
    PROVE  i = k
  <1>1. \A x \in I : Rank(I, x) \in Nat
    <2> SUFFICES ASSUME NEW x \in I PROVE Rank(I, x) \in Nat
      OBVIOUS
    <2>1. IsFiniteSet({k2 \in I : k2 <= x})
      BY FS_Subset
    <2> QED
      BY <2>1, FS_CardinalityType DEF Rank
  <1>2. i < k \/ k < i \/ i = k
    OBVIOUS
  <1>3. ~(i < k)
    <2> SUFFICES ASSUME i < k PROVE FALSE
      OBVIOUS
    <2>1. Rank(I, i) < Rank(I, k)
      BY RankGrows
    <2> QED
      BY <1>1, <2>1
  <1>4. ~(k < i)
    <2> SUFFICES ASSUME k < i PROVE FALSE
      OBVIOUS
    <2>1. Rank(I, k) < Rank(I, i)
      BY RankGrows
    <2> QED
      BY <1>1, <2>1
  <1> QED
    BY <1>2, <1>3, <1>4

(* The transpositions: the pairs of the same rank with other characters.   *)
Mismatched(s, t, I, J) ==
    {q \in I \X J : Rank(I, q[1]) = Rank(J, q[2]) /\ s[q[1]] # t[q[2]]}

LEMMA TranspositionsAre ==
    ASSUME NEW s \in Str, NEW t \in Str
    PROVE  Transpositions(s, t) =
               Cardinality(Mismatched(s, t, Firsts(JaroMatches(s, t)), Seconds(JaroMatches(s, t))))
  BY DEF Transpositions, Mismatched, Firsts, Seconds

LEMMA MismatchedFew ==
    ASSUME NEW s, NEW t, NEW I \in SUBSET Nat, NEW J \in SUBSET Nat,
           IsFiniteSet(I), IsFiniteSet(J)
    PROVE  /\ IsFiniteSet(Mismatched(s, t, I, J))
           /\ Cardinality(Mismatched(s, t, I, J)) <= Cardinality(I)
           /\ Apart(Mismatched(s, t, I, J))
  <1> DEFINE X == Mismatched(s, t, I, J)
  <1>1. \A q \in X : q[1] \in I /\ q[2] \in J /\ q = <<q[1], q[2]>>
                     /\ Rank(I, q[1]) = Rank(J, q[2])
    BY DEF Mismatched
  <1>2. X \in SUBSET (I \X J)
    BY DEF Mismatched
  <1> HIDE DEF X
  <1>3. IsFiniteSet(X)
    BY <1>2, FS_Product, FS_Subset
  <1>4. /\ \A x, y \in I : Rank(I, x) = Rank(I, y) => x = y
        /\ \A x, y \in J : Rank(J, x) = Rank(J, y) => x = y
    BY RankApart
  <1>5. Apart(X)
    <2> SUFFICES ASSUME NEW p \in X, NEW q \in X, p[1] = q[1] \/ p[2] = q[2] PROVE p = q
      BY DEF Apart
    <2>1. p[1] = q[1] /\ p[2] = q[2]
      <3>1. CASE p[1] = q[1]
        <4>1. p[2] \in J /\ q[2] \in J /\ Rank(J, p[2]) = Rank(J, q[2])
          BY <1>1, <3>1
        <4>2. p[2] = q[2]
          BY <1>4, <4>1
        <4> QED
          BY <3>1, <4>2
      <3>2. CASE p[2] = q[2]
        <4>1. p[1] \in I /\ q[1] \in I /\ Rank(I, p[1]) = Rank(I, q[1])
          BY <1>1, <3>2
        <4>2. p[1] = q[1]
          BY <1>4, <4>1
        <4> QED
          BY <3>2, <4>2
      <3> QED
        BY <3>1, <3>2
    <2> QED
      BY <1>1, <2>1
  <1>6. Cardinality(Firsts(X)) = Cardinality(X)
    BY <1>3, <1>5, FirstsOf
  <1>7. Firsts(X) \in SUBSET I
    BY <1>1 DEF Firsts
  <1>8. Cardinality(Firsts(X)) <= Cardinality(I)
    BY <1>7, FS_Subset
  <1>9. Cardinality(X) <= Cardinality(I)
    BY <1>6, <1>8
  <1> QED
    BY <1>3, <1>5, <1>9 DEF X

(* The greedy matching, in terms of the positions matched.                 *)
LEMMA JaroPositions ==
    ASSUME NEW s \in Str, NEW t \in Str, NEW M, M = JaroMatches(s, t)
    PROVE  /\ M \in SUBSET Cells(s, t) /\ Apart(M) /\ IsFiniteSet(M)
           /\ Firsts(M) \in SUBSET (1 .. Len(s)) /\ Seconds(M) \in SUBSET (1 .. Len(t))
           /\ IsFiniteSet(Firsts(M)) /\ IsFiniteSet(Seconds(M))
           /\ Cardinality(M) \in Nat
           /\ Cardinality(Firsts(M)) = Cardinality(M) /\ Cardinality(Seconds(M)) = Cardinality(M)
           /\ Cardinality(M) <= Len(s) /\ Cardinality(M) <= Len(t)
  <1>1. M \in SUBSET Cells(s, t) /\ Apart(M)
    BY JaroMatchesIs DEF IsJaro, IsMatching
  <1>2. IsFiniteSet(M)
    BY <1>1, CellsFinite, FS_Subset
  <1>3. Firsts(M) \in SUBSET (1 .. Len(s)) /\ Seconds(M) \in SUBSET (1 .. Len(t))
    BY <1>1 DEF Firsts, Seconds, Cells
  <1>4. /\ IsFiniteSet(Firsts(M)) /\ IsFiniteSet(Seconds(M))
        /\ Cardinality(Firsts(M)) = Cardinality(M) /\ Cardinality(Seconds(M)) = Cardinality(M)
    BY <1>1, <1>2, FirstsOf, SecondsOf
  <1>5. Len(s) \in Nat /\ Len(t) \in Nat
    BY DEF Str
  <1>6. \A n \in Nat : IsFiniteSet(1 .. n) /\ Cardinality(1 .. n) = n
    BY FS_Interval
  <1>7. Cardinality(Firsts(M)) <= Len(s) /\ Cardinality(Seconds(M)) <= Len(t)
    <2>1. Cardinality(Firsts(M)) <= Cardinality(1 .. Len(s))
      BY <1>3, <1>5, <1>6, FS_Subset
    <2>2. Cardinality(Seconds(M)) <= Cardinality(1 .. Len(t))
      BY <1>3, <1>5, <1>6, FS_Subset
    <2> QED
      BY <1>5, <1>6, <2>1, <2>2
  <1> QED
    BY <1>1, <1>2, <1>3, <1>4, <1>7, FS_CardinalityType

LEMMA FlipPositions ==
    ASSUME NEW M
    PROVE  Firsts(Flip(M)) = Seconds(M) /\ Seconds(Flip(M)) = Firsts(M)
  <1>1. \A p \in M : <<p[2], p[1]>> \in Flip(M)
    BY DEF Flip
  <1>2. ASSUME NEW q \in Flip(M) PROVE q[1] \in Seconds(M) /\ q[2] \in Firsts(M)
    <2>1. PICK p \in M : q = <<p[2], p[1]>>
      BY <1>2 DEF Flip
    <2> QED
      BY <2>1 DEF Seconds, Firsts
  <1>3. ASSUME NEW p \in M PROVE p[2] \in Firsts(Flip(M)) /\ p[1] \in Seconds(Flip(M))
    <2> DEFINE q == <<p[2], p[1]>>
    <2>1. q \in Flip(M) /\ q[1] = p[2] /\ q[2] = p[1]
      BY <1>1
    <2> HIDE DEF q
    <2> QED
      BY <2>1 DEF Firsts, Seconds
  <1>4. Firsts(Flip(M)) \subseteq Seconds(M) /\ Seconds(Flip(M)) \subseteq Firsts(M)
    BY <1>2 DEF Firsts, Seconds
  <1>5. Seconds(M) \subseteq Firsts(Flip(M)) /\ Firsts(M) \subseteq Seconds(Flip(M))
    BY <1>3 DEF Firsts, Seconds
  <1> QED
    BY <1>4, <1>5

LEMMA FlipCardinality ==
    ASSUME NEW X, IsFiniteSet(X), \A q \in X : q = <<q[1], q[2]>>
    PROVE  Cardinality(Flip(X)) = Cardinality(X)
  <1> DEFINE f == [q \in X |-> <<q[2], q[1]>>]
  <1>1. f \in Surjection(X, Flip(X))
    BY DEF Surjection, Flip
  <1>2. f \in Injection(X, Flip(X))
    <2>1. \A p, q \in X : <<p[2], p[1]>> = <<q[2], q[1]>> => p = q
      <3> SUFFICES ASSUME NEW p \in X, NEW q \in X, <<p[2], p[1]>> = <<q[2], q[1]>> PROVE p = q
        OBVIOUS
      <3>1. p[1] = q[1] /\ p[2] = q[2]
        OBVIOUS
      <3> QED
        BY <3>1
    <2>2. \A p, q \in X : f[p] = f[q] => p = q
      BY <2>1
    <2>3. f \in [X -> Flip(X)]
      BY DEF Flip
    <2> HIDE DEF f
    <2> QED
      BY <2>2, <2>3 DEF Injection, IsInjective
  <1>3. f \in Bijection(X, Flip(X))
    BY <1>1, <1>2 DEF Bijection
  <1>4. ExistsBijection(X, Flip(X))
    BY <1>3 DEF ExistsBijection
  <1> QED
    BY <1>4, FS_Bijection

(* Transpositions are at most as many as pairs and are the same in both    *)
(* directions; when every position is matched and none is a transposition, *)
(* the strings are equal.                                                  *)
LEMMA TranspositionsOK ==
    ASSUME NEW s \in Str, NEW t \in Str, NEW M, M = JaroMatches(s, t)
    PROVE  /\ Transpositions(s, t) \in Nat
           /\ Transpositions(s, t) <= Cardinality(M)
           /\ Transpositions(t, s) = Transpositions(s, t)
           /\ /\ Cardinality(M) = Len(s) /\ Cardinality(M) = Len(t) /\ Transpositions(s, t) = 0
              => s = t
  <1> DEFINE I == Firsts(M)
             J == Seconds(M)
             X == Mismatched(s, t, I, J)
  <1>1. /\ Cardinality(M) \in Nat
        /\ I \in SUBSET (1 .. Len(s)) /\ J \in SUBSET (1 .. Len(t))
        /\ IsFiniteSet(I) /\ IsFiniteSet(J)
        /\ Cardinality(I) = Cardinality(M) /\ Cardinality(J) = Cardinality(M)
    BY JaroPositions
  <1>2. Len(s) \in Nat /\ Len(t) \in Nat
    BY DEF Str
  <1>3. I \in SUBSET Nat /\ J \in SUBSET Nat
    BY <1>1, <1>2
  <1>4. Transpositions(s, t) = Cardinality(X)
    BY TranspositionsAre
  <1>5. Firsts(Flip(M)) = J /\ Seconds(Flip(M)) = I
    BY FlipPositions
  <1>6. Transpositions(t, s) = Cardinality(Mismatched(t, s, J, I))
    BY <1>5, TranspositionsAre, JaroFlip
  <1> HIDE DEF I, J
  <1>7. IsFiniteSet(X) /\ Cardinality(X) <= Cardinality(I)
    BY <1>1, <1>3, MismatchedFew
  <1>8. Cardinality(X) \in Nat
    BY <1>7, FS_CardinalityType
  <1>9. Mismatched(t, s, J, I) = Flip(X)
    <2>1. ASSUME NEW q \in Mismatched(t, s, J, I) PROVE q \in Flip(X)
      <3>1. q[1] \in J /\ q[2] \in I /\ q = <<q[1], q[2]>>
            /\ Rank(J, q[1]) = Rank(I, q[2]) /\ t[q[1]] # s[q[2]]
        BY <2>1 DEF Mismatched
      <3>2. <<q[2], q[1]>> \in X
        BY <3>1 DEF Mismatched
      <3>3. q = <<(<<q[2], q[1]>>)[2], (<<q[2], q[1]>>)[1]>>
        BY <3>1
      <3> QED
        BY <3>2, <3>3 DEF Flip
    <2>2. ASSUME NEW q \in X PROVE <<q[2], q[1]>> \in Mismatched(t, s, J, I)
      BY <2>2 DEF Mismatched
    <2>3. ASSUME NEW r \in Flip(X) PROVE r \in Mismatched(t, s, J, I)
      <3>1. PICK q \in X : r = <<q[2], q[1]>>
        BY <2>3 DEF Flip
      <3> QED
        BY <2>2, <3>1
    <2> QED
      BY <2>1, <2>3
  <1>10. \A q \in X : q = <<q[1], q[2]>>
    BY DEF Mismatched
  <1>11. Transpositions(t, s) = Transpositions(s, t)
    BY <1>4, <1>6, <1>7, <1>9, <1>10, FlipCardinality
  <1>12. ASSUME Cardinality(M) = Len(s), Cardinality(M) = Len(t), Transpositions(s, t) = 0
         PROVE  s = t
    <2>1. Len(s) = Len(t)
      BY <1>12
    <2>2. IsFiniteSet(1 .. Len(s)) /\ Cardinality(1 .. Len(s)) = Len(s)
      <3>1. \A n \in Nat : IsFiniteSet(1 .. n) /\ Cardinality(1 .. n) = n
        BY FS_Interval
      <3> QED
        BY <1>2, <3>1
    <2>3. I = 1 .. Len(s) /\ J = 1 .. Len(s)
      BY <1>1, <1>12, <2>1, <2>2, FS_Subset
    <2>4. X = {}
      BY <1>4, <1>7, <1>12, FS_EmptySet
    <2>5. ASSUME NEW i \in 1 .. Len(s) PROVE s[i] = t[i]
      <3>1. <<i, i>> \in I \X J /\ Rank(I, i) = Rank(J, i)
        BY <2>3
      <3>2. <<i, i>> \notin X
        BY <2>4
      <3> QED
        BY <3>1, <3>2 DEF Mismatched
    <2> QED
      BY <2>1, <2>5, SameSeq DEF Str
  <1> QED
    BY <1>1, <1>4, <1>7, <1>8, <1>11, <1>12

(* The arithmetic of the two scores.                                       *)
LEMMA Product ==
    ASSUME NEW x \in Nat, NEW y \in Nat, NEW z \in Nat, x <= y
    PROVE  x * z \in Nat /\ y * z \in Nat /\ x * z <= y * z
  <1>1. PICK k \in Nat : y = x + k
    <2>1. y - x \in Nat /\ y = x + (y - x)
      OBVIOUS
    <2> QED
      BY <2>1
  <1>2. y * z = x * z + k * z
    BY <1>1
  <1>3. x * z \in Nat /\ k * z \in Nat
    OBVIOUS
  <1> QED
    BY <1>2, <1>3

LEMMA SameProduct ==
    ASSUME NEW x \in Nat, NEW y \in Nat, NEW z \in Nat, z # 0, x * z = y * z
    PROVE  x = y
  OBVIOUS

JaroTop(l1, l2, m, tr) == (m * l2 + m * l1) * (2 * m) + (2 * m - tr) * (l1 * l2)
JaroBottom(l1, l2, m) == 3 * ((l1 * l2) * (2 * m))

LEMMA JaroFraction ==
    ASSUME NEW l1 \in Nat, NEW l2 \in Nat, NEW m \in Nat, NEW tr \in Nat,
           m # 0, m <= l1, m <= l2, tr <= m
    PROVE  /\ JaroTop(l1, l2, m, tr) \in Nat /\ JaroBottom(l1, l2, m) \in Nat
           /\ JaroTop(l1, l2, m, tr) <= JaroBottom(l1, l2, m)
           /\ JaroTop(l1, l2, m, tr) = JaroBottom(l1, l2, m) => m = l1 /\ m = l2 /\ tr = 0
  <1> DEFINE L == l1 * l2
             k == 2 * m
             r == k - tr
             x == m * l2
             y == m * l1
  <1>1. x \in Nat /\ L \in Nat /\ x <= L /\ (x = L => m = l1)
    <2>1. l2 # 0
      OBVIOUS
    <2> QED
      BY <2>1, Product, SameProduct
  <1>2. y \in Nat /\ y <= L /\ (y = L => m = l2)
    <2>1. l1 # 0 /\ L = l2 * l1
      OBVIOUS
    <2> QED
      BY <2>1, Product, SameProduct
  <1>3. L # 0
    <2>1. l1 # 0 /\ l2 # 0
      OBVIOUS
    <2> QED
      BY <2>1
  <1>4. k \in Nat /\ k # 0 /\ r \in Nat /\ r <= k /\ (r = k => tr = 0)
    OBVIOUS
  <1>5. JaroTop(l1, l2, m, tr) = (x + y) * k + r * L /\ JaroBottom(l1, l2, m) = 3 * (L * k)
    BY DEF JaroTop, JaroBottom
  <1> HIDE DEF x, y, L, k, r
  <1> DEFINE xk == x * k
             yk == y * k
             rL == r * L
             Lk == L * k
  <1>6. xk \in Nat /\ Lk \in Nat /\ xk <= Lk /\ (xk = Lk => x = L)
    BY <1>1, <1>4, Product, SameProduct
  <1>7. yk \in Nat /\ yk <= Lk /\ (yk = Lk => y = L)
    BY <1>1, <1>2, <1>4, Product, SameProduct
  <1>8. rL \in Nat /\ rL <= Lk /\ (rL = Lk => r = k)
    <2>1. k * L = L * k
      BY <1>1, <1>4
    <2> QED
      BY <1>1, <1>3, <1>4, <2>1, Product, SameProduct
  <1>9. (x + y) * k = xk + yk
    BY <1>1, <1>2, <1>4
  <1> HIDE DEF xk, yk, rL, Lk
  <1>10. JaroTop(l1, l2, m, tr) = xk + yk + rL /\ JaroBottom(l1, l2, m) = 3 * Lk
    BY <1>5, <1>9 DEF rL, Lk
  <1>11. xk + yk + rL \in Nat /\ 3 * Lk \in Nat /\ xk + yk + rL <= 3 * Lk
    BY <1>6, <1>7, <1>8
  <1>12. xk + yk + rL = 3 * Lk => xk = Lk /\ yk = Lk /\ rL = Lk
    BY <1>6, <1>7, <1>8
  <1> QED
    BY <1>1, <1>2, <1>4, <1>6, <1>7, <1>8, <1>10, <1>11, <1>12

LEMMA JaroIs ==
    ASSUME NEW s \in Str, NEW t \in Str, s # t,
           NEW m, m = Cardinality(JaroMatches(s, t)), NEW tr, tr = Transpositions(s, t)
    PROVE  Jaro(s, t) = IF m = 0 THEN Zero
                        ELSE <<JaroTop(Len(s), Len(t), m, tr), JaroBottom(Len(s), Len(t), m)>>
  BY DEF Jaro, Plus, JaroTop, JaroBottom

LEMMA JaroReversed ==
    ASSUME NEW l1 \in Nat, NEW l2 \in Nat, NEW m \in Nat, NEW tr \in Nat
    PROVE  /\ JaroTop(l2, l1, m, tr) = JaroTop(l1, l2, m, tr)
           /\ JaroBottom(l2, l1, m) = JaroBottom(l1, l2, m)
  <1>1. l1 * l2 = l2 * l1 /\ m * l1 + m * l2 = m * l2 + m * l1
    OBVIOUS
  <1> QED
    BY <1>1 DEF JaroTop, JaroBottom

LEMMA WinklerFraction ==
    ASSUME NEW x \in Nat, NEW d \in Nat, x <= d, NEW p \in 0 .. 4
    PROVE  /\ 10 * x + p * (d - x) \in Nat /\ 10 * d \in Nat
           /\ 10 * x + p * (d - x) <= 10 * d
           /\ 10 * x + p * (d - x) = 10 * d <=> x = d
  <1>1. p = 0 \/ p = 1 \/ p = 2 \/ p = 3 \/ p = 4
    OBVIOUS
  <1>2. CASE p = 0
    BY <1>2
  <1>3. CASE p = 1
    BY <1>3
  <1>4. CASE p = 2
    BY <1>4
  <1>5. CASE p = 3
    BY <1>5
  <1>6. CASE p = 4
    BY <1>6
  <1> QED
    BY <1>1, <1>2, <1>3, <1>4, <1>5, <1>6

LEMMA WinklerSimilar ==
    ASSUME NEW s \in Str, NEW t \in Str
    PROVE  Similar(JaroWinkler(s, t), JaroWinkler(t, s), s, t, TRUE)
  <1> DEFINE M == JaroMatches(s, t)
             m == Cardinality(M)
             tr == Transpositions(s, t)
             p == PrefixLen(s, t)
             Adjusted(j) == IF j[1] = 0 THEN Zero
                            ELSE <<10 * j[1] + p * (j[2] - j[1]), 10 * j[2]>>
  <1>1. Len(s) \in Nat /\ Len(t) \in Nat
    BY DEF Str
  <1>2. p \in 0 .. 4 /\ PrefixLen(t, s) = p
    BY PrefixLenIs
  <1>3. m \in Nat /\ m <= Len(s) /\ m <= Len(t)
    BY JaroPositions
  <1>4. Cardinality(JaroMatches(t, s)) = m
    <2>1. IsFiniteSet(M) /\ \A q \in M : q = <<q[1], q[2]>>
      BY JaroPositions DEF Cells
    <2> QED
      BY <2>1, JaroFlip, FlipCardinality
  <1>5. /\ tr \in Nat /\ tr <= m /\ Transpositions(t, s) = tr
        /\ m = Len(s) /\ m = Len(t) /\ tr = 0 => s = t
    BY TranspositionsOK
  <1>6. JaroWinkler(s, t) = Adjusted(Jaro(s, t)) /\ JaroWinkler(t, s) = Adjusted(Jaro(t, s))
    BY <1>2 DEF JaroWinkler
  <1>7. ASSUME NEW x \in Nat, NEW d \in Nat, x <= d, s = t => x = d, x = d => s = t,
               x = 0 => s # t, NEW j, j = <<x, d>>
        PROVE  Similar(Adjusted(j), Adjusted(j), s, t, TRUE)
    <2> DEFINE y == 10 * x + p * (d - x)
               e == 10 * d
               score == Adjusted(j)
    <2>1. y \in Nat /\ e \in Nat /\ y <= e /\ (y = e <=> x = d)
      BY <1>2, <1>7, WinklerFraction
    <2>2. score = IF x = 0 THEN Zero ELSE <<y, e>>
      BY <1>7
    <2> HIDE DEF y, e, score
    <2>3. Similar(score, score, s, t, TRUE)
      <3>1. CASE x = 0
        BY <1>7, <2>2, <3>1, ZeroSimilar
      <3>2. CASE x # 0
        BY <1>7, <2>1, <2>2, <3>2, FractionSimilar
      <3> QED
        BY <3>1, <3>2
    <2> QED
      BY <2>3 DEF score
  <1> HIDE DEF M, m, tr, p, Adjusted
  <1>8. CASE s = t
    <2>1. Jaro(s, t) = One /\ Jaro(t, s) = One
      BY <1>8 DEF Jaro
    <2> DEFINE x == 1
    <2>2. One = <<x, x>> /\ x \in Nat /\ x <= x /\ x # 0
      BY DEF One
    <2> HIDE DEF x
    <2>3. Similar(Adjusted(One), Adjusted(One), s, t, TRUE)
      BY <1>7, <1>8, <2>2
    <2> QED
      BY <1>6, <2>1, <2>3
  <1>9. CASE s # t /\ m = 0
    <2>1. Jaro(s, t) = Zero /\ Jaro(t, s) = Zero
      BY <1>4, <1>9, JaroIs DEF m, M
    <2> DEFINE x == 0
               d == 1
    <2>2. Zero = <<x, d>> /\ x \in Nat /\ d \in Nat /\ x <= d /\ x # d
      BY DEF Zero
    <2> HIDE DEF x, d
    <2>3. Similar(Adjusted(Zero), Adjusted(Zero), s, t, TRUE)
      BY <1>7, <1>9, <2>2
    <2> QED
      BY <1>6, <2>1, <2>3
  <1>10. CASE s # t /\ m # 0
    <2> DEFINE x == JaroTop(Len(s), Len(t), m, tr)
               d == JaroBottom(Len(s), Len(t), m)
               j == <<x, d>>
    <2>1. /\ x \in Nat /\ d \in Nat /\ x <= d
          /\ x = d => m = Len(s) /\ m = Len(t) /\ tr = 0
      BY <1>1, <1>3, <1>5, <1>10, JaroFraction
    <2>2. Jaro(s, t) = j
      BY <1>10, JaroIs DEF m, M, tr
    <2>3. Jaro(t, s) = <<JaroTop(Len(t), Len(s), m, tr), JaroBottom(Len(t), Len(s), m)>>
      <3>1. t # s /\ m = Cardinality(JaroMatches(t, s)) /\ tr = Transpositions(t, s)
        BY <1>4, <1>5, <1>10
      <3> QED
        BY <1>10, <3>1, JaroIs
    <2>4. Jaro(t, s) = j
      BY <1>1, <1>3, <1>5, <2>3, JaroReversed
    <2> HIDE DEF x, d
    <2>5. j = <<x, d>>
      OBVIOUS
    <2> HIDE DEF j
    <2>6. x # d
      BY <1>5, <1>10, <2>1
    <2>7. Similar(Adjusted(j), Adjusted(j), s, t, TRUE)
      BY <1>7, <1>10, <2>1, <2>5, <2>6
    <2> QED
      BY <1>6, <2>2, <2>4, <2>7
  <1> QED
    BY <1>8, <1>9, <1>10

LEMMA ScoresSimilar == Strings => ScoresAreSimilarities
  <1> SUFFICES ASSUME Strings,
                      NEW fn \in {"exact", "jaro_winkler", "levenshtein", "token_jaccard"}
               PROVE  Similar(ComputeSimilarity(fn, a, b), ComputeSimilarity(fn, b, a), a, b,
                              fn # "token_jaccard")
    BY DEF ScoresAreSimilarities, Similar
  <1>1. a \in Str /\ b \in Str
    BY DEF Strings
  <1>2. CASE a = Empty \/ b = Empty
    <2>1. ComputeSimilarity(fn, a, b) = Zero /\ ComputeSimilarity(fn, b, a) = Zero
      BY <1>2 DEF ComputeSimilarity
    <2>2. a # b \/ a = Empty
      BY <1>2
    <2> QED
      BY <2>1, <2>2, ZeroSimilar
  <1>3. CASE a # Empty /\ b # Empty
    <2>1. CASE fn = "exact"
      <3>1. /\ ComputeSimilarity(fn, a, b) = Exact(a, b)
            /\ ComputeSimilarity(fn, b, a) = Exact(b, a)
        BY <1>3, <2>1 DEF ComputeSimilarity
      <3> QED
        BY <1>1, <2>1, <3>1, ExactSimilar
    <2>2. CASE fn = "jaro_winkler"
      <3>1. /\ ComputeSimilarity(fn, a, b) = JaroWinkler(a, b)
            /\ ComputeSimilarity(fn, b, a) = JaroWinkler(b, a)
        BY <1>3, <2>2 DEF ComputeSimilarity
      <3> QED
        BY <1>1, <2>2, <3>1, WinklerSimilar
    <2>3. CASE fn = "levenshtein"
      <3>1. /\ ComputeSimilarity(fn, a, b) = NormalizedLevenshtein(a, b)
            /\ ComputeSimilarity(fn, b, a) = NormalizedLevenshtein(b, a)
        BY <1>3, <2>3 DEF ComputeSimilarity
      <3> QED
        BY <1>1, <2>3, <3>1, LevenshteinSimilar
    <2>4. CASE fn = "token_jaccard"
      <3>1. /\ ComputeSimilarity(fn, a, b) = TokenJaccard(a, b)
            /\ ComputeSimilarity(fn, b, a) = TokenJaccard(b, a)
        BY <1>3, <2>4 DEF ComputeSimilarity
      <3> QED
        BY <1>1, <2>4, <3>1, JaccardSimilar
    <2> QED
      BY <2>1, <2>2, <2>3, <2>4
  <1> QED
    BY <1>2, <1>3

(* Every similarity function is between 0 and 1, symmetric and 1 for equal *)
(* strings, and except for token_jaccard only for them, for all strings    *)
(* over all alphabets.                                                     *)
THEOREM Similarities == Spec => []ScoresAreSimilarities
  BY AlwaysStrings, ScoresSimilar, PTL
=============================================================================
