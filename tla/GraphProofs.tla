---------------------------- MODULE GraphProofs ----------------------------
(***************************************************************************)
(* Relations and traversals, for every graph, scope, depth and limit.      *)
(***************************************************************************)
EXTENDS Graph, Integers, FiniteSetTheorems, WellFoundedInduction, TLAPS

-----------------------------------------------------------------------------
(* The image of a finite set under a function is finite.                   *)
LEMMA FiniteImage ==
    ASSUME NEW S, IsFiniteSet(S), NEW f, DOMAIN f = S, f = [x \in S |-> f[x]]
    PROVE  IsFiniteSet({f[x] : x \in S})
  <1> DEFINE T == {f[x] : x \in S}
  <1>1. f \in Surjection(S, T)
    BY DEF Surjection
  <1> HIDE DEF T
  <1>2. IsFiniteSet(T)
    BY <1>1, FS_Surjection
  <1> QED
    BY <1>2 DEF T

(* Some element of a set of numbers is the least.                          *)
LEMMA LeastNatural ==
    ASSUME NEW S \in SUBSET Nat, S # {}
    PROVE  \E t \in S : \A u \in S : t <= u
  <1> DEFINE R == OpToRel(<, Nat)
  <1>1. \A x, y \in Nat : x < y => <<x, y>> \in R
    BY DEF OpToRel
  <1>2. IsWellFoundedOn(R, Nat)
    BY NatLessThanWellFounded
  <1> HIDE DEF R
  <1>3. \E t \in S : \A u \in S : <<u, t>> \notin R
    BY <1>2, WFMin
  <1>4. PICK t \in S : \A u \in S : <<u, t>> \notin R
    BY <1>3
  <1>5. \A u \in S : ~(u < t)
    BY <1>1, <1>4
  <1>6. \A u \in S : t <= u
    BY <1>5
  <1> QED
    BY <1>6

-----------------------------------------------------------------------------
(* The tables.                                                             *)

GInv == TypeOK /\ IsFiniteSet(rel)

LEMMA InitGInv == Init => GInv
  BY GraphAssumption, FS_EmptySet DEF Init, GInv, TypeOK

(* The number of a new row stays within the bound, since the rows it comes *)
(* after are in the table with it.                                         *)
LEMMA UpsertedRowOK ==
    ASSUME GInv, NEW s \in Entity, NEW t \in Entity, NEW type \in RelType,
           NEW sourced \in BOOLEAN, UpsertRelation(s, t, type, sourced)
    PROVE  rel' \subseteq Relation /\ IsFiniteSet(rel')
  <1> DEFINE same == {r \in rel : <<r.source, r.target, r.type>> = <<s, t, type>> /\ r.n > 0}
             row == UpsertedRow(s, t, type, sourced)
  <1>1. row = [source |-> s, target |-> t, type |-> type,
               n |-> IF sourced THEN Cardinality(same) + 1 ELSE 0]
    BY DEF UpsertedRow
  <1>2. rel' = rel \cup {row} /\ Cardinality(rel') <= MaxRelations
    BY DEF UpsertRelation
  <1>3. IsFiniteSet(rel) /\ rel \subseteq Relation
    BY DEF GInv, TypeOK
  <1>4. IsFiniteSet(same) /\ same \subseteq rel
    BY <1>3, FS_Subset
  <1> HIDE DEF same, row
  <1>5. IsFiniteSet(rel')
    BY <1>2, <1>3, FS_AddElement
  <1>6. row \in Relation
    <2>1. CASE row \in rel
      BY <1>3, <2>1
    <2>2. CASE row \notin rel
      <3>1. IsFiniteSet(same \cup {row}) /\ Cardinality(same \cup {row}) = Cardinality(same) + 1
        BY <1>4, <2>2, FS_AddElement
      <3>2. same \cup {row} \subseteq rel'
        BY <1>2, <1>4
      <3>3. Cardinality(same \cup {row}) <= Cardinality(rel')
        BY <1>5, <3>2, FS_Subset
      <3>4. Cardinality(same) \in Nat /\ Cardinality(rel') \in Nat
        BY <1>4, <1>5, FS_CardinalityType
      <3>5. (IF sourced THEN Cardinality(same) + 1 ELSE 0) \in 0..MaxRelations
        BY <1>2, <3>1, <3>3, <3>4, GraphAssumption
      <3> QED
        BY <1>1, <3>5 DEF Relation
    <2> QED
      BY <2>1, <2>2
  <1> QED
    BY <1>2, <1>3, <1>5, <1>6

LEMMA NextGInv == GInv /\ [Next]_vars => GInv'
  <1> SUFFICES ASSUME GInv, [Next]_vars PROVE GInv'
    OBVIOUS
  <1>1. rel \subseteq Relation /\ IsFiniteSet(rel)
    BY DEF GInv, TypeOK
  <1>2. \A r \in rel : r.source \in Entity /\ r.target \in Entity
    BY <1>1 DEF Relation
  <1>3. ASSUME NEW e \in Entity, NEW t \in Time, CreateEntity(e, t)
        PROVE  GInv'
    <2>1. t \in 0..MaxTime /\ Scope.autoTags \in SUBSET Tag
      BY GraphAssumption DEF Time, ScopeConfig
    <2>2. /\ state' \in [Entity -> {"none", "live", "deleted", "gone"}]
          /\ createdAt' \in [Entity -> 0..MaxTime] /\ tags' \in [Entity -> SUBSET Tag]
      BY <1>3, <2>1 DEF CreateEntity, GInv, TypeOK
    <2>3. ASSUME NEW g \in Entity, InTable(g) PROVE InTable(g)'
      BY <1>3, <2>3 DEF CreateEntity, GInv, TypeOK, InTable
    <2>4. \A r \in rel' : InTable(r.source)' /\ InTable(r.target)'
      BY <1>2, <1>3, <2>3 DEF CreateEntity, GInv, TypeOK
    <2> QED
      BY <1>1, <1>3, <2>2, <2>4 DEF CreateEntity, GInv, TypeOK
  <1>4. ASSUME NEW s \in Entity, NEW t \in Entity, NEW type \in RelType, NEW sourced \in BOOLEAN,
               UpsertRelation(s, t, type, sourced)
        PROVE  GInv'
    <2>1. rel' \subseteq Relation /\ IsFiniteSet(rel')
      BY <1>4, UpsertedRowOK
    <2> DEFINE row == UpsertedRow(s, t, type, sourced)
    <2>2. row.source = s /\ row.target = t
      BY DEF UpsertedRow
    <2> HIDE DEF row
    <2>3. rel' = rel \cup {row} /\ InTable(s) /\ InTable(t)
      BY <1>4 DEF UpsertRelation, row
    <2>4. UNCHANGED <<state, createdAt, tags, hidden>>
      BY <1>4 DEF UpsertRelation
    <2>5. \A r \in rel' : InTable(r.source) /\ InTable(r.target)
      BY <2>2, <2>3 DEF GInv, TypeOK
    <2> QED
      BY <2>1, <2>4, <2>5 DEF GInv, TypeOK, InTable
  <1>5. ASSUME NEW q \in rel, DeleteRelationByKey(q.source, q.target, q.type)
        PROVE  GInv'
    <2>1. rel' \subseteq rel /\ UNCHANGED <<state, createdAt, tags, hidden>>
      BY <1>5 DEF DeleteRelationByKey
    <2>2. IsFiniteSet(rel')
      BY <1>1, <2>1, FS_Subset
    <2> QED
      BY <2>1, <2>2 DEF GInv, TypeOK, InTable
  <1>6. hidden < MaxHidden /\ hidden' = hidden + 1 => hidden' \in 0..MaxHidden
    BY GraphAssumption DEF GInv, TypeOK
  <1>7. ASSUME NEW e \in Entity, DeleteEntity(e)
        PROVE  GInv'
    <2>1. \A g \in Entity : InTable(g) => InTable(g)'
      BY <1>7 DEF DeleteEntity, GInv, TypeOK, InTable
    <2>2. \A r \in rel' : InTable(r.source)' /\ InTable(r.target)'
      BY <1>2, <1>7, <2>1 DEF DeleteEntity, GInv, TypeOK
    <2> QED
      BY <1>6, <1>7, <2>2 DEF DeleteEntity, Hide, GInv, TypeOK
  <1>8. ASSUME NEW e \in Entity, HardDeleteEntity(e)
        PROVE  GInv'
    <2>1. rel' \subseteq rel /\ \A r \in rel' : r.source # e /\ r.target # e
      BY <1>8 DEF HardDeleteEntity
    <2>2. \A g \in Entity : g # e /\ InTable(g) => InTable(g)'
      BY <1>8 DEF HardDeleteEntity, GInv, TypeOK, InTable
    <2>3. \A r \in rel' : InTable(r.source)' /\ InTable(r.target)'
      BY <1>2, <2>1, <2>2 DEF GInv, TypeOK
    <2>4. IsFiniteSet(rel')
      BY <1>1, <2>1, FS_Subset
    <2> QED
      BY <1>1, <1>6, <1>8, <2>1, <2>3, <2>4 DEF HardDeleteEntity, Hide, GInv, TypeOK
  <1>9. ASSUME NEW e \in Entity, NEW T \in SUBSET Tag, SetTags(e, T)
        PROVE  GInv'
    BY <1>6, <1>9 DEF SetTags, Hide, GInv, TypeOK, InTable
  <1>10. CASE UNCHANGED vars
    BY <1>10 DEF vars, GInv, TypeOK, InTable
  <1> QED
    BY <1>3, <1>4, <1>5, <1>7, <1>8, <1>9, <1>10 DEF Next

(* Every state has the types, and no relation outlives one of its ends:    *)
(* the foreign keys and the cascade of HardDeleteEntity, whatever else is  *)
(* deleted, related or created again.                                      *)
THEOREM GraphType == Spec => []TypeOK
  <1>1. GInv => TypeOK
    BY DEF GInv
  <1> QED
    BY <1>1, InitGInv, NextGInv, PTL DEF Spec

-----------------------------------------------------------------------------
(* What the queries share.                                                 *)

LEMMA MergedIsVisible ==
    ASSUME NEW T \in SUBSET Tag
    PROVE  Matches(MergeFilter(Scope, NoFilter), T) <=> EntityVisible(Scope, T)
  <1> DEFINE m == MergeFilter(Scope, NoFilter)
  <1>1. /\ m.tags = Scope.requireTags /\ m.anyTags = {}
        /\ m.excludeTag = Scope.excludeTag
        /\ Scope.excludeTag # NoTag => m.unlessTags = Scope.unlessTags
    BY DEF MergeFilter, NoFilter
  <1> HIDE DEF m
  <1>2. Matches(m, T) <=> EntityVisible(Scope, T)
    BY <1>1 DEF Matches, Kept, EntityVisible
  <1> QED
    BY <1>2 DEF m

(* A relation joins the row of e and leads to c exactly if it is a hop.    *)
LEMMA JoinIsHop ==
    ASSUME NEW dir \in Direction, NEW r \in Relation, NEW e, NEW c
    PROVE  (Joins(dir, r, e) /\ OtherEnd(r, e) = c) <=>
              \/ dir # "inbound" /\ r.source = e /\ r.target = c
              \/ dir # "outbound" /\ r.target = e /\ r.source = c
  BY DEF Direction, Joins, OtherEnd, AllowOutbound, AllowInbound

-----------------------------------------------------------------------------
(* The two recursions satisfy their equations: a function that does so up  *)
(* to n - 1 rounds can be continued to n.                                  *)

LEMMA LevelsEquation ==
    ASSUME NEW f, NEW dir, NEW start
    PROVE  \A d \in 0..MaxDepth :
              Levels(f, dir, start)[d] =
                  IF d = 0 THEN BaseRows(start)
                  ELSE NextRows(f, dir, Levels(f, dir, start)[d - 1])
  <1> DEFINE Upto(g, n) ==
                 g = [d \in 0..n |-> IF d = 0 THEN BaseRows(start) ELSE NextRows(f, dir, g[d - 1])]
             Bad == {n \in Nat : ~\E g : Upto(g, n)}
  <1>1. ASSUME NEW n \in Nat, NEW g, Upto(g, n)
        PROVE  \E h : Upto(h, n + 1)
    <2> DEFINE h == [d \in 0..(n + 1) |-> IF d = n + 1 THEN NextRows(f, dir, g[n]) ELSE g[d]]
    <2>1. \A d \in 0..n : h[d] = g[d] /\ g[d] = IF d = 0 THEN BaseRows(start) ELSE NextRows(f, dir, g[d - 1])
      BY <1>1
    <2>2. h[n + 1] = NextRows(f, dir, g[n])
      OBVIOUS
    <2>3. ASSUME NEW d \in 0..(n + 1)
          PROVE  h[d] = IF d = 0 THEN BaseRows(start) ELSE NextRows(f, dir, h[d - 1])
      <3>1. d = 0 \/ d - 1 \in 0..n
        OBVIOUS
      <3> HIDE DEF h
      <3> QED
        BY <2>1, <2>2, <3>1
    <2>4. Upto(h, n + 1)
      BY <2>3
    <2> QED
      BY <2>4
  <1>2. \E g : Upto(g, 0)
    <2>1. Upto([d \in 0..0 |-> BaseRows(start)], 0)
      OBVIOUS
    <2> QED
      BY <2>1
  <1> HIDE DEF Upto
  <1>3. Bad = {}
    <2> SUFFICES ASSUME Bad # {} PROVE FALSE
      OBVIOUS
    <2>1. PICK n \in Bad : \A m \in Bad : n <= m
      BY LeastNatural
    <2>2. n \in Nat /\ n # 0
      BY <1>2
    <2>3. n - 1 \in Nat /\ n - 1 \notin Bad /\ n = (n - 1) + 1
      BY <2>1, <2>2
    <2> QED
      BY <1>1, <2>3
  <1>4. \E g : Upto(g, MaxDepth)
    BY <1>3, GraphAssumption
  <1>5. Upto(CHOOSE g : Upto(g, MaxDepth), MaxDepth)
    BY <1>4, Zenon
  <1>6. Levels(f, dir, start) = CHOOSE g : Upto(g, MaxDepth)
    BY Zenon DEF Levels, Upto
  <1>7. Upto(Levels(f, dir, start), MaxDepth)
    BY <1>5, <1>6, Zenon
  <1> QED
    BY <1>7 DEF Upto

LEMMA WithinEquation ==
    ASSUME NEW dir, NEW start
    PROVE  \A d \in 0..MaxDepth :
              Within(dir, start)[d] =
                  IF d = 0 THEN {e \in {start} : state[e] = "live"}
                  ELSE Spread(dir, Within(dir, start)[d - 1])
  <1> DEFINE Base == {e \in {start} : state[e] = "live"}
             Upto(g, n) ==
                 g = [d \in 0..n |-> IF d = 0 THEN Base ELSE Spread(dir, g[d - 1])]
             Bad == {n \in Nat : ~\E g : Upto(g, n)}
  <1>6. Within(dir, start) = CHOOSE g : Upto(g, MaxDepth)
    BY Zenon DEF Within
  <1> HIDE DEF Base
  <1>1. ASSUME NEW n \in Nat, NEW g, Upto(g, n)
        PROVE  \E h : Upto(h, n + 1)
    <2> DEFINE h == [d \in 0..(n + 1) |-> IF d = n + 1 THEN Spread(dir, g[n]) ELSE g[d]]
    <2>1. \A d \in 0..n : h[d] = g[d] /\ g[d] = IF d = 0 THEN Base ELSE Spread(dir, g[d - 1])
      BY <1>1
    <2>2. h[n + 1] = Spread(dir, g[n])
      OBVIOUS
    <2>3. ASSUME NEW d \in 0..(n + 1)
          PROVE  h[d] = IF d = 0 THEN Base ELSE Spread(dir, h[d - 1])
      <3>1. d = 0 \/ d - 1 \in 0..n
        OBVIOUS
      <3> HIDE DEF h
      <3> QED
        BY <2>1, <2>2, <3>1
    <2>4. Upto(h, n + 1)
      BY <2>3
    <2> QED
      BY <2>4
  <1>2. \E g : Upto(g, 0)
    <2>1. Upto([d \in 0..0 |-> Base], 0)
      OBVIOUS
    <2> QED
      BY <2>1
  <1> HIDE DEF Upto
  <1>3. Bad = {}
    <2> SUFFICES ASSUME Bad # {} PROVE FALSE
      OBVIOUS
    <2>1. PICK n \in Bad : \A m \in Bad : n <= m
      BY LeastNatural
    <2>2. n \in Nat /\ n # 0
      BY <1>2
    <2>3. n - 1 \in Nat /\ n - 1 \notin Bad /\ n = (n - 1) + 1
      BY <2>1, <2>2
    <2> QED
      BY <1>1, <2>3
  <1>4. \E g : Upto(g, MaxDepth)
    BY <1>3, GraphAssumption
  <1>5. Upto(CHOOSE g : Upto(g, MaxDepth), MaxDepth)
    BY <1>4, Zenon
  <1>7. Upto(Within(dir, start), MaxDepth)
    BY <1>5, <1>6, Zenon
  <1>8. \A d \in 0..MaxDepth :
           Within(dir, start)[d] = IF d = 0 THEN Base ELSE Spread(dir, Within(dir, start)[d - 1])
    BY <1>7 DEF Upto
  <1> QED
    BY <1>8 DEF Base

-----------------------------------------------------------------------------
(* Rounds of the recursion and rounds of the breadth-first search.         *)

ScopeFilter == MergeFilter(Scope, NoFilter)

(* The row that joining relation r to row x gives.                         *)
Joined(x, r) ==
    [id |-> OtherEnd(r, x.id), depth |-> x.depth + 1,
     visited |-> x.visited \cup {OtherEnd(r, x.id)}, path |-> Append(x.path, r)]

(* Rows of round d: they are at entities near the start, have gone through *)
(* such entities only, and have not come back to where they began.         *)
RowsOK(X, d, near, base) ==
    /\ IsFiniteSet(X)
    /\ \A x \in X : /\ x.id \in near /\ x.depth = d
                    /\ x.visited \subseteq near /\ base \subseteq x.visited
                    /\ d > 0 => x.id \notin base

(* Every entity that is new in this round has a row.                       *)
Covered(X, near, before) == \A c \in near \ before : \E x \in X : x.id = c

LEMMA NextRowsAre ==
    ASSUME NEW dir, NEW X
    PROVE  LET Y == NextRows(ScopeFilter, dir, X)
           IN /\ \A y \in Y : \E x \in X, r \in rel :
                    /\ Joins(dir, r, x.id) /\ Accepts(ScopeFilter, x, OtherEnd(r, x.id))
                    /\ y = Joined(x, r)
              /\ \A x \in X, r \in rel :
                    Joins(dir, r, x.id) /\ Accepts(ScopeFilter, x, OtherEnd(r, x.id)) =>
                       Joined(x, r) \in Y
              /\ IsFiniteSet(X) /\ IsFiniteSet(rel) => IsFiniteSet(Y)
  <1> DEFINE S == {q \in X \X rel : /\ Joins(dir, q[2], q[1].id)
                                    /\ Accepts(ScopeFilter, q[1], OtherEnd(q[2], q[1].id))}
             Y == NextRows(ScopeFilter, dir, X)
             g == [p \in S |-> Joined(p[1], p[2])]
  <1>1. Y = {Joined(p[1], p[2]) : p \in S}
    BY DEF NextRows, Joined
  <1>2. \A p \in S : p[1] \in X /\ p[2] \in rel
    OBVIOUS
  <1>3. \A x \in X, r \in rel : <<x, r>> \in S <=>
           Joins(dir, r, x.id) /\ Accepts(ScopeFilter, x, OtherEnd(r, x.id))
    OBVIOUS
  <1>4. \A p \in S : p = <<p[1], p[2]>>
    OBVIOUS
  <1>5. DOMAIN g = S /\ g = [p \in S |-> g[p]] /\ Y = {g[p] : p \in S}
    BY <1>1
  <1>6. ASSUME IsFiniteSet(X), IsFiniteSet(rel) PROVE IsFiniteSet(Y)
    <2>1. IsFiniteSet(X \X rel)
      BY <1>6, FS_Product
    <2>2. IsFiniteSet(S)
      BY <2>1, FS_Subset
    <2> HIDE DEF S, Y, g
    <2> QED
      BY <1>5, <2>2, FiniteImage
  <1> HIDE DEF S, Y, g
  <1>7. ASSUME NEW y \in Y
        PROVE  \E x \in X, r \in rel :
                    /\ Joins(dir, r, x.id) /\ Accepts(ScopeFilter, x, OtherEnd(r, x.id))
                    /\ y = Joined(x, r)
    <2>1. PICK p \in S : y = Joined(p[1], p[2])
      BY <1>1
    <2> QED
      BY <1>2, <1>3, <1>4, <2>1
  <1>8. ASSUME NEW x \in X, NEW r \in rel, Joins(dir, r, x.id), Accepts(ScopeFilter, x, OtherEnd(r, x.id))
        PROVE  Joined(x, r) \in Y
    <2>1. <<x, r>> \in S
      BY <1>3, <1>8
    <2> QED
      BY <1>1, <2>1
  <1> QED
    BY <1>6, <1>7, <1>8 DEF Y

LEMMA RoundStep ==
    ASSUME GInv, NEW dir \in Direction, NEW X, NEW d \in Nat,
           NEW near \in SUBSET Entity, NEW before, NEW base,
           RowsOK(X, d, near, base), Covered(X, near, before),
           Spread(dir, before) \subseteq near
    PROVE  LET Y == NextRows(ScopeFilter, dir, X)
               next == Spread(dir, near)
           IN /\ near \subseteq next /\ next \subseteq Entity
              /\ RowsOK(Y, d + 1, next, base)
              /\ Covered(Y, next, near)
  <1> DEFINE Y == NextRows(ScopeFilter, dir, X)
             next == Spread(dir, near)
  <1>1. rel \subseteq Relation /\ IsFiniteSet(rel) /\ tags \in [Entity -> SUBSET Tag]
    BY DEF GInv, TypeOK
  <1>2. near \subseteq next /\ next \subseteq Entity
    BY DEF Spread
  <1>3. \A c \in Entity : Matches(ScopeFilter, tags[c]) <=> EntityVisible(Scope, tags[c])
    BY <1>1, MergedIsVisible DEF ScopeFilter
  <1>4. ASSUME NEW x \in X, NEW r \in rel, Joins(dir, r, x.id),
               Accepts(ScopeFilter, x, OtherEnd(r, x.id))
        PROVE  LET y == Joined(x, r)
               IN /\ y.id \in next /\ y.depth = d + 1
                  /\ y.visited \subseteq next /\ base \subseteq y.visited
                  /\ y.id \notin base
    <2> DEFINE c == OtherEnd(r, x.id)
    <2>1. /\ Joined(x, r).id = c /\ Joined(x, r).depth = x.depth + 1
          /\ Joined(x, r).visited = x.visited \cup {c}
      BY DEF Joined
    <2>2. r \in Relation /\ r.source \in Entity /\ r.target \in Entity
      BY <1>1 DEF Relation
    <2>3. c \in Entity
      BY <2>2 DEF OtherEnd
    <2>4. state[c] = "live" /\ c \notin x.visited /\ Matches(ScopeFilter, tags[c])
      BY <1>4 DEF Accepts
    <2>5. Hop(dir, x.id, c)
      <3>1. \/ dir # "inbound" /\ r.source = x.id /\ r.target = c
            \/ dir # "outbound" /\ r.target = x.id /\ r.source = c
        BY <1>4, <2>2, JoinIsHop
      <3> QED
        BY <3>1 DEF Hop
    <2> HIDE DEF c
    <2>6. x.id \in near /\ x.depth = d /\ x.visited \subseteq near /\ base \subseteq x.visited
      BY DEF RowsOK
    <2>7. c \in next
      BY <1>3, <2>3, <2>4, <2>5, <2>6 DEF Spread, Visible
    <2> QED
      BY <1>2, <2>1, <2>4, <2>6, <2>7
  <1>5. RowsOK(Y, d + 1, next, base)
    <2>1. IsFiniteSet(Y)
      BY <1>1, NextRowsAre DEF RowsOK
    <2>2. ASSUME NEW y \in Y
          PROVE  /\ y.id \in next /\ y.depth = d + 1
                 /\ y.visited \subseteq next /\ base \subseteq y.visited
                 /\ y.id \notin base
      <3>1. PICK x \in X, r \in rel :
                    /\ Joins(dir, r, x.id) /\ Accepts(ScopeFilter, x, OtherEnd(r, x.id))
                    /\ y = Joined(x, r)
        BY NextRowsAre
      <3> QED
        BY <1>4, <3>1
    <2> QED
      BY <2>1, <2>2 DEF RowsOK
  <1>6. ASSUME NEW c \in next \ near
        PROVE  \E y \in Y : y.id = c
    <2>1. PICK e \in near : Hop(dir, e, c)
      BY <1>6 DEF Spread
    <2>2. c \in Entity /\ Visible(c)
      BY <1>6 DEF Spread
    <2>3. e \notin before
      BY <1>6, <2>1, <2>2 DEF Spread
    <2>4. PICK x \in X : x.id = e
      BY <2>3 DEF Covered
    <2>5. PICK r \in rel : \/ dir # "inbound" /\ r.source = e /\ r.target = c
                           \/ dir # "outbound" /\ r.target = e /\ r.source = c
      BY <2>1 DEF Hop
    <2>6. Joins(dir, r, x.id) /\ OtherEnd(r, x.id) = c
      BY <1>1, <2>4, <2>5, JoinIsHop
    <2>7. c \notin x.visited
      BY <1>6 DEF RowsOK
    <2>8. Accepts(ScopeFilter, x, c)
      BY <1>3, <2>2, <2>7 DEF Accepts, Visible
    <2>9. Joined(x, r) \in Y
      BY <2>6, <2>8, NextRowsAre
    <2>10. Joined(x, r).id = c
      BY <2>6 DEF Joined
    <2> QED
      BY <2>9, <2>10
  <1> QED
    BY <1>2, <1>5, <1>6 DEF Covered

LEMMA FirstRound ==
    ASSUME NEW start
    PROVE  LET base == {e \in {start} : state[e] = "live"}
           IN RowsOK(BaseRows(start), 0, base, base) /\ Covered(BaseRows(start), base, {})
  <1> DEFINE base == {e \in {start} : state[e] = "live"}
             x == [id |-> start, depth |-> 0, visited |-> {start}, path |-> <<>>]
  <1>1. CASE state[start] = "live"
    <2>1. base = {start} /\ BaseRows(start) = {x}
      BY <1>1 DEF BaseRows
    <2>2. x.id = start /\ x.depth = 0 /\ x.visited = {start}
      OBVIOUS
    <2>3. IsFiniteSet({x})
      BY FS_Singleton
    <2> HIDE DEF x, base
    <2> QED
      BY <2>1, <2>2, <2>3 DEF RowsOK, Covered, base
  <1>2. CASE state[start] # "live"
    <2>1. base = {} /\ BaseRows(start) = {}
      BY <1>2 DEF BaseRows
    <2> HIDE DEF base
    <2> QED
      BY <2>1, FS_EmptySet DEF RowsOK, Covered, base
  <1> QED
    BY <1>1, <1>2

LEMMA RoundsOK ==
    ASSUME GInv, NEW dir \in Direction, NEW start \in Entity
    PROVE  LET L == Levels(ScopeFilter, dir, start)
               W == Within(dir, start)
           IN \A d \in 0..MaxDepth :
                 /\ W[d] \subseteq Entity
                 /\ RowsOK(L[d], d, W[d], W[0])
                 /\ d > 0 => W[d - 1] \subseteq W[d] /\ Covered(L[d], W[d], W[d - 1])
  <1> DEFINE L == Levels(ScopeFilter, dir, start)
             W == Within(dir, start)
             base == {e \in {start} : state[e] = "live"}
  <1>1. \A d \in 0..MaxDepth :
           /\ L[d] = IF d = 0 THEN BaseRows(start) ELSE NextRows(ScopeFilter, dir, L[d - 1])
           /\ W[d] = IF d = 0 THEN base ELSE Spread(dir, W[d - 1])
    BY LevelsEquation, WithinEquation
  <1>2. base \subseteq Entity
    OBVIOUS
  <1> HIDE DEF L, W, base
  <1> DEFINE Good(d) == /\ W[d] \subseteq Entity
                        /\ RowsOK(L[d], d, W[d], W[0])
                        /\ d > 0 => W[d - 1] \subseteq W[d] /\ Covered(L[d], W[d], W[d - 1])
             Bad == {d \in Nat : d <= MaxDepth /\ ~Good(d)}
  <1>3. 0 \in 0..MaxDepth /\ W[0] = base /\ L[0] = BaseRows(start)
    BY <1>1, GraphAssumption
  <1>4. RowsOK(L[0], 0, W[0], W[0]) /\ Covered(L[0], W[0], {})
    BY <1>3, FirstRound DEF base
  <1>5. Good(0)
    BY <1>2, <1>3, <1>4
  <1>6. ASSUME NEW d \in Nat, d + 1 <= MaxDepth, Good(d)
        PROVE  Good(d + 1)
    <2>1. d \in 0..MaxDepth /\ d + 1 \in 0..MaxDepth /\ d + 1 # 0 /\ (d + 1) - 1 = d
      BY <1>6, GraphAssumption
    <2>2. L[d + 1] = NextRows(ScopeFilter, dir, L[d]) /\ W[d + 1] = Spread(dir, W[d])
      BY <1>1, <2>1
    <2>3. \E before : Covered(L[d], W[d], before) /\ Spread(dir, before) \subseteq W[d]
      <3>1. CASE d = 0
        <4>1. Spread(dir, {}) = {}
          BY DEF Spread
        <4> QED
          BY <1>4, <3>1, <4>1
      <3>2. CASE d # 0
        <4>1. W[d] = Spread(dir, W[d - 1]) /\ d > 0
          BY <1>1, <2>1, <3>2
        <4> QED
          BY <1>6, <4>1
      <3> QED
        BY <3>1, <3>2
    <2>4. PICK before : Covered(L[d], W[d], before) /\ Spread(dir, before) \subseteq W[d]
      BY <2>3
    <2>5. /\ W[d] \subseteq W[d + 1] /\ W[d + 1] \subseteq Entity
          /\ RowsOK(L[d + 1], d + 1, W[d + 1], W[0])
          /\ Covered(L[d + 1], W[d + 1], W[d])
      <3>1. W[d] \in SUBSET Entity /\ RowsOK(L[d], d, W[d], W[0])
        BY <1>6
      <3> QED
        BY <2>2, <2>4, <3>1, RoundStep
    <2> QED
      BY <2>1, <2>5
  <1> HIDE DEF Good
  <1>7. Bad = {}
    <2> SUFFICES ASSUME Bad # {} PROVE FALSE
      OBVIOUS
    <2>1. PICK n \in Bad : \A m \in Bad : n <= m
      BY LeastNatural
    <2>2. n \in Nat /\ n # 0 /\ n <= MaxDepth /\ ~Good(n)
      BY <1>5
    <2>3. n - 1 \in Nat /\ n - 1 \notin Bad /\ n = (n - 1) + 1 /\ n - 1 <= MaxDepth
      BY <2>1, <2>2, GraphAssumption
    <2>4. Good(n - 1)
      BY <2>3
    <2> QED
      BY <1>6, <2>2, <2>3, <2>4
  <1>8. \A d \in 0..MaxDepth : Good(d)
    BY <1>7, GraphAssumption
  <1> QED
    BY <1>8 DEF Good, L, W

(* What is within some number of hops is within any larger one.            *)
LEMMA WithinGrows ==
    ASSUME GInv, NEW dir \in Direction, NEW start \in Entity,
           NEW i \in 0..MaxDepth, NEW j \in 0..MaxDepth, i <= j
    PROVE  Within(dir, start)[i] \subseteq Within(dir, start)[j]
  <1> DEFINE W == Within(dir, start)
             Bad == {n \in Nat : n <= MaxDepth /\ i <= n /\ ~(W[i] \subseteq W[n])}
  <1>1. \A d \in 0..MaxDepth : d > 0 => W[d - 1] \subseteq W[d]
    BY RoundsOK
  <1> HIDE DEF W
  <1>2. Bad = {}
    <2> SUFFICES ASSUME Bad # {} PROVE FALSE
      OBVIOUS
    <2>1. PICK n \in Bad : \A m \in Bad : n <= m
      BY LeastNatural
    <2>2. n \in Nat /\ n <= MaxDepth /\ i <= n /\ i # n /\ ~(W[i] \subseteq W[n])
      OBVIOUS
    <2>3. n - 1 \in Nat /\ n - 1 \notin Bad /\ n - 1 <= MaxDepth /\ i <= n - 1 /\ n \in 0..MaxDepth /\ n > 0
      BY <2>1, <2>2, GraphAssumption
    <2>4. W[i] \subseteq W[n - 1]
      BY <2>3
    <2> QED
      BY <1>1, <2>2, <2>3, <2>4
  <1> QED
    BY <1>2, GraphAssumption DEF W

(* Rows before the limit: each is at an entity within its depth, other     *)
(* than the start; and each entity has a row at its distance.              *)
LEMMA ScopedRowsFacts ==
    ASSUME GInv, NEW dir \in Direction, NEW start \in Entity
    PROVE  LET rows == ScopedRows(dir, start)
               W == Within(dir, start)
           IN /\ IsFiniteSet(rows)
              /\ \A r \in rows : /\ r.depth \in 1..MaxDepth /\ r.id \in Entity
                                 /\ r.id \in W[r.depth] /\ r.id \notin W[0]
              /\ \A d \in 1..MaxDepth : \A c \in W[d] \ W[d - 1] :
                    \E r \in rows : r.id = c /\ r.depth = d
  <1> DEFINE L == Levels(ScopeFilter, dir, start)
             W == Within(dir, start)
             rows == ScopedRows(dir, start)
             g == [d \in 1..MaxDepth |-> L[d]]
  <1>1. \A d \in 0..MaxDepth :
                 /\ W[d] \subseteq Entity
                 /\ RowsOK(L[d], d, W[d], W[0])
                 /\ d > 0 => W[d - 1] \subseteq W[d] /\ Covered(L[d], W[d], W[d - 1])
    BY RoundsOK
  <1>2. rows = UNION {L[d] : d \in 1..MaxDepth}
    BY DEF ScopedRows, TraverseRows, ScopeFilter
  <1> HIDE DEF L, W, rows
  <1>3. \A d \in 1..MaxDepth : d \in 0..MaxDepth /\ d > 0
    BY GraphAssumption
  <1>4. IsFiniteSet(rows)
    <2>1. IsFiniteSet(1..MaxDepth)
      BY GraphAssumption, FS_Interval
    <2>2. DOMAIN g = 1..MaxDepth /\ g = [d \in 1..MaxDepth |-> g[d]]
      OBVIOUS
    <2>3. {g[d] : d \in 1..MaxDepth} = {L[d] : d \in 1..MaxDepth}
      OBVIOUS
    <2> HIDE DEF g
    <2>4. IsFiniteSet({L[d] : d \in 1..MaxDepth})
      <3>1. IsFiniteSet({g[d] : d \in 1..MaxDepth})
        BY <2>1, <2>2, FiniteImage
      <3> QED
        BY <2>3, <3>1
    <2>5. \A X \in {L[d] : d \in 1..MaxDepth} : IsFiniteSet(X)
      BY <1>1, <1>3 DEF RowsOK
    <2> QED
      BY <1>2, <2>4, <2>5, FS_UNION
  <1>5. ASSUME NEW r \in rows
        PROVE  /\ r.depth \in 1..MaxDepth /\ r.id \in Entity
               /\ r.id \in W[r.depth] /\ r.id \notin W[0]
    <2>1. PICK d \in 1..MaxDepth : r \in L[d]
      BY <1>2
    <2>2. RowsOK(L[d], d, W[d], W[0]) /\ W[d] \subseteq Entity /\ d > 0
      BY <1>1, <1>3
    <2> QED
      BY <2>1, <2>2 DEF RowsOK
  <1>6. ASSUME NEW d \in 1..MaxDepth, NEW c \in W[d] \ W[d - 1]
        PROVE  \E r \in rows : r.id = c /\ r.depth = d
    <2>1. RowsOK(L[d], d, W[d], W[0]) /\ Covered(L[d], W[d], W[d - 1])
      BY <1>1, <1>3
    <2>2. PICK r \in L[d] : r.id = c
      BY <2>1 DEF Covered
    <2>3. r \in rows /\ r.depth = d
      BY <1>2, <2>1 DEF RowsOK
    <2> QED
      BY <2>2, <2>3
  <1> QED
    BY <1>4, <1>5, <1>6 DEF W, rows

(* An entity within d hops that is not the start has a distance.           *)
LEMMA Distance ==
    ASSUME GInv, NEW dir \in Direction, NEW start \in Entity, NEW d \in 1..MaxDepth, NEW c,
           c \in Within(dir, start)[d], c \notin Within(dir, start)[0]
    PROVE  \E k \in 1..d : c \in Within(dir, start)[k] \ Within(dir, start)[k - 1]
  <1> DEFINE W == Within(dir, start)
             S == {n \in Nat : c \in W[n]}
  <1>1. d \in S
    OBVIOUS
  <1>2. PICK k \in S : \A n \in S : k <= n
    BY <1>1, LeastNatural
  <1>3. k \in Nat /\ k # 0 /\ k <= d
    BY <1>1, <1>2
  <1>4. k \in 1..d /\ k - 1 \in Nat /\ k - 1 \notin S
    BY <1>2, <1>3, GraphAssumption
  <1> QED
    BY <1>4

-----------------------------------------------------------------------------
(* The limits.                                                             *)

LEMMA LimitedFacts ==
    ASSUME NEW S, IsFiniteSet(S), NEW n \in Nat \ {0}, NEW page \in Limited(S, n)
    PROVE  /\ page \subseteq S /\ IsFiniteSet(page)
           /\ S # {} => page # {}
           /\ Cardinality(S) <= n => page = S
           /\ page # S => Cardinality(page) = n
  <1>1. page \subseteq S /\ Cardinality(page) = IF Cardinality(S) < n THEN Cardinality(S) ELSE n
    BY DEF Limited
  <1>2. /\ IsFiniteSet(page) /\ Cardinality(page) <= Cardinality(S)
        /\ Cardinality(page) = Cardinality(S) => page = S
    BY <1>1, FS_Subset
  <1>3. Cardinality(S) \in Nat /\ Cardinality(page) \in Nat
    BY <1>2, FS_CardinalityType
  <1>4. Cardinality(S) <= n => page = S
    BY <1>1, <1>2, <1>3
  <1>5. ASSUME S # {}, page = {} PROVE FALSE
    <2>1. Cardinality(page) = 0
      BY <1>5, FS_EmptySet
    <2>2. Cardinality(S) # 0
      BY <1>5, FS_EmptySet
    <2> QED
      BY <1>1, <1>3, <2>1, <2>2
  <1>6. page # S => Cardinality(page) = n
    BY <1>1, <1>2, <1>3
  <1> QED
    BY <1>1, <1>2, <1>4, <1>5, <1>6

LEMMA NearestFirst ==
    ASSUME GInv
    PROVE  NearestEntitiesFirst
  <1> SUFFICES ASSUME NEW dir \in Direction, NEW start \in Entity,
                      NEW page \in TraversePages(ScopedRows(dir, start))
               PROVE  LET rows == ScopedRows(dir, start)
                          found == Results(page)
                          all == Reachable(dir, start)
                      IN /\ found \subseteq all
                         /\ \A x \in found, y \in all \ found :
                               \/ x.depth < y.depth
                               \/ x.depth = y.depth /\ createdAt[x.id] <= createdAt[y.id]
                         /\ Cardinality(rows) <= MaxResults => found = all
    BY DEF NearestEntitiesFirst
  <1> DEFINE rows == ScopedRows(dir, start)
             found == Results(page)
             all == Reachable(dir, start)
             W == Within(dir, start)
  <1>1. /\ IsFiniteSet(rows)
        /\ \A r \in rows : /\ r.depth \in 1..MaxDepth /\ r.id \in Entity
                           /\ r.id \in W[r.depth] /\ r.id \notin W[0]
        /\ \A d \in 1..MaxDepth : \A c \in W[d] \ W[d - 1] :
              \E r \in rows : r.id = c /\ r.depth = d
    BY ScopedRowsFacts
  <1>2. \A i, j \in 0..MaxDepth : i <= j => W[i] \subseteq W[j]
    BY WithinGrows
  <1>3. \A d \in 1..MaxDepth : \A c \in W[d] : c \notin W[0] => \E k \in 1..d : c \in W[k] \ W[k - 1]
    BY Distance
  <1>4. \A y \in all : \E d \in 1..MaxDepth : \E e \in W[d] \ W[d - 1] : y = [id |-> e, depth |-> d]
    BY DEF Reachable
  <1>5. \A d \in 1..MaxDepth : \A e \in W[d] \ W[d - 1] : [id |-> e, depth |-> d] \in all
    BY DEF Reachable
  <1>6. /\ \A x \in found : \E r \in page : /\ x = [id |-> r.id, depth |-> r.depth]
                                           /\ \A p \in page : p.id = r.id => p.depth >= r.depth
        /\ \A r \in page : (\A p \in page : p.id = r.id => p.depth >= r.depth) =>
              [id |-> r.id, depth |-> r.depth] \in found
    BY DEF Results
  <1>7. page \in Limited(rows, MaxResults) /\ \A p \in page, q \in rows \ page : ~SortsBefore(q, p)
    BY DEF TraversePages
  <1>8. MaxResults \in Nat \ {0}
    BY GraphAssumption
  <1> HIDE DEF rows, found, all, W
  <1>9. page \subseteq rows /\ (Cardinality(rows) <= MaxResults => page = rows)
    BY <1>1, <1>7, <1>8, LimitedFacts
  <1>10. \A r \in rows : r.depth \in Nat /\ createdAt[r.id] \in Nat
    BY <1>1 DEF GInv, TypeOK
  <1>11. ASSUME NEW x \in found PROVE x \in all
    <2>1. PICK r \in page : /\ x = [id |-> r.id, depth |-> r.depth]
                            /\ \A p \in page : p.id = r.id => p.depth >= r.depth
      BY <1>6
    <2>2. PICK k \in 1..r.depth : r.id \in W[k] \ W[k - 1]
      BY <1>1, <1>3, <1>9, <2>1
    <2>3. r.depth \in 1..MaxDepth /\ k \in 1..MaxDepth
      BY <1>1, <1>9, GraphAssumption
    <2>4. PICK p \in rows : p.id = r.id /\ p.depth = k
      BY <1>1, <2>2, <2>3
    <2>5. k = r.depth
      <3>1. SUFFICES ASSUME k < r.depth PROVE FALSE
        BY <2>3
      <3>2. SortsBefore(p, r)
        BY <2>4, <3>1 DEF SortsBefore
      <3>3. p \in page
        BY <1>7, <2>1, <2>4, <3>2
      <3> QED
        BY <2>1, <2>3, <2>4, <3>1, <3>3
    <2> QED
      BY <1>5, <2>1, <2>2, <2>3, <2>5
  <1>12. ASSUME NEW y \in all, NEW q \in page, y = [id |-> q.id, depth |-> q.depth]
         PROVE  y \in found
    <2>1. PICK d \in 1..MaxDepth : \E e \in W[d] \ W[d - 1] : y = [id |-> e, depth |-> d]
      BY <1>4
    <2>2. d = q.depth /\ q.id \in W[d] \ W[d - 1]
      BY <1>12, <2>1
    <2>3. ASSUME NEW p \in page, p.id = q.id PROVE p.depth >= q.depth
      <3>1. p.depth \in 1..MaxDepth /\ q.id \in W[p.depth]
        BY <1>1, <1>9, <2>3
      <3>2. SUFFICES ASSUME p.depth < d PROVE FALSE
        BY <2>2, <3>1
      <3>3. p.depth \in 0..MaxDepth /\ d - 1 \in 0..MaxDepth /\ p.depth <= d - 1
        BY <3>1, <3>2, GraphAssumption
      <3> QED
        BY <1>2, <2>2, <3>1, <3>3
    <2> QED
      BY <1>6, <1>12, <2>3
  <1>13. ASSUME NEW y \in all
         PROVE  \E q \in rows : y = [id |-> q.id, depth |-> q.depth]
    <2>1. PICK d \in 1..MaxDepth : \E e \in W[d] \ W[d - 1] : y = [id |-> e, depth |-> d]
      BY <1>4
    <2>2. PICK e \in W[d] \ W[d - 1] : y = [id |-> e, depth |-> d]
      BY <2>1
    <2>3. PICK q \in rows : q.id = e /\ q.depth = d
      BY <1>1
    <2> QED
      BY <2>2, <2>3
  <1>14. ASSUME NEW x \in found, NEW y \in all \ found
         PROVE  \/ x.depth < y.depth
                \/ x.depth = y.depth /\ createdAt[x.id] <= createdAt[y.id]
    <2>1. PICK r \in page : x = [id |-> r.id, depth |-> r.depth]
      BY <1>6
    <2>2. PICK q \in rows : y = [id |-> q.id, depth |-> q.depth]
      BY <1>13
    <2>3. q \notin page
      BY <1>12, <1>14, <2>2
    <2>4. ~SortsBefore(q, r)
      BY <1>7, <2>3
    <2>5. x.id = r.id /\ x.depth = r.depth /\ y.id = q.id /\ y.depth = q.depth
      BY <2>1, <2>2
    <2>6. /\ r.depth \in Nat /\ createdAt[r.id] \in Nat
          /\ q.depth \in Nat /\ createdAt[q.id] \in Nat
      BY <1>9, <1>10
    <2> QED
      BY <2>4, <2>5, <2>6 DEF SortsBefore
  <1>15. ASSUME Cardinality(rows) <= MaxResults PROVE found = all
    <2>1. page = rows
      BY <1>9, <1>15
    <2>2. all \subseteq found
      BY <1>12, <1>13, <2>1
    <2>3. found \subseteq all
      BY <1>11
    <2> QED
      BY <2>2, <2>3
  <1>16. found \subseteq all
    BY <1>11
  <1> QED
    BY <1>14, <1>15, <1>16 DEF rows, found, all

(* Traverse returns reachable entities with their distances, the nearest   *)
(* ones first; the limit takes away only what is farther, or as far and    *)
(* not older, and without a cut nothing is missing: for every graph of     *)
(* relations, scope, depth, limit and order of ties.                       *)
THEOREM GraphNearest == Spec => []NearestEntitiesFirst
  <1>1. GInv => NearestEntitiesFirst
    BY NearestFirst
  <1> QED
    BY <1>1, InitGInv, NextGInv, PTL DEF Spec

-----------------------------------------------------------------------------
(* One hop.                                                                *)

(* The scoped queries see the live entities of the scope.                  *)
LEMMA PassesIsVisible ==
    ASSUME GInv, NEW c \in Entity
    PROVE  Passes(ScopeFilter, c) <=> Visible(c)
  <1>1. tags[c] \in SUBSET Tag
    BY DEF GInv, TypeOK
  <1> QED
    BY <1>1, MergedIsVisible DEF Passes, Visible, ScopeFilter

Neighbours(e) == {c \in Entity : Visible(c) /\ Hop("both", e, c)}

Rows(e) == RowsFrom(ScopeFilter, e, {}) \cup RowsTo(ScopeFilter, e, {})

LEMMA RowsAre ==
    ASSUME GInv, NEW e, NEW types
    PROVE  /\ IsFiniteSet(RowsFrom(ScopeFilter, e, types))
           /\ IsFiniteSet(RowsTo(ScopeFilter, e, types))
           /\ \A r : r \in RowsFrom(ScopeFilter, e, types) <=>
                        r \in OfType(types) /\ r.source = e /\ Visible(r.target)
           /\ \A r : r \in RowsTo(ScopeFilter, e, types) <=>
                        r \in OfType(types) /\ r.target = e /\ Visible(r.source)
  <1>1. OfType(types) \subseteq rel
    BY DEF OfType
  <1>2. \A r \in rel : r.source \in Entity /\ r.target \in Entity
    BY DEF GInv, TypeOK, Relation
  <1>3. RowsFrom(ScopeFilter, e, types) \subseteq rel /\ RowsTo(ScopeFilter, e, types) \subseteq rel
    BY <1>1 DEF RowsFrom, RowsTo
  <1>4. IsFiniteSet(RowsFrom(ScopeFilter, e, types)) /\ IsFiniteSet(RowsTo(ScopeFilter, e, types))
    BY <1>3, FS_Subset DEF GInv
  <1>5. \A r \in rel : /\ Passes(ScopeFilter, r.source) <=> Visible(r.source)
                       /\ Passes(ScopeFilter, r.target) <=> Visible(r.target)
    BY <1>2, PassesIsVisible
  <1> QED
    BY <1>1, <1>4, <1>5 DEF RowsFrom, RowsTo

LEMMA NeighboursAre ==
    ASSUME GInv, NEW e
    PROVE  /\ Neighbours(e) = Targets(RowsFrom(ScopeFilter, e, {})) \cup Sources(RowsTo(ScopeFilter, e, {}))
           /\ IsFiniteSet(Rows(e))
  <1>1. OfType({}) = rel
    BY DEF OfType
  <1>2. \A r \in rel : r.source \in Entity /\ r.target \in Entity
    BY DEF GInv, TypeOK, Relation
  <1>3. IsFiniteSet(Rows(e))
    BY RowsAre, FS_Union DEF Rows
  <1>4. ASSUME NEW c
        PROVE  c \in Neighbours(e) <=>
                  \/ \E r \in RowsFrom(ScopeFilter, e, {}) : c = r.target
                  \/ \E r \in RowsTo(ScopeFilter, e, {}) : c = r.source
    BY <1>1, <1>2, RowsAre DEF Neighbours, Hop
  <1> QED
    BY <1>3, <1>4 DEF Targets, Sources

(* The union of two limited answers.                                       *)
LEMMA TwoPages ==
    ASSUME NEW R, NEW Q, IsFiniteSet(R), IsFiniteSet(Q), NEW n \in Nat \ {0},
           NEW out \in Limited(R, n), NEW in \in Limited(Q, n)
    PROVE  /\ out \subseteq R /\ in \subseteq Q
           /\ R \cup Q # {} => out \cup in # {}
           /\ Cardinality(R \cup Q) <= n => out = R /\ in = Q
  <1>1. IsFiniteSet(R \cup Q)
    BY FS_Union
  <1>2. Cardinality(R) <= Cardinality(R \cup Q) /\ Cardinality(Q) <= Cardinality(R \cup Q)
    BY <1>1, FS_Subset
  <1>3. /\ Cardinality(R) \in Nat /\ Cardinality(Q) \in Nat
        /\ Cardinality(R \cup Q) \in Nat
    BY <1>1, FS_CardinalityType
  <1>4. /\ out \subseteq R /\ (R # {} => out # {})
        /\ Cardinality(R) <= n => out = R
    BY LimitedFacts
  <1>5. /\ in \subseteq Q /\ (Q # {} => in # {})
        /\ Cardinality(Q) <= n => in = Q
    BY LimitedFacts
  <1> QED
    BY <1>2, <1>3, <1>4, <1>5

LEMMA ByTypeAnswers ==
    ASSUME GInv, NEW e \in Entity
    PROVE  Answers(FindConnectedByType(ScopeFilter, e, {}), Neighbours(e), Rows(e), PageSize)
  <1> DEFINE R == RowsFrom(ScopeFilter, e, {})
             Q == RowsTo(ScopeFilter, e, {})
  <1>1. IsFiniteSet(R) /\ IsFiniteSet(Q) /\ PageSize \in Nat \ {0}
    BY RowsAre, GraphAssumption
  <1>2. Neighbours(e) = Targets(R) \cup Sources(Q) /\ Rows(e) = R \cup Q
    BY NeighboursAre DEF Rows
  <1>3. \A found \in FindConnectedByType(ScopeFilter, e, {}) :
           \E out \in Limited(R, PageSize), in \in Limited(Q, PageSize) :
              found = Targets(out) \cup Sources(in)
    BY DEF FindConnectedByType, FindConnectedByTypeOutbound, FindConnectedByTypeInbound
  <1> HIDE DEF R, Q
  <1>4. ASSUME NEW found \in FindConnectedByType(ScopeFilter, e, {})
        PROVE  /\ found \subseteq Neighbours(e)
               /\ Neighbours(e) # {} => found # {}
               /\ Cardinality(Rows(e)) <= PageSize => found = Neighbours(e)
    <2>1. PICK out \in Limited(R, PageSize), in \in Limited(Q, PageSize) :
                  found = Targets(out) \cup Sources(in)
      BY <1>3
    <2>2. /\ out \subseteq R /\ in \subseteq Q
          /\ R \cup Q # {} => out \cup in # {}
          /\ Cardinality(R \cup Q) <= PageSize => out = R /\ in = Q
      BY <1>1, TwoPages
    <2>3. /\ Targets(out) \subseteq Targets(R) /\ Sources(in) \subseteq Sources(Q)
      BY <2>2 DEF Targets, Sources
    <2>4. ASSUME Neighbours(e) # {} PROVE found # {}
      <3>1. R \cup Q # {}
        BY <1>2, <2>4 DEF Targets, Sources
      <3> QED
        BY <2>1, <2>2, <3>1 DEF Targets, Sources
    <2>5. Cardinality(Rows(e)) <= PageSize => found = Neighbours(e)
      BY <1>2, <2>1, <2>2
    <2> QED
      BY <1>2, <2>1, <2>3, <2>4, <2>5
  <1> QED
    BY <1>4 DEF Answers

(* The filter in Go leaves the neighbours on the page.                     *)
LEMMA ConnectedAnswers ==
    ASSUME GInv, NEW e \in Entity, NEW found \in ScopedConnectedEntities(e)
    PROVE  /\ found \subseteq Neighbours(e)
           /\ Cardinality(Connected(e)) <= PageSize => found = Neighbours(e)
  <1>1. PICK page \in Limited(Connected(e), PageSize) :
                found = {c \in page : EntityVisible(Scope, tags[c])}
    BY DEF ScopedConnectedEntities, ConnectedEntities
  <1>2. Neighbours(e) = {c \in Connected(e) : EntityVisible(Scope, tags[c])}
    BY DEF Neighbours, Connected, Visible, Hop
  <1>3. IsFiniteSet(Connected(e))
    <2> DEFINE g == [r \in rel |-> r.source]
               h == [r \in rel |-> r.target]
    <2>1. IsFiniteSet(rel)
      BY DEF GInv
    <2>2. IsFiniteSet({g[r] : r \in rel}) /\ IsFiniteSet({h[r] : r \in rel})
      BY <2>1, FiniteImage
    <2>3. IsFiniteSet({g[r] : r \in rel} \cup {h[r] : r \in rel})
      BY <2>2, FS_Union
    <2>4. Connected(e) \subseteq {g[r] : r \in rel} \cup {h[r] : r \in rel}
      BY DEF Connected
    <2> QED
      BY <2>3, <2>4, FS_Subset
  <1>4. PageSize \in Nat \ {0}
    BY GraphAssumption
  <1>5. page \subseteq Connected(e) /\ (Cardinality(Connected(e)) <= PageSize => page = Connected(e))
    BY <1>3, <1>4, LimitedFacts
  <1> QED
    BY <1>1, <1>2, <1>5

(* The first hop of a traversal: rows of depth 1 are on the page before    *)
(* any other, and there is one for every relation that joins the start.    *)
LEMMA FirstHop ==
    ASSUME GInv, NEW e \in Entity, state[e] = "live"
    PROVE  LET D == {r \in ScopedRows("both", e) : r.depth = 1}
           IN /\ {r.id : r \in D} = Neighbours(e) \ {e}
              /\ IsFiniteSet(D) /\ Cardinality(D) <= Cardinality(Rows(e))
  <1> DEFINE rows == ScopedRows("both", e)
             W == Within("both", e)
             L == Levels(ScopeFilter, "both", e)
             D == {r \in rows : r.depth = 1}
             x == [id |-> e, depth |-> 0, visited |-> {e}, path |-> <<>>]
             g == [r \in Rows(e) |-> Joined(x, r)]
             I == {g[r] : r \in Rows(e)}
  <1>0. "both" \in Direction /\ 1 \in 1..MaxDepth /\ 0 \in 0..MaxDepth /\ 1 \in 0..MaxDepth
    BY GraphAssumption DEF Direction
  <1>1. W[0] = {e}
    <2>1. W[0] = {c \in {e} : state[c] = "live"}
      BY <1>0, WithinEquation
    <2> QED
      BY <2>1
  <1>2. W[1] = Spread("both", W[0])
    <2>1. \A d \in 0..MaxDepth :
             W[d] = IF d = 0 THEN {c \in {e} : state[c] = "live"} ELSE Spread("both", W[d - 1])
      BY WithinEquation
    <2> HIDE DEF W
    <2>2. ASSUME NEW d \in 0..MaxDepth, d = 1
          PROVE  W[d] = Spread("both", W[0])
      <3>1. d # 0 /\ d - 1 = 0
        BY <2>2
      <3>2. W[d] = Spread("both", W[d - 1])
        BY <2>1, <3>1
      <3> QED
        BY <3>1, <3>2
    <2> QED
      BY <1>0, <2>2
  <1>3. /\ \A r \in rows : r.id \in W[r.depth] /\ r.id \notin W[0]
        /\ \A d \in 1..MaxDepth : \A c \in W[d] \ W[d - 1] : \E r \in rows : r.id = c /\ r.depth = d
        /\ IsFiniteSet(rows)
    BY <1>0, ScopedRowsFacts
  <1>4. \A r \in D : \E d \in 0..MaxDepth : r \in L[d] /\ d = 1
    <2>1. rows = UNION {L[d] : d \in 1..MaxDepth}
      BY DEF ScopedRows, TraverseRows, ScopeFilter
    <2>2. \A d \in 0..MaxDepth : \A r \in L[d] : r.depth = d
      BY <1>0, RoundsOK DEF RowsOK
    <2> HIDE DEF rows, L
    <2> QED
      BY <2>1, <2>2, GraphAssumption
  <1>5. \A d \in 0..MaxDepth : d = 1 => L[d] = NextRows(ScopeFilter, "both", BaseRows(e))
    <2>1. \A d \in 0..MaxDepth :
             L[d] = IF d = 0 THEN BaseRows(e) ELSE NextRows(ScopeFilter, "both", L[d - 1])
      BY LevelsEquation
    <2> HIDE DEF L
    <2>2. L[0] = BaseRows(e)
      BY <1>0, <2>1
    <2>3. ASSUME NEW d \in 0..MaxDepth, d = 1
          PROVE  L[d] = NextRows(ScopeFilter, "both", BaseRows(e))
      <3>1. d # 0 /\ d - 1 = 0
        BY <2>3
      <3>2. L[d] = NextRows(ScopeFilter, "both", L[d - 1])
        BY <2>1, <3>1
      <3> QED
        BY <2>2, <3>1, <3>2
    <2> QED
      BY <2>3
  <1>6. BaseRows(e) = {x}
    BY DEF BaseRows
  <1>7. D \subseteq I
    <2> SUFFICES ASSUME NEW y \in D PROVE y \in I
      OBVIOUS
    <2>1. y \in NextRows(ScopeFilter, "both", {x})
      BY <1>4, <1>5, <1>6
    <2>2. x.id = e
      OBVIOUS
    <2> HIDE DEF x
    <2>3. PICK z \in {x}, r \in rel : /\ Joins("both", r, z.id)
                                      /\ Accepts(ScopeFilter, z, OtherEnd(r, z.id))
                                      /\ y = Joined(z, r)
      BY <2>1, NextRowsAre
    <2>4. Joins("both", r, e) /\ Passes(ScopeFilter, OtherEnd(r, e)) /\ y = Joined(x, r)
      BY <2>2, <2>3 DEF Accepts, Passes
    <2>5. r \in Rows(e)
      BY <2>3, <2>4 DEF Rows, RowsFrom, RowsTo, OfType, Joins, OtherEnd
    <2> QED
      BY <2>4, <2>5
  <1>8. IsFiniteSet(Rows(e))
    BY NeighboursAre
  <1> HIDE DEF x
  <1>9. g \in Surjection(Rows(e), I)
    BY DEF Surjection
  <1>10. IsFiniteSet(I) /\ Cardinality(I) <= Cardinality(Rows(e))
    <2> HIDE DEF g, I
    <2> QED
      BY <1>8, <1>9, FS_Surjection
  <1> HIDE DEF rows, W, I
  <1>11. IsFiniteSet(D)
    BY <1>3, FS_Subset
  <1>12. Cardinality(D) <= Cardinality(Rows(e))
    <2>1. Cardinality(D) <= Cardinality(I)
      BY <1>7, <1>10, FS_Subset
    <2>2. Cardinality(D) \in Nat /\ Cardinality(I) \in Nat /\ Cardinality(Rows(e)) \in Nat
      BY <1>8, <1>10, <1>11, FS_CardinalityType
    <2> QED
      BY <1>10, <2>1, <2>2
  <1>13. \A c : c \in W[1] \ {e} <=> c # e /\ c \in Neighbours(e)
    BY <1>1, <1>2 DEF Spread, Neighbours
  <1>14. \A c \in W[1] \ {e} : \E r \in rows : r.id = c /\ r.depth = 1
    <2>1. \A c \in W[1] \ W[1 - 1] : \E r \in rows : r.id = c /\ r.depth = 1
      BY <1>0, <1>3
    <2> QED
      BY <1>1, <2>1
  <1>15. \A r \in D : r.id \in W[1] \ {e}
    BY <1>1, <1>3
  <1>16. {r.id : r \in D} = Neighbours(e) \ {e}
    BY <1>13, <1>14, <1>15
  <1> QED
    BY <1>11, <1>12, <1>16 DEF rows

LEMMA FirstHopAnswers ==
    ASSUME GInv, NEW e \in Entity, state[e] = "live"
    PROVE  Answers({{x.id : x \in {y \in Results(page) : y.depth = 1}}
                    : page \in TraversePages(ScopedRows("both", e))},
                   Neighbours(e) \ {e}, Rows(e), MaxResults)
  <1> DEFINE rows == ScopedRows("both", e)
             D == {r \in rows : r.depth = 1}
             Near(page) == {x.id : x \in {y \in Results(page) : y.depth = 1}}
  <1>1. /\ {r.id : r \in D} = Neighbours(e) \ {e}
        /\ IsFiniteSet(D) /\ Cardinality(D) <= Cardinality(Rows(e))
    BY FirstHop
  <1>2. IsFiniteSet(rows) /\ \A r \in rows : r.depth \in Nat /\ r.depth >= 1
    <2>1. "both" \in Direction
      BY DEF Direction
    <2>2. IsFiniteSet(rows) /\ \A r \in rows : r.depth \in 1..MaxDepth
      BY <2>1, ScopedRowsFacts
    <2> QED
      BY <2>2, GraphAssumption
  <1>3. IsFiniteSet(Rows(e)) /\ MaxResults \in Nat \ {0}
    BY NeighboursAre, GraphAssumption
  <1>4. ASSUME NEW page \in TraversePages(rows)
        PROVE  /\ Near(page) \subseteq Neighbours(e) \ {e}
               /\ Neighbours(e) \ {e} # {} => Near(page) # {}
               /\ Cardinality(Rows(e)) <= MaxResults => Near(page) = Neighbours(e) \ {e}
    <2>1. page \in Limited(rows, MaxResults) /\ \A p \in page, q \in rows \ page : ~SortsBefore(q, p)
      BY DEF TraversePages
    <2>2. /\ \A x \in Results(page) : \E r \in page : x = [id |-> r.id, depth |-> r.depth]
          /\ \A r \in page : (\A p \in page : p.id = r.id => p.depth >= r.depth) =>
                [id |-> r.id, depth |-> r.depth] \in Results(page)
      BY DEF Results
    <2> HIDE DEF rows
    <2>3. /\ page \subseteq rows /\ IsFiniteSet(page) /\ (rows # {} => page # {})
          /\ page # rows => Cardinality(page) = MaxResults
      BY <1>2, <1>3, <2>1, LimitedFacts
    <2>4. Near(page) = {r.id : r \in {q \in page : q.depth = 1}}
      <3>1. ASSUME NEW c \in Near(page)
            PROVE  \E r \in page : r.depth = 1 /\ r.id = c
        <4>1. PICK x \in Results(page) : x.depth = 1 /\ x.id = c
          BY <3>1
        <4>2. PICK r \in page : x = [id |-> r.id, depth |-> r.depth]
          BY <2>2
        <4> QED
          BY <4>1, <4>2
      <3>2. ASSUME NEW r \in page, r.depth = 1
            PROVE  r.id \in Near(page)
        <4>1. \A p \in page : p.id = r.id => p.depth >= r.depth
          BY <1>2, <2>3, <3>2
        <4>2. [id |-> r.id, depth |-> r.depth] \in Results(page)
          BY <2>2, <4>1
        <4>3. \E x \in Results(page) : x.depth = 1 /\ x.id = r.id
          BY <3>2, <4>2
        <4> QED
          BY <4>3
      <3> QED
        BY <3>1, <3>2
    <2>5. ASSUME NEW q \in D, q \notin page
          PROVE  page \subseteq D
      BY <1>2, <2>1, <2>3, <2>5 DEF SortsBefore
    <2>6. Near(page) \subseteq Neighbours(e) \ {e}
      BY <1>1, <2>3, <2>4
    <2>7. ASSUME Neighbours(e) \ {e} # {} PROVE Near(page) # {}
      <3>1. PICK q \in D : TRUE
        BY <1>1, <2>7
      <3>2. CASE q \in page
        BY <2>4, <3>1, <3>2
      <3>3. CASE q \notin page
        BY <2>3, <2>4, <2>5, <3>1, <3>3
      <3> QED
        BY <3>2, <3>3
    <2>8. ASSUME Cardinality(Rows(e)) <= MaxResults PROVE Near(page) = Neighbours(e) \ {e}
      <3>1. SUFFICES D \subseteq page
        BY <1>1, <2>4, <2>6, <3>1
      <3>2. SUFFICES ASSUME NEW q \in D, q \notin page PROVE FALSE
        OBVIOUS
      <3>3. page \subseteq D \ {q} /\ Cardinality(page) = MaxResults
        BY <2>3, <2>5, <3>2
      <3>4. IsFiniteSet(D \ {q}) /\ Cardinality(D \ {q}) = Cardinality(D) - 1
        BY <1>1, <3>2, FS_RemoveElement
      <3>5. Cardinality(page) <= Cardinality(D \ {q})
        BY <3>3, <3>4, FS_Subset
      <3>6. Cardinality(D) \in Nat /\ Cardinality(Rows(e)) \in Nat
        BY <1>1, <1>3, FS_CardinalityType
      <3> QED
        BY <1>1, <1>3, <2>8, <3>3, <3>4, <3>5, <3>6
    <2> QED
      BY <2>6, <2>7, <2>8
  <1> QED
    BY <1>4 DEF Answers

(* An entity has a relation exactly if it is somebody's neighbour.         *)
LEMMA RelatedAnswers ==
    ASSUME GInv, NEW type \in RelType
    PROVE  Answers(FindEntitiesByRelation(ScopeFilter, type),
                   UNION {Sources(RowsTo(ScopeFilter, e, {type})) \cup Targets(RowsFrom(ScopeFilter, e, {type}))
                          : e \in Entity},
                   SourceRows(ScopeFilter, type) \cup TargetRows(ScopeFilter, type), PageSize)
  <1> DEFINE R == SourceRows(ScopeFilter, type)
             Q == TargetRows(ScopeFilter, type)
             N(e) == Sources(RowsTo(ScopeFilter, e, {type})) \cup Targets(RowsFrom(ScopeFilter, e, {type}))
             truth == UNION {N(e) : e \in Entity}
  <1>1. R \subseteq rel /\ Q \subseteq rel
    BY DEF SourceRows, TargetRows, OfType
  <1>2. IsFiniteSet(R) /\ IsFiniteSet(Q) /\ PageSize \in Nat \ {0}
    BY <1>1, FS_Subset, GraphAssumption DEF GInv
  <1>3. \A r \in rel : r.source \in Entity /\ r.target \in Entity
    BY DEF GInv, TypeOK, Relation
  <1>4. truth = Sources(R) \cup Targets(Q)
    <2>1. \A e \in Entity : N(e) \subseteq Sources(R) \cup Targets(Q)
      BY DEF SourceRows, TargetRows, RowsFrom, RowsTo, Sources, Targets
    <2>2. \A r \in R : r.source \in N(r.target)
      BY DEF SourceRows, RowsTo, Sources
    <2>3. \A r \in Q : r.target \in N(r.source)
      BY DEF TargetRows, RowsFrom, Targets
    <2> HIDE DEF R, Q, N
    <2> QED
      BY <1>1, <1>3, <2>1, <2>2, <2>3 DEF Sources, Targets
  <1>5. \A found \in FindEntitiesByRelation(ScopeFilter, type) :
           \E src \in Limited(R, PageSize), tgt \in Limited(Q, PageSize) :
              found = Sources(src) \cup Targets(tgt)
    BY DEF FindEntitiesByRelation
  <1> HIDE DEF R, Q, truth
  <1>6. ASSUME NEW found \in FindEntitiesByRelation(ScopeFilter, type)
        PROVE  /\ found \subseteq truth
               /\ truth # {} => found # {}
               /\ Cardinality(R \cup Q) <= PageSize => found = truth
    <2>1. PICK src \in Limited(R, PageSize), tgt \in Limited(Q, PageSize) :
                  found = Sources(src) \cup Targets(tgt)
      BY <1>5
    <2>2. /\ src \subseteq R /\ tgt \subseteq Q
          /\ R \cup Q # {} => src \cup tgt # {}
          /\ Cardinality(R \cup Q) <= PageSize => src = R /\ tgt = Q
      BY <1>2, TwoPages
    <2>3. Sources(src) \subseteq Sources(R) /\ Targets(tgt) \subseteq Targets(Q)
      BY <2>2 DEF Targets, Sources
    <2>4. ASSUME truth # {} PROVE found # {}
      <3>1. R \cup Q # {}
        BY <1>4, <2>4 DEF Targets, Sources
      <3> QED
        BY <2>1, <2>2, <3>1 DEF Targets, Sources
    <2>5. Cardinality(R \cup Q) <= PageSize => found = truth
      BY <1>4, <2>1, <2>2
    <2> QED
      BY <1>4, <2>1, <2>3, <2>4, <2>5
  <1> QED
    BY <1>6 DEF Answers, R, Q, truth

LEMMA OneHop ==
    ASSUME GInv
    PROVE  OneHopAgrees
  <1>1. ASSUME NEW e \in Entity
        PROVE  /\ Answers(FindConnectedByType(ScopeFilter, e, {}), Neighbours(e), Rows(e), PageSize)
               /\ state[e] = "live" =>
                     Answers({{x.id : x \in {y \in Results(page) : y.depth = 1}}
                              : page \in TraversePages(ScopedRows("both", e))},
                             Neighbours(e) \ {e}, Rows(e), MaxResults)
               /\ \A found \in ScopedConnectedEntities(e) :
                     /\ found \subseteq Neighbours(e)
                     /\ Cardinality(Connected(e)) <= PageSize => found = Neighbours(e)
    BY ByTypeAnswers, FirstHopAnswers, ConnectedAnswers
  <1>2. NeighboursAgree
    BY <1>1 DEF NeighboursAgree, Neighbours, Rows, ScopeFilter
  <1>3. RelatedAgree
    BY RelatedAnswers DEF RelatedAgree, ScopeFilter
  <1> QED
    BY <1>2, <1>3 DEF OneHopAgrees

(* ConnectedEntities with the filter in Go, FindConnectedByType with the   *)
(* filter in SQL, the first hop of Traverse and FindEntitiesByRelation     *)
(* agree on who is a neighbour, but for what their limits take away; and   *)
(* none whose filter precedes its limit comes back empty while there is    *)
(* one: in every state of the tables, for all limits.                      *)
THEOREM GraphOneHop == Spec => []OneHopAgrees
  <1>1. GInv => OneHopAgrees
    BY OneHop
  <1> QED
    BY <1>1, InitGInv, NextGInv, PTL DEF Spec
=============================================================================
