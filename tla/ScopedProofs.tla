---------------------------- MODULE ScopedProofs ----------------------------
(***************************************************************************)
(* Scoped reads for every set of readers, scopes, tags and entities.       *)
(***************************************************************************)
EXTENDS Scoped, FiniteSetTheorems, TLAPS

(* What a reader has appended is in the arrays until its query is sent, or *)
(* it is overlapped.                                                       *)
ArrayOK ==
    /\ merged \in [Reader -> BOOLEAN]
    /\ \A r \in Reader, s \in Slice : merged[r] /\ r \notin overlapped /\ InPlace(r, s) =>
          \A i \in 1..Len(Appended(r, s)) : array[s][i] = Appended(r, s)[i]

TagsOK == tags \in [Entity -> SUBSET Tag]

(* The condition in SQL on the merged filter is the condition in Go.       *)
LEMMA MergedFilterIsScope ==
    ASSUME NEW c \in ScopeConfig, NEW f \in QueryFilter, NEW T \in SUBSET Tag,
           c.excludeTag # NoTag => f.unlessTags \subseteq c.unlessTags
    PROVE  Matches(MergeFilter(c, f), T) <=>
              /\ EntityVisible(c, T)
              /\ f.tags \subseteq T
              /\ f.anyTags = {} \/ f.anyTags \cap T # {}
              /\ c.excludeTag = NoTag => Kept(f, T)
  <1> DEFINE m == MergeFilter(c, f)
  <1>1. m.tags = f.tags \cup c.requireTags /\ m.anyTags = f.anyTags
    BY DEF MergeFilter
  <1>2. c.excludeTag = NoTag => m.excludeTag = f.excludeTag /\ m.unlessTags = f.unlessTags
    BY DEF MergeFilter
  <1>3. c.excludeTag # NoTag => /\ m.excludeTag = c.excludeTag
                                /\ m.unlessTags = f.unlessTags \cup c.unlessTags
    BY DEF MergeFilter
  <1>4. m.tags \subseteq T <=> c.requireTags \subseteq T /\ f.tags \subseteq T
    BY <1>1
  <1> HIDE DEF m
  <1>5. CASE c.excludeTag = NoTag
    BY <1>1, <1>2, <1>4, <1>5 DEF Matches, Kept, EntityVisible, m
  <1>6. CASE c.excludeTag # NoTag
    <2>1. m.unlessTags = c.unlessTags
      BY <1>3, <1>6
    <2> QED
      BY <1>1, <1>3, <1>4, <1>6, <2>1 DEF Matches, Kept, EntityVisible, m
  <1> QED
    BY <1>5, <1>6

LEMMA AppendedType ==
    ASSUME NEW r \in Reader, NEW s \in Slice
    PROVE  /\ Appended(r, s) \in Seq(Tag) /\ Len(Appended(r, s)) \in Nat /\ Spare[s] \in Nat
           /\ InPlace(r, s) => \A i \in 1..Len(Appended(r, s)) : i \in 1..Spare[s]
  <1>1. Spare[s] \in Nat
    BY ScopedAssumption
  <1>2. Require[r] \in Seq(Tag) /\ Unless[r] \in Seq(Tag) /\ <<>> \in Seq(Tag)
    BY ScopedAssumption
  <1>3. Appended(r, s) \in Seq(Tag)
    BY <1>2 DEF Appended, Slice
  <1> QED
    BY <1>1, <1>3 DEF InPlace

LEMMA InitArrayOK == Init => ArrayOK
  BY DEF Init, ArrayOK

(* An append leaves in the arrays what it appends, and does not change the *)
(* part of a reader that it agrees with.                                   *)
LEMMA MergeArrayOK ==
    ASSUME ArrayOK, NEW r \in Reader, Merge(r)
    PROVE  ArrayOK'
  <1>1. merged' \in [Reader -> BOOLEAN]
    BY DEF Merge, ArrayOK
  <1>2. ASSUME NEW q \in Reader, NEW s \in Slice, merged'[q], q \notin overlapped', InPlace(q, s),
               NEW i \in 1..Len(Appended(q, s))
        PROVE  array'[s][i] = Appended(q, s)[i]
    <2>1. i \in 1..Spare[s]
      BY <1>2, AppendedType
    <2>2. array'[s][i] = IF InPlace(r, s) /\ i <= Len(Appended(r, s)) THEN Appended(r, s)[i]
                                                                    ELSE array[s][i]
      BY <2>1 DEF Merge, Overwrite
    <2>3. CASE q = r
      BY <1>2, <2>2, <2>3, AppendedType
    <2>4. CASE q # r
      <3>1. merged[q] /\ q \notin overlapped /\ ~Disagree(r, q)
        BY <1>2, <2>4 DEF Merge, ArrayOK
      <3>2. array[s][i] = Appended(q, s)[i]
        BY <1>2, <3>1 DEF ArrayOK
      <3>3. ASSUME InPlace(r, s), i <= Len(Appended(r, s))
            PROVE  Appended(r, s)[i] = Appended(q, s)[i]
        <4>1. i \in 1..Len(Appended(r, s)) /\ i <= Len(Appended(q, s))
          BY <1>2, <3>3, AppendedType
        <4> QED
          BY <1>2, <3>1, <3>3, <4>1 DEF Disagree
      <3> QED
        BY <2>2, <3>2, <3>3
    <2> QED
      BY <2>3, <2>4
  <1> QED
    BY <1>1, <1>2 DEF ArrayOK, InPlace, Appended

LEMMA NextArrayOK ==
    ASSUME ArrayOK, [Next]_vars
    PROVE  ArrayOK'
  <1>1. ASSUME NEW r \in Reader, Query(r) PROVE ArrayOK'
    <2>1. /\ array' = array
          /\ \A q \in Reader : merged'[q] /\ q \notin overlapped' => merged[q] /\ q \notin overlapped
          /\ merged' \in [Reader -> BOOLEAN]
      BY <1>1 DEF Query, ArrayOK
    <2>2. ASSUME NEW q \in Reader, NEW s \in Slice, merged'[q], q \notin overlapped', InPlace(q, s),
                 NEW i \in 1..Len(Appended(q, s))
          PROVE  array'[s][i] = Appended(q, s)[i]
      BY <2>1, <2>2 DEF ArrayOK
    <2> QED
      BY <2>1, <2>2 DEF ArrayOK, InPlace, Appended
  <1>2. ASSUME UNCHANGED <<array, merged, overlapped>> PROVE ArrayOK'
    BY <1>2 DEF ArrayOK, InPlace, Appended
  <1> QED
    BY <1>1, <1>2, MergeArrayOK DEF Next, vars, Create, SetTags, Delete

(* The filter that a reader sends is the one mergeFilter promises.         *)
LEMMA SentIsMerged ==
    ASSUME ArrayOK, NEW r \in Reader, merged[r], r \notin overlapped
    PROVE  SentFilter(r) = MergeFilter(Scope[r], Filter)
  <1> DEFINE m == MergeFilter(Scope[r], Filter)
  <1>1. /\ Scope[r].requireTags = Elements(Require[r])
        /\ Scope[r].unlessTags = Elements(Unless[r])
        /\ Filter \in QueryFilter
    BY ScopedAssumption
  <1>2. ASSUME NEW s \in Slice
        PROVE  MergedSlice(r, s) = Filter[s] \cup Elements(Appended(r, s))
    <2>1. ASSUME InPlace(r, s)
          PROVE  {array[s][i] : i \in 1..Len(Appended(r, s))} = Elements(Appended(r, s))
      BY <2>1 DEF ArrayOK, Elements
    <2> QED
      BY <2>1 DEF MergedSlice
  <1>3. MergedSlice(r, "tags") = m.tags
    <2>1. MergedSlice(r, "tags") = Filter["tags"] \cup Elements(Appended(r, "tags"))
      BY <1>2 DEF Slice
    <2> QED
      BY <1>1, <2>1 DEF Appended, MergeFilter
  <1>4. MergedSlice(r, "unlessTags") = m.unlessTags
    <2>1. MergedSlice(r, "unlessTags") = Filter["unlessTags"] \cup Elements(Appended(r, "unlessTags"))
      BY <1>2 DEF Slice
    <2>2. Elements(<<>>) = {}
      BY DEF Elements
    <2> QED
      BY <1>1, <2>1, <2>2 DEF Appended, MergeFilter
  <1> QED
    BY <1>3, <1>4 DEF SentFilter, MergeFilter

LEMMA ArrayOKImpliesExact ==
    ASSUME CallerNarrows, ArrayOK, TagsOK
    PROVE  ScopedReadsExact
  <1> SUFFICES ASSUME NEW r \in Reader, merged[r], r \notin overlapped
               PROVE  Admitted(r) = InScope(r)
    BY DEF ScopedReadsExact
  <1> DEFINE m == MergeFilter(Scope[r], Filter)
  <1>1. Scope[r] \in ScopeConfig /\ Filter \in QueryFilter
    BY ScopedAssumption
  <1>2. SentFilter(r) = m
    BY SentIsMerged
  <1>3. ASSUME NEW e \in Entity
        PROVE  Matches(m, tags[e]) <=>
                  /\ EntityVisible(Scope[r], tags[e])
                  /\ Filter.tags \subseteq tags[e]
                  /\ Filter.anyTags = {} \/ Filter.anyTags \cap tags[e] # {}
                  /\ Scope[r].excludeTag = NoTag => Kept(Filter, tags[e])
    <2>1. tags[e] \in SUBSET Tag
      BY DEF TagsOK
    <2>2. Scope[r].excludeTag # NoTag => Filter.unlessTags \subseteq Scope[r].unlessTags
      BY DEF CallerNarrows
    <2> QED
      BY <1>1, <2>1, <2>2, MergedFilterIsScope
  <1>4. Admitted(r) = {e \in Entity : state[e] = "live" /\ Matches(m, tags[e])}
    BY <1>2 DEF Admitted
  <1> HIDE DEF m
  <1> QED
    BY <1>3, <1>4 DEF InScope

(* A limited page of a finite set is empty only if the set is, and smaller *)
(* than the limit only if it is the whole set.                             *)
LEMMA LimitedFacts ==
    ASSUME NEW S, IsFiniteSet(S), NEW n \in Nat \ {0}, NEW page \in Limited(S, n)
    PROVE  /\ page \subseteq S
           /\ page = {} => S = {}
           /\ page = S \/ Cardinality(page) = n
  <1>1. page \subseteq S /\ Cardinality(page) = IF Cardinality(S) < n THEN Cardinality(S) ELSE n
    BY DEF Limited
  <1>2. IsFiniteSet(page) /\ (Cardinality(page) = Cardinality(S) => page = S)
    BY <1>1, FS_Subset
  <1>3. Cardinality(S) \in Nat
    BY FS_CardinalityType
  <1>4. page = S \/ Cardinality(page) = n
    BY <1>1, <1>2
  <1>5. Cardinality({}) = 0
    BY FS_EmptySet
  <1> QED
    BY <1>1, <1>4, <1>5

(* Both queries of Search carry the merged Tags; what the first one lets   *)
(* through beyond the scope is hidden by an ExcludeTag or by the other     *)
(* clauses of the caller.                                                  *)
LEMMA ArrayOKImpliesSearch ==
    ASSUME CallerNarrows, IsFiniteSet(Entity), ArrayOK, TagsOK
    PROVE  SearchSound
  <1> SUFFICES ASSUME NEW r \in Reader, merged[r], r \notin overlapped,
                      NEW named \in SUBSET Entity, NEW found \in Search(r, named)
               PROVE  /\ named \cap InScope(r) \subseteq found \/ Cardinality(found) = MaxResults
                      /\ named \cap InScope(r) # {} => found # {} /\ found \subseteq named
                      /\ OnlyTags(r) => found \subseteq InScope(r)
    BY DEF SearchSound
  <1> DEFINE S == {e \in named : state[e] = "live" /\ SentFilter(r).tags \subseteq tags[e]}
  <1>1. SentFilter(r).tags = Filter.tags \cup Scope[r].requireTags
    BY SentIsMerged DEF MergeFilter
  <1>2. Admitted(r) = InScope(r)
    BY ArrayOKImpliesExact DEF ScopedReadsExact
  <1>3. named \cap InScope(r) \subseteq S /\ S \subseteq named
    BY <1>1 DEF InScope, EntityVisible
  <1>4. ASSUME OnlyTags(r) PROVE S \subseteq InScope(r)
    BY <1>1, <1>4 DEF OnlyTags, InScope, EntityVisible, Kept
  <1>5. IsFiniteSet(S)
    BY FS_Subset
  <1>6. SearchByDisplayName(r, named) = Limited(S, MaxResults)
    BY DEF SearchByDisplayName
  <1>7. MaxResults \in Nat \ {0}
    BY ScopedAssumption
  <1> HIDE DEF S
  <1>8. CASE {} \in SearchByDisplayName(r, named)
    <2>1. S = {}
      BY <1>5, <1>6, <1>7, <1>8, LimitedFacts
    <2>2. found \subseteq InScope(r)
      BY <1>2, <1>8 DEF Search, FindByTokens
    <2> QED
      BY <1>3, <2>1, <2>2
  <1>9. CASE {} \notin SearchByDisplayName(r, named)
    <2>1. found \in Limited(S, MaxResults) /\ found # {}
      BY <1>6, <1>9 DEF Search
    <2>2. found \subseteq S /\ (found = S \/ Cardinality(found) = MaxResults)
      BY <1>5, <1>7, <2>1, LimitedFacts
    <2> QED
      BY <1>3, <1>4, <2>1, <2>2
  <1> QED
    BY <1>8, <1>9

LEMMA InitTagsOK == Init => TagsOK
  BY DEF Init, TagsOK

LEMMA NextTagsOK ==
    ASSUME TagsOK, [Next]_vars
    PROVE  TagsOK'
  <1>1. ASSUME NEW r \in Reader, NEW e \in Entity, NEW T \in SUBSET Tag, Create(r, e, T)
        PROVE  TagsOK'
    <2>1. Scope[r].autoTags \in SUBSET Tag
      BY ScopedAssumption DEF ScopeConfig
    <2> QED
      BY <1>1, <2>1 DEF Create, TagsOK
  <1>2. ASSUME NEW e \in Entity, NEW T \in SUBSET Tag, SetTags(e, T)
        PROVE  TagsOK'
    BY <1>2 DEF SetTags, TagsOK
  <1>3. ASSUME UNCHANGED tags PROVE TagsOK'
    BY <1>3 DEF TagsOK
  <1> QED
    BY <1>1, <1>2, <1>3 DEF Next, vars, Delete, Merge, Query, tableVars

(* As long as no caller exempts what a scope hides, a filtered read admits *)
(* exactly what entityVisible does, for every set of readers, scopes and   *)
(* capacities, unless another scope appended other tags to the same filter *)
(* between its merge and its query.                                        *)
THEOREM ScopedReads ==
    ASSUME CallerNarrows
    PROVE  Spec => []ScopedReadsExact
  <1>1. Init => ArrayOK /\ TagsOK
    BY InitArrayOK, InitTagsOK
  <1>2. ArrayOK /\ TagsOK /\ [Next]_vars => (ArrayOK /\ TagsOK)'
    BY NextArrayOK, NextTagsOK
  <1>3. ArrayOK /\ TagsOK => ScopedReadsExact
    BY ArrayOKImpliesExact
  <1> QED
    BY <1>1, <1>2, <1>3, PTL DEF Spec

(* Under the same conditions Search finds an entity of the scope that has  *)
(* a matching name or returns a full page, looks for tokens only if there  *)
(* is none, and shows nothing outside a scope of required tags: for every  *)
(* finite set of entities and every limit.                                 *)
THEOREM ScopedSearch ==
    ASSUME CallerNarrows, IsFiniteSet(Entity)
    PROVE  Spec => []SearchSound
  <1>1. Init => ArrayOK /\ TagsOK
    BY InitArrayOK, InitTagsOK
  <1>2. ArrayOK /\ TagsOK /\ [Next]_vars => (ArrayOK /\ TagsOK)'
    BY NextArrayOK, NextTagsOK
  <1>3. ArrayOK /\ TagsOK => SearchSound
    BY ArrayOKImpliesSearch
  <1> QED
    BY <1>1, <1>2, <1>3, PTL DEF Spec
=============================================================================
