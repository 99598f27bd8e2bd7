---------------------------- MODULE PagesProofs ----------------------------
(***************************************************************************)
(* Paging and following, for every table, every set of writers and every   *)
(* choice of page sizes.                                                   *)
(***************************************************************************)
EXTENDS Pages, Integers, FiniteSetTheorems, WellFoundedInduction, TLAPS

-----------------------------------------------------------------------------
(* The image of a finite set under a function is finite.                   *)
LEMMA FiniteImage ==
    ASSUME NEW S, IsFiniteSet(S), NEW f, DOMAIN f = S, f = [x \in S |-> f[x]]
    PROVE  IsFiniteSet({f[x] : x \in S})
  <1> DEFINE T == {f[x] : x \in S}
  <1>1. f \in Surjection(S, T)
    BY DEF Surjection
  <1> HIDE DEF T
  <1>2. IsFiniteSet(T)
    BY <1>1, FS_Surjection
  <1> QED
    BY <1>2 DEF T

(* Some element of a set of numbers is the least.                          *)
LEMMA LeastNatural ==
    ASSUME NEW S \in SUBSET Nat, S # {}
    PROVE  \E t \in S : \A u \in S : t <= u
  <1> DEFINE R == OpToRel(<, Nat)
  <1>1. \A x, y \in Nat : x < y => <<x, y>> \in R
    BY DEF OpToRel
  <1>2. IsWellFoundedOn(R, Nat)
    BY NatLessThanWellFounded
  <1> HIDE DEF R
  <1>3. \E t \in S : \A u \in S : <<u, t>> \notin R
    BY <1>2, WFMin
  <1>4. PICK t \in S : \A u \in S : <<u, t>> \notin R
    BY <1>3
  <1>5. \A u \in S : ~(u < t)
    BY <1>1, <1>4
  <1>6. \A u \in S : t <= u
    BY <1>5
  <1> QED
    BY <1>6

-----------------------------------------------------------------------------
(* The tables.  Times are positive, so that no cursor is mistaken for nil; *)
(* events are numbered without gaps, and a pair has one relation.          *)

Moment == 1 .. (MaxTime + 1)

EntitiesOK(E) ==
    /\ E \in [Entity -> [st : {"none", "live", "deleted"}, updated : Nat, tags : SUBSET Tag]]
    /\ \A e \in Entity : E[e].st # "none" => E[e].updated \in Moment

RelationsOK(R) ==
    /\ R \subseteq [source : Entity, target : Entity, created : Moment]
    /\ IsFiniteSet(R)
    /\ \A r, q \in R : r.source = q.source /\ r.target = q.target => r = q

EventsOK(V) ==
    /\ V \subseteq [n : Nat, occurred : Moment, centre : BOOLEAN]
    /\ IsFiniteSet(V)
    /\ \A v \in V : v.n <= Cardinality(V)
    /\ \A v, u \in V : v.n = u.n => v = u

TablesOK ==
    /\ now \in Moment
    /\ start \in [Writer -> Moment \cup {0}]
    /\ EntitiesOK(entity) /\ RelationsOK(relation) /\ EventsOK(event)
    /\ tagged \in Nat

CallerOK ==
    /\ listing \in {"none", "pages", "done"}
    /\ kind \in Kind
    /\ cursor \in Nat
    /\ listing = "none" => /\ cursor = 0 /\ listed = {} /\ repeated = {}
                           /\ steady = {} /\ alone = {} /\ owed = {}

-----------------------------------------------------------------------------
(* What the pages say about the table while it changes.                    *)

(* The rows the listing is about.                                          *)
All == Rows(kind, entity, relation, event)

(* A row that has been listed and not been written since lies at or after  *)
(* the cursor; one that shares its time with no other and has not been     *)
(* listed lies before it.                                                  *)
PagingOK ==
    kind # "follow" =>
    /\ listing # "none" => alone \subseteq Unshared(All)
    /\ \A r \in All : r.id \in steady \cap listed => cursor # 0 /\ cursor <= r.at
    /\ steady \cap repeated = {}
    /\ listing = "pages" => (steady \cap alone) \ listed \subseteq Ids(Before(All, cursor))
    /\ listing = "done" => steady \cap alone \subseteq listed

(* An event that has been seen is not after Since; one that is owed is.    *)
FollowOK ==
    kind = "follow" =>
    /\ listing # "done"
    /\ repeated = {}
    /\ listed \subseteq Ids(All) /\ owed \subseteq Ids(All)
    /\ \A r \in All : r.id \in listed => r.at <= cursor
    /\ \A r \in All : r.id \in owed => r.id \in listed \/ cursor < r.at

PInv == TablesOK /\ CallerOK /\ PagingOK /\ FollowOK

-----------------------------------------------------------------------------
(* Times.                                                                  *)

(* Some moment of a set is the greatest.                                   *)
LEMMA GreatestMoment ==
    ASSUME NEW S \in SUBSET Moment, S # {}
    PROVE  \E t \in S : \A u \in S : t >= u
  <1> DEFINE N == MaxTime + 1
             T == {N - t : t \in S}
  <1>1. N \in Nat /\ Moment = 1 .. N
    BY PagesAssumption DEF Moment
  <1> HIDE DEF N
  <1>2. T \in SUBSET Nat /\ T # {}
    <2>1. \A t \in S : t \in 1 .. N
      BY <1>1
    <2>2. \A t \in S : N - t \in Nat
      BY <1>1, <2>1
    <2> QED
      BY <2>2
  <1>3. PICK m \in T : \A u \in T : m <= u
    BY <1>2, LeastNatural
  <1>4. PICK t \in S : m = N - t
    BY <1>3
  <1>5. ASSUME NEW u \in S PROVE t >= u
    <2>1. N - u \in T
      OBVIOUS
    <2>2. N - t <= N - u
      BY <1>3, <1>4, <2>1
    <2> QED
      BY <1>1, <2>2
  <1> QED
    BY <1>5

(* A set of rows with times, each id in one of them.                       *)
RowsOK(X) ==
    /\ IsFiniteSet(X)
    /\ \A r \in X : r.at \in Moment
    /\ \A r, q \in X : r.id = q.id => r = q

LEMMA SubRows ==
    ASSUME NEW X, NEW Y, RowsOK(X), Y \subseteq X
    PROVE  RowsOK(Y)
  BY FS_Subset DEF RowsOK

LEMMA RowFields ==
    ASSUME NEW id, NEW t
    PROVE  Row(id, t).id = id /\ Row(id, t).at = t
  BY DEF Row

LEMMA TupleFields ==
    ASSUME NEW a, NEW b, NEW c, NEW x, NEW y, NEW z
    PROVE  /\ <<a, b>> = <<x, y>> => b = y
           /\ <<a, b, c>> = <<x, y, z>> => b = y /\ c = z
  OBVIOUS

(* Every listing is one of these.                                          *)
LEMMA EntityRowsOK ==
    ASSUME NEW E, EntitiesOK(E)
    PROVE  RowsOK(EntityRows(E)) /\ FilteredRows(E) \subseteq EntityRows(E)
  <1> DEFINE S == {x \in Entity : E[x].st = "live"}
             f == [e \in S |-> Row(<<"entity", e>>, E[e].updated)]
  <1>1. IsFiniteSet(S)
    BY PagesAssumption, FS_Subset
  <1>2. EntityRows(E) = {f[e] : e \in S}
    BY DEF EntityRows
  <1>3. IsFiniteSet(EntityRows(E))
    <2> HIDE DEF S
    <2>1. DOMAIN f = S /\ f = [x \in S |-> f[x]]
      OBVIOUS
    <2> HIDE DEF f
    <2> QED
      BY <1>1, <1>2, <2>1, FiniteImage
  <1>4. \A r \in EntityRows(E) :
           \E e \in Entity : r = Row(<<"entity", e>>, E[e].updated) /\ E[e].st = "live"
    BY DEF EntityRows
  <1>5. \A r \in EntityRows(E) : r.at \in Moment
    <2> SUFFICES ASSUME NEW r \in EntityRows(E) PROVE r.at \in Moment
      OBVIOUS
    <2>1. PICK e \in Entity : r = Row(<<"entity", e>>, E[e].updated) /\ E[e].st = "live"
      BY <1>4
    <2> QED
      BY <2>1, RowFields DEF EntitiesOK
  <1>6. \A r, q \in EntityRows(E) : r.id = q.id => r = q
    <2> SUFFICES ASSUME NEW r \in EntityRows(E), NEW q \in EntityRows(E), r.id = q.id
                 PROVE  r = q
      OBVIOUS
    <2>1. PICK e \in Entity : r = Row(<<"entity", e>>, E[e].updated)
      BY <1>4
    <2>2. PICK g \in Entity : q = Row(<<"entity", g>>, E[g].updated)
      BY <1>4
    <2>3. <<"entity", e>> = <<"entity", g>>
      BY <2>1, <2>2, RowFields
    <2>4. e = g
      BY <2>3, TupleFields
    <2> QED
      BY <2>1, <2>2, <2>4
  <1>7. FilteredRows(E) \subseteq EntityRows(E)
    BY DEF EntityRows, FilteredRows
  <1> QED
    BY <1>3, <1>5, <1>6, <1>7 DEF RowsOK

LEMMA RelationRowsOK ==
    ASSUME NEW R, RelationsOK(R)
    PROVE  RowsOK(RelationsFrom(R)) /\ RowsOK(RelationsTo(R))
  <1> DEFINE X == {Row(<<"relation", r.source, r.target>>, r.created) : r \in R}
             f == [r \in R |-> Row(<<"relation", r.source, r.target>>, r.created)]
  <1>1. X = {f[r] : r \in R} /\ DOMAIN f = R /\ f = [r \in R |-> f[r]]
    OBVIOUS
  <1>2. IsFiniteSet(X)
    <2> HIDE DEF f, X
    <2> QED
      BY <1>1, FiniteImage DEF RelationsOK
  <1>3. \A x \in X : \E r \in R : x = Row(<<"relation", r.source, r.target>>, r.created)
    OBVIOUS
  <1>4. RelationsFrom(R) \subseteq X /\ RelationsTo(R) \subseteq X
    BY DEF RelationsFrom, RelationsTo
  <1> HIDE DEF X
  <1>5. \A x \in X : x.at \in Moment
    <2> SUFFICES ASSUME NEW x \in X PROVE x.at \in Moment
      OBVIOUS
    <2>1. PICK r \in R : x = Row(<<"relation", r.source, r.target>>, r.created)
      BY <1>3
    <2> QED
      BY <2>1, RowFields DEF RelationsOK
  <1>6. \A x, y \in X : x.id = y.id => x = y
    <2> SUFFICES ASSUME NEW x \in X, NEW y \in X, x.id = y.id PROVE x = y
      OBVIOUS
    <2>1. PICK r \in R : x = Row(<<"relation", r.source, r.target>>, r.created)
      BY <1>3
    <2>2. PICK q \in R : y = Row(<<"relation", q.source, q.target>>, q.created)
      BY <1>3
    <2>3. <<"relation", r.source, r.target>> = <<"relation", q.source, q.target>>
      BY <2>1, <2>2, RowFields
    <2>4. r.source = q.source /\ r.target = q.target
      BY <2>3, TupleFields
    <2>5. r = q
      BY <2>4 DEF RelationsOK
    <2> QED
      BY <2>1, <2>2, <2>5
  <1>7. RowsOK(X)
    BY <1>2, <1>5, <1>6 DEF RowsOK
  <1> QED
    BY <1>4, <1>7, SubRows

LEMMA EventRowsOK ==
    ASSUME NEW V, EventsOK(V)
    PROVE  RowsOK(EventRows(V)) /\ EntityEventRows(V) \subseteq EventRows(V)
  <1> DEFINE f == [v \in V |-> Row(<<"event", v.n>>, v.occurred)]
  <1>1. EventRows(V) = {f[v] : v \in V} /\ DOMAIN f = V /\ f = [v \in V |-> f[v]]
    BY DEF EventRows
  <1>2. IsFiniteSet(EventRows(V))
    <2> HIDE DEF f
    <2> QED
      BY <1>1, FiniteImage DEF EventsOK
  <1>3. \A x \in EventRows(V) : \E v \in V : x = Row(<<"event", v.n>>, v.occurred)
    BY DEF EventRows
  <1>4. \A x \in EventRows(V) : x.at \in Moment
    <2> SUFFICES ASSUME NEW x \in EventRows(V) PROVE x.at \in Moment
      OBVIOUS
    <2>1. PICK v \in V : x = Row(<<"event", v.n>>, v.occurred)
      BY <1>3
    <2> QED
      BY <2>1, RowFields DEF EventsOK
  <1>5. \A x, y \in EventRows(V) : x.id = y.id => x = y
    <2> SUFFICES ASSUME NEW x \in EventRows(V), NEW y \in EventRows(V), x.id = y.id PROVE x = y
      OBVIOUS
    <2>1. PICK v \in V : x = Row(<<"event", v.n>>, v.occurred)
      BY <1>3
    <2>2. PICK u \in V : y = Row(<<"event", u.n>>, u.occurred)
      BY <1>3
    <2>3. <<"event", v.n>> = <<"event", u.n>>
      BY <2>1, <2>2, RowFields
    <2>4. v.n = u.n
      BY <2>3, TupleFields
    <2>5. v = u
      BY <2>4 DEF EventsOK
    <2> QED
      BY <2>1, <2>2, <2>5
  <1>6. EntityEventRows(V) \subseteq EventRows(V)
    BY DEF EntityEventRows, EventRows
  <1> QED
    BY <1>2, <1>4, <1>5, <1>6 DEF RowsOK

(* A query with a cursor returns the rows of the listing on one side of it. *)
LEMMA CutAtZero ==
    ASSUME NEW X, RowsOK(X)
    PROVE  Before(X, 0) = X /\ After(X, 0) = X
  BY PagesAssumption DEF Before, After, RowsOK, Moment

LEMMA Cuts ==
    ASSUME NEW k \in Kind, NEW E, NEW R, NEW V, NEW c \in Nat,
           EntitiesOK(E), RelationsOK(R), EventsOK(V)
    PROVE  /\ RowsOK(Rows(k, E, R, V))
           /\ k # "follow" => From(k, E, R, V, c) = Before(Rows(k, E, R, V), c)
           /\ k = "follow" => /\ From(k, E, R, V, c) = After(Rows(k, E, R, V), c)
                              /\ Rows(k, E, R, V) = EntityEventRows(V)
  <1>1. /\ RowsOK(EntityRows(E)) /\ RowsOK(FilteredRows(E))
        /\ RowsOK(RelationsFrom(R)) /\ RowsOK(RelationsTo(R))
        /\ RowsOK(EventRows(V)) /\ RowsOK(EntityEventRows(V))
    BY EntityRowsOK, RelationRowsOK, EventRowsOK, SubRows
  <1>2. k \in {"byType", "filtered", "from", "to", "events", "follow"}
    BY PagesAssumption
  <1>3. CASE k = "byType"
    BY <1>1, <1>3, CutAtZero DEF Rows, From, GetEntitiesByType
  <1>4. CASE k = "filtered"
    BY <1>1, <1>4, CutAtZero DEF Rows, From, GetEntitiesByTypeFiltered
  <1>5. CASE k = "from"
    BY <1>1, <1>5, CutAtZero DEF Rows, From, GetRelationsFromEntity
  <1>6. CASE k = "to"
    BY <1>1, <1>6, CutAtZero DEF Rows, From, GetRelationsToEntity
  <1>7. CASE k = "events"
    BY <1>1, <1>7, CutAtZero DEF Rows, From, GetAllEvents
  <1>8. CASE k = "follow"
    BY <1>1, <1>8, CutAtZero DEF Rows, From, GetEventsForEntity
  <1> QED
    BY <1>2, <1>3, <1>4, <1>5, <1>6, <1>7, <1>8

(* What a page tells its caller.                                           *)
LEMMA PageFacts ==
    ASSUME NEW X, RowsOK(X), NEW page \in SUBSET X, NEW size \in PageSizes,
           IsPage(page, X, size)
    PROVE  /\ page = {} => X = {}
           /\ Cardinality(page) # size => page = X
           /\ page # {} =>
                 /\ LastTime(page) \in Moment /\ FirstTime(page) \in Moment
                 /\ \E p \in page : p.at = LastTime(page)
                 /\ \A p \in page : LastTime(page) <= p.at /\ p.at <= FirstTime(page)
  <1>1. /\ IsFiniteSet(X) /\ IsFiniteSet(page)
        /\ Cardinality(X) \in Nat /\ Cardinality(page) \in Nat /\ size \in Nat \ {0}
    BY PagesAssumption, FS_Subset, FS_CardinalityType DEF RowsOK
  <1>2. Cardinality(page) = IF Cardinality(X) < size THEN Cardinality(X) ELSE size
    BY DEF IsPage
  <1>3. ASSUME page = {} PROVE X = {}
    <2>1. Cardinality(page) = 0
      BY <1>3, FS_EmptySet
    <2>2. Cardinality(X) = 0
      BY <1>1, <1>2, <2>1
    <2> QED
      BY <1>1, <2>2, FS_EmptySet
  <1>4. ASSUME Cardinality(page) # size PROVE page = X
    <2>1. Cardinality(page) = Cardinality(X)
      BY <1>1, <1>2, <1>4
    <2> QED
      BY <1>1, <2>1, FS_Subset
  <1>5. ASSUME page # {}
        PROVE  /\ LastTime(page) \in Moment /\ FirstTime(page) \in Moment
               /\ \E p \in page : p.at = LastTime(page)
               /\ \A p \in page : LastTime(page) <= p.at /\ p.at <= FirstTime(page)
    <2> DEFINE T == {r.at : r \in page}
    <2>1. T \in SUBSET Moment /\ T # {} /\ Moment \in SUBSET Nat
      BY <1>5, PagesAssumption DEF RowsOK, Moment
    <2>2. \A t \in T : \E p \in page : t = p.at
      OBVIOUS
    <2>3. \A p \in page : p.at \in T
      OBVIOUS
    <2>4. LastTime(page) = CHOOSE t \in T : \A r \in page : t <= r.at
      BY DEF LastTime
    <2>5. FirstTime(page) = CHOOSE t \in T : \A r \in page : t >= r.at
      BY DEF FirstTime
    <2> HIDE DEF T
    <2>6. \E t \in T : \A r \in page : t <= r.at
      BY <2>1, <2>3, LeastNatural
    <2>7. \E t \in T : \A r \in page : t >= r.at
      BY <2>1, <2>3, GreatestMoment
    <2>8. LastTime(page) \in T /\ \A r \in page : LastTime(page) <= r.at
      BY <2>4, <2>6
    <2>9. FirstTime(page) \in T /\ \A r \in page : FirstTime(page) >= r.at
      BY <2>5, <2>7
    <2>10. \A r \in page : r.at <= FirstTime(page)
      <3> SUFFICES ASSUME NEW r \in page PROVE r.at <= FirstTime(page)
        OBVIOUS
      <3>1. r.at \in Nat /\ FirstTime(page) \in Nat /\ FirstTime(page) >= r.at
        BY <2>1, <2>3, <2>9
      <3> QED
        BY <3>1
    <2> QED
      BY <2>1, <2>2, <2>8, <2>9, <2>10
  <1> QED
    BY <1>3, <1>4, <1>5

(* The rows of the listing are in order.                                   *)
LEMMA AllOK ==
    ASSUME PInv
    PROVE  /\ RowsOK(All)
           /\ kind # "follow" => From(kind, entity, relation, event, cursor) = Before(All, cursor)
           /\ kind = "follow" => /\ From(kind, entity, relation, event, cursor) = After(All, cursor)
                                 /\ All = EntityEventRows(event)
  BY Cuts DEF PInv, TablesOK, CallerOK, All

LEMMA InIds ==
    ASSUME NEW X, NEW id
    PROVE  id \in Ids(X) <=> \E r \in X : r.id = id
  BY DEF Ids

(* A page.                                                                 *)
LEMMA ReadPageStep ==
    ASSUME PInv, ReadPage
    PROVE  PInv'
  <1>1. /\ listing = "pages" /\ kind # "follow" /\ TablesOK /\ CallerOK /\ cursor \in Nat
        /\ UNCHANGED <<now, start, entity, relation, event, tagged, kind, steady, alone, owed>>
    BY DEF ReadPage, PInv, tables, histVars, CallerOK
  <1>2. RowsOK(All) /\ From(kind, entity, relation, event, cursor) = Before(All, cursor)
    BY <1>1, AllOK
  <1>3. PICK page \in SUBSET Before(All, cursor), size \in PageSizes :
           /\ IsPage(page, Before(All, cursor), size)
           /\ listed' = listed \cup Ids(page)
           /\ repeated' = repeated \cup (listed \cap Ids(page))
           /\ IF page = {} THEN listing' = "done" /\ UNCHANGED cursor
              ELSE cursor' = LastTime(page) /\ UNCHANGED listing
    BY <1>2 DEF ReadPage
  <1>4. /\ Before(All, cursor) \subseteq All /\ RowsOK(Before(All, cursor))
        /\ \A r \in Before(All, cursor) : cursor = 0 \/ r.at < cursor
    BY <1>2, SubRows DEF Before
  <1>5. /\ page = {} => Before(All, cursor) = {}
        /\ page # {} =>
              /\ LastTime(page) \in Moment
              /\ \E p \in page : p.at = LastTime(page)
              /\ \A p \in page : LastTime(page) <= p.at
    BY <1>3, <1>4, PageFacts
  <1>6. All' = All
    BY <1>1 DEF All
  <1>7. \A r \in All : r.at \in Nat \ {0}
    BY <1>2, PagesAssumption DEF RowsOK, Moment
  <1>8. TablesOK' /\ CallerOK'
    BY <1>1, <1>3, <1>5, PagesAssumption DEF TablesOK, CallerOK, Moment
  <1>9. /\ alone \subseteq Unshared(All)
        /\ \A r \in All : r.id \in steady \cap listed => cursor # 0 /\ cursor <= r.at
        /\ steady \cap repeated = {}
        /\ (steady \cap alone) \ listed \subseteq Ids(Before(All, cursor))
    BY <1>1 DEF PInv, PagingOK
  <1>10. steady \cap repeated' = {}
    <2> SUFFICES ASSUME NEW id \in steady, id \in listed, id \in Ids(page) PROVE FALSE
      BY <1>3, <1>9
    <2>1. PICK p \in page : p.id = id
      BY InIds
    <2>2. p \in All /\ (cursor = 0 \/ p.at < cursor)
      BY <1>3, <1>4
    <2>3. cursor # 0 /\ cursor <= p.at
      BY <1>9, <2>1, <2>2
    <2> QED
      BY <1>1, <1>7, <2>2, <2>3
  <1>11. ASSUME NEW r \in All, r.id \in steady, r.id \in listed'
         PROVE  cursor' # 0 /\ cursor' <= r.at
    <2>1. CASE page = {}
      <3>1. listed' = listed /\ cursor' = cursor
        BY <1>3, <2>1 DEF Ids
      <3> QED
        BY <1>9, <1>11, <3>1
    <2>2. CASE page # {}
      <3>1. PICK q \in page : q.at = LastTime(page)
        BY <1>5, <2>2
      <3>2. /\ cursor' = LastTime(page) /\ cursor' \in Nat \ {0} /\ q.at = cursor'
            /\ (cursor = 0 \/ cursor' < cursor)
        BY <1>3, <1>4, <1>5, <1>7, <2>2, <3>1
      <3>3. CASE r.id \in listed
        <4>1. cursor # 0 /\ cursor <= r.at
          BY <1>9, <1>11, <3>3
        <4> QED
          BY <1>1, <1>7, <3>2, <4>1
      <3>4. CASE r.id \in Ids(page)
        <4>1. PICK p \in page : p.id = r.id
          BY <3>4, InIds
        <4>2. p \in All
          BY <1>3, <1>4
        <4>3. p = r
          BY <1>2, <4>1, <4>2 DEF RowsOK
        <4> QED
          BY <1>5, <2>2, <3>2, <4>3
      <3> QED
        BY <1>3, <1>11, <3>3, <3>4
    <2> QED
      BY <2>1, <2>2
  <1>12. ASSUME listing' = "pages", NEW id \in steady, id \in alone, id \notin listed'
         PROVE  id \in Ids(Before(All, cursor'))
    <2>1. page # {} /\ cursor' = LastTime(page)
      BY <1>3, <1>12
    <2>2. id \notin listed /\ id \notin Ids(page)
      BY <1>3, <1>12
    <2>3. PICK r \in Before(All, cursor) : r.id = id
      BY <1>9, <1>12, <2>2, InIds
    <2>4. r \notin page /\ r \in All
      BY <1>4, <2>2, <2>3, InIds
    <2>5. PICK q \in page : q.at = LastTime(page)
      BY <1>5, <2>1
    <2>6. q.at >= r.at /\ q \in All /\ q # r
      BY <1>3, <1>4, <2>3, <2>4 DEF IsPage
    <2>7. PICK x \in All : x.id = id /\ \A s \in All : s.at = x.at => s = x
      BY <1>9, <1>12 DEF Unshared
    <2>8. x = r
      BY <1>2, <2>3, <2>4, <2>7 DEF RowsOK
    <2>9. q.at # r.at
      BY <2>6, <2>7, <2>8
    <2>10. r.at < cursor'
      BY <1>7, <2>1, <2>4, <2>5, <2>6, <2>9
    <2>11. r \in Before(All, cursor')
      BY <2>4, <2>10 DEF Before
    <2> QED
      BY <2>3, <2>11, InIds
  <1>13. ASSUME listing' = "done" PROVE steady \cap alone \subseteq listed'
    <2>1. page = {}
      BY <1>1, <1>3, <1>13
    <2>2. (steady \cap alone) \ listed \subseteq {}
      BY <1>5, <1>9, <2>1 DEF Ids
    <2> QED
      BY <1>3, <2>2
  <1>14. (steady \cap alone) \ listed' \subseteq Ids(Before(All, cursor')) \/ listing' # "pages"
    BY <1>12
  <1>15. /\ alone' \subseteq Unshared(All')
         /\ Before(All, cursor)' = Before(All, cursor')
    BY <1>1, <1>6, <1>9 DEF Before
  <1>16. PagingOK'
    BY <1>1, <1>6, <1>10, <1>11, <1>13, <1>14, <1>15 DEF PagingOK
  <1>17. FollowOK'
    BY <1>1 DEF FollowOK
  <1> QED
    BY <1>8, <1>16, <1>17 DEF PInv

(* A poll for the events after Since.                                      *)
LEMMA PollEventsStep ==
    ASSUME PInv, PollEvents
    PROVE  PInv'
  <1>1. /\ listing = "pages" /\ kind = "follow" /\ TablesOK /\ CallerOK /\ cursor \in Nat
        /\ UNCHANGED <<now, start, entity, relation, event, tagged, listing, kind, steady, alone>>
    BY DEF PollEvents, PInv, tables, CallerOK
  <1>2. RowsOK(All) /\ From(kind, entity, relation, event, cursor) = After(All, cursor)
    BY <1>1, AllOK
  <1>3. PICK page \in SUBSET After(All, cursor), size \in PageSizes :
           /\ IsPage(page, After(All, cursor), size)
           /\ listed' = listed \cup Ids(page)
           /\ repeated' = repeated \cup (listed \cap Ids(page))
           /\ cursor' = FirstTime(page)
           /\ owed' = IF Cardinality(page) = size THEN owed \cap listed' ELSE owed
           /\ After(All, cursor) # {}
    BY <1>2 DEF PollEvents
  <1>4. /\ After(All, cursor) \subseteq All /\ RowsOK(After(All, cursor))
        /\ \A r \in After(All, cursor) : r.at > cursor
    BY <1>2, SubRows DEF After
  <1>5. /\ page # {} /\ cursor' \in Moment
        /\ Cardinality(page) # size => page = After(All, cursor)
        /\ \A p \in page : p.at <= cursor'
    BY <1>3, <1>4, PageFacts
  <1>6. All' = All
    BY <1>1 DEF All
  <1>7. cursor' \in Nat /\ \A r \in All : r.at \in Nat \ {0}
    BY <1>2, <1>5, PagesAssumption DEF RowsOK, Moment
  <1>8. TablesOK' /\ CallerOK'
    BY <1>1, <1>7 DEF TablesOK, CallerOK
  <1>9. /\ repeated = {} /\ listed \subseteq Ids(All) /\ owed \subseteq Ids(All)
        /\ \A r \in All : r.id \in listed => r.at <= cursor
        /\ \A r \in All : r.id \in owed => r.id \in listed \/ cursor < r.at
    BY <1>1 DEF PInv, FollowOK
  <1>10. repeated' = {}
    <2> SUFFICES ASSUME NEW id \in listed, id \in Ids(page) PROVE FALSE
      BY <1>3, <1>9
    <2>1. PICK p \in page : p.id = id
      BY InIds
    <2>2. p \in All /\ p.at > cursor /\ p.at <= cursor
      BY <1>3, <1>4, <1>9, <2>1
    <2> QED
      BY <1>1, <1>7, <2>2
  <1>11. listed' \subseteq Ids(All) /\ owed' \subseteq Ids(All)
    BY <1>3, <1>4, <1>9 DEF Ids
  <1>12. ASSUME NEW r \in All, r.id \in listed' PROVE r.at <= cursor'
    <2>1. CASE r.id \in listed
      <3>1. PICK p \in page : TRUE
        BY <1>5
      <3>2. p \in All /\ p.at > cursor /\ p.at <= cursor' /\ r.at <= cursor
        BY <1>3, <1>4, <1>5, <1>9, <2>1
      <3> QED
        BY <1>1, <1>7, <3>2
    <2>2. CASE r.id \in Ids(page)
      <3>1. PICK p \in page : p.id = r.id
        BY <2>2, InIds
      <3>2. p = r
        BY <1>2, <1>3, <1>4, <3>1 DEF RowsOK
      <3> QED
        BY <1>5, <3>2
    <2> QED
      BY <1>3, <1>12, <2>1, <2>2
  <1>13. ASSUME NEW r \in All, r.id \in owed' PROVE r.id \in listed' \/ cursor' < r.at
    <2>1. CASE Cardinality(page) = size
      BY <1>3, <1>13, <2>1
    <2>2. CASE Cardinality(page) # size
      <3>1. r.id \in owed
        BY <1>3, <1>13, <2>2
      <3>2. CASE r.id \in listed
        BY <1>3, <3>2
      <3>3. CASE cursor < r.at
        <4>1. r \in After(All, cursor)
          BY <1>1, <1>7, <3>3 DEF After
        <4>2. r.id \in Ids(page)
          BY <1>5, <2>2, <4>1, InIds
        <4> QED
          BY <1>3, <4>2
      <3> QED
        BY <1>9, <3>1, <3>2, <3>3
    <2> QED
      BY <2>1, <2>2
  <1>14. FollowOK'
    <2>1. Ids(All)' = Ids(All)
      BY <1>6 DEF Ids
    <2> QED
      BY <1>1, <1>6, <1>10, <1>11, <1>12, <1>13, <2>1 DEF FollowOK
  <1>15. PagingOK'
    BY <1>1 DEF PagingOK
  <1> QED
    BY <1>8, <1>14, <1>15 DEF PInv

(* A transaction becomes visible.  Rows that it did not write are where    *)
(* they were, and its events are new.                                      *)
LEMMA PublishStep ==
    ASSUME PInv, NEW w \in Writer, NEW E, NEW R, NEW V, Publish(w, E, R, V),
           EntitiesOK(E), RelationsOK(R), EventsOK(V), event \subseteq V,
           listing # "done", tagged' \in Nat
    PROVE  PInv'
  <1> DEFINE new == Rows(kind, E, R, V)
  <1>1. TablesOK /\ CallerOK /\ kind \in Kind /\ cursor \in Nat
    BY DEF PInv, CallerOK
  <1>2. /\ entity' = E /\ relation' = R /\ event' = V
        /\ UNCHANGED <<now, listing, kind, cursor, listed, repeated>>
        /\ start' = [start EXCEPT ![w] = 0]
    BY DEF Publish, pageVars
  <1>3. /\ listing = "pages" =>
              /\ steady' = steady \ Written(kind, E, R, V)
              /\ alone' = alone \cap Unshared(new)
              /\ owed' = owed \cup IF kind = "follow" THEN Ids(From(kind, E, R, V \ event, cursor))
                                   ELSE {}
        /\ listing # "pages" => UNCHANGED <<steady, alone, owed>>
    BY DEF Publish, histVars
  <1>4. RowsOK(All) /\ RowsOK(new)
    BY <1>1, AllOK, Cuts
  <1>5. All' = new
    BY <1>2 DEF All
  <1> HIDE DEF new
  <1>6. TablesOK'
    BY <1>1, <1>2 DEF TablesOK
  <1>7. CallerOK'
    BY <1>1, <1>2, <1>3 DEF CallerOK
  <1>8. CASE listing = "none"
    <2>1. listed = {} /\ repeated = {} /\ steady = {} /\ alone = {} /\ owed = {}
      BY <1>1, <1>8 DEF CallerOK
    <2>2. /\ listing' = "none" /\ listed' = {} /\ repeated' = {}
          /\ steady' = {} /\ alone' = {} /\ owed' = {}
      BY <1>2, <1>3, <1>8, <2>1
    <2>3. PagingOK' /\ FollowOK'
      BY <2>2 DEF PagingOK, FollowOK
    <2> QED
      BY <1>6, <1>7, <2>3 DEF PInv
  <1>9. CASE listing = "pages" /\ kind # "follow"
    <2>1. /\ \A r \in All : r.id \in steady \cap listed => cursor # 0 /\ cursor <= r.at
          /\ steady \cap repeated = {}
          /\ (steady \cap alone) \ listed \subseteq Ids(Before(All, cursor))
      BY <1>9 DEF PInv, PagingOK
    <2>2. ASSUME NEW r, r.id \in steady' PROVE r \in All <=> r \in new
      <3>1. r.id \notin Ids((All \ new) \cup (new \ All))
        BY <1>3, <1>9, <2>2 DEF Written, All, new
      <3> QED
        BY <3>1, InIds
    <2>3. steady' \subseteq steady /\ alone' \subseteq alone /\ alone' \subseteq Unshared(new)
      BY <1>3, <1>9
    <2>4. \A r \in new : r.id \in steady' \cap listed => cursor # 0 /\ cursor <= r.at
      BY <2>1, <2>2, <2>3
    <2>5. ASSUME NEW id \in steady', id \in alone', id \notin listed
          PROVE  id \in Ids(Before(new, cursor))
      <3>1. PICK r \in Before(All, cursor) : r.id = id
        BY <2>1, <2>3, <2>5, InIds
      <3>2. r \in All /\ r \in new
        BY <2>2, <2>5, <3>1 DEF Before
      <3>3. r \in Before(new, cursor)
        BY <3>1, <3>2 DEF Before
      <3> QED
        BY <3>1, <3>3, InIds
    <2>6. Unshared(All)' = Unshared(new) /\ Ids(Before(All, cursor))' = Ids(Before(new, cursor))
      BY <1>2, <1>5 DEF Unshared, Ids, Before
    <2>7. PagingOK'
      BY <1>2, <1>5, <1>9, <2>1, <2>3, <2>4, <2>5, <2>6 DEF PagingOK
    <2>8. FollowOK'
      BY <1>2, <1>9 DEF FollowOK
    <2> QED
      BY <1>6, <1>7, <2>7, <2>8 DEF PInv
  <1>10. CASE listing = "pages" /\ kind = "follow"
    <2> DEFINE fresh == EntityEventRows(V \ event)
    <2>1. All = EntityEventRows(event) /\ new = EntityEventRows(V)
      BY <1>1, <1>10, AllOK, Cuts DEF new
    <2>2. All \subseteq new /\ fresh \subseteq new
      BY <2>1 DEF EntityEventRows, EventRows
    <2>3. owed' = owed \cup Ids(After(fresh, cursor))
      BY <1>3, <1>10 DEF From, GetEventsForEntity
    <2> HIDE DEF fresh
    <2>4. /\ repeated = {} /\ listed \subseteq Ids(All) /\ owed \subseteq Ids(All)
          /\ \A r \in All : r.id \in listed => r.at <= cursor
          /\ \A r \in All : r.id \in owed => r.id \in listed \/ cursor < r.at
      BY <1>10 DEF PInv, FollowOK
    <2>5. ASSUME NEW r \in new, r.id \in Ids(All) PROVE r \in All
      <3>1. PICK q \in All : q.id = r.id
        BY <2>5, InIds
      <3>2. q = r
        BY <1>4, <2>2, <3>1 DEF RowsOK
      <3> QED
        BY <3>2
    <2>6. Ids(All) \subseteq Ids(new) /\ Ids(After(fresh, cursor)) \subseteq Ids(new)
      BY <2>2 DEF Ids, After
    <2>7. \A r \in new : r.id \in listed => r.at <= cursor
      BY <2>4, <2>5
    <2>8. ASSUME NEW r \in new, r.id \in owed' PROVE r.id \in listed \/ cursor < r.at
      <3>1. CASE r.id \in owed
        BY <2>4, <2>5, <3>1
      <3>2. CASE r.id \in Ids(After(fresh, cursor))
        <4>1. PICK q \in After(fresh, cursor) : q.id = r.id
          BY <3>2, InIds
        <4>2. q \in new /\ q.at > cursor
          BY <2>2 DEF After
        <4>3. q = r /\ r.at \in Nat
          BY <1>4, <4>1, <4>2, PagesAssumption DEF RowsOK, Moment
        <4> QED
          BY <1>1, <4>2, <4>3
      <3> QED
        BY <2>3, <2>8, <3>1, <3>2
    <2>9. listed \subseteq Ids(new) /\ owed' \subseteq Ids(new)
      BY <2>3, <2>4, <2>6
    <2>10. Ids(All)' = Ids(new)
      BY <1>5 DEF Ids
    <2>11. FollowOK'
      BY <1>2, <1>5, <1>10, <2>4, <2>7, <2>8, <2>9, <2>10 DEF FollowOK
    <2>12. PagingOK'
      BY <1>2, <1>10 DEF PagingOK
    <2> QED
      BY <1>6, <1>7, <2>11, <2>12 DEF PInv
  <1> QED
    BY <1>1, <1>8, <1>9, <1>10 DEF CallerOK

(* The caller asks for the first page, or begins to follow.                *)
LEMMA StartListingStep ==
    ASSUME PInv, StartListing
    PROVE  PInv'
  <1>1. /\ TablesOK /\ CallerOK /\ listing' = "pages"
        /\ cursor = 0 /\ listed = {} /\ repeated = {}
        /\ UNCHANGED <<now, start, entity, relation, event, tagged, kind, cursor, listed, repeated>>
        /\ steady' = Ids(All) /\ alone' = Unshared(All)
        /\ owed' = IF kind = "follow" THEN Ids(All) ELSE {}
    BY DEF StartListing, PInv, CallerOK, tables, All
  <1>2. RowsOK(All) /\ All' = All
    BY <1>1, AllOK DEF All
  <1>3. \A r \in All : r.at \in Nat \ {0}
    BY <1>2, PagesAssumption DEF RowsOK, Moment
  <1>4. /\ Unshared(All)' = Unshared(All) /\ Ids(All)' = Ids(All)
        /\ Ids(Before(All, cursor))' = Ids(All)
    BY <1>1, <1>2, CutAtZero DEF Unshared, Ids, Before
  <1>5. TablesOK' /\ CallerOK'
    BY <1>1 DEF TablesOK, CallerOK
  <1>6. PagingOK'
    BY <1>1, <1>2, <1>4 DEF PagingOK
  <1>7. FollowOK'
    BY <1>1, <1>2, <1>3, <1>4 DEF FollowOK
  <1> QED
    BY <1>5, <1>6, <1>7 DEF PInv

(* A step of the clock or of a transaction that nobody sees.               *)
LEMMA UnseenStep ==
    ASSUME PInv, now' \in Moment, start' \in [Writer -> Moment \cup {0}],
           UNCHANGED <<tables, pageVars, histVars>>
    PROVE  PInv'
  <1>1. UNCHANGED <<entity, relation, event, tagged, listing, kind, cursor, listed, repeated,
                    steady, alone, owed>>
    BY DEF tables, pageVars, histVars
  <1>2. All' = All
    BY <1>1 DEF All
  <1>3. /\ Unshared(All)' = Unshared(All) /\ Ids(All)' = Ids(All)
        /\ Ids(Before(All, cursor))' = Ids(Before(All, cursor))
    BY <1>1, <1>2 DEF Unshared, Ids, Before
  <1>4. TablesOK' /\ CallerOK'
    BY <1>1 DEF PInv, TablesOK, CallerOK
  <1>5. PagingOK' /\ FollowOK'
    BY <1>1, <1>2, <1>3 DEF PInv, PagingOK, FollowOK
  <1> QED
    BY <1>4, <1>5 DEF PInv

-----------------------------------------------------------------------------
(* What the transactions write keeps the tables in order.                  *)

LEMMA EventsAdded ==
    ASSUME TablesOK, NEW w \in Writer, NEW n, Roomy(w, n), NEW m \in Nat
    PROVE  EventsOK(WithEvents(w, n, m)) /\ event \subseteq WithEvents(w, n, m)
  <1> DEFINE last == Cardinality(event)
             t == start[w]
             f == [i \in 1 .. n |-> [n |-> last + i, occurred |-> t, centre |-> i <= m]]
             fresh == {f[i] : i \in 1 .. n}
             V == event \cup fresh
  <1>1. n \in Nat \ {0} /\ t \in Moment
    BY PagesAssumption DEF Roomy, TablesOK
  <1>2. IsFiniteSet(event) /\ last \in Nat
    BY FS_CardinalityType DEF TablesOK, EventsOK
  <1>3. WithEvents(w, n, m) = V
    BY DEF WithEvents
  <1> HIDE DEF last, t
  <1>4. \A i \in 1 .. n : /\ f[i] \in [n : Nat, occurred : Moment, centre : BOOLEAN]
                          /\ f[i].n = last + i
    BY <1>1, <1>2
  <1>5. DOMAIN f = 1 .. n
    OBVIOUS
  <1>6. f = [i \in 1 .. n |-> f[i]]
    OBVIOUS
  <1> HIDE DEF f
  <1>7. f \in Surjection(1 .. n, fresh) /\ f \in Injection(1 .. n, fresh)
    <2>1. f \in [1 .. n -> fresh]
      BY <1>5, <1>6
    <2>2. \A i, j \in 1 .. n : f[i] = f[j] => i = j
      BY <1>1, <1>2, <1>4
    <2> QED
      BY <2>1, <2>2 DEF Surjection, Injection, IsInjective
  <1>8. IsFiniteSet(fresh) /\ Cardinality(fresh) = n
    <2>1. IsFiniteSet(1 .. n) /\ Cardinality(1 .. n) = n
      BY <1>1, FS_Interval
    <2> HIDE DEF fresh
    <2> QED
      BY <1>7, <2>1, FS_Surjection
  <1>9. \A v \in fresh : /\ v \in [n : Nat, occurred : Moment, centre : BOOLEAN]
                         /\ v.n > last /\ v.n <= last + n
    BY <1>1, <1>2, <1>4
  <1>10. \A v, u \in fresh : v.n = u.n => v = u
    BY <1>1, <1>2, <1>4
  <1>11. \A v \in event : /\ v \in [n : Nat, occurred : Moment, centre : BOOLEAN]
                          /\ v.n <= last
    BY DEF TablesOK, EventsOK, last
  <1>12. \A v, u \in event : v.n = u.n => v = u
    BY DEF TablesOK, EventsOK
  <1> HIDE DEF fresh
  <1>13. event \cap fresh = {}
    <2> SUFFICES ASSUME NEW v \in event, v \in fresh PROVE FALSE
      OBVIOUS
    <2>1. v.n \in Nat /\ v.n <= last /\ v.n > last
      BY <1>9, <1>11
    <2> QED
      BY <1>2, <2>1
  <1>14. IsFiniteSet(V) /\ Cardinality(V) = last + n
    <2>1. IsFiniteSet(V) /\ Cardinality(V) = last + n - 0
      BY <1>2, <1>8, <1>13, FS_Union, FS_EmptySet DEF last
    <2> QED
      BY <1>1, <1>2, <2>1
  <1>15. \A v \in V : v.n <= Cardinality(V)
    <2> SUFFICES ASSUME NEW v \in V PROVE v.n <= last + n
      BY <1>14
    <2>1. CASE v \in event
      <3>1. v.n \in Nat /\ v.n <= last
        BY <1>11, <2>1
      <3> QED
        BY <1>1, <1>2, <3>1
    <2>2. CASE v \in fresh
      BY <1>9, <2>2
    <2> QED
      BY <2>1, <2>2
  <1>16. \A v, u \in V : v.n = u.n => v = u
    <2>1. ASSUME NEW v \in event, NEW u \in fresh PROVE v.n # u.n
      <3>1. v.n \in Nat /\ u.n \in Nat /\ v.n <= last /\ u.n > last
        BY <1>9, <1>11
      <3> QED
        BY <1>2, <3>1
    <2> QED
      BY <1>10, <1>12, <2>1
  <1>17. V \subseteq [n : Nat, occurred : Moment, centre : BOOLEAN]
    BY <1>9, <1>11
  <1> QED
    BY <1>3, <1>14, <1>15, <1>16, <1>17 DEF EventsOK

LEMMA RelationIsRecord ==
    ASSUME NEW r \in [source : Entity, target : Entity, created : Moment]
    PROVE  r = [source |-> r.source, target |-> r.target, created |-> r.created]
  OBVIOUS

LEMMA RelationsAdded ==
    ASSUME TablesOK, NEW w \in Writer, start[w] # 0, NEW P \in SUBSET Pairs,
           NEW new \in SUBSET P, \A p \in new, r \in relation : <<r.source, r.target>> # p
    PROVE  RelationsOK(relation \cup
                       {[source |-> p[1], target |-> p[2], created |-> start[w]] : p \in new})
  <1> DEFINE t == start[w]
             f == [p \in new |-> [source |-> p[1], target |-> p[2], created |-> t]]
             fresh == {f[p] : p \in new}
  <1>1. t \in Moment
    BY DEF TablesOK
  <1>2. /\ relation \subseteq [source : Entity, target : Entity, created : Moment]
        /\ IsFiniteSet(relation)
        /\ \A r, q \in relation : r.source = q.source /\ r.target = q.target => r = q
    BY DEF TablesOK, RelationsOK
  <1>3. new \subseteq Entity \X Entity
    BY PagesAssumption DEF Pairs
  <1>4. IsFiniteSet(new)
    <2>1. IsFiniteSet(Entity \X Entity)
      BY PagesAssumption, FS_Product
    <2> QED
      BY <1>3, <2>1, FS_Subset
  <1>5. fresh = {[source |-> p[1], target |-> p[2], created |-> t] : p \in new}
    OBVIOUS
  <1> HIDE DEF t
  <1>6. \A r \in fresh : /\ r \in [source : Entity, target : Entity, created : Moment]
                         /\ <<r.source, r.target>> \in new /\ r.created = t
    <2> SUFFICES ASSUME NEW p \in new
                 PROVE  /\ f[p] \in [source : Entity, target : Entity, created : Moment]
                        /\ <<f[p].source, f[p].target>> \in new /\ f[p].created = t
      OBVIOUS
    <2>1. p[1] \in Entity /\ p[2] \in Entity /\ p = <<p[1], p[2]>>
      BY <1>3
    <2> QED
      BY <1>1, <2>1
  <1>7. DOMAIN f = new /\ f = [p \in new |-> f[p]]
    OBVIOUS
  <1> HIDE DEF f
  <1>8. IsFiniteSet(fresh)
    BY <1>4, <1>7, FiniteImage
  <1> HIDE DEF fresh
  <1>9. IsFiniteSet(relation \cup fresh)
    BY <1>2, <1>8, FS_Union
  <1>10. \A r, q \in fresh : r.source = q.source /\ r.target = q.target => r = q
    <2>1. ASSUME NEW r \in fresh
          PROVE  r = [source |-> r.source, target |-> r.target, created |-> t]
      <3>1. r \in [source : Entity, target : Entity, created : Moment] /\ r.created = t
        BY <1>6
      <3> QED
        BY <3>1, RelationIsRecord
    <2> QED
      BY <2>1
  <1>11. ASSUME NEW r \in relation, NEW q \in fresh, r.source = q.source, r.target = q.target
         PROVE  FALSE
    BY <1>6, <1>11
  <1>12. RelationsOK(relation \cup fresh)
    BY <1>2, <1>6, <1>9, <1>10, <1>11 DEF RelationsOK
  <1> QED
    BY <1>5, <1>12 DEF t

LEMMA CommitsStep ==
    ASSUME PInv, NEW w \in Writer,
           \/ \E U \in SUBSET Entity, T \in SUBSET Tag, n, m \in 0 .. MaxWrites :
                 CommitWrites(w, U, T, n, m)
           \/ \E e \in Entity : CommitDelete(w, e) \/ \E T \in SUBSET Tag : CommitTags(w, e, T)
           \/ \E P \in SUBSET Pairs, n \in 1 .. MaxWrites : CommitRelations(w, P, n)
           \/ \E r \in relation : CommitRelationDelete(w, r)
    PROVE  PInv'
  <1>1. /\ TablesOK /\ EntitiesOK(entity) /\ RelationsOK(relation) /\ EventsOK(event)
        /\ tagged \in Nat
    BY DEF PInv, TablesOK
  <1>2. ASSUME NEW U \in SUBSET Entity, NEW T \in SUBSET Tag,
               NEW n \in 0 .. MaxWrites, NEW m \in 0 .. MaxWrites, CommitWrites(w, U, T, n, m)
        PROVE  PInv'
    <2> DEFINE E == [e \in Entity |->
                       IF e \in U THEN [st |-> "live", updated |-> start[w],
                                        tags |-> entity[e].tags \cup T]
                       ELSE entity[e]]
               V == WithEvents(w, n, m)
    <2>1. Roomy(w, n) /\ tagged' = tagged /\ Publish(w, E, relation, V)
      BY <1>2 DEF CommitWrites
    <2>2. start[w] \in Moment /\ listing # "done"
      BY <1>1, <2>1 DEF Roomy, Room, TablesOK
    <2>3. EntitiesOK(E)
      BY <1>1, <2>2, PagesAssumption DEF EntitiesOK, Moment
    <2>4. EventsOK(V) /\ event \subseteq V
      <3>1. m \in Nat
        BY PagesAssumption
      <3> QED
        BY <1>1, <2>1, <3>1, EventsAdded
    <2> HIDE DEF E, V
    <2> QED
      BY <1>1, <2>1, <2>2, <2>3, <2>4, PublishStep
  <1>3. ASSUME NEW e \in Entity, CommitDelete(w, e)
        PROVE  PInv'
    <2> DEFINE E == [entity EXCEPT ![e].st = "deleted"]
               m == IF e = Centre THEN 1 ELSE 0
               V == WithEvents(w, 1, m)
    <2>1. Roomy(w, 1) /\ tagged' = tagged /\ Publish(w, E, relation, V) /\ entity[e].st = "live"
      BY <1>3 DEF CommitDelete
    <2>2. listing # "done"
      BY <2>1 DEF Roomy, Room
    <2>3. EntitiesOK(E)
      BY <1>1, <2>1 DEF EntitiesOK
    <2>4. EventsOK(V) /\ event \subseteq V
      <3>1. m \in Nat
        OBVIOUS
      <3> HIDE DEF m
      <3> QED
        BY <1>1, <2>1, <3>1, EventsAdded
    <2> HIDE DEF E, V
    <2> QED
      BY <1>1, <2>1, <2>2, <2>3, <2>4, PublishStep
  <1>4. ASSUME NEW e \in Entity, NEW T \in SUBSET Tag, CommitTags(w, e, T)
        PROVE  PInv'
    <2> DEFINE E == [entity EXCEPT ![e] = [st |-> @.st, updated |-> start[w], tags |-> T]]
    <2>1. Roomy(w, 1) /\ tagged' = tagged + 1 /\ Publish(w, E, relation, event)
      BY <1>4 DEF CommitTags
    <2>2. start[w] \in Moment /\ listing # "done" /\ tagged' \in Nat
      BY <1>1, <2>1 DEF Roomy, Room, TablesOK
    <2>3. EntitiesOK(E)
      <3>1. ASSUME NEW g \in Entity
            PROVE  E[g] = IF g = e THEN [st |-> entity[e].st, updated |-> start[w], tags |-> T]
                                   ELSE entity[g]
        BY <1>1 DEF EntitiesOK
      <3>2. DOMAIN E = Entity /\ E = [g \in DOMAIN E |-> E[g]]
        BY <1>1 DEF EntitiesOK
      <3> HIDE DEF E
      <3>3. start[w] \in Nat
        BY <2>2, PagesAssumption DEF Moment
      <3> QED
        BY <1>1, <2>2, <3>1, <3>2, <3>3 DEF EntitiesOK
    <2> HIDE DEF E
    <2> QED
      BY <1>1, <2>1, <2>2, <2>3, PublishStep
  <1>5. ASSUME NEW P \in SUBSET Pairs, NEW n \in 1 .. MaxWrites, CommitRelations(w, P, n)
        PROVE  PInv'
    <2> DEFINE new == {p \in P : \A r \in relation : <<r.source, r.target>> # p}
               R == relation \cup {[source |-> p[1], target |-> p[2], created |-> start[w]] : p \in new}
               V == WithEvents(w, n, 0)
    <2>1. Roomy(w, n) /\ tagged' = tagged /\ Publish(w, entity, R, V)
      BY <1>5 DEF CommitRelations
    <2>2. start[w] # 0 /\ listing # "done"
      BY <2>1 DEF Roomy, Room
    <2>3. /\ new \in SUBSET P
          /\ \A p \in new, r \in relation : <<r.source, r.target>> # p
      OBVIOUS
    <2>4. RelationsOK(R)
      <3> HIDE DEF new
      <3> QED
        BY <1>1, <2>2, <2>3, RelationsAdded
    <2>5. EventsOK(V) /\ event \subseteq V
      BY <1>1, <2>1, EventsAdded
    <2> HIDE DEF R, V
    <2> QED
      BY <1>1, <2>1, <2>2, <2>4, <2>5, PublishStep
  <1>6. ASSUME NEW r \in relation, CommitRelationDelete(w, r)
        PROVE  PInv'
    <2> DEFINE R == relation \ {r}
               V == WithEvents(w, 1, 0)
    <2>1. Roomy(w, 1) /\ tagged' = tagged /\ Publish(w, entity, R, V)
      BY <1>6 DEF CommitRelationDelete
    <2>2. listing # "done"
      BY <2>1 DEF Roomy, Room
    <2>3. RelationsOK(R)
      BY <1>1, FS_Subset DEF RelationsOK
    <2>4. EventsOK(V) /\ event \subseteq V
      BY <1>1, <2>1, EventsAdded
    <2> HIDE DEF R, V
    <2> QED
      BY <1>1, <2>1, <2>2, <2>3, <2>4, PublishStep
  <1> QED
    BY <1>2, <1>3, <1>4, <1>5, <1>6

-----------------------------------------------------------------------------

LEMMA InitPInv == Init => PInv
  <1> SUFFICES ASSUME Init PROVE PInv
    OBVIOUS
  <1> USE DEF Init
  <1>1. TablesOK
    BY PagesAssumption, FS_EmptySet DEF TablesOK, EntitiesOK, RelationsOK, EventsOK, Moment
  <1>2. CallerOK
    BY DEF CallerOK
  <1>3. PagingOK /\ FollowOK
    BY DEF PagingOK, FollowOK
  <1> QED
    BY <1>1, <1>2, <1>3 DEF PInv

LEMMA NextPInv == PInv /\ [Next]_vars => PInv'
  <1> SUFFICES ASSUME PInv, [Next]_vars PROVE PInv'
    OBVIOUS
  <1>1. now \in Moment /\ start \in [Writer -> Moment \cup {0}]
    BY DEF PInv, TablesOK
  <1>2. CASE UNCHANGED vars
    BY <1>1, <1>2, UnseenStep DEF vars
  <1>3. CASE Tick
    BY <1>1, <1>3, UnseenStep, PagesAssumption DEF Tick, Moment
  <1>4. ASSUME NEW w \in Writer, BeginTx(w) PROVE PInv'
    BY <1>1, <1>4, UnseenStep DEF BeginTx
  <1>5. ASSUME NEW w \in Writer, Rollback(w) PROVE PInv'
    BY <1>1, <1>5, UnseenStep DEF Rollback
  <1> QED
    BY <1>2, <1>3, <1>4, <1>5, CommitsStep, StartListingStep, ReadPageStep, PollEventsStep DEF Next

LEMMA AlwaysPInv == Spec => []PInv
  BY InitPInv, NextPInv, PTL DEF Spec

(* Listing by cursor (GetEntitiesByType, its filtered form, the relations  *)
(* of an entity, GetAllEvents) repeats no row that was not written         *)
(* meanwhile and, when the time of such a row is its own, has it on one of *)
(* the pages, for every page size and every transaction around it.         *)
THEOREM PagesListOnce == Spec => []ListedOnce
  <1>1. PInv => ListedOnce
    BY DEF PInv, PagingOK, ListedOnce
  <1> QED
    BY <1>1, AlwaysPInv, PTL

(* A caller that polls GetEventsForEntity with the time of the newest      *)
(* event it has seen gets no event twice and skips none that was visible   *)
(* in time and fitted on a page.                                           *)
THEOREM PagesFollow == Spec => []FollowSkipsNothing
  <1>1. PInv => FollowSkipsNothing
    BY AllOK DEF PInv, FollowOK, FollowSkipsNothing
  <1> QED
    BY <1>1, AlwaysPInv, PTL
=============================================================================
