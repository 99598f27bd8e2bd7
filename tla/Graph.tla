------------------------------- MODULE Graph -------------------------------
(***************************************************************************)
(* Relations between entities (UpsertRelation, DeleteRelationByKey, the    *)
(* foreign keys of entity_relations) and the queries that follow them: the *)
(* recursive query of Traverse (store/traverse.go) and ConnectedEntities,  *)
(* both read through a ScopedStore.                                        *)
(*                                                                         *)
(* created_at of an entity is now(), the start of the transaction that     *)
(* creates it: the entities of one BatchWrite share theirs, and it says    *)
(* nothing about the order of the commits.                                 *)
(***************************************************************************)
EXTENDS Filters, Integers, Sequences, FiniteSets

CONSTANTS
    Entity,         \* the ids of the entities ever created
    RelType,
    Scope,          \* the ScopeConfig of the reader
    MaxDepth,       \* TraverseOpts.MaxDepth, after defaults()
    MaxResults,     \* TraverseOpts.MaxResults, after defaults()
    PageSize,       \* the LIMIT of the queries of one hop (1000, or the caller's)
    MaxTime,        \* bound on the times at which transactions start
    MaxRelations,   \* bound on the rows of entity_relations
    MaxHidden       \* bound on deletes and tag updates

ASSUME GraphAssumption ==
    /\ Scope \in ScopeConfig
    /\ MaxDepth \in 1..10 /\ MaxResults \in Nat \ {0} /\ PageSize \in Nat \ {0}
    /\ MaxTime \in Nat /\ MaxRelations \in Nat /\ MaxHidden \in Nat

Time == 1..MaxTime

Direction == {"both", "outbound", "inbound"}

(* n tells rows with the same key apart: 0 has no source_urn and is unique *)
(* by the partial index; a row with a source_urn is never in conflict.     *)
Relation == [source : Entity, target : Entity, type : RelType, n : 0..MaxRelations]

VARIABLES
    state,      \* per entity: "none", "live", "deleted" (soft) or "gone"
    createdAt,  \* per entity, 0 before it is created
    tags,       \* per entity
    rel,        \* entity_relations
    hidden      \* deletes and tag updates so far

vars == <<state, createdAt, tags, rel, hidden>>

-----------------------------------------------------------------------------

InTable(e) == state[e] \in {"live", "deleted"}

Init ==
    /\ state = [e \in Entity |-> "none"]
    /\ createdAt = [e \in Entity |-> 0]
    /\ tags = [e \in Entity |-> {}]
    /\ rel = {}
    /\ hidden = 0

(* BatchWrite of the scoped store: a create gets the AutoTags.  The        *)
(* transaction, which may create others, started at t.                     *)
CreateEntity(e, t) ==
    /\ state[e] = "none"
    /\ state' = [state EXCEPT ![e] = "live"]
    /\ createdAt' = [createdAt EXCEPT ![e] = t]
    /\ tags' = [tags EXCEPT ![e] = Scope.autoTags]
    /\ UNCHANGED <<rel, hidden>>

(* ON CONFLICT: without a source_urn there is one row per key, number 0;   *)
(* with one, a row is always inserted.                                     *)
UpsertedRow(s, t, type, sourced) ==
    LET same == {r \in rel : /\ <<r.source, r.target, r.type>> = <<s, t, type>>
                             /\ r.n > 0}
    IN [source |-> s, target |-> t, type |-> type,
        n |-> IF sourced THEN Cardinality(same) + 1 ELSE 0]

(* upsertRelation inserts the row or updates it.  The foreign keys ask     *)
(* that both ends are in the table, soft-deleted or not.                   *)
UpsertRelation(s, t, type, sourced) ==
    /\ InTable(s) /\ InTable(t)
    /\ rel' = rel \cup {UpsertedRow(s, t, type, sourced)}
    /\ Cardinality(rel') <= MaxRelations
    /\ UNCHANGED <<state, createdAt, tags, hidden>>

(* DeleteRelationByKey: every row with the key, whatever its source_urn.   *)
(* Without such a row it changes nothing.                                  *)
DeleteRelationByKey(s, t, type) ==
    /\ rel' = {r \in rel : <<r.source, r.target, r.type>> # <<s, t, type>>}
    /\ UNCHANGED <<state, createdAt, tags, hidden>>

Hide == hidden < MaxHidden /\ hidden' = hidden + 1

(* DeleteEntity keeps the relations of the entity.                         *)
DeleteEntity(e) ==
    /\ Hide
    /\ state[e] = "live"
    /\ state' = [state EXCEPT ![e] = "deleted"]
    /\ UNCHANGED <<createdAt, tags, rel>>

(* Mutant: ON DELETE CASCADE on one end only.                              *)
HardDeleteOneEnd(e) ==
    /\ Hide
    /\ InTable(e)
    /\ state' = [state EXCEPT ![e] = "gone"]
    /\ rel' = {r \in rel : r.source # e}
    /\ UNCHANGED <<createdAt, tags>>

(* HardDeleteEntity cascades to the relations.                             *)
HardDeleteEntity(e) ==
    /\ Hide
    /\ InTable(e)
    /\ state' = [state EXCEPT ![e] = "gone"]
    /\ rel' = {r \in rel : r.source # e /\ r.target # e}
    /\ UNCHANGED <<createdAt, tags>>

SetTags(e, T) ==
    /\ Hide
    /\ InTable(e)
    /\ tags' = [tags EXCEPT ![e] = T]
    /\ UNCHANGED <<state, createdAt, rel>>

Next ==
    \/ \E e \in Entity, t \in Time : CreateEntity(e, t)
    \/ \E s, t \in Entity, type \in RelType :
          \E sourced \in BOOLEAN : UpsertRelation(s, t, type, sourced)
    \/ \E r \in rel : DeleteRelationByKey(r.source, r.target, r.type)
    \/ \E e \in Entity :
          \/ DeleteEntity(e) \/ HardDeleteEntity(e)
          \/ \E T \in SUBSET Tag : SetTags(e, T)

Spec == Init /\ [][Next]_vars

-----------------------------------------------------------------------------
(* Traverse.                                                               *)

(* $2 and $3 of traverseSQL.                                               *)
AllowOutbound(dir) == dir \in {"both", "outbound"}
AllowInbound(dir) == dir \in {"both", "inbound"}

(* The join of a row of the recursion at entity e with relation r, and the *)
(* entity it leads to.                                                     *)
Joins(dir, r, e) ==
    (AllowOutbound(dir) /\ r.source = e) \/ (AllowInbound(dir) /\ r.target = e)

OtherEnd(r, e) == IF r.source = e THEN r.target ELSE r.source

(* Mutant: the visited array is not consulted.                             *)
AcceptsRevisit(f, row, e) == state[e] = "live" /\ Matches(f, tags[e])

(* The WHERE clause of the recursive part for the next entity e.           *)
Accepts(f, row, e) ==
    /\ state[e] = "live"
    /\ e \notin row.visited
    /\ Matches(f, tags[e])

(* One round of the recursive part: a row per path and relation.           *)
NextRows(f, dir, rows) ==
    {[id |-> OtherEnd(p[2], p[1].id),
      depth |-> p[1].depth + 1,
      visited |-> p[1].visited \cup {OtherEnd(p[2], p[1].id)},
      path |-> Append(p[1].path, p[2])]
     : p \in {q \in rows \X rel : /\ Joins(dir, q[2], q[1].id)
                                  /\ Accepts(f, q[1], OtherEnd(q[2], q[1].id))}}

(* The base row of the recursion: start, if it is live.                    *)
BaseRows(start) ==
    {[id |-> e, depth |-> 0, visited |-> {e}, path |-> <<>>]
     : e \in {e \in {start} : state[e] = "live"}}

(* The rows that each round of the recursion adds.                         *)
Levels(f, dir, start) ==
    LET level[d \in 0..MaxDepth] ==
            IF d = 0 THEN BaseRows(start) ELSE NextRows(f, dir, level[d - 1])
    IN level

(* The rows of traverseSQL before LIMIT: depth > 0.                        *)
TraverseRows(f, dir, start) == UNION {Levels(f, dir, start)[d] : d \in 1..MaxDepth}

(* ORDER BY depth, created_at.                                             *)
SortsBefore(p, q) ==
    \/ p.depth < q.depth
    \/ p.depth = q.depth /\ createdAt[p.id] < createdAt[q.id]

(* LIMIT MaxResults: rows that tie may be on the page or not.              *)
TraversePages(rows) ==
    {page \in Limited(rows, MaxResults) :
        \A p \in page, q \in rows \ page : ~SortsBefore(q, p)}

(* Traverse keeps the first row of every entity of the page, which is the  *)
(* first in depth; ties only decide which of its paths is reported.        *)
Results(page) ==
    {[id |-> r.id, depth |-> r.depth]
     : r \in {q \in page : \A p \in page : p.id = q.id => p.depth >= q.depth}}

(* ScopedStore.Traverse, for a caller without a filter of its own.         *)
ScopedRows(dir, start) == TraverseRows(MergeFilter(Scope, NoFilter), dir, start)

(* ConnectedEntities, which does not look at the entity itself, and the    *)
(* filter that ScopedStore applies to the page it returned.                *)
Connected(e) ==
    {c \in Entity : /\ state[c] = "live"
                    /\ \E r \in rel : \/ r.source = e /\ r.target = c
                                      \/ r.target = e /\ r.source = c}

ConnectedEntities(e) == Limited(Connected(e), PageSize)

ScopedConnectedEntities(e) ==
    {{c \in page : EntityVisible(Scope, tags[c])} : page \in ConnectedEntities(e)}

(* The rows of the other queries are relations, so that a page may hold an *)
(* entity several times.  Their order, by the created_at of the relation   *)
(* or none, is left open.                                                  *)
OfType(types) == {r \in rel : types = {} \/ r.type \in types}

Passes(f, e) == state[e] = "live" /\ Matches(f, tags[e])

RowsFrom(f, e, types) == {r \in OfType(types) : r.source = e /\ Passes(f, r.target)}
RowsTo(f, e, types) == {r \in OfType(types) : r.target = e /\ Passes(f, r.source)}

Sources(rows) == {r.source : r \in rows}
Targets(rows) == {r.target : r \in rows}

(* Mutant: the tags are looked at after the limit, as in ConnectedEntities. *)
FilteredAfterLimit(f, e, types) ==
    {Targets(page \cap RowsFrom(f, e, types))
     : page \in Limited({r \in OfType(types) : r.source = e}, PageSize)}

(* FindConnectedByType: a query for either direction, on the relation      *)
(* types of a list, all of them if it is empty, and the union of both.     *)
FindConnectedByTypeOutbound(f, e, types) ==
    {Targets(page) : page \in Limited(RowsFrom(f, e, types), PageSize)}

FindConnectedByTypeInbound(f, e, types) ==
    {Sources(page) : page \in Limited(RowsTo(f, e, types), PageSize)}

FindConnectedByType(f, e, types) ==
    {out \cup in : out \in FindConnectedByTypeOutbound(f, e, types),
                  in \in FindConnectedByTypeInbound(f, e, types)}

(* FindEntitiesByRelation: the sources, and the targets, of one type.      *)
SourceRows(f, type) == {r \in OfType({type}) : Passes(f, r.source)}
TargetRows(f, type) == {r \in OfType({type}) : Passes(f, r.target)}

FindEntitiesByRelation(f, type) ==
    {Sources(src) \cup Targets(tgt) : src \in Limited(SourceRows(f, type), PageSize),
                                     tgt \in Limited(TargetRows(f, type), PageSize)}

-----------------------------------------------------------------------------
(* Reference: breadth-first reachability over visible entities.            *)

Visible(e) == state[e] = "live" /\ EntityVisible(Scope, tags[e])

Hop(dir, e, c) ==
    \E r \in rel : \/ dir # "inbound" /\ r.source = e /\ r.target = c
                   \/ dir # "outbound" /\ r.target = e /\ r.source = c

(* One more hop, to visible entities only.                                 *)
Spread(dir, near) ==
    near \cup {c \in Entity : Visible(c) /\ \E e \in near : Hop(dir, e, c)}

(* Entities within d hops of start, through visible entities only.         *)
Within(dir, start) ==
    LET w[d \in 0..MaxDepth] ==
            IF d = 0 THEN {e \in {start} : state[e] = "live"} ELSE Spread(dir, w[d - 1])
    IN w

(* What a traversal without a limit is to return.                          *)
Reachable(dir, start) ==
    LET w == Within(dir, start)
    IN UNION {{[id |-> e, depth |-> d] : e \in w[d] \ w[d - 1]} : d \in 1..MaxDepth}

-----------------------------------------------------------------------------
(* Properties.                                                             *)

(* Type invariant; no relation outlives one of its ends.                   *)
TypeOK ==
    /\ state \in [Entity -> {"none", "live", "deleted", "gone"}]
    /\ createdAt \in [Entity -> 0..MaxTime]
    /\ tags \in [Entity -> SUBSET Tag]
    /\ rel \subseteq Relation
    /\ \A r \in rel : InTable(r.source) /\ InTable(r.target)
    /\ hidden \in 0..MaxHidden

(* Traverse enumerates paths, filters tags in SQL, cuts at MaxResults rows *)
(* and drops repeated entities.  What is left is right whatever the shape  *)
(* of the graph and however ties are broken: every entity is reachable     *)
(* through entities of the scope and has its distance as depth; the limit  *)
(* takes away only what is farther than everything returned, or as far and *)
(* not older; and without a cut, nothing is missing.                       *)
NearestEntitiesFirst ==
    \A dir \in Direction, start \in Entity :
        LET rows == ScopedRows(dir, start)
            all == Reachable(dir, start)
        IN \A page \in TraversePages(rows) :
              LET found == Results(page)
              IN /\ found \subseteq all
                 /\ \A x \in found, y \in all \ found :
                       \/ x.depth < y.depth
                       \/ x.depth = y.depth /\ createdAt[x.id] <= createdAt[y.id]
                 /\ Cardinality(rows) <= MaxResults => found = all

(* A query whose filter precedes its limit answers with some of the truth, *)
(* with something if there is anything, and with all of it unless it has   *)
(* more rows than the limit.                                               *)
Answers(answers, truth, rows, limit) ==
    \A found \in answers :
        /\ found \subseteq truth
        /\ truth # {} => found # {}
        /\ Cardinality(rows) <= limit => found = truth

(* Queries of different kinds agree on the neighbours of an entity, except *)
(* for what their limits, which count different rows, take away:           *)
(* FindConnectedByType, which filters each direction in SQL, the first hop *)
(* of a traversal, and ConnectedEntities, which ScopedStore filters in Go. *)
(* Only the last may come back empty while there is a neighbour: entities  *)
(* outside the scope count towards its limit.                              *)
NeighboursAgree ==
    \A e \in Entity :
        LET f == MergeFilter(Scope, NoFilter)
            rows == RowsFrom(f, e, {}) \cup RowsTo(f, e, {})
            neighbours == {c \in Entity : Visible(c) /\ Hop("both", e, c)}
        IN /\ Answers(FindConnectedByType(f, e, {}), neighbours, rows, PageSize)
           /\ state[e] = "live" =>
                 Answers({{x.id : x \in {y \in Results(page) : y.depth = 1}}
                          : page \in TraversePages(ScopedRows("both", e))},
                         neighbours \ {e}, rows, MaxResults)
           /\ \A found \in ScopedConnectedEntities(e) :
                 /\ found \subseteq neighbours
                 /\ Cardinality(Connected(e)) <= PageSize => found = neighbours

(* FindEntitiesByRelation finds the entities that are somebody's neighbour *)
(* by a relation of the type.                                              *)
RelatedAgree ==
    \A type \in RelType :
        LET f == MergeFilter(Scope, NoFilter)
        IN Answers(FindEntitiesByRelation(f, type),
                   UNION {Sources(RowsTo(f, e, {type})) \cup Targets(RowsFrom(f, e, {type}))
                          : e \in Entity},
                   SourceRows(f, type) \cup TargetRows(f, type), PageSize)

OneHopAgrees == NeighboursAgree /\ RelatedAgree
=============================================================================
