------------------------------- MODULE Pages -------------------------------
(***************************************************************************)
(* Listing a table page by page while it is written (store/store.go,       *)
(* store/events.go): entities by type, with and without a filter, the      *)
(* relations from and to an entity, and all events.  Every one of these    *)
(* queries takes a time as its cursor, returns the rows before it, newest  *)
(* first, up to a page size, and the caller passes the time of the last    *)
(* row on.  GetEventsForEntity looks the other way: the events after       *)
(* Since, and a caller that follows an entity passes the time of the       *)
(* newest event it has seen.                                               *)
(*                                                                         *)
(* The time of a row is now() of the transaction that wrote it: its start. *)
(* Rows of one transaction share it, a row that is committed late is late  *)
(* in appearing, and an update can move updated_at backwards.              *)
(***************************************************************************)
EXTENDS Filters, Naturals, FiniteSets

CONSTANTS
    Writer,
    Entity,
    Centre,       \* the entity whose relations are listed, or events followed
    Filter,       \* the filter of GetEntitiesByTypeFiltered
    Kind,         \* the listings that may be asked for
    PageSizes,    \* the page sizes the caller may ask for
    MaxTime,      \* bound on the clock
    MaxWrites,    \* bound on the events of a transaction, and so its writes
    MaxEvents     \* bound on the writes, and tag updates, altogether

ASSUME PagesAssumption ==
    /\ IsFiniteSet(Entity) /\ Centre \in Entity
    /\ Filter \in QueryFilter
    /\ Kind \subseteq {"byType", "filtered", "from", "to", "events", "follow"}
    /\ PageSizes \subseteq Nat \ {0}
    /\ MaxTime \in Nat /\ MaxWrites \in Nat /\ MaxEvents \in Nat

VARIABLES
    now,          \* the clock of the database
    start,        \* per writer: when its transaction began, 0 without one
    entity,       \* per entity: state, updated_at, tags
    relation,     \* rows of entity_relations: ends and created_at
    event,        \* rows of entity_events: number, occurred_at, and whether
                  \* it is an event of Centre
    tagged,       \* tag updates, which write no event, so far
    listing,      \* what is being listed, "none" before and "done" after
    kind,         \* the kind of the listing
    cursor,       \* the cursor of the next page, or Since; 0 stands for nil
    listed,       \* ids on the pages so far
    repeated,     \* ids that were on two pages
    steady,       \* history: ids that were in the table when the listing
                  \* began and were not written since
    alone,        \* history: ids whose time no other row had since then
    owed          \* history: events that appeared after Since and that no
                  \* full page has cut off

tables == <<entity, relation, event, tagged>>
pageVars == <<listing, kind, cursor, listed, repeated>>
histVars == <<steady, alone, owed>>
vars == <<now, start, tables, pageVars, histVars>>

Time == 0 .. MaxTime

-----------------------------------------------------------------------------
\* The rows a listing is about, as pairs of an id and a time.

Row(id, t) == [id |-> id, at |-> t]

\* WHERE entity_type = $1 AND deleted_at IS NULL.
EntityRows(E) ==
    {Row(<<"entity", e>>, E[e].updated) : e \in {x \in Entity : E[x].st = "live"}}

\* The same with the clauses on tags.
FilteredRows(E) ==
    {Row(<<"entity", e>>, E[e].updated) :
        e \in {x \in Entity : E[x].st = "live" /\ Matches(Filter, E[x].tags)}}

\* WHERE source_id = $1, WHERE target_id = $1.
RelationsFrom(R) ==
    {Row(<<"relation", r.source, r.target>>, r.created) : r \in {x \in R : x.source = Centre}}
RelationsTo(R) ==
    {Row(<<"relation", r.source, r.target>>, r.created) : r \in {x \in R : x.target = Centre}}

EventRows(V) == {Row(<<"event", v.n>>, v.occurred) : v \in V}

\* WHERE entity_id = $1.
EntityEventRows(V) == EventRows({v \in V : v.centre})

\* Mutant of Before: rows at the cursor are returned again.
BeforeOrAt(rows, c) == {r \in rows : c = 0 \/ r.at <= c}

\* $2 IS NULL OR updated_at < $2.
Before(rows, c) == {r \in rows : c = 0 \/ r.at < c}

\* Mutant of After: events at Since are returned again.
AfterOrAt(rows, since) == {r \in rows : r.at >= since}

\* $3 = '0001-01-01' OR occurred_at > $3.
After(rows, since) == {r \in rows : r.at > since}

\* Mutant of IsPage: any rows, in no order.
IsPageUnordered(page, rows, size) ==
    Cardinality(page) = IF Cardinality(rows) < size THEN Cardinality(rows) ELSE size

\* ORDER BY ... DESC LIMIT: the order among equal times is anyone's guess.
IsPage(page, rows, size) ==
    /\ Cardinality(page) = IF Cardinality(rows) < size THEN Cardinality(rows) ELSE size
    /\ \A r \in page, s \in rows \ page : r.at >= s.at

-----------------------------------------------------------------------------
\* The methods: the rows a page is taken from, for a cursor c.

GetEntitiesByType(E, c) == Before(EntityRows(E), c)
GetEntitiesByTypeFiltered(E, c) == Before(FilteredRows(E), c)
GetRelationsFromEntity(R, c) == Before(RelationsFrom(R), c)
GetRelationsToEntity(R, c) == Before(RelationsTo(R), c)
GetAllEvents(V, c) == Before(EventRows(V), c)
GetEventsForEntity(V, since) == After(EntityEventRows(V), since)

From(k, E, R, V, c) ==
    CASE k = "byType" -> GetEntitiesByType(E, c)
      [] k = "filtered" -> GetEntitiesByTypeFiltered(E, c)
      [] k = "from" -> GetRelationsFromEntity(R, c)
      [] k = "to" -> GetRelationsToEntity(R, c)
      [] k = "events" -> GetAllEvents(V, c)
      [] k = "follow" -> GetEventsForEntity(V, c)

\* All rows of a listing.
Rows(k, E, R, V) == From(k, E, R, V, 0)

Ids(rows) == {r.id : r \in rows}

\* The ids whose time no other row has.
Unshared(rows) ==
    {r.id : r \in {x \in rows : \A s \in rows : s.at = x.at => s = x}}

-----------------------------------------------------------------------------

Init ==
    /\ now = 1
    /\ start = [w \in Writer |-> 0]
    /\ entity = [e \in Entity |-> [st |-> "none", updated |-> 0, tags |-> {}]]
    /\ relation = {}
    /\ event = {}
    /\ tagged = 0
    /\ listing = "none" /\ kind \in Kind /\ cursor = 0
    /\ listed = {} /\ repeated = {}
    /\ steady = {} /\ alone = {} /\ owed = {}

\* There is room for n writes within the bounds; what happens after the last
\* page makes no difference.
Room(n) == Cardinality(event) + tagged + n <= MaxEvents /\ listing # "done"

\* The clock moves on.
Tick ==
    /\ now < MaxTime /\ Room(1)
    /\ now' = now + 1
    /\ UNCHANGED <<start, tables, pageVars, histVars>>

\* BeginTx: now() is the same for every statement of the transaction.
BeginTx(w) ==
    /\ start[w] = 0 /\ Room(1)
    /\ start' = [start EXCEPT ![w] = now]
    /\ UNCHANGED <<now, tables, pageVars, histVars>>

Rollback(w) ==
    /\ start[w] # 0
    /\ start' = [start EXCEPT ![w] = 0]
    /\ UNCHANGED <<now, tables, pageVars, histVars>>

\* The id of what changed between two contents of a table.
Written(k, E, R, V) ==
    LET old == Rows(k, entity, relation, event)
        new == Rows(k, E, R, V)
    IN  Ids((old \ new) \cup (new \ old))

\* The transaction of w becomes visible.
Publish(w, E, R, V) ==
    /\ entity' = E /\ relation' = R /\ event' = V
    /\ start' = [start EXCEPT ![w] = 0]
    /\ IF listing = "pages"
       THEN /\ steady' = steady \ Written(kind, E, R, V)
            /\ alone' = alone \cap Unshared(Rows(kind, E, R, V))
            /\ owed' = owed \cup IF kind = "follow" THEN Ids(From(kind, E, R, V \ event, cursor))
                                ELSE {}
       ELSE UNCHANGED <<histVars>>
    /\ UNCHANGED <<now, pageVars>>

\* insertEvents: n events with the time of the transaction, m of them about
\* Centre.
WithEvents(w, n, m) ==
    LET last == Cardinality(event)
    IN  event \cup {[n |-> last + i, occurred |-> start[w], centre |-> i <= m] : i \in 1 .. n}

\* There is a transaction of w, and room for n writes or events of it.
Roomy(w, n) == start[w] # 0 /\ n \in 1 .. MaxWrites /\ Room(n)

\* BatchWrite with creates, updates and merges.  updated_at is now(), whatever
\* it was, and the tags of the operation are added.  There is an event for
\* every operation, and there may be several on one entity, and events of the
\* caller's besides: n altogether, m about Centre.
CommitWrites(w, U, T, n, m) ==
    /\ Roomy(w, n)
    /\ U # {} /\ Cardinality(U) <= n
    /\ m \in IF Centre \in U THEN 1 .. (n + 1 - Cardinality(U)) ELSE {0}
    /\ UNCHANGED tagged
    /\ \A e \in U : entity[e].st \in {"none", "live"}
    /\ Publish(w, [e \in Entity |->
                       IF e \in U THEN [st |-> "live", updated |-> start[w], tags |-> entity[e].tags \cup T]
                       ELSE entity[e]],
               relation, WithEvents(w, n, m))

\* SetTags, AddTags, RemoveTag: no event, and deleted rows are not spared.
CommitTags(w, e, T) ==
    /\ Roomy(w, 1)
    /\ entity[e].st # "none"
    /\ tagged' = tagged + 1
    /\ Publish(w, [entity EXCEPT ![e] = [st |-> @.st, updated |-> start[w], tags |-> T]],
               relation, event)

\* DeleteEntity, which keeps updated_at.
CommitDelete(w, e) ==
    /\ Roomy(w, 1)
    /\ UNCHANGED tagged
    /\ entity[e].st = "live"
    /\ Publish(w, [entity EXCEPT ![e].st = "deleted"], relation,
               WithEvents(w, 1, IF e = Centre THEN 1 ELSE 0))

\* The pairs whose relations some listing can return.
Pairs == ({Centre} \X Entity) \cup (Entity \X {Centre})

\* BatchWrite with UpsertRelation, and events of the caller's: created_at of an
\* existing row stays.
CommitRelations(w, P, n) ==
    /\ Roomy(w, n)
    /\ P # {} /\ Cardinality(P) <= n
    /\ UNCHANGED tagged
    /\ \A p \in P : entity[p[1]].st # "none" /\ entity[p[2]].st # "none"
    /\ LET new == {p \in P : \A r \in relation : <<r.source, r.target>> # p}
       IN  Publish(w, entity,
                   relation \cup {[source |-> p[1], target |-> p[2], created |-> start[w]] : p \in new},
                   WithEvents(w, n, 0))

\* DeleteRelationByKey.
CommitRelationDelete(w, r) ==
    /\ Roomy(w, 1)
    /\ UNCHANGED tagged
    /\ Publish(w, entity, relation \ {r}, WithEvents(w, 1, 0))

\* The caller asks for the first page.
StartListing ==
    /\ listing = "none"
    /\ listing' = "pages"
    /\ LET rows == Rows(kind, entity, relation, event)
       IN  /\ steady' = Ids(rows) /\ alone' = Unshared(rows)
           /\ owed' = IF kind = "follow" THEN Ids(rows) ELSE {}
    /\ UNCHANGED <<now, start, tables, kind, cursor, listed, repeated>>

\* The time of the last row of a page.
LastTime(page) == CHOOSE t \in {r.at : r \in page} : \A r \in page : t <= r.at

FirstTime(page) == CHOOSE t \in {r.at : r \in page} : \A r \in page : t >= r.at

\* One page; an empty one ends the loop of the caller.
ReadPage ==
    /\ listing = "pages" /\ kind # "follow"
    /\ \E page \in SUBSET From(kind, entity, relation, event, cursor), size \in PageSizes :
          /\ IsPage(page, From(kind, entity, relation, event, cursor), size)
          /\ listed' = listed \cup Ids(page)
          /\ repeated' = repeated \cup (listed \cap Ids(page))
          /\ IF page = {} THEN listing' = "done" /\ UNCHANGED cursor
             ELSE cursor' = LastTime(page) /\ UNCHANGED listing
    /\ UNCHANGED <<now, start, tables, kind, histVars>>

\* The newest events after Since.  If there are more than the limit, the caller
\* cannot know which it misses.
PollEvents ==
    /\ listing = "pages" /\ kind = "follow"
    /\ LET rows == From(kind, entity, relation, event, cursor)
       IN  /\ rows # {}
           /\ \E page \in SUBSET rows, size \in PageSizes :
                  /\ IsPage(page, rows, size)
                  /\ listed' = listed \cup Ids(page)
                  /\ repeated' = repeated \cup (listed \cap Ids(page))
                  /\ cursor' = FirstTime(page)
                  /\ owed' = IF Cardinality(page) = size THEN owed \cap listed' ELSE owed
    /\ UNCHANGED <<now, start, tables, listing, kind, steady, alone>>

Next ==
    \/ Tick
    \/ \E w \in Writer :
          \/ BeginTx(w) \/ Rollback(w)
          \/ \E U \in SUBSET Entity, T \in SUBSET Tag, n, m \in 0 .. MaxWrites :
                CommitWrites(w, U, T, n, m)
          \/ \E e \in Entity : CommitDelete(w, e) \/ \E T \in SUBSET Tag : CommitTags(w, e, T)
          \/ \E P \in SUBSET Pairs, n \in 1 .. MaxWrites : CommitRelations(w, P, n)
          \/ \E r \in relation : CommitRelationDelete(w, r)
    \/ StartListing
    \/ ReadPage \/ PollEvents

Spec == Init /\ [][Next]_vars

-----------------------------------------------------------------------------
\* Properties.

\* A row that nobody writes during the listing is never on two pages; and if
\* no other row has had its time, it is on one page when the listing ends,
\* whatever is inserted, moved or deleted around it by transactions that began
\* and committed at any time.
ListedOnce ==
    kind # "follow" =>
    /\ steady \cap repeated = {}
    /\ listing = "done" => steady \cap alone \subseteq listed

\* A caller that follows an entity by Since sees no event twice, and skips none
\* that became visible in time and fitted on its page: it has been seen, or is
\* still ahead of Since, although events of one transaction share their time
\* and others are committed late.
FollowSkipsNothing ==
    kind = "follow" =>
    /\ repeated = {}
    /\ \A r \in EntityEventRows(event) :
           r.id \in owed => r.id \in listed \/ cursor < r.at

=============================================================================
