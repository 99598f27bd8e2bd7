---------------------------- MODULE EntityWrites ----------------------------
(***************************************************************************)
(* The write path of the store (store/store_write.go, store/tx.go, the     *)
(* deletes and the tag updates) on the tables entities and entity_anchors. *)
(*                                                                         *)
(* Sessions run READ COMMITTED transactions: a statement sees what was     *)
(* committed when it started and what its own transaction wrote, and an    *)
(* UPDATE, DELETE or conflicting INSERT waits for the transaction that has *)
(* written the row.  A row is therefore a committed version, a draft and   *)
(* the session that holds its lock.  A lock is held until the transaction  *)
(* ends; a deadlock, a failed statement and a lost connection all end in   *)
(* Rollback.                                                               *)
(*                                                                         *)
(* A client reads an entity, computes, and passes the version it read to   *)
(* an update or merge; other sessions write in between.                    *)
(***************************************************************************)
EXTENDS EntityRows, Sequences, FiniteSets

CONSTANTS
    NoEntity, NoTag, NoOp, Nobody,
    Ops,          \* the operations that clients ask for
    ReuseIds,     \* a client id may be used again after a hard delete
    MaxOps,       \* bound on the operations of a transaction, per session
    MaxVersion    \* bound on the version of an entity

(* PreCondition: MustExist and MustNotExist, TagRequired, TagForbidden.    *)
Pre == [on : Anchor, must : SUBSET {"exist", "notExist"},
        required : Tag \cup {NoTag}, forbidden : Tag \cup {NoTag}]

(* One call: a BatchWriteOp, DeleteEntity, HardDeleteEntity or a tag       *)
(* update.  Fields that a kind does not use are ignored.                   *)
Op == [kind : {"create", "update", "merge", "delete", "hardDelete",
               "setTags", "addTags", "removeTags"},
       id : Entity, doc : Doc, tags : SUBSET Tag,
       anchor : Anchor \cup {NoAnchor}, pres : Seq(Pre)]

ASSUME NullAssumption ==
    /\ NoEntity \notin Entity
    /\ NoTag \notin Tag
    /\ NoOp \notin Op
    /\ Nobody \notin Session
ASSUME OpsAssumption == \A o \in Ops : o \in Op
ASSUME WriteBoundAssumption ==
    MaxOps \in [Session -> Nat] /\ MaxVersion \in Nat /\ ReuseIds \in BOOLEAN

VARIABLES
    row,          \* entities: the committed version of every id
    draft,        \* the version written by the open transaction of lock
    lock,         \* the session whose open transaction has written the row
    anchor,       \* entity_anchors: the entity an anchor points to
    anchorDraft,
    anchorLock,
    pc,           \* per session: see Labels
    op,           \* per session: the operation in progress
    todo,         \* per session: preconditions still to be evaluated
    ops,          \* per session: operations begun in this transaction
    outbox,       \* per session: events this transaction has inserted, with
                  \* the number of the operation
    seen,         \* per session and entity: what its client has read last
    updates       \* history: update and merge events committed since the
                  \* EntityCreated of the id

rowVars == <<row, draft, lock>>
anchorVars == <<anchor, anchorDraft, anchorLock>>
txVars == <<pc, op, todo, ops, outbox>>
vars == <<rowVars, anchorVars, txVars, seen, updates>>

-----------------------------------------------------------------------------

(* idle: no transaction; ready: between two operations; busy: before the   *)
(* next statement of an operation; delete: before the UPDATE of a          *)
(* DeleteEntity; anchor: before upsertAnchors; failed: an operation has    *)
(* returned an error.                                                      *)
Labels == {"idle", "ready", "busy", "delete", "anchor", "failed"}

EventOf == [create |-> "EntityCreated", update |-> "EntityUpdated",
            merge |-> "EntityMerged", delete |-> "EntityDeleted",
            hardDelete |-> "EntityHardDeleted"]

-----------------------------------------------------------------------------
(* What a statement of s sees and may write.                               *)

Visible(s, e) == IF lock[e] = s THEN draft[e] ELSE row[e]

VisibleAnchor(s, a) == IF anchorLock[a] = s THEN anchorDraft[a] ELSE anchor[a]

(* FindByAnchors: the live entity the anchor points to.                    *)
FindByAnchors(s, a) ==
    {e \in Entity : VisibleAnchor(s, a) = e /\ Visible(s, e).st = "live"}

(* A statement of s writes version r of e, when no other transaction has   *)
(* written the row.                                                        *)
PutRow(s, e, r) ==
    /\ lock[e] \in {s, Nobody}
    /\ draft' = [draft EXCEPT ![e] = r]
    /\ lock' = [lock EXCEPT ![e] = s]
    /\ UNCHANGED row

(* The same for the anchors of the set A.                                  *)
PutAnchors(s, A, e) ==
    /\ \A a \in A : anchorLock[a] \in {s, Nobody}
    /\ anchorDraft' = [a \in Anchor |-> IF a \in A THEN e ELSE anchorDraft[a]]
    /\ anchorLock' = [a \in Anchor |-> IF a \in A THEN s ELSE anchorLock[a]]
    /\ UNCHANGED anchor

Goto(s, label) == pc' = [pc EXCEPT ![s] = label]

(* insertEvents, in the same transaction, and the end of the operation.    *)
Finish(s) ==
    /\ outbox' = [outbox EXCEPT ![s] =
                    IF op[s].kind \in DOMAIN EventOf
                    THEN @ \cup {[n |-> ops[s], kind |-> EventOf[op[s].kind], id |-> op[s].id]}
                    ELSE @]
    /\ Goto(s, "ready")
    /\ op' = [op EXCEPT ![s] = NoOp]
    /\ UNCHANGED todo

(* The operation returns an error: BatchWrite is about to roll back.       *)
Fail(s) ==
    /\ Goto(s, "failed")
    /\ op' = [op EXCEPT ![s] = NoOp]
    /\ todo' = [todo EXCEPT ![s] = <<>>]
    /\ UNCHANGED outbox

-----------------------------------------------------------------------------

WritesInit ==
    /\ row = [e \in Entity |-> Absent("none")]
    /\ draft = row
    /\ lock = [e \in Entity |-> Nobody]
    /\ anchor = [a \in Anchor |-> NoEntity]
    /\ anchorDraft = anchor
    /\ anchorLock = [a \in Anchor |-> Nobody]
    /\ pc = [s \in Session |-> "idle"]
    /\ op = [s \in Session |-> NoOp]
    /\ todo = [s \in Session |-> <<>>]
    /\ ops = [s \in Session |-> 0]
    /\ outbox = [s \in Session |-> {}]
    /\ seen = [s \in Session |-> [e \in Entity |-> NoView]]
    /\ updates = [e \in Entity |-> 0]

(* The entities that clients update: only of those they keep what they read. *)
Updatable == {o.id : o \in {x \in Ops : x.kind \in {"update", "merge"}}}

(* GetEntity, outside or inside a transaction: what it returns of a row    *)
(* that the transaction has written itself is no news to the client.       *)
GetEntity(s, e) ==
    /\ pc[s] \in {"idle", "ready"}
    /\ row[e].st = "live"
    /\ seen' = [seen EXCEPT ![s][e] = ViewOf(row[e])]
    /\ UNCHANGED <<rowVars, anchorVars, txVars, updates>>

(* pool.BeginTx.                                                           *)
BeginTx(s) ==
    /\ pc[s] = "idle"
    /\ Goto(s, "ready")
    /\ UNCHANGED <<rowVars, anchorVars, op, todo, ops, outbox, seen, updates>>

(* The transaction has written the data of e, and its client knows it.     *)
Wrote(s, e) ==
    lock[e] = s /\ (draft[e].version > row[e].version \/ ~Exists(row[e]))

(* The version a client passes: of what it wrote in this transaction, or   *)
(* of what it has read.                                                    *)
ExpectedVersion(s, e) ==
    IF Wrote(s, e) THEN draft[e].version ELSE seen[s][e].version

(* executeBatchOps takes the next operation.  Clients update only what     *)
(* they have read.                                                         *)
BeginOp(s, o) ==
    /\ pc[s] = "ready"
    /\ ops[s] < MaxOps[s]
    /\ o.kind \in {"update", "merge"} => Wrote(s, o.id) \/ seen[s][o.id] # NoView
    /\ op' = [op EXCEPT ![s] = o]
    /\ todo' = [todo EXCEPT ![s] = o.pres]
    /\ ops' = [ops EXCEPT ![s] = @ + 1]
    /\ Goto(s, "busy")
    /\ UNCHANGED <<rowVars, anchorVars, outbox, seen, updates>>

(* One element of evaluatePreConditions.  The query runs inside the        *)
(* transaction and locks nothing.                                          *)
PreHolds(s, p) ==
    LET found == FindByAnchors(s, p.on)
        HaveTag(t) == \E e \in found : t \in Visible(s, e).tags
    IN /\ p.must # {"exist", "notExist"}
       /\ "exist" \in p.must => found # {}
       /\ "notExist" \in p.must => found = {}
       /\ p.required # NoTag => HaveTag(p.required)
       /\ p.forbidden # NoTag => ~HaveTag(p.forbidden)

EvaluatePreCondition(s) ==
    /\ pc[s] = "busy"
    /\ todo[s] # <<>>
    /\ IF PreHolds(s, Head(todo[s]))
       THEN /\ todo' = [todo EXCEPT ![s] = Tail(@)]
            /\ UNCHANGED <<pc, op, outbox>>
       ELSE Fail(s)
    /\ UNCHANGED <<rowVars, anchorVars, ops, seen, updates>>

(* The session is at the first statement of an operation of these kinds.   *)
At(s, kinds) == pc[s] = "busy" /\ todo[s] = <<>> /\ op[s].kind \in kinds

(* After the write of the entity: upsertAnchors, if there are any.         *)
ThenAnchors(s) ==
    IF op[s].anchor = NoAnchor
    THEN Finish(s)
    ELSE Goto(s, "anchor") /\ UNCHANGED <<op, todo, outbox>>

(* The anchor that a create with a MustNotExist precondition reserves.     *)
Claim(o) ==
    IF \E i \in 1..Len(o.pres) : o.pres[i].on = o.anchor /\ "notExist" \in o.pres[i].must
    THEN o.anchor
    ELSE NoAnchor

(* The row of a create.                                                    *)
InsertEntity(o) ==
    [st |-> "live", version |-> 0, doc |-> o.doc, tags |-> o.tags, claim |-> Claim(o)]

(* applyCreate: InsertEntity or InsertEntityWithID.  A soft-deleted row    *)
(* still occupies its id; a hard-deleted one does not.                     *)
ApplyCreate(s) ==
    LET o == op[s]
    IN /\ At(s, {"create"})
       /\ \/ /\ ~Exists(Visible(s, o.id))
             /\ Visible(s, o.id).st = "gone" => ReuseIds
             /\ PutRow(s, o.id, InsertEntity(o))
             /\ ThenAnchors(s)
          \/ /\ lock[o.id] \in {s, Nobody}
             /\ Exists(Visible(s, o.id))
             /\ Fail(s)
             /\ UNCHANGED rowVars
       /\ UNCHANGED <<anchorVars, ops, seen, updates>>

(* Mutant: the version is not compared.                                    *)
AnyVersionMatches(s, e) == Visible(s, e).st = "live"

(* Mutant: deleted_at is not examined.                                     *)
DeletedMatches(s, e) == Visible(s, e).version = ExpectedVersion(s, e)

(* WHERE id = $1 AND version = @expected_version AND deleted_at IS NULL.   *)
VersionMatches(s, e) ==
    Visible(s, e).st = "live" /\ Visible(s, e).version = ExpectedVersion(s, e)

(* UpdateEntityData replaces the data, MergeEntityData (data || $2) keeps  *)
(* the fields that the new data does not have.                             *)
NewDoc(o, old) ==
    IF o.kind = "update"
    THEN o.doc
    ELSE [k \in DOMAIN o.doc \cup DOMAIN old |->
            IF k \in DOMAIN o.doc THEN o.doc[k] ELSE old[k]]

(* The row after the versioned UPDATE and AddEntityTags.                   *)
UpdateEntityRow(o, r) ==
    [st |-> r.st, version |-> r.version + 1, doc |-> NewDoc(o, r.doc),
     tags |-> r.tags \cup o.tags, claim |-> r.claim]

(* applyUpdateOrMerge: the two statements on the same row.                 *)
ApplyUpdateOrMerge(s) ==
    LET o == op[s]
        r == Visible(s, o.id)
    IN /\ At(s, {"update", "merge"})
       /\ VersionMatches(s, o.id)
       /\ r.version < MaxVersion
       /\ PutRow(s, o.id, UpdateEntityRow(o, r))
       /\ ThenAnchors(s)
       /\ UNCHANGED <<anchorVars, ops, seen, updates>>

(* Mutant: that no row was updated goes unnoticed.                         *)
ConflictIgnored(s) ==
    /\ At(s, {"update", "merge"})
    /\ ~VersionMatches(s, op[s].id)
    /\ Finish(s)
    /\ UNCHANGED <<rowVars, anchorVars, ops, seen, updates>>

(* No row updated: ErrConflict.                                            *)
Conflict(s) ==
    /\ At(s, {"update", "merge"})
    /\ ~VersionMatches(s, op[s].id)
    /\ Fail(s)
    /\ UNCHANGED <<rowVars, anchorVars, ops, seen, updates>>

(* UpsertAnchor: ON CONFLICT DO UPDATE points the anchor to this entity.   *)
UpsertAnchors(s) ==
    /\ pc[s] = "anchor"
    /\ PutAnchors(s, {op[s].anchor}, op[s].id)
    /\ Finish(s)
    /\ UNCHANGED <<rowVars, ops, seen, updates>>

(* DeleteEntity: GetEntity for the event; an error if it is not found.     *)
DeleteLookup(s) ==
    /\ At(s, {"delete"})
    /\ IF Visible(s, op[s].id).st = "live"
       THEN Goto(s, "delete") /\ UNCHANGED <<op, todo, outbox>>
       ELSE Fail(s)
    /\ UNCHANGED <<rowVars, anchorVars, ops, seen, updates>>

(* DeleteEntity: SET deleted_at WHERE deleted_at IS NULL.  That no row was *)
(* updated goes unnoticed, and the event is inserted all the same.         *)
DeleteEntity(s) ==
    LET r == Visible(s, op[s].id)
    IN /\ pc[s] = "delete"
       /\ IF r.st = "live"
          THEN PutRow(s, op[s].id, [r EXCEPT !.st = "deleted"])
          ELSE UNCHANGED rowVars
       /\ Finish(s)
       /\ UNCHANGED <<anchorVars, ops, seen, updates>>

(* Mutant: the foreign key of the anchors does not cascade.                *)
HardDeleteKeepingAnchors(s) ==
    LET e == op[s].id
    IN /\ At(s, {"hardDelete"})
       /\ IF Exists(Visible(s, e)) THEN PutRow(s, e, Absent("gone")) ELSE UNCHANGED rowVars
       /\ Finish(s)
       /\ UNCHANGED <<anchorVars, ops, seen, updates>>

(* HardDeleteEntity: the event, then DELETE, which cascades to the anchors *)
(* and does not mind an absent row.                                        *)
HardDeleteEntity(s) ==
    LET e == op[s].id
    IN /\ At(s, {"hardDelete"})
       /\ IF Exists(Visible(s, e))
          THEN /\ PutRow(s, e, Absent("gone"))
               /\ PutAnchors(s, {a \in Anchor : VisibleAnchor(s, a) = e}, NoEntity)
          ELSE UNCHANGED <<rowVars, anchorVars>>
       /\ Finish(s)
       /\ UNCHANGED <<ops, seen, updates>>

NewTags(o, old) ==
    CASE o.kind = "setTags"    -> o.tags
      [] o.kind = "addTags"    -> old \cup o.tags
      [] o.kind = "removeTags" -> old \ o.tags

(* SetTags, AddTags, RemoveTag: no version, no event, soft-deleted rows    *)
(* too.                                                                    *)
UpdateTags(s) ==
    LET o == op[s]
        r == Visible(s, o.id)
    IN /\ At(s, {"setTags", "addTags", "removeTags"})
       /\ IF Exists(r)
          THEN PutRow(s, o.id, [r EXCEPT !.tags = NewTags(o, @)])
          ELSE UNCHANGED rowVars
       /\ Finish(s)
       /\ UNCHANGED <<anchorVars, ops, seen, updates>>

-----------------------------------------------------------------------------

(* The transaction of s ends: its locks are released and its drafts, now   *)
(* R and A where they are committed, are gone.                             *)
EndTx(s, R, A) ==
    /\ row' = R
    /\ draft' = [e \in Entity |-> IF lock[e] = s THEN R[e] ELSE draft[e]]
    /\ lock' = [e \in Entity |-> IF lock[e] = s THEN Nobody ELSE lock[e]]
    /\ anchor' = A
    /\ anchorDraft' = [a \in Anchor |-> IF anchorLock[a] = s THEN A[a] ELSE anchorDraft[a]]
    /\ anchorLock' = [a \in Anchor |-> IF anchorLock[a] = s THEN Nobody ELSE anchorLock[a]]
    /\ pc' = [pc EXCEPT ![s] = "idle"]
    /\ op' = [op EXCEPT ![s] = NoOp]
    /\ todo' = [todo EXCEPT ![s] = <<>>]
    /\ ops' = [ops EXCEPT ![s] = 0]
    /\ outbox' = [outbox EXCEPT ![s] = {}]

(* The events in the outbox of s that tell of a creation of e.             *)
CreateEvents(s, e) == {v \in outbox[s] : v.id = e /\ v.kind = "EntityCreated"}

(* Update and merge events of e in the outbox of s, since the last one of  *)
(* those.                                                                  *)
UpdateEvents(s, e) ==
    {v \in outbox[s] :
        /\ v.id = e /\ v.kind \in {"EntityUpdated", "EntityMerged"}
        /\ \A c \in CreateEvents(s, e) : c.n < v.n}

(* tx.Commit.  The client learns what it wrote, unless the answer is lost. *)
Commit(s) ==
    /\ pc[s] = "ready"
    /\ EndTx(s, [e \in Entity |-> Visible(s, e)], [a \in Anchor |-> VisibleAnchor(s, a)])
    /\ updates' = [e \in Entity |->
                     (IF CreateEvents(s, e) # {} THEN 0 ELSE updates[e])
                        + Cardinality(UpdateEvents(s, e))]
    /\ \/ UNCHANGED seen
       \/ seen' = [seen EXCEPT ![s] = [e \in Entity |->
                     IF e \in Updatable /\ Wrote(s, e) /\ draft[e].st = "live"
                     THEN ViewOf(draft[e]) ELSE @[e]]]

(* The deferred tx.Rollback, at any moment: an error was returned, the     *)
(* context was cancelled, the connection was lost, a deadlock was broken.  *)
Rollback(s) ==
    /\ pc[s] # "idle"
    /\ EndTx(s, row, anchor)
    /\ UNCHANGED <<seen, updates>>

Next ==
    \E s \in Session :
        \/ \E e \in Updatable : GetEntity(s, e)
        \/ BeginTx(s)
        \/ \E o \in Ops : BeginOp(s, o)
        \/ EvaluatePreCondition(s)
        \/ ApplyCreate(s) \/ ApplyUpdateOrMerge(s) \/ Conflict(s)
        \/ UpsertAnchors(s)
        \/ DeleteLookup(s) \/ DeleteEntity(s) \/ HardDeleteEntity(s)
        \/ UpdateTags(s)
        \/ Commit(s) \/ Rollback(s)

Spec == WritesInit /\ [][Next]_vars

-----------------------------------------------------------------------------
(* Properties.                                                             *)

(* Type invariant; a row that no transaction has written has no draft, and *)
(* an anchor never points to a row that is not in the table.               *)
TypeOK ==
    /\ row \in [Entity -> Row]
    /\ draft \in [Entity -> Row]
    /\ lock \in [Entity -> Session \cup {Nobody}]
    /\ \A e \in Entity : lock[e] = Nobody => draft[e] = row[e]
    /\ anchor \in [Anchor -> Entity \cup {NoEntity}]
    /\ anchorDraft \in [Anchor -> Entity \cup {NoEntity}]
    /\ anchorLock \in [Anchor -> Session \cup {Nobody}]
    /\ \A a \in Anchor : anchor[a] # NoEntity => Exists(row[anchor[a]])
    /\ pc \in [Session -> Labels]
    /\ op \in [Session -> Ops \cup {NoOp}]
    /\ todo \in [Session -> Seq(Pre)]
    /\ ops \in [Session -> Nat] /\ \A s \in Session : ops[s] <= MaxOps[s]
    /\ seen \in [Session -> [Entity -> View \cup {NoView}]]
    /\ updates \in [Entity -> Nat]

(* No lost update: the data that an open transaction is about to replace   *)
(* is, field for field, the data its client had read, whatever other       *)
(* sessions have created, updated, merged, deleted or retried since then.  *)
NoLostUpdate ==
    \A s \in Session, e \in Entity :
        /\ lock[e] = s
        /\ Exists(row[e]) /\ Exists(draft[e])
        /\ draft[e].doc # row[e].doc
        => seen[s][e] = ViewOf(row[e])

(* The version of an entity is the number of EntityUpdated and             *)
(* EntityMerged events committed since it was created: consumers of the    *)
(* log see every change of the data and nothing that was rolled back.      *)
VersionCountsEvents ==
    \A e \in Entity : Exists(row[e]) => row[e].version = updates[e]

(* Transactions, locks and drafts implement an atomic compare-and-swap     *)
(* register per entity: no update is based on stale data, none changes or  *)
(* brings back a deleted entity, and a batch takes effect at its commit.   *)
Register == INSTANCE EntityRegister

RefinesRegister == Register!Spec

(* A MustNotExist precondition makes an anchor unique: no two live         *)
(* entities were created with the same anchor under it.                    *)
MustNotExistIsUnique ==
    \A e, f \in Entity :
        /\ row[e].st = "live" /\ row[f].st = "live"
        /\ row[e].claim = row[f].claim /\ row[e].claim # NoAnchor
        => e = f
=============================================================================
