------------------------- MODULE EntityWritesProofs -------------------------
(***************************************************************************)
(* The write path, for every number of sessions, entities, anchors and     *)
(* operations per transaction.                                             *)
(***************************************************************************)
EXTENDS EntityWrites, FiniteSetTheorems, TLAPS

Event == [n : Nat, id : Entity,
          kind : {"EntityCreated", "EntityUpdated", "EntityMerged", "EntityDeleted",
                  "EntityHardDeleted"}]

(* Events of an open transaction: finitely many, numbered by operation;    *)
(* the one of the operation in progress is yet to come.                    *)
OutboxOK ==
    /\ outbox \in [Session -> SUBSET Event]
    /\ \A s \in Session :
          /\ IsFiniteSet(outbox[s])
          /\ \A v \in outbox[s] :
                v.n <= ops[s] /\ (pc[s] \in {"busy", "delete", "anchor"} => v.n < ops[s])

(* What a session knows at a label: its operation, and at "anchor" that it *)
(* has written the row of the entity.                                      *)
LabelOK(s) ==
    /\ pc[s] \in {"busy", "delete", "anchor"} => op[s] \in Ops
    /\ pc[s] = "delete" => op[s].kind = "delete"
    /\ pc[s] = "anchor" => /\ op[s].kind \in {"create", "update", "merge"}
                           /\ op[s].anchor \in Anchor
                           /\ lock[op[s].id] = s
                           /\ Exists(draft[op[s].id])

LabelsOK == \A s \in Session : LabelOK(s)

(* A row somebody has written is not one that never existed.               *)
DraftsOK == \A e \in Entity : lock[e] # Nobody => draft[e].st # "none"

(* An anchor that is being moved points to a row of the same transaction;  *)
(* if a transaction has removed the row an anchor points to, then it has   *)
(* the lock of that anchor.                                                *)
AnchorsOK ==
    \A a \in Anchor :
        /\ anchorLock[a] # Nobody /\ anchorDraft[a] # NoEntity =>
              /\ lock[anchorDraft[a]] = anchorLock[a]
              /\ Exists(draft[anchorDraft[a]])
        /\ anchor[a] # NoEntity =>
              \/ lock[anchor[a]] = Nobody
              \/ Exists(draft[anchor[a]])
              \/ anchorLock[a] = lock[anchor[a]]

(* The version an open transaction of s would leave behind according to    *)
(* its events.                                                             *)
Counted(s, e) ==
    (IF CreateEvents(s, e) # {} THEN 0 ELSE updates[e]) + Cardinality(UpdateEvents(s, e))

(* The version of a draft is the number of events, where the event of an   *)
(* operation that is still to write its anchor is missing.                 *)
EventsAgree(s, e) ==
    /\ lock[e] # s => UpdateEvents(s, e) = {} /\ CreateEvents(s, e) = {}
    /\ lock[e] = s /\ Exists(draft[e]) =>
          draft[e].version =
             IF pc[s] = "anchor" /\ op[s].id = e
             THEN IF op[s].kind = "create" THEN 0 ELSE Counted(s, e) + 1
             ELSE Counted(s, e)

EventsOK == \A s \in Session, e \in Entity : EventsAgree(s, e)

IInv ==
    /\ TypeOK /\ OutboxOK /\ LabelsOK /\ DraftsOK /\ AnchorsOK
    /\ EventsOK /\ VersionCountsEvents

-----------------------------------------------------------------------------

(* The draft of a row relates to the committed version as an implemented   *)
(* compare-and-swap asks.                                                  *)
SwapsOK ==
    \A e \in Entity :
        /\ row[e].st = "gone" => lock[e] = Nobody
        /\ lock[e] # Nobody /\ Exists(row[e]) /\ Exists(draft[e]) =>
              /\ draft[e].version >= row[e].version
              /\ draft[e].version = row[e].version => draft[e].doc = row[e].doc
              /\ row[e].st = "deleted" => draft[e].st = "deleted"
              /\ draft[e].version > row[e].version =>
                    row[e].st = "live" /\ seen[lock[e]][e] = ViewOf(row[e])

(* What a client has read is an earlier version, or the current one.       *)
SeenOK ==
    \A s \in Session, e \in Entity :
        seen[s][e] # NoView =>
            /\ row[e].st # "none"
            /\ Exists(row[e]) =>
                  /\ seen[s][e].version <= row[e].version
                  /\ seen[s][e].version = row[e].version => seen[s][e].doc = row[e].doc

(* A client that asks for an update has something to pass as its version.  *)
BasisOK ==
    \A s \in Session :
        pc[s] = "busy" /\ op[s].kind \in {"update", "merge"} =>
            Wrote(s, op[s].id) \/ seen[s][op[s].id] # NoView

RInv == SwapsOK /\ SeenOK /\ BasisOK

-----------------------------------------------------------------------------
(* The parts of TypeOK.                                                    *)

RowTypeOK ==
    /\ row \in [Entity -> Row]
    /\ draft \in [Entity -> Row]
    /\ lock \in [Entity -> Session \cup {Nobody}]
    /\ \A e \in Entity : lock[e] = Nobody => draft[e] = row[e]

AnchorTypeOK ==
    /\ anchor \in [Anchor -> Entity \cup {NoEntity}]
    /\ anchorDraft \in [Anchor -> Entity \cup {NoEntity}]
    /\ anchorLock \in [Anchor -> Session \cup {Nobody}]

Resolves == \A a \in Anchor : anchor[a] # NoEntity => Exists(row[anchor[a]])

TxTypeOK ==
    /\ pc \in [Session -> Labels]
    /\ op \in [Session -> Ops \cup {NoOp}]
    /\ todo \in [Session -> Seq(Pre)]
    /\ ops \in [Session -> Nat] /\ \A s \in Session : ops[s] <= MaxOps[s]

ReadTypeOK ==
    /\ seen \in [Session -> [Entity -> View \cup {NoView}]]
    /\ updates \in [Entity -> Nat]

LEMMA TypeParts ==
    TypeOK <=> RowTypeOK /\ AnchorTypeOK /\ Resolves /\ TxTypeOK /\ ReadTypeOK
  BY DEF TypeOK, RowTypeOK, AnchorTypeOK, Resolves, TxTypeOK, ReadTypeOK

LEMMA TypePartsNext ==
    ASSUME RowTypeOK', AnchorTypeOK', Resolves', TxTypeOK', ReadTypeOK'
    PROVE  TypeOK'
  BY DEF TypeOK, RowTypeOK, AnchorTypeOK, Resolves, TxTypeOK, ReadTypeOK

(* Operations are well typed.                                              *)
LEMMA OpType ==
    ASSUME NEW o \in Ops
    PROVE  /\ o \in Op /\ o # NoOp
           /\ o.id \in Entity /\ o.doc \in Doc /\ o.tags \in SUBSET Tag
           /\ o.anchor \in Anchor \cup {NoAnchor} /\ o.pres \in Seq(Pre)
           /\ o.kind \in {"create", "update", "merge", "delete", "hardDelete",
                           "setTags", "addTags", "removeTags"}
  <1>1. o \in Op
    BY OpsAssumption
  <1> QED
    BY <1>1, NullAssumption DEF Op

(* The fields of a row.                                                    *)
LEMMA RowFields ==
    ASSUME NEW r \in Row
    PROVE  /\ r.st \in {"none", "live", "deleted", "gone"}
           /\ r.version \in Nat /\ r.doc \in Doc /\ r.tags \in SUBSET Tag
           /\ r.claim \in Anchor \cup {NoAnchor}
  BY DEF Row

LEMMA RowIsRecord ==
    ASSUME NEW r \in Row
    PROVE  r = [st |-> r.st, version |-> r.version, doc |-> r.doc, tags |-> r.tags,
                claim |-> r.claim]
  BY DEF Row

LEMMA AbsentType ==
    ASSUME NEW st \in {"none", "live", "deleted", "gone"}
    PROVE  Absent(st) \in Row /\ Absent(st).st = st /\ Absent(st).version = 0
  <1>1. EmptyDoc \in [{} -> Val] /\ {} \in SUBSET Key
    BY DEF EmptyDoc
  <1>2. EmptyDoc \in Doc
    BY <1>1 DEF Doc
  <1> QED
    BY <1>2 DEF Absent, Row

(* What an update or a merge leaves in the data column is a document.      *)
LEMMA NewDocType ==
    ASSUME NEW o \in Ops, NEW d \in Doc
    PROVE  NewDoc(o, d) \in Doc
  <1>1. PICK K \in SUBSET Key : o.doc \in [K -> Val]
    BY OpType DEF Doc
  <1>2. PICK L \in SUBSET Key : d \in [L -> Val]
    BY DEF Doc
  <1>3. CASE o.kind = "update"
    BY <1>3, OpType DEF NewDoc
  <1>4. CASE o.kind # "update"
    <2>1. DOMAIN o.doc = K /\ DOMAIN d = L
      BY <1>1, <1>2
    <2>2. NewDoc(o, d) \in [K \cup L -> Val]
      BY <1>1, <1>2, <1>4, <2>1 DEF NewDoc
    <2> QED
      BY <2>2 DEF Doc
  <1> QED
    BY <1>3, <1>4

(* What a session sees is a row.                                           *)
LEMMA VisibleType ==
    ASSUME RowTypeOK, NEW s \in Session, NEW e \in Entity
    PROVE  Visible(s, e) \in Row
  BY DEF RowTypeOK, Visible

(* The view of a row.                                                      *)
LEMMA ViewType ==
    ASSUME NEW r \in Row
    PROVE  ViewOf(r) \in View /\ ViewOf(r).version = r.version /\ ViewOf(r).doc = r.doc
  BY RowFields DEF ViewOf, View

-----------------------------------------------------------------------------
(* What a statement of the operation of s may do to the row of e, seen     *)
(* from outside: it inserts, edits under the version it expects, marks (a  *)
(* soft delete or tags) or removes.                                        *)

Inserts(s, e, r) ==
    /\ op[s].kind = "create"
    /\ ~Exists(Visible(s, e))
    /\ Visible(s, e).st = "gone" => ReuseIds
    /\ r.st = "live" /\ r.version = 0

Edits(s, e, r) ==
    /\ op[s].kind \in {"update", "merge"}
    /\ VersionMatches(s, e)
    /\ r.st = "live" /\ r.version = Visible(s, e).version + 1

Marks(s, e, r) ==
    /\ op[s].kind \in {"delete", "setTags", "addTags", "removeTags"}
    /\ Exists(Visible(s, e)) /\ Exists(r)
    /\ r.version = Visible(s, e).version /\ r.doc = Visible(s, e).doc
    /\ Visible(s, e).st = "deleted" => r.st = "deleted"

Removes(s, e, r) ==
    /\ op[s].kind = "hardDelete"
    /\ Exists(Visible(s, e))
    /\ r = Absent("gone")

Statement(s, e, r) ==
    /\ PutRow(s, e, r)
    /\ Inserts(s, e, r) \/ Edits(s, e, r) \/ Marks(s, e, r) \/ Removes(s, e, r)

(* The row a versioned UPDATE writes.                                      *)
LEMMA EditedRow ==
    ASSUME NEW r \in Row, NEW o \in Ops
    PROVE  LET q == UpdateEntityRow(o, r)
           IN  q \in Row /\ q.st = r.st /\ q.version = r.version + 1
  <1>1. NewDoc(o, r.doc) \in Doc /\ r.version + 1 \in Nat /\ r.tags \cup o.tags \in SUBSET Tag
    BY NewDocType, RowFields, OpType
  <1> QED
    BY <1>1, RowFields DEF UpdateEntityRow, Row

(* The row a soft delete writes.                                           *)
LEMMA DeletedRow ==
    ASSUME NEW r \in Row
    PROVE  LET q == [r EXCEPT !.st = "deleted"]
           IN  q \in Row /\ q.st = "deleted" /\ q.version = r.version /\ q.doc = r.doc
  <1> DEFINE q == [r EXCEPT !.st = "deleted"]
  <1>1. q = [st |-> "deleted", version |-> r.version, doc |-> r.doc, tags |-> r.tags,
             claim |-> r.claim]
    BY DEF Row
  <1> HIDE DEF q
  <1>2. q \in Row /\ q.st = "deleted" /\ q.version = r.version /\ q.doc = r.doc
    BY <1>1, RowFields DEF Row
  <1> QED
    BY <1>2 DEF q

(* The row a tag update writes.                                            *)
LEMMA TaggedRow ==
    ASSUME NEW r \in Row, NEW T \in SUBSET Tag
    PROVE  LET q == [r EXCEPT !.tags = T]
           IN  q \in Row /\ q.st = r.st /\ q.version = r.version /\ q.doc = r.doc
  <1> DEFINE q == [r EXCEPT !.tags = T]
  <1>1. q = [st |-> r.st, version |-> r.version, doc |-> r.doc, tags |-> T,
             claim |-> r.claim]
    BY DEF Row
  <1> HIDE DEF q
  <1>2. q \in Row /\ q.st = r.st /\ q.version = r.version /\ q.doc = r.doc
    BY <1>1, RowFields DEF Row
  <1> QED
    BY <1>2 DEF q

LEMMA InsertedRow ==
    ASSUME NEW o \in Ops
    PROVE  InsertEntity(o) \in Row /\ InsertEntity(o).st = "live" /\ InsertEntity(o).version = 0
  BY OpType DEF InsertEntity, Claim, Row

(* The operation of a session that is at a statement.                      *)
LEMMA AtOp ==
    ASSUME LabelsOK, NEW s \in Session, pc[s] \in {"busy", "delete", "anchor"}
    PROVE  op[s] \in Ops /\ op[s].id \in Entity
  BY OpType DEF LabelsOK, LabelOK

(* Every action that writes a row is one of these statements, or leaves    *)
(* the table alone.                                                        *)
LEMMA WritesAreStatements ==
    ASSUME RowTypeOK, LabelsOK, NEW s \in Session,
           \/ ApplyCreate(s) \/ ApplyUpdateOrMerge(s) \/ DeleteEntity(s)
           \/ HardDeleteEntity(s) \/ UpdateTags(s)
    PROVE  \/ UNCHANGED rowVars
           \/ \E r \in Row : Statement(s, op[s].id, r)
  <1> DEFINE e == op[s].id
             v == Visible(s, e)
  <1>1. op[s] \in Ops /\ e \in Entity
    BY AtOp DEF ApplyCreate, ApplyUpdateOrMerge, DeleteEntity, HardDeleteEntity, UpdateTags, At
  <1>2. v \in Row
    BY <1>1, VisibleType
  <1> HIDE DEF v
  <1>3. CASE ApplyCreate(s)
    BY <1>1, <1>3, InsertedRow DEF ApplyCreate, At, Statement, Inserts, v
  <1>4. CASE ApplyUpdateOrMerge(s)
    <2> DEFINE q == UpdateEntityRow(op[s], v)
    <2>1. q \in Row /\ q.st = v.st /\ q.version = v.version + 1
      BY <1>1, <1>2, EditedRow
    <2>2. PutRow(s, e, q) /\ VersionMatches(s, e) /\ op[s].kind \in {"update", "merge"}
      BY <1>4 DEF ApplyUpdateOrMerge, At, v
    <2> HIDE DEF q
    <2>3. Edits(s, e, q)
      BY <2>1, <2>2 DEF Edits, VersionMatches, v
    <2> QED
      BY <2>1, <2>2, <2>3 DEF Statement
  <1>5. CASE DeleteEntity(s)
    <2> DEFINE q == [v EXCEPT !.st = "deleted"]
    <2>1. q \in Row /\ q.st = "deleted" /\ q.version = v.version /\ q.doc = v.doc
      BY <1>2, DeletedRow
    <2>2. \/ UNCHANGED rowVars
          \/ v.st = "live" /\ PutRow(s, e, q)
      BY <1>5 DEF DeleteEntity, v
    <2> HIDE DEF q
    <2>3. v.st = "live" => Marks(s, e, q)
      BY <1>5, <2>1 DEF DeleteEntity, LabelsOK, LabelOK, Marks, Exists, v
    <2> QED
      BY <2>1, <2>2, <2>3 DEF Statement
  <1>6. CASE HardDeleteEntity(s)
    <2>1. \/ UNCHANGED rowVars
          \/ Exists(v) /\ PutRow(s, e, Absent("gone"))
      BY <1>6 DEF HardDeleteEntity, v
    <2> QED
      BY <1>6, <2>1, AbsentType DEF HardDeleteEntity, At, Statement, Removes, v
  <1>7. CASE UpdateTags(s)
    <2> DEFINE T == NewTags(op[s], v.tags)
               q == [v EXCEPT !.tags = T]
    <2>1. T \in SUBSET Tag
      BY <1>1, <1>2, <1>7, OpType, RowFields DEF NewTags, UpdateTags, At
    <2> HIDE DEF T
    <2>2. q \in Row /\ q.st = v.st /\ q.version = v.version /\ q.doc = v.doc
      BY <1>2, <2>1, TaggedRow
    <2>3. \/ UNCHANGED rowVars
          \/ Exists(v) /\ PutRow(s, e, q)
      BY <1>7 DEF UpdateTags, v, T
    <2> HIDE DEF q
    <2>4. Exists(v) => Marks(s, e, q)
      BY <1>7, <2>2 DEF UpdateTags, At, Marks, Exists, v
    <2> QED
      BY <2>2, <2>3, <2>4 DEF Statement
  <1> QED
    BY <1>3, <1>4, <1>5, <1>6, <1>7

-----------------------------------------------------------------------------
(* What the building blocks of the actions do, point by point.             *)

LEMMA PutRowFacts ==
    ASSUME RowTypeOK, NEW s \in Session, NEW e \in Entity, NEW r \in Row, PutRow(s, e, r)
    PROVE  /\ RowTypeOK'
           /\ row' = row
           /\ lock[e] \in {s, Nobody}
           /\ draft'[e] = r /\ lock'[e] = s
           /\ \A f \in Entity : f # e => draft'[f] = draft[f] /\ lock'[f] = lock[f]
  BY NullAssumption DEF RowTypeOK, PutRow

(* The session moves on; the others stay where they are.                   *)
Moved(s, label, o) ==
    /\ pc'[s] = label /\ op'[s] = o
    /\ \A t \in Session : t # s => pc'[t] = pc[t] /\ op'[t] = op[t]

LEMMA GotoFacts ==
    ASSUME TxTypeOK, OutboxOK, NEW s \in Session, NEW label \in Labels,
           pc[s] \in {"busy", "delete", "anchor"}, Goto(s, label),
           UNCHANGED <<op, todo, ops, outbox>>
    PROVE  TxTypeOK' /\ OutboxOK' /\ Moved(s, label, op[s])
  <1>1. TxTypeOK'
    BY DEF TxTypeOK, Goto
  <1>2. Moved(s, label, op[s])
    BY DEF TxTypeOK, Goto, Moved
  <1>3. OutboxOK'
    BY <1>2 DEF OutboxOK, Moved
  <1> QED
    BY <1>1, <1>2, <1>3

LEMMA FailFacts ==
    ASSUME TxTypeOK, OutboxOK, NEW s \in Session, Fail(s), ops' = ops
    PROVE  TxTypeOK' /\ OutboxOK' /\ Moved(s, "failed", NoOp) /\ outbox' = outbox
  <1>1. TxTypeOK'
    BY DEF TxTypeOK, Goto, Fail, Labels
  <1>2. Moved(s, "failed", NoOp) /\ outbox' = outbox
    BY DEF TxTypeOK, Goto, Fail, Moved
  <1>3. OutboxOK'
    BY <1>2 DEF OutboxOK, Moved
  <1> QED
    BY <1>1, <1>2, <1>3

(* The event that an operation of s is to insert.                          *)
NewEvent(s) == [n |-> ops[s], kind |-> EventOf[op[s].kind], id |-> op[s].id]

Silent == {"setTags", "addTags", "removeTags"}

LEMMA FinishFacts ==
    ASSUME TxTypeOK, OutboxOK, NEW s \in Session,
           pc[s] \in {"busy", "delete", "anchor"}, op[s] \in Ops, Finish(s), ops' = ops
    PROVE  /\ TxTypeOK' /\ OutboxOK' /\ Moved(s, "ready", NoOp)
           /\ \A t \in Session : t # s => outbox'[t] = outbox[t]
           /\ op[s].kind \in Silent => outbox'[s] = outbox[s]
           /\ op[s].kind \notin Silent => outbox'[s] = outbox[s] \cup {NewEvent(s)}
  <1> DEFINE v == NewEvent(s)
  <1>1. TxTypeOK'
    BY DEF TxTypeOK, Goto, Finish, Labels
  <1>2. Moved(s, "ready", NoOp)
    BY DEF TxTypeOK, Goto, Finish, Moved
  <1>3. DOMAIN EventOf = {"create", "update", "merge", "delete", "hardDelete"}
    BY DEF EventOf
  <1>4. op[s].kind \in DOMAIN EventOf <=> op[s].kind \notin Silent
    BY <1>3, OpType DEF Silent
  <1>5. outbox' = [outbox EXCEPT ![s] = IF op[s].kind \in DOMAIN EventOf
                                        THEN outbox[s] \cup {v} ELSE outbox[s]]
    BY DEF Finish, NewEvent
  <1>6. /\ op[s].kind \in Silent => outbox'[s] = outbox[s]
        /\ op[s].kind \notin Silent => outbox'[s] = outbox[s] \cup {v}
        /\ \A t \in Session : t # s => outbox'[t] = outbox[t]
    BY <1>4, <1>5 DEF OutboxOK
  <1>7. op[s].kind \notin Silent => v \in Event /\ v.n = ops[s]
    <2>1. ops[s] \in Nat /\ op[s].id \in Entity
      BY OpType DEF TxTypeOK
    <2> QED
      BY <2>1, OpType DEF NewEvent, Event, EventOf, Silent
  <1> HIDE DEF v
  <1>8. OutboxOK'
    <2>1. outbox' \in [Session -> SUBSET Event]
      BY <1>4, <1>5, <1>7 DEF OutboxOK
    <2>2. ASSUME NEW t \in Session
          PROVE  /\ IsFiniteSet(outbox'[t])
                 /\ \A w \in outbox'[t] : /\ w.n <= ops'[t]
                                          /\ pc'[t] \in {"busy", "delete", "anchor"} => w.n < ops'[t]
      <3>1. CASE t # s
        BY <1>2, <1>6, <3>1 DEF OutboxOK, Moved
      <3>2. CASE t = s
        <4>1. \A w \in outbox[s] : w.n <= ops[s]
          BY DEF OutboxOK
        <4>2. \A w \in outbox'[s] : w.n <= ops[s]
          BY <1>6, <1>7, <4>1 DEF TxTypeOK
        <4>3. IsFiniteSet(outbox'[s])
          BY <1>6, FS_AddElement DEF OutboxOK
        <4> QED
          BY <1>2, <3>2, <4>2, <4>3 DEF Moved
      <3> QED
        BY <3>1, <3>2
    <2> QED
      BY <2>1, <2>2 DEF OutboxOK
  <1> QED
    BY <1>1, <1>2, <1>6, <1>8 DEF v

-----------------------------------------------------------------------------
(* Counting events.                                                        *)

LEMMA CountType ==
    ASSUME OutboxOK, ReadTypeOK, NEW s \in Session, NEW e \in Entity
    PROVE  /\ Cardinality(UpdateEvents(s, e)) \in Nat /\ Counted(s, e) \in Nat
           /\ IsFiniteSet(UpdateEvents(s, e))
  <1>1. UpdateEvents(s, e) \in SUBSET outbox[s] /\ IsFiniteSet(outbox[s])
    BY DEF UpdateEvents, OutboxOK
  <1>2. IsFiniteSet(UpdateEvents(s, e)) /\ Cardinality(UpdateEvents(s, e)) \in Nat
    BY <1>1, FS_Subset, FS_CardinalityType
  <1> QED
    BY <1>2 DEF Counted, ReadTypeOK

(* An empty outbox, or one without events of the entity, counts nothing.   *)
LEMMA NothingCounted ==
    ASSUME ReadTypeOK, NEW s \in Session, NEW e \in Entity,
           UpdateEvents(s, e) = {}, CreateEvents(s, e) = {}
    PROVE  Counted(s, e) = updates[e]
  BY FS_EmptySet DEF Counted, ReadTypeOK

(* An event of another entity, or of another kind, makes no difference.    *)
LEMMA QuietEvent ==
    ASSUME NEW s \in Session, NEW e \in Entity,
           \/ outbox'[s] = outbox[s]
           \/ \E v \in Event : /\ outbox'[s] = outbox[s] \cup {v}
                               /\ v.id # e \/ v.kind \in {"EntityDeleted", "EntityHardDeleted"}
    PROVE  /\ UpdateEvents(s, e)' = UpdateEvents(s, e)
           /\ CreateEvents(s, e)' = CreateEvents(s, e)
           /\ updates' = updates => Counted(s, e)' = Counted(s, e)
  <1>1. CreateEvents(s, e)' = CreateEvents(s, e)
    BY DEF CreateEvents
  <1>2. UpdateEvents(s, e)' = UpdateEvents(s, e)
    BY <1>1 DEF UpdateEvents
  <1> QED
    BY <1>1, <1>2 DEF Counted

(* EntityUpdated or EntityMerged adds one.                                 *)
LEMMA UpdateEvent ==
    ASSUME OutboxOK, ReadTypeOK, NEW s \in Session, NEW e \in Entity, NEW v \in Event,
           v.id = e, v.kind \in {"EntityUpdated", "EntityMerged"},
           \A w \in outbox[s] : w.n < v.n,
           outbox'[s] = outbox[s] \cup {v}, updates' = updates
    PROVE  Counted(s, e)' = Counted(s, e) + 1
  <1>1. CreateEvents(s, e)' = CreateEvents(s, e)
    BY DEF CreateEvents
  <1>2. \A c \in CreateEvents(s, e) : c.n < v.n
    BY DEF CreateEvents
  <1>3. UpdateEvents(s, e)' = UpdateEvents(s, e) \cup {v}
    BY <1>1, <1>2 DEF UpdateEvents
  <1>4. v \notin UpdateEvents(s, e)
    <2>1. v \in outbox[s] => v.n < v.n /\ v.n \in Nat
      BY DEF Event
    <2> QED
      BY <2>1 DEF UpdateEvents
  <1>5. Cardinality(UpdateEvents(s, e))' = Cardinality(UpdateEvents(s, e)) + 1
    BY <1>3, <1>4, CountType, FS_AddElement
  <1> QED
    BY <1>1, <1>5, CountType DEF Counted, ReadTypeOK

(* EntityCreated starts again at zero.                                     *)
LEMMA CreateEvent ==
    ASSUME OutboxOK, NEW s \in Session, NEW e \in Entity, NEW v \in Event,
           v.id = e, v.kind = "EntityCreated",
           \A w \in outbox[s] : w.n < v.n,
           outbox'[s] = outbox[s] \cup {v}
    PROVE  Counted(s, e)' = 0
  <1>1. v \in CreateEvents(s, e)'
    BY DEF CreateEvents
  <1>2. UpdateEvents(s, e)' = {}
    <2> SUFFICES ASSUME NEW w \in UpdateEvents(s, e)' PROVE FALSE
      OBVIOUS
    <2>1. w \in outbox[s] \cup {v} /\ w.kind # "EntityCreated" /\ v.n < w.n
      BY <1>1 DEF UpdateEvents
    <2>2. w \in outbox[s] /\ w.n < v.n
      BY <2>1
    <2>3. w.n \in Nat /\ v.n \in Nat
      BY <2>2 DEF OutboxOK, Event
    <2> QED
      BY <2>1, <2>2, <2>3
  <1> QED
    BY <1>1, <1>2, FS_EmptySet DEF Counted

(* The version a session sees is the number its events give.               *)
LEMMA VisibleCounted ==
    ASSUME IInv, NEW s \in Session, NEW e \in Entity, pc[s] # "anchor",
           Exists(Visible(s, e))
    PROVE  Visible(s, e).version = Counted(s, e)
  <1>1. EventsAgree(s, e) /\ ReadTypeOK
    BY TypeParts DEF IInv, EventsOK
  <1>2. CASE lock[e] = s
    BY <1>1, <1>2 DEF EventsAgree, Visible
  <1>3. CASE lock[e] # s
    BY <1>1, <1>3, NothingCounted DEF EventsAgree, Visible, IInv, VersionCountsEvents
  <1> QED
    BY <1>2, <1>3

(* What a step of s does not touch: the other sessions, and the other      *)
(* entities.                                                               *)
LEMMA OtherSession ==
    ASSUME NEW s \in Session, NEW t \in Session, NEW e \in Entity, t # s,
           EventsAgree(t, e), pc'[t] = pc[t], op'[t] = op[t], outbox'[t] = outbox[t],
           \/ UNCHANGED <<draft[e], lock[e]>> /\ (lock[e] = t => updates'[e] = updates[e])
           \/ lock[e] # t /\ lock'[e] # t
    PROVE  EventsAgree(t, e)'
  <1>1. UpdateEvents(t, e)' = UpdateEvents(t, e) /\ CreateEvents(t, e)' = CreateEvents(t, e)
    BY QuietEvent
  <1> QED
    BY <1>1 DEF EventsAgree, Counted

LEMMA OtherEntity ==
    ASSUME NEW s \in Session, NEW e \in Entity,
           EventsAgree(s, e), UNCHANGED <<draft[e], lock[e], updates>>,
           UpdateEvents(s, e)' = UpdateEvents(s, e), CreateEvents(s, e)' = CreateEvents(s, e),
           pc[s] = "anchor" => op[s].id # e,
           pc'[s] = "anchor" => op'[s].id # e
    PROVE  EventsAgree(s, e)'
  BY DEF EventsAgree, Counted

-----------------------------------------------------------------------------
(* IInv is inductive.                                                      *)

LEMMA InitIInv == WritesInit => IInv
  <1> SUFFICES ASSUME WritesInit PROVE IInv
    OBVIOUS
  <1> USE DEF WritesInit
  <1>1. RowTypeOK /\ DraftsOK
    BY AbsentType DEF RowTypeOK, DraftsOK
  <1>2. AnchorTypeOK /\ Resolves /\ AnchorsOK
    BY DEF AnchorTypeOK, Resolves, AnchorsOK
  <1>3. TxTypeOK
    BY WriteBoundAssumption DEF TxTypeOK, Labels
  <1>4. ReadTypeOK
    BY DEF ReadTypeOK
  <1>5. OutboxOK
    BY FS_EmptySet DEF OutboxOK
  <1>6. LabelsOK
    BY DEF LabelsOK, LabelOK
  <1>7. EventsOK
    BY NullAssumption DEF EventsOK, EventsAgree, UpdateEvents, CreateEvents
  <1>8. VersionCountsEvents
    BY AbsentType DEF VersionCountsEvents, Exists
  <1> QED
    BY <1>1, <1>2, <1>3, <1>4, <1>5, <1>6, <1>7, <1>8, TypeParts DEF IInv

(* A session that is about to move its anchor is not disturbed by the      *)
(* statements of another one.                                              *)
LEMMA OtherLabels ==
    ASSUME IInv, NEW s \in Session, NEW label, NEW o, Moved(s, label, o),
           \A e \in Entity : lock[e] \notin {s, Nobody} => UNCHANGED <<draft[e], lock[e]>>,
           LabelOK(s)'
    PROVE  LabelsOK'
  <1> SUFFICES ASSUME NEW t \in Session, t # s PROVE LabelOK(t)'
    BY DEF LabelsOK
  <1>1. LabelOK(t) /\ pc'[t] = pc[t] /\ op'[t] = op[t]
    BY DEF IInv, LabelsOK, Moved
  <1>2. CASE pc[t] = "anchor"
    <2>1. op[t].id \in Entity /\ lock[op[t].id] = t
      BY <1>1, <1>2, OpType DEF LabelOK
    <2>2. draft'[op[t].id] = draft[op[t].id] /\ lock'[op[t].id] = lock[op[t].id]
      BY <2>1, NullAssumption
    <2> QED
      BY <1>1, <2>1, <2>2 DEF LabelOK
  <1>3. CASE pc[t] # "anchor"
    BY <1>1, <1>3 DEF LabelOK
  <1> QED
    BY <1>2, <1>3

(* A step that leaves the tables alone and inserts no event that counts.   *)
LEMMA QuietStep ==
    ASSUME IInv, NEW s \in Session, NEW label \in Labels, NEW o,
           Moved(s, label, o), LabelOK(s)', TxTypeOK', OutboxOK',
           pc[s] # "anchor", label # "anchor",
           UNCHANGED <<rowVars, anchorVars, updates>>, ReadTypeOK',
           \A t \in Session : t # s => outbox'[t] = outbox[t],
           \/ outbox'[s] = outbox[s]
           \/ \E v \in Event : /\ outbox'[s] = outbox[s] \cup {v}
                               /\ v.kind \in {"EntityDeleted", "EntityHardDeleted"}
    PROVE  IInv'
  <1>1. UNCHANGED <<row, draft, lock, anchor, anchorDraft, anchorLock>>
    BY DEF rowVars, anchorVars
  <1>2. RowTypeOK' /\ AnchorTypeOK' /\ Resolves' /\ DraftsOK' /\ AnchorsOK'
    BY <1>1, TypeParts
    DEF IInv, RowTypeOK, AnchorTypeOK, Resolves, DraftsOK, AnchorsOK
  <1>3. LabelsOK'
    BY <1>1, OtherLabels
  <1>4. VersionCountsEvents'
    BY <1>1 DEF IInv, VersionCountsEvents
  <1>5. ASSUME NEW t \in Session, NEW e \in Entity
        PROVE  EventsAgree(t, e)'
    <2>1. EventsAgree(t, e)
      BY DEF IInv, EventsOK
    <2>2. CASE t # s
      BY <1>1, <2>1, <2>2, OtherSession DEF Moved
    <2>3. CASE t = s
      <3>1. UpdateEvents(s, e)' = UpdateEvents(s, e) /\ CreateEvents(s, e)' = CreateEvents(s, e)
        BY QuietEvent
      <3> QED
        BY <1>1, <2>1, <2>3, <3>1, OtherEntity DEF Moved
    <2> QED
      BY <2>2, <2>3
  <1> QED
    BY <1>2, <1>3, <1>4, <1>5, TypePartsNext DEF IInv, EventsOK

(* A statement that leaves the row in the table does no harm to anchors.   *)
LEMMA RowsKeep ==
    ASSUME IInv, NEW s \in Session, NEW e \in Entity, NEW r \in Row,
           PutRow(s, e, r), Exists(r), UNCHANGED anchorVars
    PROVE  RowTypeOK' /\ AnchorTypeOK' /\ Resolves' /\ DraftsOK' /\ AnchorsOK'
  <1>1. RowTypeOK /\ AnchorTypeOK /\ Resolves /\ DraftsOK /\ AnchorsOK
    BY TypeParts DEF IInv
  <1>2. /\ RowTypeOK' /\ row' = row
        /\ lock[e] \in {s, Nobody} /\ draft'[e] = r /\ lock'[e] = s
        /\ \A f \in Entity : f # e => draft'[f] = draft[f] /\ lock'[f] = lock[f]
    BY <1>1, PutRowFacts
  <1>3. UNCHANGED <<anchor, anchorDraft, anchorLock>>
    BY DEF anchorVars
  <1>4. AnchorTypeOK' /\ Resolves'
    BY <1>1, <1>2, <1>3 DEF AnchorTypeOK, Resolves
  <1>5. DraftsOK'
    BY <1>1, <1>2 DEF DraftsOK, Exists
  <1>6. ASSUME NEW a \in Anchor, anchorLock[a] # Nobody, anchorDraft[a] # NoEntity
        PROVE  lock'[anchorDraft[a]] = anchorLock[a] /\ Exists(draft'[anchorDraft[a]])
    <2>1. /\ anchorDraft[a] \in Entity
          /\ lock[anchorDraft[a]] = anchorLock[a] /\ Exists(draft[anchorDraft[a]])
      BY <1>1, <1>6 DEF AnchorsOK, AnchorTypeOK
    <2> QED
      BY <1>2, <1>6, <2>1
  <1>7. ASSUME NEW a \in Anchor, anchor[a] # NoEntity
        PROVE  \/ lock'[anchor[a]] = Nobody
               \/ Exists(draft'[anchor[a]])
               \/ anchorLock[a] = lock'[anchor[a]]
    <2>1. anchor[a] \in Entity
      BY <1>1, <1>7 DEF AnchorTypeOK
    <2>2. CASE anchor[a] = e
      BY <1>2, <2>2
    <2>3. CASE anchor[a] # e
      BY <1>1, <1>2, <1>7, <2>1, <2>3 DEF AnchorsOK
    <2> QED
      BY <2>2, <2>3
  <1>8. AnchorsOK'
    BY <1>3, <1>6, <1>7 DEF AnchorsOK
  <1> QED
    BY <1>2, <1>4, <1>5, <1>8

(* The event of an operation, and how it counts.                           *)
LEMMA FinishCounts ==
    ASSUME IInv, NEW s \in Session, NEW e \in Entity, op[s].id = e,
           pc[s] \in {"busy", "delete", "anchor"},
           Finish(s), UNCHANGED <<ops, updates>>
    PROVE  /\ \A f \in Entity : f # e \/ op[s].kind \notin {"create", "update", "merge"} =>
                 /\ UpdateEvents(s, f)' = UpdateEvents(s, f)
                 /\ CreateEvents(s, f)' = CreateEvents(s, f)
                 /\ Counted(s, f)' = Counted(s, f)
           /\ op[s].kind \in {"update", "merge"} =>
                 Counted(s, e)' = Counted(s, e) + 1
           /\ op[s].kind = "create" => Counted(s, e)' = 0
  <1> DEFINE v == NewEvent(s)
             k == op[s].kind
  <1>1. op[s] \in Ops /\ op[s].id \in Entity
    BY AtOp DEF IInv
  <1>2. TxTypeOK /\ OutboxOK /\ ReadTypeOK
    BY TypeParts DEF IInv
  <1>3. /\ k \in Silent => outbox'[s] = outbox[s]
        /\ k \notin Silent => outbox'[s] = outbox[s] \cup {v}
    BY <1>1, <1>2, FinishFacts
  <1>4. k \in {"create", "update", "merge", "delete", "hardDelete", "setTags", "addTags",
               "removeTags"}
    BY <1>1, OpType
  <1>5. k \notin Silent => /\ v \in Event /\ v.id = op[s].id /\ v.n = ops[s]
                           /\ v.kind = EventOf[k]
    <2>1. ops[s] \in Nat
      BY <1>2 DEF TxTypeOK
    <2> QED
      BY <1>1, <1>4, <2>1 DEF NewEvent, Event, EventOf, Silent
  <1>6. \A w \in outbox[s] : w.n < ops[s]
    BY <1>2 DEF OutboxOK
  <1> HIDE DEF v
  <1>7. ASSUME NEW f \in Entity, f # e \/ k \notin {"create", "update", "merge"}
        PROVE  /\ UpdateEvents(s, f)' = UpdateEvents(s, f)
               /\ CreateEvents(s, f)' = CreateEvents(s, f)
               /\ Counted(s, f)' = Counted(s, f)
    <2>1. CASE k \in Silent
      BY <1>3, <2>1, QuietEvent
    <2>2. CASE k \notin Silent
      <3>1. v.id # f \/ v.kind \in {"EntityDeleted", "EntityHardDeleted"}
        BY <1>4, <1>5, <1>7, <2>2 DEF EventOf, Silent
      <3> QED
        BY <1>3, <1>5, <2>2, <3>1, QuietEvent
    <2> QED
      BY <2>1, <2>2
  <1>8. ASSUME k \in {"update", "merge"}
        PROVE  Counted(s, e)' = Counted(s, e) + 1
    <2>1. v.kind \in {"EntityUpdated", "EntityMerged"} /\ k \notin Silent
      BY <1>5, <1>8 DEF EventOf, Silent
    <2> QED
      BY <1>1, <1>2, <1>3, <1>5, <1>6, <2>1, UpdateEvent
  <1>9. ASSUME k = "create" PROVE Counted(s, e)' = 0
    <2>1. v.kind = "EntityCreated" /\ k \notin Silent
      BY <1>5, <1>9 DEF EventOf, Silent
    <2> QED
      BY <1>1, <1>2, <1>3, <1>5, <1>6, <2>1, CreateEvent
  <1> QED
    BY <1>7, <1>8, <1>9

(* A statement on the row of an entity, followed by the end of the         *)
(* operation or by its anchor.  RowsKept says that rows and anchors are    *)
(* still in order.                                                         *)
LEMMA StatementStep ==
    ASSUME IInv, NEW s \in Session, NEW e \in Entity, NEW r \in Row,
           pc[s] \in {"busy", "delete"}, op[s].id = e, Statement(s, e, r),
           UNCHANGED <<ops, seen, updates>>,
           \/ Finish(s)
           \/ /\ Exists(r) /\ op[s].kind \in {"create", "update", "merge"}
              /\ op[s].anchor # NoAnchor
              /\ Goto(s, "anchor") /\ UNCHANGED <<op, todo, outbox>>,
           AnchorTypeOK', Resolves', DraftsOK', AnchorsOK'
    PROVE  IInv'
  <1>1. op[s] \in Ops /\ e \in Entity
    BY AtOp DEF IInv
  <1>2. TxTypeOK /\ OutboxOK /\ ReadTypeOK /\ RowTypeOK
    BY TypeParts DEF IInv
  <1>3. /\ RowTypeOK' /\ row' = row
        /\ lock[e] \in {s, Nobody} /\ draft'[e] = r /\ lock'[e] = s
        /\ \A f \in Entity : f # e => draft'[f] = draft[f] /\ lock'[f] = lock[f]
    BY <1>1, <1>2, PutRowFacts DEF Statement
  <1>4. ReadTypeOK'
    BY <1>2 DEF ReadTypeOK
  <1>5. VersionCountsEvents'
    BY <1>3 DEF IInv, VersionCountsEvents
  <1>6. /\ TxTypeOK' /\ OutboxOK'
        /\ \A t \in Session : t # s => outbox'[t] = outbox[t]
        /\ \/ Moved(s, "ready", NoOp)
           \/ Moved(s, "anchor", op[s])
    <2>1. CASE Finish(s)
      BY <1>1, <1>2, <2>1, FinishFacts
    <2>2. CASE Goto(s, "anchor") /\ UNCHANGED <<op, todo, outbox>>
      <3>1. "anchor" \in Labels
        BY DEF Labels
      <3> QED
        BY <1>2, <2>2, <3>1, GotoFacts
    <2> QED
      BY <2>1, <2>2
  <1>7. LabelsOK'
    <2>1. LabelOK(s)'
      <3>1. CASE Finish(s)
        <4>1. Moved(s, "ready", NoOp)
          BY <1>1, <1>2, <3>1, FinishFacts
        <4> QED
          BY <4>1 DEF LabelOK, Moved
      <3>2. CASE Exists(r) /\ Goto(s, "anchor") /\ UNCHANGED <<op, todo, outbox>>
                 /\ op[s].anchor # NoAnchor /\ op[s].kind \in {"create", "update", "merge"}
        <4>1. op[s].anchor \in Anchor
          BY <1>1, <3>2, OpType
        <4> QED
          BY <1>1, <1>2, <1>3, <3>2, <4>1 DEF LabelOK, Goto, TxTypeOK
      <3> QED
        BY <3>1, <3>2
    <2>2. \A f \in Entity : lock[f] \notin {s, Nobody} => UNCHANGED <<draft[f], lock[f]>>
      BY <1>3
    <2> QED
      BY <1>6, <2>1, <2>2, OtherLabels
  <1>8. ASSUME NEW t \in Session, NEW f \in Entity, t # s
        PROVE  EventsAgree(t, f)'
    <2>1. EventsAgree(t, f) /\ pc'[t] = pc[t] /\ op'[t] = op[t] /\ outbox'[t] = outbox[t]
      BY <1>6, <1>8 DEF IInv, EventsOK, Moved
    <2>2. \/ UNCHANGED <<draft[f], lock[f]>> /\ (lock[f] = t => updates'[f] = updates[f])
          \/ lock[f] # t /\ lock'[f] # t
      BY <1>3, <1>8, NullAssumption
    <2> QED
      BY <1>8, <2>1, <2>2, OtherSession
  <1>9. ASSUME NEW f \in Entity, f # e
        PROVE  EventsAgree(s, f)'
    <2>1. UpdateEvents(s, f)' = UpdateEvents(s, f) /\ CreateEvents(s, f)' = CreateEvents(s, f)
      <3>1. CASE Finish(s)
        BY <1>9, <3>1, FinishCounts
      <3>2. CASE outbox' = outbox
        BY <3>2, QuietEvent
      <3> QED
        BY <3>1, <3>2
    <2>2. EventsAgree(s, f) /\ UNCHANGED <<draft[f], lock[f], updates>>
      BY <1>3, <1>9 DEF IInv, EventsOK
    <2>3. pc'[s] = "anchor" => op'[s].id # f
      BY <1>6, <1>9 DEF Moved
    <2> QED
      BY <1>9, <2>1, <2>2, <2>3, OtherEntity
  <1>10. EventsAgree(s, e)'
    <2>1. Exists(Visible(s, e)) => Visible(s, e).version = Counted(s, e)
      BY <1>1, VisibleCounted
    <2>2. CASE Finish(s)
      <3>1. pc'[s] = "ready" /\ lock'[e] = s /\ draft'[e] = r
        BY <1>1, <1>2, <1>3, <2>2, FinishFacts DEF Moved
      <3>2. Exists(r) => r.version = Counted(s, e)'
        <4>1. CASE Inserts(s, e, r)
          BY <2>2, <4>1, FinishCounts DEF Inserts
        <4>2. CASE Edits(s, e, r)
          BY <2>1, <2>2, <4>2, FinishCounts DEF Edits, VersionMatches, Exists
        <4>3. CASE Marks(s, e, r)
          BY <1>1, <2>1, <2>2, <4>3, FinishCounts DEF Marks
        <4>4. CASE Removes(s, e, r)
          BY <4>4, AbsentType DEF Removes, Exists
        <4> QED
          BY <4>1, <4>2, <4>3, <4>4 DEF Statement
      <3> QED
        BY <3>1, <3>2 DEF EventsAgree
    <2>3. CASE Goto(s, "anchor") /\ UNCHANGED <<op, todo, outbox>>
               /\ op[s].kind \in {"create", "update", "merge"}
      <3>1. pc'[s] = "anchor" /\ op'[s] = op[s] /\ lock'[e] = s /\ draft'[e] = r
        BY <1>2, <1>3, <2>3 DEF Goto, TxTypeOK
      <3>2. Counted(s, e)' = Counted(s, e)
        BY <1>1, <2>3, QuietEvent
      <3>3. CASE Inserts(s, e, r)
        BY <3>1, <3>3 DEF Inserts, EventsAgree
      <3>4. CASE Edits(s, e, r)
        BY <2>1, <3>1, <3>2, <3>4 DEF Edits, VersionMatches, Exists, EventsAgree
      <3> QED
        BY <2>3, <3>3, <3>4 DEF Statement, Marks, Removes
    <2> QED
      BY <2>2, <2>3
  <1> QED
    BY <1>3, <1>4, <1>5, <1>6, <1>7, <1>8, <1>9, <1>10, TypePartsNext DEF IInv, EventsOK

(* A hard delete takes the anchors with it, those that the transaction has *)
(* moved to the entity as well as those that others may still see.         *)
LEMMA RowsRemoved ==
    ASSUME IInv, NEW s \in Session, NEW e \in Entity,
           PutRow(s, e, Absent("gone")),
           PutAnchors(s, {a \in Anchor : VisibleAnchor(s, a) = e}, NoEntity)
    PROVE  AnchorTypeOK' /\ Resolves' /\ DraftsOK' /\ AnchorsOK'
  <1> DEFINE A == {a \in Anchor : VisibleAnchor(s, a) = e}
             r == Absent("gone")
  <1>1. RowTypeOK /\ AnchorTypeOK /\ Resolves /\ DraftsOK /\ AnchorsOK
    BY TypeParts DEF IInv
  <1>2. r \in Row /\ r.st = "gone"
    BY AbsentType
  <1>3. /\ row' = row /\ lock[e] \in {s, Nobody} /\ draft'[e] = r /\ lock'[e] = s
        /\ \A f \in Entity : f # e => draft'[f] = draft[f] /\ lock'[f] = lock[f]
    BY <1>1, <1>2, PutRowFacts
  <1>4. /\ anchor' = anchor
        /\ anchorDraft' = [a \in Anchor |-> IF a \in A THEN NoEntity ELSE anchorDraft[a]]
        /\ anchorLock' = [a \in Anchor |-> IF a \in A THEN s ELSE anchorLock[a]]
        /\ \A a \in A : anchorLock[a] \in {s, Nobody}
    BY DEF PutAnchors
  <1>5. \A a \in Anchor : a \in A <=> VisibleAnchor(s, a) = e
    OBVIOUS
  <1> HIDE DEF A, r
  <1>6. AnchorTypeOK' /\ Resolves'
    BY <1>1, <1>3, <1>4 DEF AnchorTypeOK, Resolves
  <1>7. DraftsOK'
    BY <1>1, <1>2, <1>3 DEF DraftsOK
  <1>8. ASSUME NEW a \in Anchor, anchorLock'[a] # Nobody, anchorDraft'[a] # NoEntity
        PROVE  lock'[anchorDraft'[a]] = anchorLock'[a] /\ Exists(draft'[anchorDraft'[a]])
    <2>1. a \notin A /\ anchorDraft'[a] = anchorDraft[a] /\ anchorLock'[a] = anchorLock[a]
      BY <1>4, <1>8
    <2>2. /\ anchorDraft[a] \in Entity
          /\ lock[anchorDraft[a]] = anchorLock[a] /\ Exists(draft[anchorDraft[a]])
      BY <1>1, <1>8, <2>1 DEF AnchorsOK, AnchorTypeOK
    <2>3. anchorDraft[a] # e
      BY <1>3, <1>5, <1>8, <2>1, <2>2 DEF VisibleAnchor
    <2> QED
      BY <1>3, <2>1, <2>2, <2>3
  <1>9. ASSUME NEW a \in Anchor, anchor[a] # NoEntity
        PROVE  \/ lock'[anchor[a]] = Nobody
               \/ Exists(draft'[anchor[a]])
               \/ anchorLock'[a] = lock'[anchor[a]]
    <2>1. anchor[a] \in Entity
      BY <1>1, <1>9 DEF AnchorTypeOK
    <2>2. CASE anchor[a] = e
      BY <1>3, <1>4, <1>5, <2>2 DEF VisibleAnchor
    <2>3. CASE anchor[a] # e
      <3>1. draft'[anchor[a]] = draft[anchor[a]] /\ lock'[anchor[a]] = lock[anchor[a]]
        BY <1>3, <2>1, <2>3
      <3>2. \/ lock[anchor[a]] = Nobody
            \/ Exists(draft[anchor[a]])
            \/ anchorLock[a] = lock[anchor[a]]
        BY <1>1, <1>9 DEF AnchorsOK
      <3>3. anchorLock'[a] = anchorLock[a] \/ anchorLock[a] = Nobody
        BY <1>4
      <3> QED
        BY <3>1, <3>2, <3>3
    <2> QED
      BY <2>2, <2>3
  <1>10. AnchorsOK'
    BY <1>4, <1>8, <1>9 DEF AnchorsOK
  <1> QED
    BY <1>6, <1>7, <1>10

(* The anchor of an operation moves to the row it has just written.        *)
LEMMA AnchorsMoved ==
    ASSUME IInv, NEW s \in Session, NEW e \in Entity, NEW b \in Anchor,
           lock[e] = s, Exists(draft[e]), PutAnchors(s, {b}, e), UNCHANGED rowVars
    PROVE  AnchorTypeOK' /\ Resolves' /\ AnchorsOK'
  <1>1. AnchorTypeOK /\ Resolves /\ AnchorsOK
    BY TypeParts DEF IInv
  <1>2. UNCHANGED <<row, draft, lock>>
    BY DEF rowVars
  <1>3. /\ anchor' = anchor
        /\ anchorDraft' = [a \in Anchor |-> IF a = b THEN e ELSE anchorDraft[a]]
        /\ anchorLock' = [a \in Anchor |-> IF a = b THEN s ELSE anchorLock[a]]
        /\ anchorLock[b] \in {s, Nobody}
    BY DEF PutAnchors
  <1>4. AnchorTypeOK' /\ Resolves'
    BY <1>1, <1>2, <1>3 DEF AnchorTypeOK, Resolves
  <1>5. ASSUME NEW a \in Anchor, anchorLock'[a] # Nobody, anchorDraft'[a] # NoEntity
        PROVE  lock[anchorDraft'[a]] = anchorLock'[a] /\ Exists(draft[anchorDraft'[a]])
    BY <1>1, <1>3, <1>5 DEF AnchorsOK
  <1>6. ASSUME NEW a \in Anchor, anchor[a] # NoEntity
        PROVE  \/ lock[anchor[a]] = Nobody
               \/ Exists(draft[anchor[a]])
               \/ anchorLock'[a] = lock[anchor[a]]
    BY <1>1, <1>3, <1>6 DEF AnchorsOK
  <1>7. AnchorsOK'
    BY <1>2, <1>3, <1>5, <1>6 DEF AnchorsOK
  <1> QED
    BY <1>4, <1>7

(* upsertAnchors, and the event it makes good for.                         *)
LEMMA UpsertStep ==
    ASSUME IInv, NEW s \in Session, UpsertAnchors(s)
    PROVE  IInv'
  <1>1. PICK e \in Entity : op[s].id = e
    BY AtOp DEF UpsertAnchors, IInv
  <1>2. /\ op[s] \in Ops /\ op[s].kind \in {"create", "update", "merge"}
        /\ op[s].anchor \in Anchor /\ lock[e] = s /\ Exists(draft[e]) /\ pc[s] = "anchor"
    BY <1>1 DEF UpsertAnchors, IInv, LabelsOK, LabelOK
  <1>3. TxTypeOK /\ OutboxOK /\ ReadTypeOK /\ RowTypeOK
    BY TypeParts DEF IInv
  <1>4. AnchorTypeOK' /\ Resolves' /\ AnchorsOK'
    BY <1>1, <1>2, AnchorsMoved DEF UpsertAnchors
  <1>5. UNCHANGED <<row, draft, lock, ops, seen, updates>> /\ Finish(s)
    BY DEF UpsertAnchors, rowVars
  <1>6. RowTypeOK' /\ ReadTypeOK' /\ DraftsOK' /\ VersionCountsEvents'
    BY <1>3, <1>5 DEF RowTypeOK, ReadTypeOK, IInv, DraftsOK, VersionCountsEvents
  <1>7. /\ TxTypeOK' /\ OutboxOK' /\ Moved(s, "ready", NoOp)
        /\ \A t \in Session : t # s => outbox'[t] = outbox[t]
    BY <1>2, <1>3, <1>5, FinishFacts
  <1>8. LabelsOK'
    <2>1. LabelOK(s)'
      BY <1>7 DEF LabelOK, Moved
    <2> QED
      BY <1>5, <1>7, <2>1, OtherLabels
  <1>9. ASSUME NEW t \in Session, NEW f \in Entity, t # s
        PROVE  EventsAgree(t, f)'
    BY <1>5, <1>7, <1>9, OtherSession DEF IInv, EventsOK, Moved
  <1>10. ASSUME NEW f \in Entity, f # e
         PROVE  EventsAgree(s, f)'
    <2>1. UpdateEvents(s, f)' = UpdateEvents(s, f) /\ CreateEvents(s, f)' = CreateEvents(s, f)
      BY <1>1, <1>2, <1>5, <1>10, FinishCounts
    <2> QED
      BY <1>1, <1>5, <1>7, <1>10, <2>1, OtherEntity DEF IInv, EventsOK, Moved
  <1>11. EventsAgree(s, e)'
    <2>1. /\ op[s].kind \in {"update", "merge"} => Counted(s, e)' = Counted(s, e) + 1
          /\ op[s].kind = "create" => Counted(s, e)' = 0
      BY <1>1, <1>2, <1>5, FinishCounts
    <2>2. EventsAgree(s, e)
      BY DEF IInv, EventsOK
    <2>3. draft[e].version = Counted(s, e)'
      BY <1>1, <1>2, <2>1, <2>2 DEF EventsAgree
    <2> QED
      BY <1>2, <1>5, <1>7, <2>3 DEF EventsAgree, Moved
  <1> QED
    BY <1>4, <1>6, <1>7, <1>8, <1>9, <1>10, <1>11, TypePartsNext DEF IInv, EventsOK

(* The operation ends without having written anything.                     *)
LEMMA QuietFinish ==
    ASSUME IInv, NEW s \in Session, pc[s] \in {"busy", "delete"}, Finish(s),
           op[s].kind \notin {"create", "update", "merge"},
           UNCHANGED <<rowVars, anchorVars, ops, seen, updates>>
    PROVE  IInv'
  <1>1. op[s] \in Ops /\ op[s].id \in Entity
    BY AtOp DEF IInv
  <1>2. TxTypeOK /\ OutboxOK /\ ReadTypeOK
    BY TypeParts DEF IInv
  <1>3. /\ TxTypeOK' /\ OutboxOK' /\ Moved(s, "ready", NoOp)
        /\ \A t \in Session : t # s => outbox'[t] = outbox[t]
        /\ op[s].kind \in Silent => outbox'[s] = outbox[s]
        /\ op[s].kind \notin Silent => outbox'[s] = outbox[s] \cup {NewEvent(s)}
    BY <1>1, <1>2, FinishFacts
  <1>4. ReadTypeOK' /\ LabelOK(s)' /\ "ready" \in Labels
    BY <1>2, <1>3 DEF ReadTypeOK, LabelOK, Moved, Labels
  <1>5. op[s].kind \notin Silent =>
          NewEvent(s) \in Event /\ NewEvent(s).kind \in {"EntityDeleted", "EntityHardDeleted"}
    <2>1. ops[s] \in Nat
      BY <1>2 DEF TxTypeOK
    <2> QED
      BY <1>1, <2>1, OpType DEF NewEvent, Event, EventOf, Silent
  <1> QED
    BY <1>3, <1>4, <1>5, QuietStep

(* An operation fails.                                                     *)
LEMMA QuietFail ==
    ASSUME IInv, NEW s \in Session, pc[s] = "busy", Fail(s),
           UNCHANGED <<rowVars, anchorVars, ops, seen, updates>>
    PROVE  IInv'
  <1>1. TxTypeOK /\ OutboxOK /\ ReadTypeOK
    BY TypeParts DEF IInv
  <1>2. TxTypeOK' /\ OutboxOK' /\ Moved(s, "failed", NoOp) /\ outbox' = outbox
    BY <1>1, FailFacts
  <1>3. ReadTypeOK' /\ LabelOK(s)' /\ "failed" \in Labels
    BY <1>1, <1>2 DEF ReadTypeOK, LabelOK, Moved, Labels
  <1> QED
    BY <1>1, <1>2, <1>3, QuietStep

(* ApplyCreate, ApplyUpdateOrMerge, DeleteEntity, HardDeleteEntity and     *)
(* UpdateTags.                                                             *)
LEMMA WriteStep ==
    ASSUME IInv, NEW s \in Session,
           \/ ApplyCreate(s) \/ ApplyUpdateOrMerge(s) \/ DeleteEntity(s)
           \/ HardDeleteEntity(s) \/ UpdateTags(s)
    PROVE  IInv'
  <1> USE DEF At
  <1>1. pc[s] \in {"busy", "delete"}
    BY DEF ApplyCreate, ApplyUpdateOrMerge, DeleteEntity, HardDeleteEntity, UpdateTags
  <1>2. op[s] \in Ops /\ op[s].id \in Entity /\ RowTypeOK /\ LabelsOK
    BY <1>1, AtOp, TypeParts DEF IInv
  <1>3. PICK e \in Entity : op[s].id = e
    BY <1>2
  <1>4. UNCHANGED <<ops, seen, updates>>
    BY DEF ApplyCreate, ApplyUpdateOrMerge, DeleteEntity, HardDeleteEntity, UpdateTags
  <1>5. CASE ~HardDeleteEntity(s) /\ ~UNCHANGED rowVars
    <2>1. PICK r \in Row : Statement(s, e, r)
      BY <1>2, <1>3, <1>5, WritesAreStatements
    <2>2. UNCHANGED anchorVars
      BY <1>5 DEF ApplyCreate, ApplyUpdateOrMerge, DeleteEntity, UpdateTags
    <2>3. op[s].kind # "hardDelete"
      BY <1>2, <1>5 DEF ApplyCreate, ApplyUpdateOrMerge, DeleteEntity, UpdateTags, LabelsOK, LabelOK
    <2>4. Exists(r)
      BY <2>1, <2>3 DEF Statement, Inserts, Edits, Marks, Removes, Exists
    <2>5. AnchorTypeOK' /\ Resolves' /\ DraftsOK' /\ AnchorsOK'
      BY <2>1, <2>2, <2>4, RowsKeep DEF Statement
    <2>6. \/ Finish(s)
          \/ /\ op[s].kind \in {"create", "update", "merge"} /\ op[s].anchor # NoAnchor
             /\ Goto(s, "anchor") /\ UNCHANGED <<op, todo, outbox>>
      BY <1>5 DEF ApplyCreate, ApplyUpdateOrMerge, DeleteEntity, UpdateTags, ThenAnchors
    <2> QED
      BY <1>1, <1>3, <1>4, <2>1, <2>4, <2>5, <2>6, StatementStep
  <1>6. CASE HardDeleteEntity(s) /\ Exists(Visible(s, e))
    <2>1. PutRow(s, e, Absent("gone")) /\ Finish(s) /\ op[s].kind = "hardDelete"
      BY <1>3, <1>6 DEF HardDeleteEntity
    <2>2. PutAnchors(s, {a \in Anchor : VisibleAnchor(s, a) = e}, NoEntity)
      BY <1>3, <1>6 DEF HardDeleteEntity
    <2>3. AnchorTypeOK' /\ Resolves' /\ DraftsOK' /\ AnchorsOK'
      BY <2>1, <2>2, RowsRemoved
    <2>4. Statement(s, e, Absent("gone")) /\ Absent("gone") \in Row
      BY <1>6, <2>1, AbsentType DEF Statement, Removes
    <2> QED
      BY <1>1, <1>3, <1>4, <2>1, <2>3, <2>4, StatementStep
  <1>7. CASE HardDeleteEntity(s) /\ ~Exists(Visible(s, e))
    BY <1>1, <1>3, <1>4, <1>7, QuietFinish DEF HardDeleteEntity
  <1>8. CASE ~HardDeleteEntity(s) /\ UNCHANGED rowVars
    <2>1. UNCHANGED anchorVars
      BY <1>8 DEF ApplyCreate, ApplyUpdateOrMerge, DeleteEntity, UpdateTags
    <2>2. CASE DeleteEntity(s) \/ UpdateTags(s)
      <3>1. Finish(s) /\ op[s].kind \notin {"create", "update", "merge"}
        BY <1>2, <2>2 DEF DeleteEntity, UpdateTags, LabelsOK, LabelOK
      <3> QED
        BY <1>1, <1>4, <1>8, <2>1, <3>1, QuietFinish
    <2>3. CASE ApplyCreate(s) /\ Fail(s)
      BY <1>4, <1>8, <2>1, <2>3, QuietFail DEF ApplyCreate
    <2>4. CASE ApplyCreate(s) /\ ~Fail(s)
      <3>1. Inserts(s, e, InsertEntity(op[s])) /\ PutRow(s, e, InsertEntity(op[s]))
        BY <1>2, <1>3, <2>4, InsertedRow DEF ApplyCreate, Inserts
      <3>2. FALSE
        BY <1>2, <1>8, <3>1, PutRowFacts, InsertedRow, NullAssumption
        DEF rowVars, Inserts, Visible, RowTypeOK, Exists
      <3> QED
        BY <3>2
    <2>5. CASE ApplyUpdateOrMerge(s)
      <3> DEFINE v == Visible(s, e)
                 q == UpdateEntityRow(op[s], v)
      <3>1. v \in Row
        BY <1>2, VisibleType
      <3>2. q \in Row /\ q.version = v.version + 1 /\ PutRow(s, e, q)
        BY <1>2, <1>3, <2>5, <3>1, EditedRow DEF ApplyUpdateOrMerge
      <3>3. draft[e] = q /\ lock[e] = s
        BY <1>2, <1>8, <3>2, PutRowFacts DEF rowVars
      <3>4. v = q /\ v.version \in Nat
        BY <3>1, <3>3, RowFields DEF Visible
      <3> QED
        BY <3>2, <3>4
    <2> QED
      BY <1>8, <2>2, <2>3, <2>4, <2>5
  <1> QED
    BY <1>5, <1>6, <1>7, <1>8

(* The steps that read, or only move the session on.                       *)
LEMMA ReadStep ==
    ASSUME IInv, NEW s \in Session,
           \/ \E e \in Updatable : GetEntity(s, e)
           \/ BeginTx(s) \/ EvaluatePreCondition(s) \/ Conflict(s) \/ DeleteLookup(s)
           \/ \E o \in Ops : BeginOp(s, o)
    PROVE  IInv'
  <1>1. TxTypeOK /\ OutboxOK /\ ReadTypeOK /\ RowTypeOK
    BY TypeParts DEF IInv
  <1>2. LabelOK(s)
    BY DEF IInv, LabelsOK
  <1>3. CASE \E e \in Updatable : GetEntity(s, e)
    <2>1. PICK e \in Updatable : GetEntity(s, e)
      BY <1>3
    <2>2. e \in Entity
      BY OpType DEF Updatable
    <2>3. row[e] \in Row /\ ViewOf(row[e]) \in View
      BY <1>1, <2>2, ViewType DEF RowTypeOK
    <2>4. seen' = [seen EXCEPT ![s][e] = ViewOf(row[e])] /\ pc[s] \in {"idle", "ready"}
      BY <2>1 DEF GetEntity
    <2>5. ReadTypeOK'
      BY <1>1, <2>1, <2>2, <2>3, <2>4 DEF ReadTypeOK, GetEntity
    <2>6. UNCHANGED <<rowVars, anchorVars, updates>> /\ UNCHANGED <<pc, op, todo, ops, outbox>>
      BY <2>1 DEF GetEntity, txVars
    <2>7. TxTypeOK' /\ OutboxOK' /\ Moved(s, pc[s], op[s]) /\ pc[s] \in Labels
      BY <1>1, <2>6 DEF TxTypeOK, OutboxOK, Moved
    <2>8. LabelOK(s)'
      BY <2>4, <2>6 DEF LabelOK
    <2>9. pc[s] # "anchor"
      BY <2>4
    <2> QED
      BY <2>5, <2>6, <2>7, <2>8, <2>9, QuietStep
  <1>4. CASE BeginTx(s)
    <2>1. UNCHANGED <<rowVars, anchorVars, updates>> /\ UNCHANGED <<op, todo, ops, outbox, seen>>
          /\ pc[s] = "idle" /\ Goto(s, "ready")
      BY <1>4 DEF BeginTx
    <2>2. TxTypeOK' /\ Moved(s, "ready", op[s]) /\ "ready" \in Labels
      BY <1>1, <2>1 DEF TxTypeOK, Moved, Goto, Labels
    <2>3. OutboxOK' /\ ReadTypeOK' /\ LabelOK(s)'
      BY <1>1, <2>1, <2>2 DEF OutboxOK, Moved, ReadTypeOK, LabelOK
    <2> QED
      BY <2>1, <2>2, <2>3, QuietStep
  <1>5. CASE EvaluatePreCondition(s)
    <2>1. CASE Fail(s)
      BY <1>5, <2>1, QuietFail DEF EvaluatePreCondition
    <2>2. CASE todo' = [todo EXCEPT ![s] = Tail(@)] /\ UNCHANGED <<pc, op, outbox>>
      <3>1. UNCHANGED <<rowVars, anchorVars, updates>> /\ UNCHANGED <<ops, seen>>
            /\ pc[s] = "busy" /\ todo[s] # <<>>
        BY <1>5 DEF EvaluatePreCondition
      <3>2. Tail(todo[s]) \in Seq(Pre)
        BY <1>1, <3>1 DEF TxTypeOK
      <3>3. TxTypeOK' /\ Moved(s, "busy", op[s]) /\ "busy" \in Labels
        BY <1>1, <2>2, <3>1, <3>2 DEF TxTypeOK, Moved, Labels
      <3>4. OutboxOK' /\ ReadTypeOK' /\ LabelOK(s)'
        BY <1>1, <1>2, <2>2, <3>1 DEF OutboxOK, ReadTypeOK, LabelOK
      <3> QED
        BY <2>2, <3>1, <3>3, <3>4, QuietStep
    <2> QED
      BY <1>5, <2>1, <2>2 DEF EvaluatePreCondition
  <1>6. CASE Conflict(s)
    BY <1>6, QuietFail DEF Conflict, At
  <1>7. CASE DeleteLookup(s)
    <2>1. CASE Fail(s)
      BY <1>7, <2>1, QuietFail DEF DeleteLookup, At
    <2>2. CASE Goto(s, "delete") /\ UNCHANGED <<op, todo, outbox>>
      <3>1. UNCHANGED <<rowVars, anchorVars, updates>> /\ UNCHANGED <<ops, seen>>
            /\ pc[s] = "busy" /\ op[s].kind = "delete"
        BY <1>7 DEF DeleteLookup, At
      <3>2. TxTypeOK' /\ OutboxOK' /\ Moved(s, "delete", op[s]) /\ "delete" \in Labels
        BY <1>1, <2>2, <3>1, GotoFacts DEF Labels
      <3>3. ReadTypeOK' /\ LabelOK(s)'
        BY <1>1, <1>2, <2>2, <3>1, <3>2 DEF Moved, ReadTypeOK, LabelOK
      <3> QED
        BY <2>2, <3>1, <3>2, <3>3, QuietStep
    <2> QED
      BY <1>7, <2>1, <2>2 DEF DeleteLookup
  <1>8. CASE \E o \in Ops : BeginOp(s, o)
    <2>1. PICK o \in Ops : BeginOp(s, o)
      BY <1>8
    <2>2. /\ UNCHANGED <<rowVars, anchorVars, updates>> /\ UNCHANGED <<outbox, seen>>
          /\ pc[s] = "ready" /\ ops[s] < MaxOps[s]
          /\ op' = [op EXCEPT ![s] = o]
          /\ todo' = [todo EXCEPT ![s] = o.pres]
          /\ ops' = [ops EXCEPT ![s] = ops[s] + 1]
          /\ pc' = [pc EXCEPT ![s] = "busy"]
      BY <2>1 DEF BeginOp, Goto
    <2>3. o.pres \in Seq(Pre)
      BY OpType
    <2>4. TxTypeOK'
      <3>1. ops' \in [Session -> Nat] /\ \A t \in Session : ops'[t] <= MaxOps[t]
        <4>1. /\ ops[s] \in Nat /\ MaxOps[s] \in Nat /\ ops[s] < MaxOps[s]
              /\ ops' = [ops EXCEPT ![s] = ops[s] + 1]
          BY <1>1, <2>2, WriteBoundAssumption DEF TxTypeOK
        <4>2. ops[s] + 1 \in Nat /\ ops[s] + 1 <= MaxOps[s]
          BY <4>1
        <4>3. ops \in [Session -> Nat] /\ \A t \in Session : ops[t] <= MaxOps[t]
          BY <1>1 DEF TxTypeOK
        <4>4. ops' \in [Session -> Nat]
          BY <4>1, <4>2, <4>3
        <4>5. ASSUME NEW t \in Session PROVE ops'[t] <= MaxOps[t]
          BY <4>1, <4>2, <4>3
        <4> QED
          BY <4>4, <4>5
      <3>2. /\ pc' \in [Session -> Labels] /\ op' \in [Session -> Ops \cup {NoOp}]
            /\ todo' \in [Session -> Seq(Pre)]
        BY <1>1, <2>2, <2>3 DEF TxTypeOK, Labels
      <3> QED
        BY <3>1, <3>2 DEF TxTypeOK
    <2>5. Moved(s, "busy", o) /\ "busy" \in Labels
      BY <1>1, <2>2 DEF TxTypeOK, Moved, Labels
    <2>6. OutboxOK'
      <3>1. ASSUME NEW t \in Session, NEW w \in outbox[t]
            PROVE  /\ w.n <= ops'[t]
                   /\ pc'[t] \in {"busy", "delete", "anchor"} => w.n < ops'[t]
        <4>1. w.n \in Nat /\ ops[t] \in Nat
          BY <1>1 DEF OutboxOK, Event, TxTypeOK
        <4> QED
          BY <1>1, <2>2, <4>1 DEF OutboxOK, TxTypeOK
      <3> QED
        BY <1>1, <2>2, <3>1 DEF OutboxOK
    <2>7. ReadTypeOK' /\ LabelOK(s)'
      BY <1>1, <2>2, <2>5 DEF ReadTypeOK, LabelOK, Moved
    <2> QED
      BY <2>2, <2>4, <2>5, <2>6, <2>7, QuietStep
  <1> QED
    BY <1>3, <1>4, <1>5, <1>6, <1>7, <1>8

-----------------------------------------------------------------------------
(* The end of a transaction: row', anchor' and updates' are what commit or *)
(* rollback make of them.                                                  *)

Ended(s) ==
    /\ draft' = [e \in Entity |-> IF lock[e] = s THEN row'[e] ELSE draft[e]]
    /\ lock' = [e \in Entity |-> IF lock[e] = s THEN Nobody ELSE lock[e]]
    /\ anchorDraft' = [a \in Anchor |-> IF anchorLock[a] = s THEN anchor'[a] ELSE anchorDraft[a]]
    /\ anchorLock' = [a \in Anchor |-> IF anchorLock[a] = s THEN Nobody ELSE anchorLock[a]]
    /\ pc' = [pc EXCEPT ![s] = "idle"]
    /\ op' = [op EXCEPT ![s] = NoOp]
    /\ todo' = [todo EXCEPT ![s] = <<>>]
    /\ ops' = [ops EXCEPT ![s] = 0]
    /\ outbox' = [outbox EXCEPT ![s] = {}]

LEMMA EndStep ==
    ASSUME IInv, NEW s \in Session, Ended(s),
           row' \in [Entity -> Row], anchor' \in [Anchor -> Entity \cup {NoEntity}],
           \A e \in Entity : lock[e] # s => row'[e] = row[e] /\ updates'[e] = updates[e],
           \A a \in Anchor : \/ anchor'[a] = anchor[a]
                             \/ anchorLock[a] = s /\ anchor'[a] = anchorDraft[a],
           Resolves', VersionCountsEvents', ReadTypeOK'
    PROVE  IInv'
  <1>1. RowTypeOK /\ AnchorTypeOK /\ TxTypeOK /\ OutboxOK /\ DraftsOK /\ AnchorsOK
    BY TypeParts DEF IInv
  <1>2. s # Nobody
    BY NullAssumption
  <1>3. /\ \A e \in Entity : lock[e] = s => draft'[e] = row'[e] /\ lock'[e] = Nobody
        /\ \A e \in Entity : lock[e] # s => draft'[e] = draft[e] /\ lock'[e] = lock[e]
        /\ \A a \in Anchor : anchorLock[a] = s => anchorLock'[a] = Nobody
        /\ \A a \in Anchor : anchorLock[a] # s =>
              anchorDraft'[a] = anchorDraft[a] /\ anchorLock'[a] = anchorLock[a]
    BY DEF Ended
  <1>4. RowTypeOK'
    BY <1>1 DEF RowTypeOK, Ended
  <1>5. AnchorTypeOK'
    BY <1>1 DEF AnchorTypeOK, Ended
  <1>6. TxTypeOK'
    <2>1. ops' \in [Session -> Nat] /\ \A t \in Session : ops'[t] <= MaxOps[t]
      BY <1>1, WriteBoundAssumption DEF TxTypeOK, Ended
    <2>2. /\ pc' \in [Session -> Labels] /\ op' \in [Session -> Ops \cup {NoOp}]
          /\ todo' \in [Session -> Seq(Pre)]
      BY <1>1 DEF TxTypeOK, Labels, Ended
    <2> QED
      BY <2>1, <2>2 DEF TxTypeOK
  <1>7. /\ Moved(s, "idle", NoOp) /\ outbox'[s] = {}
        /\ \A t \in Session : t # s => outbox'[t] = outbox[t] /\ ops'[t] = ops[t]
    BY <1>1 DEF TxTypeOK, OutboxOK, Ended, Moved
  <1>8. OutboxOK'
    <2>1. outbox' \in [Session -> SUBSET Event]
      BY <1>1 DEF OutboxOK, Ended
    <2>2. ASSUME NEW t \in Session
          PROVE  /\ IsFiniteSet(outbox'[t])
                 /\ \A v \in outbox'[t] :
                       /\ v.n <= ops'[t]
                       /\ pc'[t] \in {"busy", "delete", "anchor"} => v.n < ops'[t]
      <3>1. CASE t = s
        BY <1>7, <3>1, FS_EmptySet
      <3>2. CASE t # s
        BY <1>1, <1>7, <3>2 DEF OutboxOK, Moved
      <3> QED
        BY <3>1, <3>2
    <2> QED
      BY <2>1, <2>2 DEF OutboxOK
  <1>9. LabelsOK'
    <2>1. LabelOK(s)'
      BY <1>7 DEF LabelOK, Moved
    <2> QED
      BY <1>3, <1>7, <2>1, OtherLabels
  <1>10. DraftsOK'
    BY <1>1, <1>3 DEF DraftsOK
  <1>11. AnchorsOK'
    <2>1. ASSUME NEW a \in Anchor, anchorLock'[a] # Nobody, anchorDraft'[a] # NoEntity
          PROVE  lock'[anchorDraft'[a]] = anchorLock'[a] /\ Exists(draft'[anchorDraft'[a]])
      <3>1. anchorLock[a] # s /\ anchorDraft'[a] = anchorDraft[a] /\ anchorLock'[a] = anchorLock[a]
        BY <1>3, <2>1
      <3>2. /\ anchorDraft[a] \in Entity
            /\ lock[anchorDraft[a]] = anchorLock[a] /\ Exists(draft[anchorDraft[a]])
        BY <1>1, <2>1, <3>1 DEF AnchorsOK, AnchorTypeOK
      <3> QED
        BY <1>3, <3>1, <3>2
    <2>2. ASSUME NEW a \in Anchor, NEW e \in Entity, anchor'[a] = e, e # NoEntity
          PROVE  \/ lock'[e] = Nobody
                 \/ Exists(draft'[e])
                 \/ anchorLock'[a] = lock'[e]
      <3>1. CASE anchorLock[a] = s /\ anchorDraft[a] = e
        <4>1. lock[e] = s
          BY <1>1, <1>2, <2>2, <3>1 DEF AnchorsOK
        <4> QED
          BY <1>3, <4>1
      <3>2. CASE anchor[a] = e
        <4>1. lock[e] = Nobody \/ Exists(draft[e]) \/ anchorLock[a] = lock[e]
          BY <1>1, <2>2, <3>2 DEF AnchorsOK
        <4> QED
          BY <1>3, <4>1
      <3> QED
        BY <2>2, <3>1, <3>2
    <2> QED
      BY <1>5, <2>1, <2>2 DEF AnchorsOK, AnchorTypeOK
  <1>12. ASSUME NEW t \in Session, NEW e \in Entity
         PROVE  EventsAgree(t, e)'
    <2>1. CASE t = s
      <3>1. lock'[e] # s
        BY <1>2, <1>3
      <3>2. UpdateEvents(s, e)' = {} /\ CreateEvents(s, e)' = {}
        BY <1>7 DEF UpdateEvents, CreateEvents
      <3> QED
        BY <2>1, <3>1, <3>2 DEF EventsAgree
    <2>2. CASE t # s
      <3>1. \/ UNCHANGED <<draft[e], lock[e]>> /\ (lock[e] = t => updates'[e] = updates[e])
            \/ lock[e] # t /\ lock'[e] # t
        BY <1>3, <2>2, NullAssumption
      <3>2. EventsAgree(t, e) /\ pc'[t] = pc[t] /\ op'[t] = op[t] /\ outbox'[t] = outbox[t]
        BY <1>7, <2>2 DEF IInv, EventsOK, Moved
      <3> QED
        BY <2>2, <3>1, <3>2, OtherSession
    <2> QED
      BY <2>1, <2>2
  <1> QED
    BY <1>4, <1>5, <1>6, <1>8, <1>9, <1>10, <1>11, <1>12, TypePartsNext DEF IInv, EventsOK

(* Rollback puts everything back.                                          *)
LEMMA RollbackStep ==
    ASSUME IInv, NEW s \in Session, Rollback(s)
    PROVE  IInv'
  <1>1. Ended(s) /\ UNCHANGED <<row, anchor, seen, updates>>
    BY DEF Rollback, EndTx, Ended
  <1>2. RowTypeOK /\ AnchorTypeOK /\ Resolves /\ ReadTypeOK /\ VersionCountsEvents
    BY TypeParts DEF IInv
  <1>3. Resolves' /\ VersionCountsEvents' /\ ReadTypeOK'
    BY <1>1, <1>2 DEF Resolves, VersionCountsEvents, ReadTypeOK
  <1> QED
    BY <1>1, <1>2, <1>3, EndStep DEF RowTypeOK, AnchorTypeOK

(* Commit publishes the drafts, the anchors and the events together.       *)
LEMMA CommitFacts ==
    ASSUME IInv, NEW s \in Session, Commit(s)
    PROVE  /\ Ended(s)
           /\ \A e \in Entity : row'[e] = Visible(s, e) /\ updates'[e] = Counted(s, e)
           /\ \A a \in Anchor : anchor'[a] = VisibleAnchor(s, a)
           /\ row' \in [Entity -> Row] /\ anchor' \in [Anchor -> Entity \cup {NoEntity}]
           /\ ReadTypeOK'
  <1>1. RowTypeOK /\ AnchorTypeOK /\ ReadTypeOK /\ OutboxOK
    BY TypeParts DEF IInv
  <1>2. /\ row' = [e \in Entity |-> Visible(s, e)]
        /\ anchor' = [a \in Anchor |-> VisibleAnchor(s, a)]
        /\ updates' = [e \in Entity |-> Counted(s, e)]
    BY DEF Commit, EndTx, Counted
  <1>3. Ended(s)
    BY <1>2 DEF Commit, EndTx, Ended
  <1>4. row' \in [Entity -> Row] /\ anchor' \in [Anchor -> Entity \cup {NoEntity}]
    BY <1>1, <1>2 DEF RowTypeOK, AnchorTypeOK, Visible, VisibleAnchor
  <1>5. updates' \in [Entity -> Nat]
    BY <1>1, <1>2, CountType
  <1>6. seen' \in [Session -> [Entity -> View \cup {NoView}]]
    <2>1. \A e \in Entity : ViewOf(draft[e]) \in View
      BY <1>1, ViewType DEF RowTypeOK
    <2> QED
      BY <1>1, <2>1 DEF Commit, ReadTypeOK
  <1> QED
    BY <1>2, <1>3, <1>4, <1>5, <1>6 DEF ReadTypeOK

LEMMA CommitStep ==
    ASSUME IInv, NEW s \in Session, Commit(s)
    PROVE  IInv'
  <1>1. RowTypeOK /\ AnchorTypeOK /\ ReadTypeOK /\ Resolves /\ AnchorsOK
    BY TypeParts DEF IInv
  <1>2. /\ Ended(s)
        /\ \A e \in Entity : row'[e] = Visible(s, e) /\ updates'[e] = Counted(s, e)
        /\ \A a \in Anchor : anchor'[a] = VisibleAnchor(s, a)
        /\ row' \in [Entity -> Row] /\ anchor' \in [Anchor -> Entity \cup {NoEntity}]
        /\ ReadTypeOK'
    BY CommitFacts
  <1>3. ASSUME NEW e \in Entity, lock[e] # s
        PROVE  row'[e] = row[e] /\ updates'[e] = updates[e]
    <2>1. UpdateEvents(s, e) = {} /\ CreateEvents(s, e) = {}
      BY <1>3 DEF IInv, EventsOK, EventsAgree
    <2> QED
      BY <1>1, <1>2, <1>3, <2>1, NothingCounted DEF Visible
  <1>4. VersionCountsEvents'
    BY <1>2, VisibleCounted DEF VersionCountsEvents, Commit
  <1>5. Resolves'
    <2> SUFFICES ASSUME NEW a \in Anchor, NEW e \in Entity, VisibleAnchor(s, a) = e, e # NoEntity
                 PROVE  Exists(Visible(s, e))
      BY <1>2 DEF Resolves
    <2>1. CASE anchorLock[a] = s
      BY <1>1, <2>1, NullAssumption DEF AnchorsOK, Visible, VisibleAnchor
    <2>2. CASE anchorLock[a] # s
      <3>1. anchor[a] = e /\ Exists(row[e])
        BY <1>1, <2>2 DEF VisibleAnchor, Resolves
      <3>2. lock[e] = s => Exists(draft[e])
        BY <1>1, <2>2, <3>1, NullAssumption DEF AnchorsOK
      <3> QED
        BY <3>1, <3>2 DEF Visible
    <2> QED
      BY <2>1, <2>2
  <1>6. \A a \in Anchor : \/ anchor'[a] = anchor[a]
                          \/ anchorLock[a] = s /\ anchor'[a] = anchorDraft[a]
    BY <1>2 DEF VisibleAnchor
  <1> QED
    BY <1>2, <1>3, <1>4, <1>5, <1>6, EndStep

LEMMA IInvStep == IInv /\ [Next]_vars => IInv'
  <1> SUFFICES ASSUME IInv, [Next]_vars PROVE IInv'
    OBVIOUS
  <1>1. CASE UNCHANGED vars
    <2>1. UNCHANGED <<row, draft, lock, anchor, anchorDraft, anchorLock, pc, op, todo, ops,
                      outbox, seen, updates>>
      BY <1>1 DEF vars, rowVars, anchorVars, txVars
    <2>2. TypeOK' /\ OutboxOK' /\ LabelsOK' /\ DraftsOK' /\ AnchorsOK' /\ VersionCountsEvents'
      BY <2>1 DEF IInv, TypeOK, OutboxOK, LabelsOK, LabelOK, DraftsOK, AnchorsOK,
                  VersionCountsEvents
    <2>3. EventsOK'
      <3> SUFFICES ASSUME NEW s \in Session, NEW e \in Entity PROVE EventsAgree(s, e)'
        BY DEF EventsOK
      <3>1. UpdateEvents(s, e)' = UpdateEvents(s, e) /\ CreateEvents(s, e)' = CreateEvents(s, e)
        BY <2>1, QuietEvent
      <3> QED
        BY <2>1, <3>1 DEF IInv, EventsOK, EventsAgree, Counted
    <2> QED
      BY <2>2, <2>3 DEF IInv
  <1>2. ASSUME NEW s \in Session,
               \/ \E e \in Updatable : GetEntity(s, e)
               \/ BeginTx(s)
               \/ \E o \in Ops : BeginOp(s, o)
               \/ EvaluatePreCondition(s)
               \/ ApplyCreate(s) \/ ApplyUpdateOrMerge(s) \/ Conflict(s)
               \/ UpsertAnchors(s)
               \/ DeleteLookup(s) \/ DeleteEntity(s) \/ HardDeleteEntity(s)
               \/ UpdateTags(s)
               \/ Commit(s) \/ Rollback(s)
        PROVE  IInv'
    BY <1>2, ReadStep, WriteStep, UpsertStep, CommitStep, RollbackStep
  <1> QED
    BY <1>1, <1>2 DEF Next

LEMMA AlwaysIInv == Spec => []IInv
  BY InitIInv, IInvStep, PTL DEF Spec

(* Rows, drafts, locks and anchors stay well formed, a row nobody has      *)
(* locked has no draft, and no committed anchor points to an entity that   *)
(* is not in the table, whichever transactions are hard deleting it or     *)
(* moving the anchor, and wherever they are rolled back.                   *)
THEOREM WritesType == Spec => []TypeOK
  <1>1. IInv => TypeOK
    BY DEF IInv
  <1> QED
    BY <1>1, AlwaysIInv, PTL

(* The version column of an entity in the table is the number of           *)
(* EntityUpdated and EntityMerged events committed since its EntityCreated *)
(* event: applyUpdateOrMerge and insertEvents stay in step, under every    *)
(* interleaving, rollback and reuse of an id.                              *)
THEOREM WritesVersionCountsEvents == Spec => []VersionCountsEvents
  <1>1. IInv => VersionCountsEvents
    BY DEF IInv
  <1> QED
    BY <1>1, AlwaysIInv, PTL

-----------------------------------------------------------------------------
(* What a draft is to the committed version, when no client uses an id     *)
(* again that was hard-deleted.                                            *)

(* Two views with the same fields are the same.                            *)
LEMMA SameView ==
    ASSUME NEW v \in View \cup {NoView}, NEW r \in Row, v # NoView,
           v.version = r.version, v.doc = r.doc
    PROVE  v = ViewOf(r)
  BY RowFields DEF View, ViewOf

LEMMA InitRInv == WritesInit => RInv
  BY AbsentType DEF WritesInit, RInv, SwapsOK, SeenOK, BasisOK, Exists

(* A versioned UPDATE finds the version its client has read: then it has   *)
(* read this very row.                                                     *)
LEMMA EditsWhatWasRead ==
    ASSUME IInv, RInv, NEW s \in Session, NEW e \in Entity, NEW r \in Row,
           pc[s] = "busy", op[s].id = e, lock[e] \in {s, Nobody},
           Edits(s, e, r), Exists(row[e])
    PROVE  r.version > row[e].version /\ row[e].st = "live" /\ seen[s][e] = ViewOf(row[e])
  <1>1. RowTypeOK /\ ReadTypeOK
    BY TypeParts DEF IInv
  <1>2. /\ row[e] \in Row /\ draft[e] \in Row /\ seen[s][e] \in View \cup {NoView}
        /\ row[e].version \in Nat /\ draft[e].version \in Nat
    BY <1>1, RowFields DEF RowTypeOK, ReadTypeOK
  <1>3. /\ Visible(s, e).st = "live" /\ Visible(s, e).version = ExpectedVersion(s, e)
        /\ r.version = Visible(s, e).version + 1
    BY DEF Edits, VersionMatches
  <1>4. ASSUME ~Wrote(s, e), Visible(s, e).version = row[e].version
        PROVE  seen[s][e] = ViewOf(row[e])
    <2>1. seen[s][e] # NoView
      BY <1>4 DEF RInv, BasisOK, Edits
    <2>2. seen[s][e].version = row[e].version
      BY <1>3, <1>4 DEF ExpectedVersion
    <2>3. seen[s][e].doc = row[e].doc
      BY <2>1, <2>2 DEF RInv, SeenOK
    <2> QED
      BY <1>2, <2>1, <2>2, <2>3, SameView
  <1>5. CASE lock[e] = s
    <2>1. Visible(s, e) = draft[e] /\ Exists(draft[e]) /\ draft[e].st = "live"
      BY <1>3, <1>5 DEF Visible, Exists
    <2>2. /\ draft[e].version >= row[e].version
          /\ row[e].st = "deleted" => draft[e].st = "deleted"
          /\ draft[e].version > row[e].version => seen[s][e] = ViewOf(row[e])
      BY <1>5, <2>1, NullAssumption DEF RInv, SwapsOK
    <2>3. r.version > row[e].version /\ row[e].st = "live"
      BY <1>2, <1>3, <2>1, <2>2 DEF Exists
    <2>4. CASE draft[e].version > row[e].version
      BY <2>2, <2>3, <2>4
    <2>5. CASE draft[e].version = row[e].version
      <3>1. ~Wrote(s, e)
        BY <1>2, <2>5 DEF Wrote
      <3> QED
        BY <1>4, <2>1, <2>3, <2>5, <3>1
    <2> QED
      BY <1>2, <2>2, <2>4, <2>5
  <1>6. CASE lock[e] # s
    <2>1. Visible(s, e) = row[e] /\ ~Wrote(s, e)
      BY <1>6 DEF Visible, Wrote
    <2> QED
      BY <1>2, <1>3, <1>4, <2>1
  <1> QED
    BY <1>5, <1>6

(* A statement keeps the draft in order.                                   *)
LEMMA StatementSwaps ==
    ASSUME IInv, RInv, ~ReuseIds, NEW s \in Session, NEW e \in Entity, NEW r \in Row,
           pc[s] \in {"busy", "delete"}, op[s].id = e, Statement(s, e, r), seen' = seen
    PROVE  SwapsOK'
  <1>1. RowTypeOK /\ DraftsOK /\ SwapsOK
    BY TypeParts DEF IInv, RInv
  <1>2. /\ row' = row /\ lock[e] \in {s, Nobody} /\ draft'[e] = r /\ lock'[e] = s
        /\ \A f \in Entity : f # e => draft'[f] = draft[f] /\ lock'[f] = lock[f]
    BY <1>1, PutRowFacts DEF Statement
  <1>3. row[e].st # "gone" /\ (Inserts(s, e, r) => ~Exists(row[e]))
    BY <1>1, <1>2, VisibleType, RowFields, NullAssumption
    DEF SwapsOK, DraftsOK, Statement, Inserts, Edits, Marks, Removes, VersionMatches, Visible,
        Exists
  <1>4. ASSUME Exists(row[e]), Exists(r)
        PROVE  /\ r.version >= row[e].version
               /\ r.version = row[e].version => r.doc = row[e].doc
               /\ row[e].st = "deleted" => r.st = "deleted"
               /\ r.version > row[e].version =>
                     row[e].st = "live" /\ seen[s][e] = ViewOf(row[e])
    <2>1. row[e].version \in Nat /\ r.version \in Nat
      BY <1>1, RowFields DEF RowTypeOK
    <2>2. CASE Edits(s, e, r)
      <3>1. pc[s] = "busy"
        BY <2>2 DEF Edits, IInv, LabelsOK, LabelOK
      <3>2. r.version > row[e].version /\ row[e].st = "live" /\ seen[s][e] = ViewOf(row[e])
        BY <1>2, <1>4, <2>2, <3>1, EditsWhatWasRead
      <3> QED
        BY <2>1, <3>2
    <2>3. CASE Marks(s, e, r)
      <3>1. CASE lock[e] = s
        BY <1>1, <1>4, <2>3, <3>1, NullAssumption DEF Marks, SwapsOK, Visible
      <3>2. CASE lock[e] # s
        BY <2>1, <2>3, <3>2 DEF Marks, Visible
      <3> QED
        BY <3>1, <3>2
    <2>4. ~Inserts(s, e, r) /\ ~Removes(s, e, r)
      BY <1>3, <1>4, AbsentType DEF Removes, Exists
    <2> QED
      BY <2>2, <2>3, <2>4 DEF Statement
  <1>5. ASSUME NEW f \in Entity
        PROVE  /\ row[f].st = "gone" => lock'[f] = Nobody
               /\ lock'[f] # Nobody /\ Exists(row[f]) /\ Exists(draft'[f]) =>
                     /\ draft'[f].version >= row[f].version
                     /\ draft'[f].version = row[f].version => draft'[f].doc = row[f].doc
                     /\ row[f].st = "deleted" => draft'[f].st = "deleted"
                     /\ draft'[f].version > row[f].version =>
                           row[f].st = "live" /\ seen[lock'[f]][f] = ViewOf(row[f])
    <2>1. CASE f = e
      BY <1>2, <1>3, <1>4, <2>1
    <2>2. CASE f # e
      BY <1>1, <1>2, <2>2 DEF SwapsOK
    <2> QED
      BY <2>1, <2>2
  <1> QED
    BY <1>2, <1>5 DEF SwapsOK

(* A step of s that changes no committed row, and no draft of others.      *)
LEMMA BasisStep ==
    ASSUME IInv, RInv, NEW s \in Session, NEW label, NEW o, Moved(s, label, o),
           \A e \in Entity : lock[e] \notin {s, Nobody} =>
               draft'[e] = draft[e] /\ lock'[e] = lock[e] /\ row'[e] = row[e],
           \A t \in Session, e \in Entity : t # s => seen'[t][e] = seen[t][e],
           label # "busy"
    PROVE  BasisOK'
  <1> SUFFICES ASSUME NEW t \in Session, pc'[t] = "busy", op'[t].kind \in {"update", "merge"}
               PROVE  Wrote(t, op[t].id)' \/ seen'[t][op'[t].id] # NoView
    BY DEF BasisOK, Wrote
  <1>1. t # s /\ pc[t] = "busy" /\ op'[t] = op[t]
    BY DEF Moved
  <1>2. PICK e \in Entity : e = op[t].id
    BY <1>1, AtOp DEF IInv
  <1>3. Wrote(t, e) \/ seen[t][e] # NoView
    BY <1>1, <1>2 DEF RInv, BasisOK
  <1>4. Wrote(t, e) => Wrote(t, e)'
    BY <1>1, NullAssumption DEF Wrote
  <1>5. op'[t].id = e
    BY <1>1, <1>2
  <1> QED
    BY <1>1, <1>2, <1>3, <1>4, <1>5 DEF Wrote

(* After a write the session is no longer at a statement of an update.     *)
LEMMA WriteMoves ==
    ASSUME IInv, NEW s \in Session,
           \/ ApplyCreate(s) \/ ApplyUpdateOrMerge(s) \/ DeleteEntity(s)
           \/ HardDeleteEntity(s) \/ UpdateTags(s) \/ UpsertAnchors(s) \/ Conflict(s)
    PROVE  /\ seen' = seen /\ row' = row
           /\ \E label \in {"ready", "anchor", "failed"}, o \in Ops \cup {NoOp} : Moved(s, label, o)
  <1> USE DEF ApplyCreate, ApplyUpdateOrMerge, DeleteEntity, HardDeleteEntity, UpdateTags,
              UpsertAnchors, Conflict
  <1>1. TxTypeOK
    BY TypeParts DEF IInv
  <1>2. seen' = seen /\ row' = row
    BY DEF PutRow, rowVars
  <1>3. Finish(s) \/ Fail(s) \/ (Goto(s, "anchor") /\ UNCHANGED <<op, todo, outbox>>)
    BY DEF ThenAnchors
  <1>4. \E label \in {"ready", "anchor", "failed"}, o \in Ops \cup {NoOp} : Moved(s, label, o)
    <2>1. CASE Finish(s)
      <3>1. Moved(s, "ready", NoOp)
        BY <1>1, <2>1 DEF TxTypeOK, Finish, Goto, Moved
      <3> QED
        BY <3>1
    <2>2. CASE Fail(s)
      <3>1. Moved(s, "failed", NoOp)
        BY <1>1, <2>2 DEF TxTypeOK, Fail, Goto, Moved
      <3> QED
        BY <3>1
    <2>3. CASE Goto(s, "anchor") /\ UNCHANGED <<op, todo, outbox>>
      <3>1. Moved(s, "anchor", op[s]) /\ op[s] \in Ops \cup {NoOp}
        BY <1>1, <2>3 DEF TxTypeOK, Goto, Moved
      <3> QED
        BY <3>1
    <2> QED
      BY <1>3, <2>1, <2>2, <2>3
  <1> QED
    BY <1>2, <1>4

LEMMA RInvWrite ==
    ASSUME IInv, RInv, ~ReuseIds, NEW s \in Session,
           \/ ApplyCreate(s) \/ ApplyUpdateOrMerge(s) \/ DeleteEntity(s)
           \/ HardDeleteEntity(s) \/ UpdateTags(s) \/ UpsertAnchors(s) \/ Conflict(s)
    PROVE  RInv'
  <1>1. RowTypeOK /\ LabelsOK
    BY TypeParts DEF IInv
  <1>2. seen' = seen /\ row' = row
    BY WriteMoves
  <1>3. PICK label \in {"ready", "anchor", "failed"}, o \in Ops \cup {NoOp} : Moved(s, label, o)
    BY WriteMoves
  <1>4. SeenOK'
    BY <1>2 DEF RInv, SeenOK
  <1>5. CASE UNCHANGED rowVars
    <2>1. UNCHANGED <<draft, lock>>
      BY <1>5 DEF rowVars
    <2>2. BasisOK'
      BY <1>2, <1>3, <2>1, BasisStep
    <2>3. SwapsOK'
      BY <1>2, <2>1 DEF RInv, SwapsOK
    <2> QED
      BY <1>4, <2>2, <2>3 DEF RInv
  <1>6. CASE ~UNCHANGED rowVars
    <2>1. pc[s] \in {"busy", "delete"}
      BY <1>6 DEF ApplyCreate, ApplyUpdateOrMerge, DeleteEntity, HardDeleteEntity, UpdateTags,
                  UpsertAnchors, Conflict, At
    <2>2. PICK e \in Entity : op[s].id = e
      BY <1>1, <2>1, AtOp
    <2>3. PICK r \in Row : Statement(s, e, r)
      BY <1>1, <1>6, <2>2, WritesAreStatements DEF UpsertAnchors, Conflict
    <2>4. SwapsOK'
      BY <1>2, <2>1, <2>2, <2>3, StatementSwaps
    <2>5. \A f \in Entity : lock[f] \notin {s, Nobody} => draft'[f] = draft[f] /\ lock'[f] = lock[f]
      BY <1>1, <2>3, PutRowFacts DEF Statement
    <2>6. BasisOK'
      BY <1>2, <1>3, <2>5, BasisStep
    <2> QED
      BY <1>4, <2>4, <2>6 DEF RInv
  <1> QED
    BY <1>5, <1>6

LEMMA RInvRead ==
    ASSUME IInv, RInv, NEW s \in Session,
           \/ \E e \in Updatable : GetEntity(s, e)
           \/ BeginTx(s) \/ EvaluatePreCondition(s) \/ DeleteLookup(s)
           \/ \E o \in Ops : BeginOp(s, o)
    PROVE  RInv'
  <1>1. RowTypeOK /\ ReadTypeOK /\ TxTypeOK
    BY TypeParts DEF IInv
  <1>2. UNCHANGED <<row, draft, lock>>
    BY DEF GetEntity, BeginTx, EvaluatePreCondition, DeleteLookup, BeginOp, rowVars
  <1>3. CASE \E e \in Updatable : GetEntity(s, e)
    <2>1. PICK e \in Updatable : GetEntity(s, e)
      BY <1>3
    <2>2. e \in Entity
      BY OpType DEF Updatable
    <2>3. /\ ViewOf(row[e]) \in View /\ ViewOf(row[e]) # NoView
          /\ ViewOf(row[e]).version = row[e].version /\ ViewOf(row[e]).doc = row[e].doc
      BY <1>1, <2>2, ViewType, RowsAssumption DEF RowTypeOK
    <2>4. /\ row[e].st = "live" /\ UNCHANGED <<pc, op>>
          /\ \A t \in Session, f \in Entity :
                seen'[t][f] = IF t = s /\ f = e THEN ViewOf(row[e]) ELSE seen[t][f]
      BY <1>1, <2>1, <2>2 DEF GetEntity, txVars, ReadTypeOK
    <2>5. SwapsOK'
      <3> SUFFICES ASSUME NEW f \in Entity, lock[f] # Nobody, seen[lock[f]][f] = ViewOf(row[f])
                   PROVE  seen'[lock[f]][f] = ViewOf(row[f])
        BY <1>2 DEF RInv, SwapsOK
      <3>1. lock[f] \in Session
        BY <1>1 DEF RowTypeOK
      <3> QED
        BY <2>4, <3>1
    <2>6. SeenOK'
      <3> SUFFICES ASSUME NEW t \in Session, NEW f \in Entity, seen'[t][f] # NoView
                   PROVE  /\ row[f].st # "none"
                          /\ Exists(row[f]) =>
                                /\ seen'[t][f].version <= row[f].version
                                /\ seen'[t][f].version = row[f].version =>
                                      seen'[t][f].doc = row[f].doc
        BY <1>2 DEF SeenOK
      <3>1. CASE t = s /\ f = e
        <4>1. row[e].version \in Nat
          BY <1>1, <2>2, RowFields DEF RowTypeOK
        <4> QED
          BY <2>3, <2>4, <3>1, <4>1
      <3>2. CASE ~(t = s /\ f = e)
        BY <2>4, <3>2 DEF RInv, SeenOK
      <3> QED
        BY <3>1, <3>2
    <2>7. BasisOK'
      <3> SUFFICES ASSUME NEW t \in Session, pc[t] = "busy", op[t].kind \in {"update", "merge"}
                   PROVE  Wrote(t, op[t].id) \/ seen'[t][op[t].id] # NoView
        BY <1>2, <2>4 DEF BasisOK, Wrote
      <3>1. op[t].id \in Entity
        BY AtOp DEF IInv
      <3> QED
        BY <2>3, <2>4, <3>1 DEF RInv, BasisOK
    <2> QED
      BY <2>5, <2>6, <2>7 DEF RInv
  <1>4. CASE BeginTx(s) \/ EvaluatePreCondition(s) \/ DeleteLookup(s) \/ \E o \in Ops : BeginOp(s, o)
    <2>1. seen' = seen
      BY <1>4 DEF BeginTx, EvaluatePreCondition, DeleteLookup, BeginOp
    <2>2. SwapsOK' /\ SeenOK'
      BY <1>2, <2>1 DEF RInv, SwapsOK, SeenOK
    <2>3. BasisOK'
      <3> SUFFICES ASSUME NEW t \in Session, pc'[t] = "busy", op'[t].kind \in {"update", "merge"}
                   PROVE  Wrote(t, op'[t].id) \/ seen[t][op'[t].id] # NoView
        BY <1>2, <2>1 DEF BasisOK, Wrote
      <3>1. CASE pc'[t] = pc[t] /\ op'[t] = op[t]
        BY <3>1 DEF RInv, BasisOK
      <3>2. CASE BeginTx(s) \/ EvaluatePreCondition(s) \/ DeleteLookup(s)
        BY <1>1, <3>1, <3>2
        DEF BeginTx, EvaluatePreCondition, DeleteLookup, Goto, Fail, TxTypeOK
      <3>3. ASSUME NEW o \in Ops, BeginOp(s, o)
            PROVE  Wrote(t, op'[t].id) \/ seen[t][op'[t].id] # NoView
        BY <1>1, <3>1, <3>3 DEF BeginOp, Goto, TxTypeOK
      <3> QED
        BY <1>4, <3>2, <3>3
    <2> QED
      BY <2>2, <2>3 DEF RInv
  <1> QED
    BY <1>3, <1>4

LEMMA RInvEnd ==
    ASSUME IInv, RInv, NEW s \in Session, Commit(s) \/ Rollback(s)
    PROVE  RInv'
  <1>1. RowTypeOK /\ ReadTypeOK /\ TxTypeOK /\ DraftsOK
    BY TypeParts DEF IInv
  <1>2. Ended(s)
    BY CommitFacts DEF Rollback, EndTx, Ended
  <1>3. /\ \A e \in Entity : lock[e] = s => lock'[e] = Nobody
        /\ \A e \in Entity : lock[e] # s => draft'[e] = draft[e] /\ lock'[e] = lock[e]
        /\ Moved(s, "idle", NoOp)
    BY <1>1, <1>2 DEF Ended, Moved, TxTypeOK
  <1>4. /\ \A e \in Entity : lock[e] # s => row'[e] = row[e]
        /\ \A e \in Entity : lock[e] = s => row'[e] \in {row[e], draft[e]}
    BY CommitFacts DEF Rollback, EndTx, Visible
  <1>5. \A t \in Session, e \in Entity :
           \/ seen'[t][e] = seen[t][e]
           \/ t = s /\ lock[e] = s /\ row'[e] = draft[e] /\ seen'[t][e] = ViewOf(draft[e])
                    /\ draft[e].st = "live"
    <2>1. CASE seen' = seen
      BY <2>1
    <2>2. CASE seen' # seen
      <3>1. /\ Commit(s)
            /\ seen' = [seen EXCEPT ![s] = [e \in Entity |->
                     IF e \in Updatable /\ Wrote(s, e) /\ draft[e].st = "live"
                     THEN ViewOf(draft[e]) ELSE seen[s][e]]]
        BY <2>2 DEF Commit, Rollback
      <3>2. \A e \in Entity : lock[e] = s => row'[e] = draft[e]
        BY <3>1, CommitFacts DEF Visible
      <3> QED
        BY <1>1, <3>1, <3>2 DEF ReadTypeOK, Wrote
    <2> QED
      BY <2>1, <2>2
  <1>6. SwapsOK'
    <2> SUFFICES ASSUME NEW e \in Entity, lock'[e] # Nobody
                 PROVE  /\ row'[e].st # "gone"
                        /\ Exists(row'[e]) /\ Exists(draft'[e]) =>
                              /\ draft'[e].version >= row'[e].version
                              /\ draft'[e].version = row'[e].version => draft'[e].doc = row'[e].doc
                              /\ row'[e].st = "deleted" => draft'[e].st = "deleted"
                              /\ draft'[e].version > row'[e].version =>
                                    row'[e].st = "live" /\ seen'[lock'[e]][e] = ViewOf(row'[e])
      BY DEF SwapsOK
    <2>1. lock[e] # s /\ lock[e] # Nobody /\ lock'[e] = lock[e] /\ lock[e] \in Session
      BY <1>1, <1>3 DEF RowTypeOK
    <2>2. row'[e] = row[e] /\ draft'[e] = draft[e] /\ seen'[lock[e]][e] = seen[lock[e]][e]
      BY <1>3, <1>4, <1>5, <2>1
    <2> QED
      BY <2>1, <2>2 DEF RInv, SwapsOK
  <1>7. SeenOK'
    <2> SUFFICES ASSUME NEW t \in Session, NEW e \in Entity, seen'[t][e] # NoView
                 PROVE  /\ row'[e].st # "none"
                        /\ Exists(row'[e]) =>
                              /\ seen'[t][e].version <= row'[e].version
                              /\ seen'[t][e].version = row'[e].version =>
                                    seen'[t][e].doc = row'[e].doc
      BY DEF SeenOK
    <2>1. /\ row[e] \in Row /\ draft[e] \in Row
          /\ row[e].version \in Nat /\ draft[e].version \in Nat
      BY <1>1, RowFields DEF RowTypeOK
    <2>2. CASE seen'[t][e] # seen[t][e]
      <3>1. row'[e] = draft[e] /\ seen'[t][e] = ViewOf(draft[e]) /\ draft[e].st = "live"
        BY <1>5, <2>2
      <3>2. seen'[t][e].version = draft[e].version /\ seen'[t][e].doc = draft[e].doc
        BY <2>1, <3>1, ViewType
      <3> QED
        BY <2>1, <3>1, <3>2
    <2>3. CASE seen'[t][e] = seen[t][e] /\ row'[e] = row[e]
      BY <2>3 DEF RInv, SeenOK
    <2>4. CASE seen'[t][e] = seen[t][e] /\ lock[e] = s /\ row'[e] = draft[e]
      <3>1. row[e].st # "gone" /\ row[e].st # "none" /\ draft[e].st # "none" /\ lock[e] # Nobody
        BY <1>1, <2>4, NullAssumption DEF RInv, SwapsOK, SeenOK, DraftsOK
      <3>2. Exists(row[e])
        BY <2>1, <3>1, RowFields DEF Exists
      <3>3. seen[t][e] \in View /\ seen[t][e].version \in Nat
        BY <1>1, <2>4 DEF ReadTypeOK, View
      <3>4. /\ seen[t][e].version <= row[e].version
            /\ seen[t][e].version = row[e].version => seen[t][e].doc = row[e].doc
        BY <2>4, <3>2 DEF RInv, SeenOK
      <3>5. Exists(draft[e]) =>
              /\ draft[e].version >= row[e].version
              /\ draft[e].version = row[e].version => draft[e].doc = row[e].doc
        BY <3>1, <3>2 DEF RInv, SwapsOK
      <3>6. Exists(draft[e]) =>
              /\ seen[t][e].version <= draft[e].version
              /\ seen[t][e].version = draft[e].version =>
                    draft[e].version = row[e].version /\ seen[t][e].version = row[e].version
        BY <2>1, <3>3, <3>4, <3>5
      <3> QED
        BY <2>4, <3>1, <3>4, <3>5, <3>6
    <2> QED
      BY <1>4, <2>2, <2>3, <2>4
  <1>8. BasisOK'
    BY <1>3, <1>4, <1>5, BasisStep
  <1> QED
    BY <1>6, <1>7, <1>8 DEF RInv

LEMMA RInvStep ==
    ASSUME ~ReuseIds
    PROVE  IInv /\ RInv /\ [Next]_vars => RInv'
  <1> SUFFICES ASSUME IInv, RInv, [Next]_vars PROVE RInv'
    OBVIOUS
  <1>1. CASE UNCHANGED vars
    <2>1. UNCHANGED <<row, draft, lock, pc, op, seen>>
      BY <1>1 DEF vars, rowVars, txVars
    <2> QED
      BY <2>1 DEF RInv, SwapsOK, SeenOK, BasisOK, Wrote
  <1>2. ASSUME NEW s \in Session,
               \/ \E e \in Updatable : GetEntity(s, e)
               \/ BeginTx(s)
               \/ \E o \in Ops : BeginOp(s, o)
               \/ EvaluatePreCondition(s)
               \/ ApplyCreate(s) \/ ApplyUpdateOrMerge(s) \/ Conflict(s)
               \/ UpsertAnchors(s)
               \/ DeleteLookup(s) \/ DeleteEntity(s) \/ HardDeleteEntity(s)
               \/ UpdateTags(s)
               \/ Commit(s) \/ Rollback(s)
        PROVE  RInv'
    BY <1>2, RInvRead, RInvWrite, RInvEnd
  <1> QED
    BY <1>1, <1>2 DEF Next

LEMMA AlwaysRInv ==
    ASSUME ~ReuseIds
    PROVE  Spec => [](IInv /\ RInv)
  <1>1. IInv /\ RInv /\ [Next]_vars => (IInv /\ RInv)'
    BY IInvStep, RInvStep
  <1> QED
    BY <1>1, InitIInv, InitRInv, PTL DEF Spec

(* As long as hard-deleted ids are not used again, no update or merge      *)
(* replaces data its client has not read: the version test of the UPDATE   *)
(* is enough, however reads, commits and rollbacks of other sessions fall  *)
(* between the read and the write.                                         *)
THEOREM WritesNoLostUpdate ==
    ASSUME ~ReuseIds
    PROVE  Spec => []NoLostUpdate
  <1>1. IInv /\ RInv => NoLostUpdate
    <2> SUFFICES ASSUME IInv, RInv, NEW s \in Session, NEW e \in Entity,
                        lock[e] = s, Exists(row[e]), Exists(draft[e]), draft[e].doc # row[e].doc
                 PROVE  seen[s][e] = ViewOf(row[e])
      BY DEF NoLostUpdate
    <2>1. row[e].version \in Nat /\ draft[e].version \in Nat
      BY TypeParts, RowFields DEF IInv, RowTypeOK
    <2>2. /\ draft[e].version >= row[e].version
          /\ draft[e].version = row[e].version => draft[e].doc = row[e].doc
          /\ draft[e].version > row[e].version => seen[s][e] = ViewOf(row[e])
      BY NullAssumption DEF RInv, SwapsOK
    <2> QED
      BY <2>1, <2>2
  <1> QED
    BY <1>1, AlwaysRInv, PTL

-----------------------------------------------------------------------------
(* Refinement.                                                             *)

LEMMA RegisterInit == WritesInit => Register!Init
  BY DEF WritesInit, Register!Init, Register!Absent, Absent, Register!EmptyDoc, EmptyDoc

(* A commit is one write of the register.                                  *)
LEMMA CommitWrites ==
    ASSUME IInv, RInv, NEW s \in Session, Commit(s)
    PROVE  Register!Write(s)
  <1>1. RowTypeOK /\ ReadTypeOK /\ DraftsOK
    BY TypeParts DEF IInv
  <1>2. \A e \in Entity : row'[e] = Visible(s, e)
    BY CommitFacts
  <1>3. ASSUME NEW e \in Entity
        PROVE  \/ row'[e] = row[e]
               \/ Register!Creates(row[e], row'[e])
               \/ Register!Swaps(s, e, row[e], row'[e])
               \/ Register!Marks(row[e], row'[e])
               \/ Register!Removes(row[e], row'[e])
    <2>1. CASE lock[e] # s
      BY <1>2, <2>1 DEF Visible
    <2>2. CASE lock[e] = s
      <3>1. /\ row'[e] = draft[e] /\ row[e] \in Row /\ draft[e] \in Row
            /\ row[e].version \in Nat /\ draft[e].version \in Nat
        BY <1>1, <1>2, <2>2, RowFields DEF RowTypeOK, Visible
      <3>2. draft[e].st # "none" /\ row[e].st # "gone" /\ lock[e] # Nobody
        BY <1>1, <2>2, NullAssumption DEF DraftsOK, RInv, SwapsOK
      <3>3. CASE row[e].st = "none"
        BY <3>1, <3>2, <3>3 DEF Register!Creates
      <3>4. CASE Exists(row[e]) /\ draft[e].st = "gone"
        BY <3>1, <3>4 DEF Register!Removes, Register!Exists, Exists
      <3>5. CASE Exists(row[e]) /\ Exists(draft[e])
        <4>1. /\ draft[e].version >= row[e].version
              /\ draft[e].version = row[e].version => draft[e].doc = row[e].doc
              /\ row[e].st = "deleted" => draft[e].st = "deleted"
              /\ draft[e].version > row[e].version =>
                    row[e].st = "live" /\ seen[s][e] = ViewOf(row[e])
          BY <2>2, <3>2, <3>5 DEF RInv, SwapsOK
        <4>2. CASE draft[e].version > row[e].version
          BY <3>1, <3>5, <4>1, <4>2
          DEF Register!Swaps, Register!Exists, Register!ViewOf, Exists, ViewOf
        <4>3. CASE draft[e].version = row[e].version
          BY <3>1, <3>5, <4>1, <4>3
          DEF Register!Marks, Register!Exists, Register!ViewOf, Exists
        <4> QED
          BY <3>1, <4>1, <4>2, <4>3
      <3> QED
        BY <3>1, <3>2, <3>3, <3>4, <3>5, RowFields DEF Exists
    <2> QED
      BY <2>1, <2>2
  <1>4. ASSUME NEW t \in Session, NEW e \in Entity
        PROVE  \/ seen'[t][e] = seen[t][e]
               \/ t = s /\ seen'[t][e] = Register!ViewOf(row'[e])
    <2>1. CASE seen' = seen
      BY <2>1
    <2>2. CASE seen' = [seen EXCEPT ![s] = [f \in Entity |->
                     IF f \in Updatable /\ Wrote(s, f) /\ draft[f].st = "live"
                     THEN ViewOf(draft[f]) ELSE seen[s][f]]]
      BY <1>1, <1>2, <2>2 DEF ReadTypeOK, Wrote, Visible, Register!ViewOf, ViewOf
    <2> QED
      BY <2>1, <2>2 DEF Commit
  <1> QED
    BY <1>3, <1>4 DEF Register!Write

LEMMA RegisterStep ==
    ASSUME IInv, RInv, [Next]_vars
    PROVE  [Register!Next]_<<row, seen>>
  <1>1. CASE UNCHANGED vars
    BY <1>1 DEF vars, rowVars
  <1>2. ASSUME NEW s \in Session, \E e \in Updatable : GetEntity(s, e)
        PROVE  Register!Next
    <2>1. PICK e \in Updatable : GetEntity(s, e)
      BY <1>2
    <2>2. e \in Entity
      BY OpType DEF Updatable
    <2>3. Register!Read(s, e)
      BY <2>1 DEF GetEntity, Register!Read, rowVars, Register!ViewOf, ViewOf
    <2> QED
      BY <2>2, <2>3 DEF Register!Next
  <1>3. ASSUME NEW s \in Session, Commit(s) PROVE Register!Next
    BY <1>3, CommitWrites DEF Register!Next
  <1>4. ASSUME NEW s \in Session,
               \/ BeginTx(s) \/ EvaluatePreCondition(s) \/ DeleteLookup(s) \/ Rollback(s)
               \/ \E o \in Ops : BeginOp(s, o)
        PROVE  UNCHANGED <<row, seen>>
    BY <1>4 DEF BeginTx, EvaluatePreCondition, DeleteLookup, Rollback, EndTx, BeginOp, rowVars
  <1>5. ASSUME NEW s \in Session,
               \/ ApplyCreate(s) \/ ApplyUpdateOrMerge(s) \/ DeleteEntity(s)
               \/ HardDeleteEntity(s) \/ UpdateTags(s) \/ UpsertAnchors(s) \/ Conflict(s)
        PROVE  UNCHANGED <<row, seen>>
    BY <1>5, WriteMoves
  <1> QED
    BY <1>1, <1>2, <1>3, <1>4, <1>5 DEF Next

(* Without reuse of ids the write path implements an atomic register with  *)
(* compare-and-swap per entity: what READ COMMITTED, the version column    *)
(* and the soft delete give together, a client could not tell from batches *)
(* that take effect one after the other.                                   *)
THEOREM WritesRefinesRegister ==
    ASSUME ~ReuseIds
    PROVE  Spec => RefinesRegister
  <1>1. IInv /\ RInv /\ [Next]_vars => [Register!Next]_Register!vars
    BY RegisterStep DEF Register!vars
  <1> QED
    BY <1>1, RegisterInit, AlwaysRInv, PTL DEF Spec, RefinesRegister, Register!Spec
=============================================================================
