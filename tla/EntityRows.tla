----------------------------- MODULE EntityRows -----------------------------
(***************************************************************************)
(* Rows of the entities table, and what a client keeps of one.             *)
(***************************************************************************)
EXTENDS Naturals

CONSTANTS
    Session,      \* clients, each with a connection
    Entity,       \* entity ids
    Anchor,       \* anchors (entity_type, field, normalised value)
    Tag,
    Key, Val,     \* top-level fields of the JSON data and their values
    NoAnchor,
    NoView        \* the client has not read the entity

(* The data column: an object with some of the fields.                     *)
Doc == UNION {[K -> Val] : K \in SUBSET Key}

EmptyDoc == [k \in {} |-> k]

(* st: "none" never created, "live", "deleted" (deleted_at is set), "gone" *)
(* hard-deleted.  claim is a history: the anchor that a MustNotExist       *)
(* precondition of the creating operation was to reserve.                  *)
Row == [st : {"none", "live", "deleted", "gone"}, version : Nat, doc : Doc,
        tags : SUBSET Tag, claim : Anchor \cup {NoAnchor}]

Absent(st) ==
    [st |-> st, version |-> 0, doc |-> EmptyDoc, tags |-> {}, claim |-> NoAnchor]

Exists(r) == r.st \in {"live", "deleted"}

(* What a client keeps of an entity it has read.                           *)
View == [version : Nat, doc : Doc]

ViewOf(r) == [version |-> r.version, doc |-> r.doc]

ASSUME RowsAssumption == NoAnchor \notin Anchor /\ NoView \notin View
=============================================================================
