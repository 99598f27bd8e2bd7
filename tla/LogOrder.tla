------------------------------ MODULE LogOrder ------------------------------
(***************************************************************************)
(* Rows of entity_events as positions in the log, and their order.         *)
(***************************************************************************)
EXTENDS Naturals

CONSTANTS
    Ids,        \* event ids (UUIDv7), ordered as uuid columns are
    MaxTime     \* bound on the database clock

ASSUME IdsAssumption == Ids \subseteq Nat \ {0}
ASSUME MaxTimeAssumption == MaxTime \in Nat \ {0}

Event == [at : 1..MaxTime, id : Ids]

(* Before any event: last_event_at DEFAULT '1970-01-01', last_event_id NULL *)
(* which the consumer reads as the nil UUID.                                *)
Start == [at |-> 0, id |-> 0]

(* ORDER BY occurred_at, id.  The same comparison selects the rows after a *)
(* cursor.                                                                 *)
Before(e, f) == e.at < f.at \/ (e.at = f.at /\ e.id < f.id)

AtOrBefore(e, c) == e = c \/ Before(e, c)
=============================================================================
