------------------------------ MODULE Delivery ------------------------------
(***************************************************************************)
(* What a named consumer promises, whoever runs it: at-least-once delivery *)
(* of a log, in log order, with a cursor that only moves forwards over     *)
(* what has been handled.  There are no instances, leases or failures      *)
(* here; an event is handled when ConsumerFunc accepted it or when it is   *)
(* in the dead letter table.                                               *)
(***************************************************************************)
EXTENDS LogOrder

VARIABLES
    log,        \* committed events
    late,       \* the ones committed behind a visible event: no promise
    handled,    \* events accepted or dead-lettered
    cursor      \* the acknowledged position

vars == <<log, late, handled, cursor>>

InOrderRows == log \ late

Init == log = {} /\ late = {} /\ handled = {} /\ cursor = Start

(* A transaction commits a set of events.                                  *)
Append(E) ==
    /\ log' = log \cup E
    /\ late' = late \cup {e \in E : \E f \in log : Before(e, f)}
    /\ UNCHANGED <<handled, cursor>>

(* A set of events is handled, unless an earlier one would be left out.    *)
Handle(B) ==
    /\ \A b \in B, f \in InOrderRows : Before(f, b) => f \in handled \cup B
    /\ handled' = handled \cup B

(* The cursor stays or moves forwards to an event; everything up to it is  *)
(* handled.                                                                *)
Acknowledge(c) ==
    /\ c = cursor \/ Before(cursor, c)
    /\ \A e \in InOrderRows : AtOrBefore(e, c) => e \in handled'
    /\ cursor' = c

Next ==
    \/ \E E \in SUBSET Event : Append(E)
    \/ /\ \E B \in SUBSET log : Handle(B)
       /\ \E c \in log \cup {Start} : Acknowledge(c)
       /\ UNCHANGED <<log, late>>

Spec == Init /\ [][Next]_vars
=============================================================================
