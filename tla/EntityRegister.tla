--------------------------- MODULE EntityRegister ---------------------------
(***************************************************************************)
(* What the store promises of every entity, whoever writes it: an atomic   *)
(* register with compare-and-swap on what the client has read.  There are  *)
(* no transactions, locks, drafts or anchors here; a batch changes several *)
(* registers in one step.                                                  *)
(***************************************************************************)
EXTENDS EntityRows

VARIABLES
    row,        \* the entities
    seen        \* per session and entity: what its client has read last

vars == <<row, seen>>

Init ==
    /\ row = [e \in Entity |-> Absent("none")]
    /\ seen = [s \in Session |-> [e \in Entity |-> NoView]]

Read(s, e) ==
    /\ row[e].st = "live"
    /\ seen' = [seen EXCEPT ![s][e] = ViewOf(row[e])]
    /\ UNCHANGED row

(* The entity comes into being.                                            *)
Creates(r, q) == r.st = "none" /\ q.st # "none"

(* Compare-and-swap: new data, under a higher version, for a live entity   *)
(* that is exactly as the client has read it.                              *)
Swaps(s, e, r, q) ==
    /\ r.st = "live"
    /\ seen[s][e] = ViewOf(r)
    /\ Exists(q)
    /\ q.version > r.version

(* A soft delete or new tags: the data and the version stay, and nothing   *)
(* that was deleted comes back.                                            *)
Marks(r, q) ==
    /\ Exists(r) /\ Exists(q)
    /\ ViewOf(q) = ViewOf(r)
    /\ r.st = "deleted" => q.st = "deleted"

Removes(r, q) == Exists(r) /\ q.st = "gone"

(* A batch of session s takes effect; its client may learn the outcome.    *)
Write(s) ==
    /\ \A e \in Entity :
          \/ row'[e] = row[e]
          \/ Creates(row[e], row'[e])
          \/ Swaps(s, e, row[e], row'[e])
          \/ Marks(row[e], row'[e])
          \/ Removes(row[e], row'[e])
    /\ \A t \in Session, e \in Entity :
          \/ seen'[t][e] = seen[t][e]
          \/ t = s /\ seen'[t][e] = ViewOf(row'[e])

Next ==
    \E s \in Session :
        \/ \E e \in Entity : Read(s, e)
        \/ Write(s)

Spec == Init /\ [][Next]_vars
=============================================================================
