----------------------------- MODULE DeadLetters -----------------------------
(***************************************************************************)
(* entity_event_dead_letters: rows parked by the consumers, replayed and   *)
(* purged by administrators.                                               *)
(*                                                                         *)
(* ReplayDeadLetters lists a page of the newest rows and then works on     *)
(* that list, one call of ConsumerFunc and one DELETE per row, while other *)
(* replays, purges and consumers use the table.                            *)
(***************************************************************************)
EXTENDS Naturals, FiniteSets

CONSTANTS
    Name,        \* consumer names
    Kind,        \* event types, for ReplayOpts.EventTypes
    Replayer,    \* concurrent calls of ReplayDeadLetters
    Limit,       \* ReplayOpts.Limit
    MaxRows,     \* bound on the rows ever parked
    MaxTime,     \* bound on created_at
    MaxFaults    \* bound on failed DELETEs and crashes

ASSUME LimitAssumption == Limit \in Nat \ {0}
ASSUME DLBoundAssumption ==
    MaxRows \in Nat /\ MaxTime \in Nat /\ MaxFaults \in Nat

VARIABLES
    letters,    \* the rows of the table
    nextId,     \* BIGSERIAL
    clock,      \* created_at of the next row
    running,    \* replayers inside ReplayDeadLetters
    todo,       \* per replayer: the rows listed and not yet processed
    done,       \* per replayer: id of the accepted row to delete next, or 0
    accepted,   \* history: ids of rows whose event ConsumerFunc accepted
    purged,     \* history: ids of rows removed by a purge
    faults

histVars == <<accepted, purged>>
vars == <<letters, nextId, clock, running, todo, done, histVars, faults>>

IdsOf(R) == {r.id : r \in R}

Init ==
    /\ letters = {}
    /\ nextId = 1
    /\ clock = 0
    /\ running = {}
    /\ todo = [p \in Replayer |-> {}]
    /\ done = [p \in Replayer |-> 0]
    /\ accepted = {}
    /\ purged = {}
    /\ faults = 0

(* InsertDeadLetter.  Rows of one transaction share created_at.            *)
Park(n, k) ==
    /\ nextId <= MaxRows
    /\ \E t \in {clock, clock + 1} \cap 0..MaxTime :
          /\ clock' = t
          /\ letters' = letters \cup
                {[id |-> nextId, name |-> n, kind |-> k, at |-> t]}
    /\ nextId' = nextId + 1
    /\ UNCHANGED <<running, todo, done, histVars, faults>>

(* ListDeadLetters: WHERE consumer_name, event_type; kinds = {} means all. *)
Matching(n, kinds) == {r \in letters : r.name = n /\ (kinds = {} \/ r.kind \in kinds)}

(* ORDER BY created_at DESC LIMIT: ties are in no particular order.        *)
IsPage(L, R) ==
    /\ L \subseteq R
    /\ Cardinality(L) = IF Cardinality(R) < Limit THEN Cardinality(R) ELSE Limit
    /\ \A l \in L, r \in R \ L : r.at <= l.at

StartReplay(p, n, kinds) ==
    /\ p \notin running
    /\ running' = running \cup {p}
    /\ \E L \in SUBSET Matching(n, kinds) :
          /\ IsPage(L, Matching(n, kinds))
          /\ todo' = [todo EXCEPT ![p] = L]
    /\ UNCHANGED <<letters, nextId, clock, done, histVars, faults>>

(* The next row of the list is taken.                                      *)
TakeRow(p, r) ==
    /\ done[p] = 0
    /\ r \in todo[p]
    /\ \A q \in todo[p] : q.at <= r.at
    /\ todo' = [todo EXCEPT ![p] = @ \ {r}]
    /\ UNCHANGED <<nextId, clock, running, purged, faults>>

(* Mutant: the row is deleted whatever ConsumerFunc returns.               *)
ReplayFailsDeleting(p, r) ==
    /\ TakeRow(p, r)
    /\ letters' = {l \in letters : l.id # r.id}
    /\ UNCHANGED <<done, accepted>>

(* ConsumerFunc returns an error: counted in the result, the row is left   *)
(* as it is.                                                               *)
ReplayFails(p, r) ==
    /\ TakeRow(p, r)
    /\ UNCHANGED <<letters, done, accepted>>

(* ConsumerFunc returns nil.                                               *)
ReplayOk(p, r) ==
    /\ TakeRow(p, r)
    /\ done' = [done EXCEPT ![p] = r.id]
    /\ accepted' = accepted \cup {r.id}
    /\ UNCHANGED letters

(* DeleteDeadLetter: by id, its error ignored.                             *)
DeleteLetter(p) ==
    /\ done[p] # 0
    /\ \/ letters' = {l \in letters : l.id # done[p]} /\ UNCHANGED faults
       \/ faults < MaxFaults /\ faults' = faults + 1 /\ UNCHANGED letters
    /\ done' = [done EXCEPT ![p] = 0]
    /\ UNCHANGED <<nextId, clock, running, todo, histVars>>

EndReplay(p) ==
    /\ p \in running
    /\ todo[p] = {}
    /\ done[p] = 0
    /\ running' = running \ {p}
    /\ UNCHANGED <<letters, nextId, clock, todo, done, histVars, faults>>

(* The process dies inside a replay, perhaps between ConsumerFunc and the  *)
(* DELETE.                                                                 *)
Crash(p) ==
    /\ p \in running
    /\ faults < MaxFaults
    /\ faults' = faults + 1
    /\ running' = running \ {p}
    /\ todo' = [todo EXCEPT ![p] = {}]
    /\ done' = [done EXCEPT ![p] = 0]
    /\ UNCHANGED <<letters, nextId, clock, histVars>>

(* PurgeOldDeadLetters: of every consumer.                                 *)
Purge(t) ==
    /\ letters' = {l \in letters : l.at >= t}
    /\ purged' = purged \cup IdsOf(letters \ letters')
    /\ UNCHANGED <<nextId, clock, running, todo, done, accepted, faults>>

Next ==
    \/ \E n \in Name, k \in Kind : Park(n, k)
    \/ \E p \in Replayer, n \in Name, kinds \in SUBSET Kind : StartReplay(p, n, kinds)
    \/ \E p \in Replayer :
          \/ \E r \in todo[p] : ReplayFails(p, r) \/ ReplayOk(p, r)
          \/ DeleteLetter(p)
          \/ EndReplay(p) \/ Crash(p)
    \/ \E t \in 1..MaxTime : Purge(t)

Spec == Init /\ [][Next]_vars

-----------------------------------------------------------------------------

(* No dead letter disappears: a row that was parked is in the table until  *)
(* ConsumerFunc has accepted its event or a purge has removed it, however  *)
(* replays and purges overlap.                                             *)
NoLetterLost ==
    \A id \in 1..(nextId - 1) :
        id \in IdsOf(letters) \cup accepted \cup purged
=============================================================================
