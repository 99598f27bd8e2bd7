---------------------------- MODULE ConsumerTries ----------------------------
(***************************************************************************)
(* Consumer with a history of how often ConsumerFunc returned an error for *)
(* a batch that contained an event, which is what MaxRetries is documented *)
(* to count, and of the instances that have been leaders; and what Health  *)
(* (store/health.go) reports of the consumer.                              *)
(***************************************************************************)
EXTENDS Consumer

VARIABLES
    tries,     \* failed attempts per event id, counted up to MaxRetries
    leaders    \* instances that have held the lock

triesVars == <<vars, tries, leaders>>

(* Events of the batch on which ConsumerFunc returns an error in this step. *)
FailedNow ==
    UNION {batch[i] : i \in {j \in Inst : pc[j] = "process" /\ pc'[j] = "failed"}}

CountTries ==
    tries' = [id \in Ids |->
                IF tries[id] < MaxRetries /\ \E e \in FailedNow : e.id = id
                THEN tries[id] + 1
                ELSE tries[id]]

TriesInit == Init /\ tries = [id \in Ids |-> 0] /\ leaders = {}

TriesNext == Next /\ CountTries /\ leaders' = leaders \cup ({holder'} \ {NoHolder})

TriesSpec == TriesInit /\ [][TriesNext]_triesVars /\ Fairness

(* A poison batch is retried MaxRetries times before it is given up: when  *)
(* a batch is about to be dead-lettered by the only leader so far, and the *)
(* database has been healthy, its oldest event has failed that often (a    *)
(* late commit in front of it aside), although the batch is read again for *)
(* every attempt and may have grown, and the counter is not the batch's.   *)
OldestRetried ==
    \A i \in Inst :
        pc[i] = "dlCommit" /\ late = {} /\ faults = 0 /\ leaders = {i} =>
            \E e \in batch[i] : /\ \A f \in batch[i] : AtOrBefore(e, f)
                                /\ tries[e.id] = MaxRetries

-----------------------------------------------------------------------------
(* Health.                                                                 *)

(* The row of the consumer.                                                *)
ListConsumers ==
    [lastEvent |-> cursor, holderID |-> holder, consecutiveFailures |-> rowFailures]

(* Nobody replays or purges here: all rows ever written are in the table.  *)
CountDeadLetters == Cardinality(parked)

(* The state Health derives from the two queries.                          *)
ConsumerState ==
    CASE ListConsumers.consecutiveFailures = 0 /\ CountDeadLetters = 0 -> "healthy"
      [] CountDeadLetters > 0 -> "failing"
      [] OTHER -> "degraded"

(* Health tells the truth about the leader although it reads columns that  *)
(* every leader overwrites and none reads back: while the holder of the    *)
(* lock waits to retry, and the database has been healthy, the row has the *)
(* holder's own count of failures, not that of an earlier leader, and the  *)
(* consumer is not reported healthy.                                       *)
HealthReflectsLeader ==
    \A i \in Inst :
        holder = i /\ pc[i] = "idle" /\ failures[i] > 0 /\ faults = 0 =>
            /\ ListConsumers.consecutiveFailures = failures[i]
            /\ ConsumerState # "healthy"
=============================================================================
