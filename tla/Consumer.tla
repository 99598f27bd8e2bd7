------------------------------ MODULE Consumer ------------------------------
(***************************************************************************)
(* A named event consumer (store/consumer.go) and its row of               *)
(* entity_event_consumers.                                                 *)
(*                                                                         *)
(* Any number of instances, each with its own HolderID, run the same name. *)
(* One poll is a sequence of separate SQL statements with the user's       *)
(* ConsumerFunc in the middle; every label of pc is a point between two of *)
(* them, where other instances, writers, the passing of time and crashes   *)
(* can interleave.                                                         *)
(*                                                                         *)
(* Time is abstracted: the lease of the row is live, expired or null, and  *)
(* a backoff is pending or not; both may lapse between any two steps.      *)
(***************************************************************************)
EXTENDS EventLog

CONSTANTS
    Inst,             \* HolderIDs
    NoHolder,         \* holder_id IS NULL
    BatchSize,        \* ConsumerConfig.BatchSize
    MaxRetries,       \* ConsumerConfig.MaxRetries; 0 = retry forever
    Backoff,          \* InitialBackoff > 0
    LeaseCoversPoll,  \* assume that no poll outlasts LockTTL
    MaxFaults,        \* bound on database errors, crashes and shutdowns
    FailureBound      \* bound on consecutive errors of ConsumerFunc

ASSUME NoHolderAssumption == NoHolder \notin Inst
ASSUME BatchSizeAssumption == BatchSize \in Nat \ {0}
ASSUME MaxRetriesAssumption == MaxRetries \in Nat
ASSUME SwitchAssumption == Backoff \in BOOLEAN /\ LeaseCoversPoll \in BOOLEAN
ASSUME BoundAssumption == MaxFaults \in Nat /\ FailureBound \in Nat

VARIABLES
    \* the row of entity_event_consumers
    cursor,       \* (last_event_at, last_event_id)
    holder,       \* holder_id
    lease,        \* expires_at: "null", "live" (in the future), "expired"
    rowFailures,  \* consecutive_failures
    \* each instance: program counter, locals of the poll, struct fields
    pc,
    read,         \* the cursor this poll has read
    batch,        \* the rows this poll has read
    failures,     \* Consumer.consecutiveFailures
    backingOff,   \* now < Consumer.backoffUntil
    \* bookkeeping
    faults,       \* faults injected so far
    delivered,    \* history: events of batches that ConsumerFunc accepted
    parked        \* history: events ever written to the dead letter table

rowVars  == <<cursor, holder, lease, rowFailures>>
pollVars == <<pc, read, batch>>
memVars  == <<failures, backingOff>>
histVars == <<faults, delivered, parked>>
conVars  == <<rowVars, pollVars, memVars, histVars>>
vars     == <<logVars, conVars>>

Labels == {"down", "idle", "acquire", "cursor", "events", "process", "advance",
           "failed", "dlCursor", "dlEvents", "dlCommit", "reset"}

(* Labels inside a poll, after the lock has been acquired or renewed.      *)
Polling == Labels \ {"down", "idle", "acquire"}

-----------------------------------------------------------------------------
(* The statements of store/db/queries/consumer.sql.                        *)

(* SELECT last_event_at, last_event_id.                                    *)
GetConsumerCursor == cursor

(* Mutant: ORDER BY occurred_at DESC, id DESC.                             *)
GetNewestEventsAfterCursor(c) ==
    {e \in log : /\ Before(c, e)
                 /\ Cardinality({f \in log : Before(e, f)}) < BatchSize}

(* GetEventsAfterCursor: the first BatchSize rows after c.                 *)
GetEventsAfterCursor(c) ==
    {e \in log : /\ Before(c, e)
                 /\ Cardinality({f \in log : Before(c, f) /\ Before(f, e)})
                       < BatchSize}

(* UPDATE ... WHERE holder_id = i: the expiry is not examined.             *)
RenewConsumerLock(i) ==
    /\ lease' = IF holder = i THEN "live" ELSE lease
    /\ UNCHANGED <<cursor, holder, rowFailures>>

(* Mutant: the conflict clause has lost its WHERE.                         *)
AlwaysAcquirable == TRUE

(* WHERE expires_at IS NULL OR expires_at < now().                         *)
Acquirable == lease # "live"

(* INSERT ... ON CONFLICT DO UPDATE ... WHERE Acquirable.  The absent row  *)
(* and the released row are the same state.                                *)
TryAcquireConsumerLock(i) ==
    /\ holder' = IF Acquirable THEN i ELSE holder
    /\ lease' = "live"
    /\ UNCHANGED <<cursor, rowFailures>>

(* Mutant: the update is not fenced by holder_id.                          *)
AdvanceUnfenced(i, last) ==
    /\ cursor' = last
    /\ rowFailures' = 0
    /\ UNCHANGED <<holder, lease>>

(* UPDATE ... WHERE holder_id = i.  Zero rows updated is not an error.     *)
AdvanceConsumerCursor(i, last) ==
    /\ cursor' = IF holder = i THEN last ELSE cursor
    /\ rowFailures' = IF holder = i THEN 0 ELSE rowFailures
    /\ UNCHANGED <<holder, lease>>

UpdateConsumerFailureState(i, n) ==
    /\ rowFailures' = IF holder = i THEN n ELSE rowFailures
    /\ UNCHANGED <<cursor, holder, lease>>

(* Mutant: expires_at is not cleared.                                      *)
ReleaseKeepingLease(i) ==
    /\ holder' = IF holder = i THEN NoHolder ELSE holder
    /\ UNCHANGED <<cursor, lease, rowFailures>>

ReleaseConsumerLock(i) ==
    /\ holder' = IF holder = i THEN NoHolder ELSE holder
    /\ lease' = IF holder = i THEN "null" ELSE lease
    /\ UNCHANGED <<cursor, rowFailures>>

-----------------------------------------------------------------------------
(* Control flow of an instance.                                            *)

Goto(i, label) ==
    /\ pc' = [pc EXCEPT ![i] = label]
    /\ UNCHANGED <<read, batch>>

(* processBatch, deadLetterCurrentBatch or the process itself ends, and    *)
(* its locals are gone.                                                    *)
Leave(i, label) ==
    /\ pc' = [pc EXCEPT ![i] = label]
    /\ read' = [read EXCEPT ![i] = Start]
    /\ batch' = [batch EXCEPT ![i] = {}]

(* processBatch returned nil: reset only what a failure had set.           *)
AfterSuccess(i) == Leave(i, IF failures[i] > 0 THEN "reset" ELSE "idle")

(* A call to the database fails.  A failed write may still have happened:  *)
(* the answer was lost, or the context was cancelled after the commit.     *)
Fault == faults < MaxFaults /\ faults' = faults + 1

IsLast(e, B) == e \in B /\ \A f \in B : f = e \/ Before(f, e)

ConInit ==
    /\ cursor = Start
    /\ holder = NoHolder
    /\ lease = "null"
    /\ rowFailures = 0
    /\ pc = [i \in Inst |-> "idle"]
    /\ read = [i \in Inst |-> Start]
    /\ batch = [i \in Inst |-> {}]
    /\ failures = [i \in Inst |-> 0]
    /\ backingOff = [i \in Inst |-> FALSE]
    /\ faults = 0
    /\ delivered = {}
    /\ parked = {}

(* poll: return at once while backing off, else renew the lock.            *)
Renew(i) ==
    /\ pc[i] = "idle"
    /\ ~backingOff[i]
    /\ RenewConsumerLock(i)
    /\ Goto(i, IF holder = i THEN "cursor" ELSE "acquire")
    /\ UNCHANGED <<logVars, memVars, histVars>>

(* Not renewed: take the lock if it is free or its lease has expired.      *)
Acquire(i) ==
    /\ pc[i] = "acquire"
    /\ TryAcquireConsumerLock(i)
    /\ Goto(i, IF Acquirable THEN "cursor" ELSE "idle")
    /\ UNCHANGED <<logVars, memVars, histVars>>

(* tryAcquireOrRenew fails: poll returns the error; no failure is counted. *)
LockError(i) ==
    /\ Fault
    /\ \/ /\ pc[i] = "idle"
          /\ ~backingOff[i]
          /\ RenewConsumerLock(i) \/ UNCHANGED rowVars
       \/ /\ pc[i] = "acquire"
          /\ TryAcquireConsumerLock(i) \/ UNCHANGED rowVars
    /\ Goto(i, "idle")
    /\ UNCHANGED <<logVars, memVars, delivered, parked>>

(* processBatch: GetConsumerCursor.                                        *)
GetCursor(i) ==
    /\ pc[i] = "cursor"
    /\ pc' = [pc EXCEPT ![i] = "events"]
    /\ read' = [read EXCEPT ![i] = GetConsumerCursor]
    /\ UNCHANGED <<logVars, rowVars, batch, memVars, histVars>>

(* processBatch: the batch after the cursor that was read; nothing new is  *)
(* a success.                                                              *)
GetEvents(i) ==
    /\ pc[i] = "events"
    /\ LET B == GetEventsAfterCursor(read[i])
       IN IF B = {}
          THEN AfterSuccess(i)
          ELSE /\ pc' = [pc EXCEPT ![i] = "process"]
               /\ batch' = [batch EXCEPT ![i] = B]
               /\ UNCHANGED read
    /\ UNCHANGED <<logVars, rowVars, memVars, histVars>>

(* A failed read counts as a failure of the batch.                         *)
ReadError(i) ==
    /\ Fault
    /\ pc[i] \in {"cursor", "events"}
    /\ Leave(i, "failed")
    /\ UNCHANGED <<logVars, rowVars, memVars, delivered, parked>>

(* ConsumerFunc returns nil.                                               *)
ProcessOk(i) ==
    /\ pc[i] = "process"
    /\ delivered' = delivered \cup batch[i]
    /\ Goto(i, "advance")
    /\ UNCHANGED <<logVars, rowVars, memVars, faults, parked>>

(* Mutant: the error is logged and the batch is acknowledged.              *)
ProcessErrorSwallowed(i) ==
    /\ pc[i] = "process"
    /\ failures[i] < FailureBound
    /\ Goto(i, "advance")
    /\ UNCHANGED <<logVars, rowVars, memVars, histVars>>

(* ConsumerFunc returns an error.                                          *)
ProcessError(i) ==
    /\ pc[i] = "process"
    /\ failures[i] < FailureBound
    /\ Leave(i, "failed")
    /\ UNCHANGED <<logVars, rowVars, memVars, histVars>>

Advance(i) ==
    /\ pc[i] = "advance"
    /\ \E last \in batch[i] : IsLast(last, batch[i]) /\ AdvanceConsumerCursor(i, last)
    /\ AfterSuccess(i)
    /\ UNCHANGED <<logVars, memVars, histVars>>

AdvanceError(i) ==
    /\ Fault
    /\ pc[i] = "advance"
    /\ \/ \E last \in batch[i] :
            IsLast(last, batch[i]) /\ AdvanceConsumerCursor(i, last)
       \/ UNCHANGED rowVars
    /\ Leave(i, "failed")
    /\ UNCHANGED <<logVars, memVars, delivered, parked>>

-----------------------------------------------------------------------------
(* The failure path of poll.                                               *)

(* Mutant: off by one.                                                     *)
GivesUpEarly(i) == MaxRetries > 0 /\ failures[i] + 2 >= MaxRetries

GivesUp(i) == MaxRetries > 0 /\ failures[i] + 1 >= MaxRetries

(* Mutant: the count is written before it is incremented.                  *)
RetryRecordedLate(i) ==
    /\ pc[i] = "failed"
    /\ ~GivesUp(i)
    /\ failures' = [failures EXCEPT ![i] = @ + 1]
    /\ backingOff' = [backingOff EXCEPT ![i] = Backoff]
    /\ UpdateConsumerFailureState(i, failures[i])
    /\ Goto(i, "idle")
    /\ UNCHANGED <<logVars, histVars>>

(* Mutant: the struct keeps its old count.                                 *)
RetryUncounted(i) ==
    /\ pc[i] = "failed"
    /\ ~GivesUp(i)
    /\ backingOff' = [backingOff EXCEPT ![i] = Backoff]
    /\ UpdateConsumerFailureState(i, failures[i] + 1)
    /\ Goto(i, "idle")
    /\ UNCHANGED <<logVars, failures, histVars>>

(* Fewer than MaxRetries failures: back off and record the failure.        *)
(* persistFailureState ignores its error.                                  *)
RetryLater(i) ==
    /\ pc[i] = "failed"
    /\ ~GivesUp(i)
    /\ failures' = [failures EXCEPT ![i] = @ + 1]
    /\ backingOff' = [backingOff EXCEPT ![i] = Backoff]
    /\ \/ UpdateConsumerFailureState(i, failures[i] + 1) /\ UNCHANGED faults
       \/ UNCHANGED rowVars /\ Fault
    /\ Goto(i, "idle")
    /\ UNCHANGED <<logVars, delivered, parked>>

GiveUp(i) ==
    /\ pc[i] = "failed"
    /\ GivesUp(i)
    /\ failures' = [failures EXCEPT ![i] = @ + 1]
    /\ Goto(i, "dlCursor")
    /\ UNCHANGED <<logVars, rowVars, backingOff, histVars>>

(* deadLetterCurrentBatch reads the cursor and the batch again.            *)
DeadLetterCursor(i) ==
    /\ pc[i] = "dlCursor"
    /\ pc' = [pc EXCEPT ![i] = "dlEvents"]
    /\ read' = [read EXCEPT ![i] = GetConsumerCursor]
    /\ UNCHANGED <<logVars, rowVars, batch, memVars, histVars>>

DeadLetterEvents(i) ==
    /\ pc[i] = "dlEvents"
    /\ LET B == GetEventsAfterCursor(read[i])
       IN IF B = {}
          THEN Leave(i, "reset")
          ELSE /\ pc' = [pc EXCEPT ![i] = "dlCommit"]
               /\ batch' = [batch EXCEPT ![i] = B]
               /\ UNCHANGED read
    /\ UNCHANGED <<logVars, rowVars, memVars, histVars>>

(* Mutant: the failed inserts do not stop the cursor.                      *)
AdvanceWithoutDeadLetters(i) ==
    /\ \E last \in batch[i] : IsLast(last, batch[i]) /\ AdvanceConsumerCursor(i, last)
    /\ UNCHANGED parked

(* Mutant: the dead letters are written outside the transaction.           *)
DeadLettersWithoutAdvance(i) ==
    /\ parked' = parked \cup batch[i]
    /\ UNCHANGED rowVars

(* Mutant: the transaction is never committed.                             *)
RollbackDeadLetters(i) == UNCHANGED <<rowVars, parked>>

(* One transaction: a dead letter per event and the cursor advance, which  *)
(* updates no row when the lock has been lost; the inserts commit anyway.  *)
CommitDeadLetters(i) ==
    /\ \E last \in batch[i] : IsLast(last, batch[i]) /\ AdvanceConsumerCursor(i, last)
    /\ parked' = parked \cup batch[i]

DeadLetterCommit(i) ==
    /\ pc[i] = "dlCommit"
    /\ CommitDeadLetters(i)
    /\ Leave(i, "reset")
    /\ UNCHANGED <<logVars, memVars, faults, delivered>>

(* Any error of deadLetterCurrentBatch is logged and forgotten.            *)
DeadLetterError(i) ==
    /\ Fault
    /\ \/ pc[i] \in {"dlCursor", "dlEvents"} /\ UNCHANGED <<rowVars, parked>>
       \/ pc[i] = "dlCommit" /\ (CommitDeadLetters(i) \/ UNCHANGED <<rowVars, parked>>)
    /\ Leave(i, "reset")
    /\ UNCHANGED <<logVars, memVars, delivered>>

(* After a success that ends a run of failures, and after                  *)
(* deadLetterCurrentBatch whatever it achieved.                            *)
Reset(i) ==
    /\ pc[i] = "reset"
    /\ failures' = [failures EXCEPT ![i] = 0]
    /\ backingOff' = [backingOff EXCEPT ![i] = FALSE]
    /\ \/ UpdateConsumerFailureState(i, 0) /\ UNCHANGED faults
       \/ UNCHANGED rowVars /\ Fault
    /\ Goto(i, "idle")
    /\ UNCHANGED <<logVars, delivered, parked>>

-----------------------------------------------------------------------------
(* Time, crashes and the process life cycle.                               *)

LeaseExpires ==
    /\ lease = "live"
    /\ LeaseCoversPoll => pc[holder] \notin Polling
    /\ lease' = "expired"
    /\ UNCHANGED <<logVars, cursor, holder, rowFailures, pollVars, memVars, histVars>>

BackoffElapses(i) ==
    /\ backingOff[i]
    /\ backingOff' = [backingOff EXCEPT ![i] = FALSE]
    /\ UNCHANGED <<logVars, rowVars, pollVars, failures, histVars>>

(* The context is cancelled: Run returns and releases the lock.            *)
Shutdown(i) ==
    /\ Fault
    /\ pc[i] = "idle"
    /\ ReleaseConsumerLock(i) \/ UNCHANGED rowVars
    /\ Goto(i, "down")
    /\ UNCHANGED <<logVars, memVars, delivered, parked>>

(* The process dies: its memory is gone, the lease stays.                  *)
Crash(i) ==
    /\ Fault
    /\ pc[i] # "down"
    /\ Leave(i, "down")
    /\ failures' = [failures EXCEPT ![i] = 0]
    /\ backingOff' = [backingOff EXCEPT ![i] = FALSE]
    /\ UNCHANGED <<logVars, rowVars, delivered, parked>>

(* Run is called again, on the same Consumer or on a new one; the failure  *)
(* columns of the row are not read back.                                   *)
StartRun(i) ==
    /\ pc[i] = "down"
    /\ Goto(i, "idle")
    /\ \/ UNCHANGED memVars
       \/ /\ failures' = [failures EXCEPT ![i] = 0]
          /\ backingOff' = [backingOff EXCEPT ![i] = FALSE]
    /\ UNCHANGED <<logVars, rowVars, histVars>>

-----------------------------------------------------------------------------

Step(i) ==
    \/ Renew(i) \/ Acquire(i) \/ GetCursor(i) \/ GetEvents(i)
    \/ ProcessOk(i) \/ ProcessError(i) \/ Advance(i)
    \/ RetryLater(i) \/ GiveUp(i)
    \/ DeadLetterCursor(i) \/ DeadLetterEvents(i) \/ DeadLetterCommit(i)
    \/ Reset(i)

Disturbance(i) ==
    \/ LockError(i) \/ ReadError(i) \/ AdvanceError(i) \/ DeadLetterError(i)
    \/ Shutdown(i) \/ Crash(i)

Init == LogInit /\ ConInit

Next ==
    \/ LogNext /\ UNCHANGED conVars
    \/ \E i \in Inst : Step(i) \/ Disturbance(i) \/ BackoffElapses(i) \/ StartRun(i)
    \/ LeaseExpires

Spec == Init /\ [][Next]_vars

(* An instance that is up keeps polling (the ticker), a backoff and an     *)
(* unrenewed lease run out, and a stopped instance is started again.       *)
Fairness ==
    /\ \A i \in Inst : /\ WF_vars(Step(i))
                       /\ WF_vars(BackoffElapses(i))
                       /\ WF_vars(StartRun(i))
    /\ WF_vars(LeaseExpires)

FairSpec == Spec /\ Fairness

-----------------------------------------------------------------------------
(* Properties.                                                             *)

Handled == delivered \cup parked

(* Rows whose commit respected the order of the log.                       *)
InOrder == log \ late

ConTypeOK ==
    /\ cursor \in Event \cup {Start}
    /\ holder \in Inst \cup {NoHolder}
    /\ lease \in {"null", "live", "expired"}
    /\ (lease = "null") <=> (holder = NoHolder)
    /\ rowFailures \in Nat
    /\ pc \in [Inst -> Labels]
    /\ read \in [Inst -> Event \cup {Start}]
    /\ batch \in [Inst -> SUBSET Event]
    /\ failures \in [Inst -> Nat]
    /\ backingOff \in [Inst -> BOOLEAN]
    /\ faults \in 0..MaxFaults
    /\ delivered \subseteq Event
    /\ parked \subseteq Event

(* Type invariant of the log, the row, the instances and the histories:    *)
(* expires_at and holder_id are null together.                             *)
TypeOK == LogTypeOK /\ ConTypeOK

(* AdvanceConsumerCursor is fenced by holder_id only, not by the lease or  *)
(* by the position that was read: an instance that lost the lock while it  *)
(* processed, and another that took over meanwhile, still never move the   *)
(* persisted cursor backwards, so nothing handled is handled again after a *)
(* later batch was acknowledged.                                           *)
CursorMonotonic == [][Before(cursor, cursor')]_cursor

(* At-least-once: every event whose commit respected the order of the log  *)
(* and that the cursor has passed was accepted by ConsumerFunc or written  *)
(* to the dead letter table, whatever crashes, lost answers and leader     *)
(* changes happened between reading the batch and advancing the cursor.    *)
NoInOrderEventSkipped ==
    \A e \in InOrder : AtOrBefore(e, cursor) => e \in Handled

(* The same for every event, whatever the order of the commits.            *)
NoEventSkipped ==
    \A e \in log : AtOrBefore(e, cursor) => e \in Handled

(* Delivery follows the log: an event is accepted or dead-lettered only    *)
(* when every in-order event before it has been, even by an instance that  *)
(* works on a batch read before it lost the lock.                          *)
InOrderDelivery ==
    \A e \in Handled, f \in InOrder : Before(f, e) => f \in Handled

(* Single leader per consumer: no two instances are between reading a      *)
(* batch and acknowledging it.                                             *)
SingleLeader ==
    \A i, j \in Inst : pc[i] = "process" /\ pc[j] = "process" => i = j

(* The cursor advances past dead-lettered events: what is in the dead      *)
(* letter table is never delivered a second time by the normal path.       *)
DeadLettersBehindCursor ==
    \A e \in parked : AtOrBefore(e, cursor)

(* No event is left behind: an in-order event is eventually accepted or    *)
(* dead-lettered.                                                          *)
EventuallyHandled ==
    \A id \in Ids : (\E e \in InOrder : e.id = id) ~> (\E e \in Handled : e.id = id)

(* The failure columns recover: when Health reports a consumer as degraded *)
(* while events wait for it, it is eventually reported with no consecutive *)
(* failures again, also after a takeover by an instance whose own counter  *)
(* is zero and which therefore never resets the columns itself.            *)
FailureStateRecovers ==
    rowFailures > 0 /\ (\E e \in log : Before(cursor, e)) ~> rowFailures = 0

(* Consumer implements the at-least-once log delivery of Delivery.         *)
Promise == INSTANCE Delivery WITH handled <- Handled

(* Every step of every instance is a step that Delivery allows: events are *)
(* handled without holes, and the cursor is moved only over handled ones.  *)
RefinesDelivery == Promise!Spec

=============================================================================
