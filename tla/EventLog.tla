------------------------------ MODULE EventLog ------------------------------
(***************************************************************************)
(* The entity_events table: the append-only log that every write of the    *)
(* store feeds and every named consumer reads.                             *)
(*                                                                         *)
(* A write runs in a READ COMMITTED transaction.  occurred_at is the       *)
(* column's DEFAULT now(), which PostgreSQL fixes at the START of the      *)
(* transaction; the id is a UUIDv7 taken when the row is inserted; the row *)
(* becomes visible to readers at COMMIT.  These are three different        *)
(* moments, and the consumer orders events by the first two while it can   *)
(* only see what the third has reached.                                    *)
(***************************************************************************)
EXTENDS LogOrder, FiniteSets

CONSTANT
    Writer      \* connections that run write transactions

VARIABLES
    clock,      \* the database clock, as last read by a transaction start
    tx,         \* per connection: the open transaction and its rows
    log,        \* the committed rows
    late        \* history: rows committed when a later one was visible

logVars == <<clock, tx, log, late>>

-----------------------------------------------------------------------------

(* at means nothing while no transaction is open.                           *)
NoTx == [open |-> FALSE, at |-> 1, rows |-> {}]

TxState == [open : BOOLEAN, at : 1..MaxTime, rows : SUBSET Event]

-----------------------------------------------------------------------------

LogInit ==
    /\ clock = 1
    /\ tx = [w \in Writer |-> NoTx]
    /\ log = {}
    /\ late = {}

(* pool.BeginTx: now() is fixed for the whole transaction.                  *)
BeginTx(w) ==
    /\ ~tx[w].open
    /\ \E t \in clock..MaxTime :
          /\ clock' = t
          /\ tx' = [tx EXCEPT ![w] = [open |-> TRUE, at |-> t, rows |-> {}]]
    /\ UNCHANGED <<log, late>>

(* uuid.NewV7 never repeats an id of a row that exists.                     *)
FreshIds ==
    {id \in Ids : \A e \in log \cup UNION {tx[w].rows : w \in Writer} : e.id # id}

(* insertEvents: one row, with the next UUIDv7 of this process.  Within a   *)
(* process ids ascend; between processes nothing orders them.               *)
InsertEvent(w) ==
    /\ tx[w].open
    /\ \E id \in FreshIds :
          /\ \A e \in tx[w].rows : e.id < id
          /\ tx' = [tx EXCEPT ![w].rows = @ \cup {[at |-> tx[w].at, id |-> id]}]
    /\ UNCHANGED <<clock, log, late>>

(* tx.Commit: all rows of the transaction become visible at once.           *)
CommitTx(w) ==
    /\ tx[w].open
    /\ log' = log \cup tx[w].rows
    /\ late' = late \cup {e \in tx[w].rows : \E f \in log : Before(e, f)}
    /\ tx' = [tx EXCEPT ![w] = NoTx]
    /\ UNCHANGED clock

(* The deferred tx.Rollback, after an error or a lost connection.           *)
RollbackTx(w) ==
    /\ tx[w].open
    /\ tx' = [tx EXCEPT ![w] = NoTx]
    /\ UNCHANGED <<clock, log, late>>

LogNext ==
    \E w \in Writer :
        BeginTx(w) \/ InsertEvent(w) \/ CommitTx(w) \/ RollbackTx(w)

LogTypeOK ==
    /\ clock \in 1..MaxTime
    /\ tx \in [Writer -> TxState]
    /\ log \subseteq Event
    /\ late \subseteq log
=============================================================================
