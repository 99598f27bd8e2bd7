--------------------------- MODULE ConsumerProofs ---------------------------
(***************************************************************************)
(* What Consumer promises for every set of writers and instances, every    *)
(* batch size, retry limit and number of faults.                           *)
(***************************************************************************)
EXTENDS ConsumerTries, Integers, FiniteSetTheorems, WellFoundedInduction, TLAPS

-----------------------------------------------------------------------------
(* Some element of a set of numbers is the least.                          *)
LEMMA LeastNatural ==
    ASSUME NEW S \in SUBSET Nat, S # {}
    PROVE  \E t \in S : \A u \in S : t <= u
  <1> DEFINE R == OpToRel(<, Nat)
  <1>1. \A x, y \in Nat : x < y => <<x, y>> \in R
    BY DEF OpToRel
  <1>2. IsWellFoundedOn(R, Nat)
    BY NatLessThanWellFounded
  <1> HIDE DEF R
  <1>3. \E t \in S : \A u \in S : <<u, t>> \notin R
    BY <1>2, WFMin
  <1>4. PICK t \in S : \A u \in S : <<u, t>> \notin R
    BY <1>3
  <1>5. \A u \in S : ~(u < t)
    BY <1>1, <1>4
  <1>6. \A u \in S : t <= u
    BY <1>5
  <1> QED
    BY <1>6

-----------------------------------------------------------------------------
(* The order of the log.                                                   *)

Position == Event \cup {Start}

LEMMA PositionFields ==
    \A p \in Position : p.at \in Nat /\ p.id \in Nat
  <1>1. \A p \in Event : p.at \in Nat
    BY MaxTimeAssumption DEF Event
  <1>2. \A p \in Event : p.id \in Ids
    BY DEF Event
  <1>3. \A p \in Event : p.id \in Nat
    BY <1>2, IdsAssumption
  <1>4. Start.at \in Nat /\ Start.id \in Nat
    BY DEF Start
  <1> QED
    BY <1>1, <1>3, <1>4 DEF Position

LEMMA BeforeTransitive ==
    \A p, q, r \in Position : Before(p, q) /\ Before(q, r) => Before(p, r)
  BY PositionFields DEF Before

LEMMA BeforeIrreflexive ==
    \A p \in Position : ~Before(p, p)
  BY PositionFields DEF Before

LEMMA BeforeTotal ==
    \A p, q \in Position : p = q \/ Before(p, q) \/ Before(q, p)
  <1> SUFFICES ASSUME NEW p \in Position, NEW q \in Position,
                      p.at = q.at, p.id = q.id
               PROVE  p = q
    BY PositionFields DEF Before
  <1> QED
    BY DEF Position, Event, Start

LEMMA NothingBeforeStart ==
    \A e \in Event : ~AtOrBefore(e, Start)
  BY DEF Event, Start, AtOrBefore, Before

(* A batch has no holes: a row between the cursor and a row of the batch   *)
(* is in the batch, since fewer rows precede it.                           *)
LEMMA BatchClosed ==
    ASSUME log \subseteq Event, IsFiniteSet(log),
           NEW c \in Position,
           NEW b \in GetEventsAfterCursor(c),
           NEW e \in log, Before(c, e), Before(e, b)
    PROVE  e \in GetEventsAfterCursor(c)
  <1> DEFINE Between(x) == {f \in log : Before(c, f) /\ Before(f, x)}
  <1>1. b \in log /\ Cardinality(Between(b)) < BatchSize
    BY DEF GetEventsAfterCursor
  <1>2. Between(e) \subseteq Between(b)
    BY <1>1, BeforeTransitive DEF Position
  <1>3. IsFiniteSet(Between(b))
    BY FS_Subset
  <1>4. IsFiniteSet(Between(e)) /\ Cardinality(Between(e)) <= Cardinality(Between(b))
    BY <1>2, <1>3, FS_Subset
  <1>5. Cardinality(Between(e)) \in Nat /\ Cardinality(Between(b)) \in Nat
    BY <1>3, <1>4, FS_CardinalityType
  <1>6. Cardinality(Between(e)) < BatchSize
    <2> HIDE DEF Between
    <2> QED BY <1>1, <1>4, <1>5, BatchSizeAssumption
  <1> QED
    BY <1>6 DEF GetEventsAfterCursor

-----------------------------------------------------------------------------
(* Type correctness.                                                       *)

LEMMA LogInitType == LogInit => LogTypeOK
  <1> SUFFICES ASSUME LogInit PROVE LogTypeOK
    OBVIOUS
  <1>1. NoTx \in TxState
    BY MaxTimeAssumption DEF NoTx, TxState
  <1> QED
    BY <1>1, MaxTimeAssumption DEF LogInit, LogTypeOK

LEMMA LogNextType ==
    ASSUME LogTypeOK, LogNext
    PROVE  LogTypeOK'
  <1> USE DEF LogTypeOK
  <1>0. NoTx \in TxState
    BY MaxTimeAssumption DEF NoTx, TxState
  <1>1. ASSUME NEW w \in Writer, BeginTx(w) PROVE LogTypeOK'
    <2>1. PICK t \in clock..MaxTime :
            /\ clock' = t
            /\ tx' = [tx EXCEPT ![w] = [open |-> TRUE, at |-> t, rows |-> {}]]
      BY <1>1 DEF BeginTx
    <2>2. t \in 1..MaxTime
      BY MaxTimeAssumption
    <2>3. [open |-> TRUE, at |-> t, rows |-> {}] \in TxState
      BY <2>2 DEF TxState
    <2> QED
      BY <1>1, <2>1, <2>2, <2>3 DEF BeginTx
  <1>2. ASSUME NEW w \in Writer, InsertEvent(w) PROVE LogTypeOK'
    <2>1. PICK id \in Ids :
            tx' = [tx EXCEPT ![w].rows = @ \cup {[at |-> tx[w].at, id |-> id]}]
      BY <1>2 DEF InsertEvent, FreshIds
    <2>2. tx[w] \in TxState
      OBVIOUS
    <2>3. [at |-> tx[w].at, id |-> id] \in Event
      BY <2>2 DEF TxState, Event
    <2>4. tx' \in [Writer -> TxState]
      BY <2>1, <2>2, <2>3 DEF TxState
    <2> QED
      BY <1>2, <2>4 DEF InsertEvent
  <1>3. ASSUME NEW w \in Writer, CommitTx(w) PROVE LogTypeOK'
    <2>1. tx[w].rows \subseteq Event
      BY DEF TxState
    <2> QED
      BY <1>0, <1>3, <2>1 DEF CommitTx
  <1>4. ASSUME NEW w \in Writer, RollbackTx(w) PROVE LogTypeOK'
    BY <1>0, <1>4 DEF RollbackTx
  <1> QED
    BY <1>1, <1>2, <1>3, <1>4 DEF LogNext

(* The log only grows, and what joins it in order is not before anything   *)
(* that was visible.                                                       *)
LEMMA LogGrows ==
    ASSUME LogTypeOK, LogNext
    PROVE  /\ log \subseteq log'
           /\ late \subseteq late'
           /\ \A e \in InOrder' : e \in InOrder \/ \A f \in log : ~Before(e, f)
  <1>1. ASSUME NEW w \in Writer, CommitTx(w)
        PROVE  /\ log \subseteq log'
               /\ late \subseteq late'
               /\ \A e \in InOrder' : e \in InOrder \/ \A f \in log : ~Before(e, f)
    BY <1>1 DEF CommitTx, InOrder
  <1>2. ASSUME log' = log, late' = late
        PROVE  /\ log \subseteq log'
               /\ late \subseteq late'
               /\ \A e \in InOrder' : e \in InOrder \/ \A f \in log : ~Before(e, f)
    BY <1>2 DEF InOrder
  <1> QED
    BY <1>1, <1>2 DEF LogNext, BeginTx, InsertEvent, RollbackTx

LEMMA BatchInLog == \A c : GetEventsAfterCursor(c) \subseteq log
  BY DEF GetEventsAfterCursor

LEMMA ConInitType == ConInit => ConTypeOK
  BY BoundAssumption DEF ConInit, ConTypeOK, Labels

LEMMA StepType ==
    ASSUME TypeOK, NEW i \in Inst,
           Step(i) \/ Disturbance(i) \/ BackoffElapses(i) \/ StartRun(i)
    PROVE  ConTypeOK' /\ UNCHANGED logVars
  <1> USE DEF TypeOK, ConTypeOK, LogTypeOK, Labels, logVars, rowVars, pollVars, memVars, histVars
  <1>1. CASE Renew(i)
    BY <1>1, NoHolderAssumption
    DEF Renew, RenewConsumerLock, Goto
  <1>2. CASE Acquire(i)
    BY <1>2, NoHolderAssumption
    DEF Acquire, TryAcquireConsumerLock, Acquirable, Goto
  <1>3. CASE LockError(i)
    BY <1>3, NoHolderAssumption, BoundAssumption
    DEF LockError, RenewConsumerLock, TryAcquireConsumerLock, Acquirable, Goto, Fault
  <1>4. CASE GetCursor(i)
    BY <1>4
    DEF GetCursor, GetConsumerCursor
  <1>5. CASE GetEvents(i)
    BY <1>5, BatchInLog
    DEF GetEvents, AfterSuccess, Leave
  <1>6. CASE ReadError(i)
    BY <1>6, BoundAssumption
    DEF ReadError, Leave, Fault
  <1>7. CASE ProcessOk(i)
    BY <1>7
    DEF ProcessOk, Goto
  <1>8. CASE ProcessError(i)
    BY <1>8
    DEF ProcessError, Leave
  <1>9. CASE Advance(i)
    BY <1>9
    DEF Advance, AdvanceConsumerCursor, AfterSuccess, Leave
  <1>10. CASE AdvanceError(i)
    BY <1>10, BoundAssumption
    DEF AdvanceError, AdvanceConsumerCursor, Leave, Fault
  <1>11. CASE RetryLater(i)
    BY <1>11, SwitchAssumption, BoundAssumption
    DEF RetryLater, UpdateConsumerFailureState, Goto, Fault
  <1>12. CASE GiveUp(i)
    BY <1>12
    DEF GiveUp, Goto
  <1>13. CASE DeadLetterCursor(i)
    BY <1>13
    DEF DeadLetterCursor, GetConsumerCursor
  <1>14. CASE DeadLetterEvents(i)
    BY <1>14, BatchInLog
    DEF DeadLetterEvents, Leave
  <1>15. CASE DeadLetterCommit(i)
    BY <1>15
    DEF DeadLetterCommit, CommitDeadLetters, AdvanceConsumerCursor, Leave
  <1>16. CASE DeadLetterError(i)
    BY <1>16, BoundAssumption
    DEF DeadLetterError, CommitDeadLetters, AdvanceConsumerCursor, Leave, Fault
  <1>17. CASE Reset(i)
    BY <1>17, BoundAssumption
    DEF Reset, UpdateConsumerFailureState, Goto, Fault
  <1>18. CASE BackoffElapses(i)
    BY <1>18
    DEF BackoffElapses
  <1>19. CASE Shutdown(i)
    BY <1>19, NoHolderAssumption, BoundAssumption
    DEF Shutdown, ReleaseConsumerLock, Goto, Fault
  <1>20. CASE Crash(i)
    BY <1>20, BoundAssumption
    DEF Crash, Leave, Fault
  <1>21. CASE StartRun(i)
    <2>1. CASE UNCHANGED memVars
      BY <1>21, <2>1 DEF StartRun, Goto
    <2>2. CASE /\ failures' = [failures EXCEPT ![i] = 0]
               /\ backingOff' = [backingOff EXCEPT ![i] = FALSE]
      BY <1>21, <2>2 DEF StartRun, Goto
    <2> QED
      BY <1>21, <2>1, <2>2 DEF StartRun
  <1> QED
    BY <1>1, <1>2, <1>3, <1>4, <1>5, <1>6, <1>7, <1>8, <1>9, <1>10, <1>11, <1>12, <1>13, <1>14, <1>15, <1>16, <1>17, <1>18, <1>19, <1>20, <1>21 DEF Step, Disturbance

(* Every reachable state is well typed.                                    *)
THEOREM TypeCorrect == Spec => []TypeOK
  <1>1. Init => TypeOK
    BY LogInitType, ConInitType DEF Init, TypeOK
  <1>2. TypeOK /\ [Next]_vars => TypeOK'
    <2> SUFFICES ASSUME TypeOK, [Next]_vars PROVE TypeOK'
      OBVIOUS
    <2>1. CASE LogNext /\ UNCHANGED conVars
      BY <2>1, LogNextType
      DEF TypeOK, ConTypeOK, conVars, rowVars, pollVars, memVars, histVars
    <2>2. ASSUME NEW i \in Inst,
                 Step(i) \/ Disturbance(i) \/ BackoffElapses(i) \/ StartRun(i)
          PROVE  TypeOK'
      <3>1. ConTypeOK' /\ UNCHANGED logVars
        BY <2>2, StepType
      <3> QED
        BY <3>1 DEF TypeOK, LogTypeOK, logVars
    <2>3. CASE LeaseExpires
      BY <2>3
      DEF LeaseExpires, TypeOK, ConTypeOK, LogTypeOK, logVars, pollVars, memVars, histVars
    <2>4. CASE UNCHANGED vars
      BY <2>4 DEF vars, TypeOK, ConTypeOK, LogTypeOK, logVars, conVars, rowVars,
                  pollVars, memVars, histVars
    <2> QED
      BY <2>1, <2>2, <2>3, <2>4 DEF Next
  <1> QED
    BY <1>1, <1>2, PTL DEF Spec

-----------------------------------------------------------------------------
(* The inductive invariant.                                                *)

LogFinite == IsFiniteSet(log) /\ \A w \in Writer : IsFiniteSet(tx[w].rows)

(* Labels at which the poll has read a cursor, and a batch.                *)
HasRead == {"events", "process", "advance", "dlEvents", "dlCommit"}
HasBatch == {"process", "advance", "dlCommit"}

HandledUpTo(c) == \A e \in InOrder : AtOrBefore(e, c) => e \in Handled

(* Positions are the start or committed rows, with nothing unhandled       *)
(* before them.                                                            *)
PositionsOK ==
    /\ cursor \in log \cup {Start}
    /\ HandledUpTo(cursor)
    /\ \A i \in Inst : read[i] \in log \cup {Start} /\ HandledUpTo(read[i])

(* While an instance holds the lock nobody else has moved the cursor it    *)
(* has read.                                                               *)
Fenced == \A i \in Inst : pc[i] \in HasRead /\ holder = i => read[i] = cursor

(* A batch is a set of committed rows after the position that was read,    *)
(* without holes.                                                          *)
BatchOK(i) ==
    /\ batch[i] \subseteq log
    /\ \A b \in batch[i] : Before(read[i], b)
    /\ \A b \in batch[i], e \in InOrder :
          Before(read[i], e) /\ Before(e, b) => e \in batch[i]

BatchesOK ==
    \A i \in Inst :
        /\ pc[i] \in HasBatch => BatchOK(i)
        /\ pc[i] = "advance" => batch[i] \subseteq delivered

IInv ==
    /\ TypeOK
    /\ LogFinite
    /\ Handled \subseteq log
    /\ PositionsOK
    /\ Fenced
    /\ BatchesOK
    /\ InOrderDelivery

LEMMA InitIInv == Init => IInv
  <1> SUFFICES ASSUME Init PROVE IInv
    OBVIOUS
  <1>1. TypeOK
    BY LogInitType, ConInitType DEF Init, TypeOK
  <1>2. LogFinite
    BY FS_EmptySet DEF Init, LogInit, LogFinite, NoTx
  <1> QED
    BY <1>1, <1>2
    DEF Init, LogInit, ConInit, IInv, Handled, PositionsOK, HandledUpTo, InOrder,
        Fenced, HasRead, HasBatch, BatchesOK, InOrderDelivery

(* Writers: a commit adds rows, and the ones in order are after every      *)
(* position and every batch.                                               *)
LEMMA LogStepIInv ==
    ASSUME IInv, LogNext, UNCHANGED conVars
    PROVE  IInv'
  <1> USE DEF conVars, rowVars, pollVars, memVars, histVars
  <1>1. TypeOK'
    BY LogNextType DEF IInv, TypeOK, ConTypeOK
  <1>2. LogFinite'
    <2>1. ASSUME NEW w \in Writer, BeginTx(w) PROVE LogFinite'
      BY <2>1, FS_EmptySet DEF BeginTx, LogFinite, IInv, TypeOK, LogTypeOK
    <2>2. ASSUME NEW w \in Writer, InsertEvent(w) PROVE LogFinite'
      <3>1. PICK r : tx' = [tx EXCEPT ![w].rows = @ \cup {r}]
        BY <2>2 DEF InsertEvent
      <3>2. IsFiniteSet(tx[w].rows \cup {r})
        BY FS_AddElement DEF IInv, LogFinite
      <3> QED
        BY <2>2, <3>1, <3>2 DEF InsertEvent, LogFinite, IInv, TypeOK, LogTypeOK, TxState
    <2>3. ASSUME NEW w \in Writer, CommitTx(w) PROVE LogFinite'
      <3>1. IsFiniteSet(log \cup tx[w].rows)
        BY FS_Union DEF IInv, LogFinite
      <3> QED
        BY <2>3, <3>1, FS_EmptySet
        DEF CommitTx, LogFinite, NoTx, IInv, TypeOK, LogTypeOK
    <2>4. ASSUME NEW w \in Writer, RollbackTx(w) PROVE LogFinite'
      BY <2>4, FS_EmptySet DEF RollbackTx, LogFinite, NoTx, IInv, TypeOK, LogTypeOK
    <2> QED
      BY <2>1, <2>2, <2>3, <2>4 DEF LogNext
  <1>3. /\ log \subseteq log'
        /\ \A e \in InOrder' : e \in InOrder \/ \A f \in log : ~Before(e, f)
    BY LogGrows DEF IInv, TypeOK
  <1>4. ASSUME NEW c \in log \cup {Start}, HandledUpTo(c)
        PROVE  \A e \in InOrder' : AtOrBefore(e, c) => e \in Handled
    <2> SUFFICES ASSUME NEW e \in InOrder', AtOrBefore(e, c) PROVE e \in Handled
      OBVIOUS
    <2>1. e \in Event
      BY <1>1 DEF TypeOK, LogTypeOK, InOrder
    <2>2. c \in log
      BY <2>1, NothingBeforeStart
    <2>3. CASE e \in InOrder
      BY <1>4, <2>3 DEF HandledUpTo
    <2>4. CASE \A f \in log : ~Before(e, f)
      <3>1. e = c
        BY <2>2, <2>4 DEF AtOrBefore
      <3>2. e \in InOrder
        BY <2>2, <3>1, LogGrows DEF InOrder, IInv, TypeOK
      <3> QED
        BY <1>4, <3>2 DEF HandledUpTo
    <2> QED
      BY <1>3, <2>3, <2>4
  <1>5. Handled' = Handled
    BY DEF Handled
  <1>6. PositionsOK'
    BY <1>3, <1>4, <1>5 DEF IInv, PositionsOK, HandledUpTo
  <1>7. BatchesOK'
    BY <1>3 DEF IInv, BatchesOK, BatchOK
  <1>8. InOrderDelivery'
    BY <1>3, <1>5 DEF IInv, InOrderDelivery
  <1> QED
    BY <1>1, <1>2, <1>3, <1>5, <1>6, <1>7, <1>8 DEF IInv, Fenced

(* Handling a batch without holes keeps everything before it handled.      *)
LEMMA HandleBatch ==
    ASSUME IInv, NEW i \in Inst, pc[i] \in HasBatch,
           NEW e \in batch[i], NEW f \in InOrder, AtOrBefore(f, e)
    PROVE  f \in Handled \cup batch[i]
  <1>1. BatchOK(i) /\ read[i] \in Position /\ f \in Position
    BY DEF IInv, BatchesOK, PositionsOK, TypeOK, LogTypeOK, InOrder, Position
  <1>2. CASE AtOrBefore(f, read[i])
    BY <1>2 DEF IInv, PositionsOK, HandledUpTo
  <1>3. CASE Before(read[i], f)
    BY <1>1, <1>3 DEF BatchOK, AtOrBefore
  <1> QED
    BY <1>1, <1>2, <1>3, BeforeTotal DEF AtOrBefore

(* The cursor moves only to the last row of a batch, and forwards.         *)
LEMMA AdvanceMoves ==
    ASSUME IInv, NEW i \in Inst, pc[i] \in HasBatch,
           NEW last \in batch[i], AdvanceConsumerCursor(i, last)
    PROVE  /\ cursor' \in log \cup {Start}
           /\ cursor' = cursor \/ (holder = i /\ cursor' = last /\ Before(cursor, cursor'))
  BY DEF IInv, PositionsOK, Fenced, HasRead, HasBatch, BatchesOK, BatchOK,
         AdvanceConsumerCursor

(* Reading a batch.                                                        *)
LEMMA FreshBatch ==
    ASSUME IInv, NEW i \in Inst,
           batch' = [batch EXCEPT ![i] = GetEventsAfterCursor(read[i])],
           UNCHANGED <<log, late, read>>
    PROVE  BatchOK(i)'
  <1>1. log \subseteq Event /\ IsFiniteSet(log) /\ read[i] \in Position
    BY DEF IInv, LogFinite, TypeOK, LogTypeOK, ConTypeOK, Position
  <1>2. batch'[i] = GetEventsAfterCursor(read[i])
    BY DEF IInv, TypeOK, ConTypeOK
  <1>3. \A b \in batch'[i] : b \in log /\ Before(read[i], b)
    BY <1>2 DEF GetEventsAfterCursor
  <1>4. \A b \in batch'[i], e \in log :
          Before(read[i], e) /\ Before(e, b) => e \in batch'[i]
    BY <1>1, <1>2, BatchClosed
  <1> QED
    BY <1>3, <1>4 DEF BatchOK, InOrder

(* Steps that leave the cursor and the histories alone and take instance i *)
(* to a label at which it relies on nothing it has read.                   *)
LEMMA QuietStep ==
    ASSUME IInv, TypeOK', NEW i \in Inst, NEW label \in Labels \ HasRead,
           UNCHANGED <<logVars, cursor, delivered, parked>>,
           holder' \in {holder, i, NoHolder},
           Goto(i, label) \/ Leave(i, label)
    PROVE  IInv'
  <1> USE DEF logVars
  <1>1. Handled' = Handled /\ InOrder' = InOrder
    BY DEF Handled, InOrder
  <1>2. /\ pc' = [pc EXCEPT ![i] = label]
        /\ \A j \in Inst :
              \/ read'[j] = read[j] /\ batch'[j] = batch[j]
              \/ j = i /\ read'[j] = Start /\ batch'[j] = {}
    <2>1. CASE Goto(i, label)
      BY <2>1 DEF Goto
    <2>2. CASE Leave(i, label)
      BY <2>2 DEF Leave, IInv, TypeOK, ConTypeOK
    <2> QED
      BY <2>1, <2>2
  <1>3. HandledUpTo(Start)
    BY NothingBeforeStart DEF HandledUpTo, InOrder, IInv, TypeOK, LogTypeOK
  <1>4. PositionsOK'
    BY <1>1, <1>2, <1>3 DEF IInv, PositionsOK, HandledUpTo
  <1>5. Fenced'
    BY <1>2, NoHolderAssumption DEF IInv, Fenced, HasRead, TypeOK, ConTypeOK
  <1>6. BatchesOK'
    BY <1>1, <1>2 DEF IInv, BatchesOK, BatchOK, HasBatch, HasRead, TypeOK, ConTypeOK
  <1> QED
    BY <1>1, <1>4, <1>5, <1>6 DEF IInv, LogFinite, InOrderDelivery

(* Steps that read the cursor again.                                       *)
LEMMA ReadCursorStep ==
    ASSUME IInv, TypeOK', NEW i \in Inst, NEW label \in {"events", "dlEvents"},
           UNCHANGED <<logVars, rowVars, batch, delivered, parked>>,
           pc' = [pc EXCEPT ![i] = label],
           read' = [read EXCEPT ![i] = cursor]
    PROVE  IInv'
  <1> USE DEF logVars, rowVars
  <1>1. Handled' = Handled /\ InOrder' = InOrder
    BY DEF Handled, InOrder
  <1>2. PositionsOK'
    BY <1>1 DEF IInv, PositionsOK, HandledUpTo, TypeOK, ConTypeOK
  <1>3. Fenced'
    BY DEF IInv, Fenced, TypeOK, ConTypeOK
  <1>4. BatchesOK'
    BY <1>1 DEF IInv, BatchesOK, BatchOK, HasBatch, TypeOK, ConTypeOK
  <1> QED
    BY <1>1, <1>2, <1>3, <1>4 DEF IInv, LogFinite, InOrderDelivery

(* Steps that read the batch after that cursor.                            *)
LEMMA ReadBatchStep ==
    ASSUME IInv, TypeOK', NEW i \in Inst, pc[i] \in HasRead,
           NEW label \in {"process", "dlCommit"},
           UNCHANGED <<logVars, rowVars, read, delivered, parked>>,
           pc' = [pc EXCEPT ![i] = label],
           batch' = [batch EXCEPT ![i] = GetEventsAfterCursor(read[i])]
    PROVE  IInv'
  <1> USE DEF logVars, rowVars
  <1>1. Handled' = Handled /\ InOrder' = InOrder
    BY DEF Handled, InOrder
  <1>2. PositionsOK'
    BY <1>1 DEF IInv, PositionsOK, HandledUpTo
  <1>3. Fenced'
    BY DEF IInv, Fenced, TypeOK, ConTypeOK
  <1>4. BatchOK(i)'
    BY FreshBatch
  <1>5. BatchesOK'
    BY <1>1, <1>4 DEF IInv, BatchesOK, BatchOK, HasBatch, TypeOK, ConTypeOK
  <1> QED
    BY <1>1, <1>2, <1>3, <1>5 DEF IInv, LogFinite, InOrderDelivery

(* Steps that handle the batch of instance i, and may advance the cursor.  *)
LEMMA HandleStep ==
    ASSUME IInv, TypeOK', NEW i \in Inst, pc[i] \in HasBatch,
           NEW label \in Labels, label \in HasRead => label = "advance" /\ cursor' = cursor,
           UNCHANGED <<logVars, holder>>,
           Goto(i, label) \/ (Leave(i, label) /\ label \notin HasRead),
           cursor' = cursor \/ \E last \in batch[i] : AdvanceConsumerCursor(i, last),
           delivered \subseteq delivered', parked \subseteq parked',
           Handled' = Handled \cup batch[i],
           label = "advance" => batch[i] \subseteq delivered'
    PROVE  IInv'
  <1> USE DEF logVars
  <1>1. InOrder' = InOrder
    BY DEF InOrder
  <1>2. batch[i] \subseteq log
    BY DEF IInv, BatchesOK, BatchOK
  <1>3. /\ pc' = [pc EXCEPT ![i] = label]
        /\ \A j \in Inst :
              \/ read'[j] = read[j] /\ batch'[j] = batch[j]
              \/ j = i /\ label \notin HasRead /\ read'[j] = Start /\ batch'[j] = {}
    BY DEF Goto, Leave, IInv, TypeOK, ConTypeOK
  <1>4. \A c : HandledUpTo(c) => HandledUpTo(c)'
    BY <1>1 DEF HandledUpTo
  <1>5. /\ cursor' \in log \cup {Start}
        /\ cursor' = cursor \/ (holder = i /\ cursor' \in batch[i])
    BY AdvanceMoves DEF IInv, PositionsOK
  <1>6. PositionsOK'
    <2>1. ASSUME cursor' \in batch[i]
          PROVE  \A e \in InOrder : AtOrBefore(e, cursor') => e \in Handled'
      BY <2>1, HandleBatch
    <2>2. \A e \in InOrder : AtOrBefore(e, cursor') => e \in Handled'
      BY <1>5, <2>1 DEF IInv, PositionsOK, HandledUpTo
    <2>3. HandledUpTo(Start)
      BY NothingBeforeStart DEF HandledUpTo, InOrder, IInv, TypeOK, LogTypeOK
    <2>4. \A j \in Inst : read'[j] \in log \cup {Start} /\ HandledUpTo(read[j])
      BY <1>3 DEF IInv, PositionsOK
    <2>5. \A j \in Inst : \A e \in InOrder : AtOrBefore(e, read'[j]) => e \in Handled'
      BY <1>3, <2>3, <2>4 DEF HandledUpTo
    <2> QED
      BY <1>1, <1>5, <2>2, <2>4, <2>5 DEF PositionsOK, HandledUpTo
  <1>7. Fenced'
    BY <1>3, <1>5 DEF IInv, Fenced, HasRead, HasBatch, TypeOK, ConTypeOK
  <1>8. BatchesOK'
    BY <1>1, <1>3 DEF IInv, BatchesOK, BatchOK, HasBatch, HasRead, TypeOK, ConTypeOK
  <1>9. InOrderDelivery'
    <2> SUFFICES ASSUME NEW e \in Handled', NEW f \in InOrder, Before(f, e)
                 PROVE  f \in Handled'
      BY <1>1 DEF InOrderDelivery
    <2>1. CASE e \in Handled
      BY <2>1 DEF IInv, InOrderDelivery
    <2>2. CASE e \in batch[i]
      BY <2>2, HandleBatch DEF AtOrBefore
    <2> QED
      BY <2>1, <2>2
  <1> QED
    BY <1>2, <1>6, <1>7, <1>8, <1>9 DEF IInv, LogFinite

LEMMA StepIInv ==
    ASSUME IInv, NEW i \in Inst,
           Step(i) \/ Disturbance(i) \/ BackoffElapses(i) \/ StartRun(i)
    PROVE  IInv'
  <1> USE DEF rowVars, pollVars, memVars, histVars, Labels, HasRead
  <1>0. TypeOK'
    BY StepType DEF IInv, TypeOK, LogTypeOK, logVars
  <1>1. CASE Renew(i)
    BY <1>0, <1>1, QuietStep
    DEF Renew, RenewConsumerLock
  <1>2. CASE Acquire(i)
    BY <1>0, <1>2, QuietStep
    DEF Acquire, TryAcquireConsumerLock
  <1>3. CASE LockError(i)
    BY <1>0, <1>3, QuietStep
    DEF LockError, RenewConsumerLock, TryAcquireConsumerLock
  <1>4. CASE GetCursor(i)
    BY <1>0, <1>4, ReadCursorStep DEF GetCursor, GetConsumerCursor
  <1>5. CASE GetEvents(i)
    <2>1. CASE GetEventsAfterCursor(read[i]) = {}
      BY <1>0, <1>5, <2>1, QuietStep DEF GetEvents, AfterSuccess
    <2>2. CASE GetEventsAfterCursor(read[i]) # {}
      BY <1>0, <1>5, <2>2, ReadBatchStep DEF GetEvents
    <2> QED
      BY <2>1, <2>2
  <1>6. CASE ReadError(i)
    BY <1>0, <1>6, QuietStep
    DEF ReadError
  <1>7. CASE ProcessOk(i)
    <2>1. Handled' = Handled \cup batch[i]
      BY <1>7 DEF ProcessOk, Handled
    <2> QED
      BY <1>0, <1>7, <2>1, HandleStep DEF ProcessOk, HasBatch
  <1>8. CASE ProcessError(i)
    BY <1>0, <1>8, QuietStep
    DEF ProcessError
  <1>9. CASE Advance(i) \/ AdvanceError(i)
    <2>1. pc[i] \in HasBatch
      BY <1>9 DEF Advance, AdvanceError, HasBatch
    <2>2. Handled' = Handled \cup batch[i]
      BY <1>9 DEF Advance, AdvanceError, Handled, IInv, BatchesOK
    <2>3. UNCHANGED <<logVars, holder, delivered, parked>>
      BY <1>9 DEF Advance, AdvanceError, AdvanceConsumerCursor
    <2>4. PICK label \in {"idle", "reset", "failed"} : Leave(i, label)
      BY <1>9 DEF Advance, AdvanceError, AfterSuccess
    <2>5. cursor' = cursor \/ \E last \in batch[i] : AdvanceConsumerCursor(i, last)
      BY <1>9 DEF Advance, AdvanceError
    <2> QED
      BY <1>0, <2>1, <2>2, <2>3, <2>4, <2>5, HandleStep
  <1>11. CASE RetryLater(i)
    BY <1>0, <1>11, QuietStep
    DEF RetryLater, UpdateConsumerFailureState
  <1>12. CASE GiveUp(i)
    BY <1>0, <1>12, QuietStep
    DEF GiveUp
  <1>13. CASE DeadLetterCursor(i)
    BY <1>0, <1>13, ReadCursorStep DEF DeadLetterCursor, GetConsumerCursor
  <1>14. CASE DeadLetterEvents(i)
    <2>1. CASE GetEventsAfterCursor(read[i]) = {}
      BY <1>0, <1>14, <2>1, QuietStep DEF DeadLetterEvents
    <2>2. CASE GetEventsAfterCursor(read[i]) # {}
      BY <1>0, <1>14, <2>2, ReadBatchStep DEF DeadLetterEvents
    <2> QED
      BY <2>1, <2>2
  <1>15. ASSUME CommitDeadLetters(i), pc[i] = "dlCommit", Leave(i, "reset"),
                UNCHANGED <<logVars, delivered>>
         PROVE  IInv'
    <2>1. Handled' = Handled \cup batch[i]
      BY <1>15 DEF CommitDeadLetters, Handled
    <2> QED
      BY <1>0, <1>15, <2>1, HandleStep
      DEF CommitDeadLetters, AdvanceConsumerCursor, HasBatch
  <1>16. CASE DeadLetterCommit(i)
    BY <1>15, <1>16 DEF DeadLetterCommit
  <1>17. CASE DeadLetterError(i)
    <2>1. CASE UNCHANGED <<rowVars, parked>>
      BY <1>0, <1>17, <2>1, QuietStep DEF DeadLetterError
    <2> QED
      BY <1>15, <1>17, <2>1 DEF DeadLetterError
  <1>18. CASE Reset(i)
    BY <1>0, <1>18, QuietStep
    DEF Reset, UpdateConsumerFailureState
  <1>19. CASE BackoffElapses(i)
    BY <1>0, <1>19
    DEF BackoffElapses, IInv, LogFinite, Handled, InOrder, PositionsOK, HandledUpTo,
        Fenced, BatchesOK, BatchOK, InOrderDelivery, logVars
  <1>20. CASE Shutdown(i)
    BY <1>0, <1>20, QuietStep
    DEF Shutdown, ReleaseConsumerLock
  <1>21. CASE Crash(i)
    BY <1>0, <1>21, QuietStep
    DEF Crash
  <1>22. CASE StartRun(i)
    BY <1>0, <1>22, QuietStep
    DEF StartRun
  <1> QED
    BY <1>1, <1>2, <1>3, <1>4, <1>5, <1>6, <1>7, <1>8, <1>9, <1>11, <1>12, <1>13,
       <1>14, <1>16, <1>17, <1>18, <1>19, <1>20, <1>21, <1>22
    DEF Step, Disturbance

LEMMA NextIInv == IInv /\ [Next]_vars => IInv'
  <1> SUFFICES ASSUME IInv, [Next]_vars PROVE IInv'
    OBVIOUS
  <1>1. CASE LogNext /\ UNCHANGED conVars
    BY <1>1, LogStepIInv
  <1>2. ASSUME NEW i \in Inst,
               Step(i) \/ Disturbance(i) \/ BackoffElapses(i) \/ StartRun(i)
        PROVE  IInv'
    BY <1>2, StepIInv
  <1>3. CASE LeaseExpires
    BY <1>3
    DEF LeaseExpires, IInv, TypeOK, LogTypeOK, ConTypeOK, LogFinite, Handled, InOrder,
        PositionsOK, HandledUpTo, Fenced, BatchesOK, BatchOK, InOrderDelivery,
        logVars, pollVars, memVars, histVars
  <1>4. CASE UNCHANGED vars
    BY <1>4
    DEF vars, conVars, IInv, TypeOK, LogTypeOK, ConTypeOK, LogFinite, Handled, InOrder,
        PositionsOK, HandledUpTo, Fenced, BatchesOK, BatchOK, InOrderDelivery,
        logVars, rowVars, pollVars, memVars, histVars
  <1> QED
    BY <1>1, <1>2, <1>3, <1>4 DEF Next

THEOREM Invariance == Spec => []IInv
  BY InitIInv, NextIInv, PTL DEF Spec

(* At-least-once: the cursor passes no in-order event that was neither     *)
(* accepted by ConsumerFunc nor dead-lettered.                             *)
THEOREM AtLeastOnce == Spec => []NoInOrderEventSkipped
  <1>1. IInv => NoInOrderEventSkipped
    BY DEF IInv, PositionsOK, HandledUpTo, NoInOrderEventSkipped
  <1> QED
    BY <1>1, Invariance, PTL

(* Events are accepted or dead-lettered in log order.                      *)
THEOREM DeliveryInOrder == Spec => []InOrderDelivery
  <1>1. IInv => InOrderDelivery
    BY DEF IInv
  <1> QED
    BY <1>1, Invariance, PTL

LEMMA CursorStep == IInv /\ [Next]_vars => [Before(cursor, cursor')]_cursor
  <1> SUFFICES ASSUME IInv, Next, cursor' # cursor
               PROVE  Before(cursor, cursor')
    BY DEF vars, conVars, rowVars
  <1>1. ASSUME NEW i \in Inst, pc[i] \in HasBatch,
               \E last \in batch[i] : AdvanceConsumerCursor(i, last)
        PROVE  Before(cursor, cursor')
    BY <1>1, AdvanceMoves
  <1>2. PICK i \in Inst : Step(i) \/ Disturbance(i) \/ BackoffElapses(i) \/ StartRun(i)
    BY DEF Next, conVars, rowVars, LeaseExpires
  <1>3. CASE Advance(i) \/ AdvanceError(i)
    BY <1>1, <1>3 DEF Advance, AdvanceError, HasBatch, rowVars
  <1>4. CASE DeadLetterCommit(i) \/ DeadLetterError(i)
    BY <1>1, <1>4
    DEF DeadLetterCommit, DeadLetterError, CommitDeadLetters, HasBatch, rowVars
  <1>5. CASE \/ Renew(i) \/ Acquire(i) \/ LockError(i)
             \/ RetryLater(i) \/ Reset(i) \/ Shutdown(i)
    BY <1>5
    DEF Renew, Acquire, LockError, RetryLater, Reset, Shutdown, RenewConsumerLock,
        TryAcquireConsumerLock, UpdateConsumerFailureState, ReleaseConsumerLock, rowVars
  <1>6. CASE \/ GetCursor(i) \/ GetEvents(i) \/ ReadError(i) \/ ProcessOk(i)
             \/ ProcessError(i) \/ GiveUp(i) \/ DeadLetterCursor(i)
             \/ DeadLetterEvents(i) \/ BackoffElapses(i) \/ Crash(i) \/ StartRun(i)
    BY <1>6
    DEF GetCursor, GetEvents, ReadError, ProcessOk, ProcessError, GiveUp,
        DeadLetterCursor, DeadLetterEvents, BackoffElapses, Crash, StartRun, rowVars
  <1> QED
    BY <1>2, <1>3, <1>4, <1>5, <1>6 DEF Step, Disturbance

(* The persisted cursor never moves backwards.                             *)
THEOREM CursorNeverRegresses == Spec => CursorMonotonic
  BY CursorStep, Invariance, PTL DEF Spec, CursorMonotonic

-----------------------------------------------------------------------------
(* Consumer implements Delivery.                                           *)

LEMMA HandledGrows ==
    ASSUME Next PROVE Handled \subseteq Handled'
  <1>1. CASE (LogNext /\ UNCHANGED conVars) \/ LeaseExpires
    BY <1>1 DEF LeaseExpires, Handled, conVars, histVars
  <1>2. ASSUME NEW i \in Inst,
               Step(i) \/ Disturbance(i) \/ BackoffElapses(i) \/ StartRun(i)
        PROVE  delivered \subseteq delivered' /\ parked \subseteq parked'
    BY <1>2
    DEF Step, Disturbance, Renew, Acquire, LockError, GetCursor, GetEvents, ReadError,
        ProcessOk, ProcessError, Advance, AdvanceError, RetryLater, GiveUp,
        DeadLetterCursor, DeadLetterEvents, DeadLetterCommit, DeadLetterError,
        CommitDeadLetters, Reset, BackoffElapses, Shutdown, Crash, StartRun, histVars
  <1> QED
    BY <1>1, <1>2 DEF Next, Handled

LEMMA SameOrder ==
    /\ Promise!Event = Event
    /\ Promise!Start = Start
    /\ \A e, f : Promise!Before(e, f) <=> Before(e, f)
    /\ \A e, f : Promise!AtOrBefore(e, f) <=> AtOrBefore(e, f)
    /\ Promise!InOrderRows = InOrder
  BY DEF Promise!Event, Event, Promise!Start, Start, Promise!Before, Before,
         Promise!AtOrBefore, AtOrBefore, Promise!InOrderRows, InOrder

(* Every step of the implementation is a step of Delivery or a stutter.    *)
LEMMA StepSimulation ==
    IInv /\ IInv' /\ [Next]_vars => [Promise!Next]_(Promise!vars)
  <1> SUFFICES ASSUME IInv, IInv', Next PROVE Promise!Next \/ UNCHANGED Promise!vars
    BY DEF vars, logVars, conVars, rowVars, histVars, Promise!vars, Handled
  <1> USE DEF Promise!vars
  <1>1. CASE LogNext /\ UNCHANGED conVars
    <2>1. Handled' = Handled /\ cursor' = cursor
      BY <1>1 DEF conVars, rowVars, histVars, Handled
    <2>2. ASSUME NEW w \in Writer, CommitTx(w) PROVE Promise!Append(tx[w].rows)
      BY <2>1, <2>2, SameOrder DEF CommitTx, Promise!Append
    <2>3. ASSUME NEW w \in Writer PROVE tx[w].rows \in SUBSET Promise!Event
      BY SameOrder DEF IInv, TypeOK, LogTypeOK, TxState
    <2>4. ASSUME NEW w \in Writer, CommitTx(w) PROVE Promise!Next
      BY <2>2, <2>3, <2>4 DEF Promise!Next
    <2> QED
      BY <1>1, <2>1, <2>4 DEF LogNext, BeginTx, InsertEvent, RollbackTx
  <1>2. CASE UNCHANGED <<log, late>>
    <2> DEFINE B == Handled' \ Handled
    <2>1. Handled' = Handled \cup B /\ B \in SUBSET log
      BY <1>2, HandledGrows DEF IInv
    <2>2. InOrder' = InOrder
      BY <1>2 DEF InOrder
    <2>3. Promise!Handle(B)
      BY <2>1, <2>2, SameOrder DEF Promise!Handle, IInv, InOrderDelivery
    <2>4. cursor' = cursor \/ Before(cursor, cursor')
      BY CursorStep
    <2>5. \A e \in InOrder : AtOrBefore(e, cursor') => e \in Handled'
      BY <2>2 DEF IInv, PositionsOK, HandledUpTo
    <2>6. Promise!Acknowledge(cursor')
      BY <2>4, <2>5, SameOrder DEF Promise!Acknowledge
    <2>7. cursor' \in log \cup {Promise!Start}
      BY <1>2, SameOrder DEF IInv, PositionsOK
    <2> QED
      BY <1>2, <2>1, <2>3, <2>6, <2>7 DEF Promise!Next
  <1> QED
    BY <1>1, <1>2, StepType DEF Next, IInv, LeaseExpires, logVars

(* The consumer, with all its instances, leases, crashes and lost answers, *)
(* implements at-least-once delivery in log order.                         *)
THEOREM ConsumerImplementsDelivery == Spec => RefinesDelivery
  <1>1. Init => Promise!Init
    BY SameOrder DEF Init, LogInit, ConInit, Promise!Init, Handled
  <1> QED
    BY <1>1, StepSimulation, Invariance, PTL DEF Spec, RefinesDelivery, Promise!Spec

-----------------------------------------------------------------------------
(* What follows when no poll outlasts the lease.                           *)

(* An instance inside a poll holds the lock, under a live lease.           *)
LeaseHeld == \A i \in Inst : pc[i] \in Polling => holder = i /\ lease = "live"

LEMMA StepLeaseHeld ==
    ASSUME TypeOK, LeaseHeld, NEW i \in Inst,
           Step(i) \/ Disturbance(i) \/ BackoffElapses(i) \/ StartRun(i)
    PROVE  LeaseHeld'
  <1> USE DEF TypeOK, ConTypeOK, LeaseHeld, Polling, Labels, rowVars, pollVars
  <1>1. CASE Renew(i)
    BY <1>1 DEF Renew, RenewConsumerLock, Goto
  <1>2. CASE Acquire(i)
    BY <1>2 DEF Acquire, TryAcquireConsumerLock, Acquirable, Goto
  <1>3. CASE LockError(i)
    BY <1>3 DEF LockError, RenewConsumerLock, TryAcquireConsumerLock, Acquirable, Goto
  <1>4. CASE GetCursor(i)
    BY <1>4 DEF GetCursor
  <1>5. CASE GetEvents(i)
    BY <1>5 DEF GetEvents, AfterSuccess, Leave
  <1>6. CASE ReadError(i)
    BY <1>6 DEF ReadError, Leave
  <1>7. CASE ProcessOk(i)
    BY <1>7 DEF ProcessOk, Goto
  <1>8. CASE ProcessError(i)
    BY <1>8 DEF ProcessError, Leave
  <1>9. CASE Advance(i)
    BY <1>9 DEF Advance, AdvanceConsumerCursor, AfterSuccess, Leave
  <1>10. CASE AdvanceError(i)
    BY <1>10 DEF AdvanceError, AdvanceConsumerCursor, Leave
  <1>11. CASE RetryLater(i)
    BY <1>11 DEF RetryLater, UpdateConsumerFailureState, Goto
  <1>12. CASE GiveUp(i)
    BY <1>12 DEF GiveUp, Goto
  <1>13. CASE DeadLetterCursor(i)
    BY <1>13 DEF DeadLetterCursor
  <1>14. CASE DeadLetterEvents(i)
    BY <1>14 DEF DeadLetterEvents, Leave
  <1>15. CASE DeadLetterCommit(i)
    BY <1>15 DEF DeadLetterCommit, CommitDeadLetters, AdvanceConsumerCursor, Leave
  <1>16. CASE DeadLetterError(i)
    BY <1>16 DEF DeadLetterError, CommitDeadLetters, AdvanceConsumerCursor, Leave
  <1>17. CASE Reset(i)
    BY <1>17 DEF Reset, UpdateConsumerFailureState, Goto
  <1>18. CASE BackoffElapses(i)
    BY <1>18 DEF BackoffElapses
  <1>19. CASE Shutdown(i)
    BY <1>19 DEF Shutdown, ReleaseConsumerLock, Goto
  <1>20. CASE Crash(i)
    BY <1>20 DEF Crash, Leave
  <1>21. CASE StartRun(i)
    BY <1>21 DEF StartRun, Goto
  <1> QED
    BY <1>1, <1>2, <1>3, <1>4, <1>5, <1>6, <1>7, <1>8, <1>9, <1>10, <1>11, <1>12,
       <1>13, <1>14, <1>15, <1>16, <1>17, <1>18, <1>19, <1>20, <1>21
    DEF Step, Disturbance

LEMMA LeaseInvariance ==
    ASSUME LeaseCoversPoll
    PROVE  Spec => []LeaseHeld
  <1>1. Init => LeaseHeld
    BY DEF Init, ConInit, LeaseHeld, Polling, Labels
  <1>2. TypeOK /\ LeaseHeld /\ [Next]_vars => LeaseHeld'
    <2> SUFFICES ASSUME TypeOK, LeaseHeld, [Next]_vars PROVE LeaseHeld'
      OBVIOUS
    <2>1. CASE (LogNext /\ UNCHANGED conVars) \/ UNCHANGED vars
      BY <2>1 DEF LeaseHeld, vars, conVars, rowVars, pollVars
    <2>2. ASSUME NEW i \in Inst,
                 Step(i) \/ Disturbance(i) \/ BackoffElapses(i) \/ StartRun(i)
          PROVE  LeaseHeld'
      BY <2>2, StepLeaseHeld
    <2>3. CASE LeaseExpires
      BY <2>3, LeaseCoversPoll DEF LeaseExpires, LeaseHeld, pollVars
    <2> QED
      BY <2>1, <2>2, <2>3 DEF Next
  <1> QED
    BY <1>1, <1>2, TypeCorrect, PTL DEF Spec

(* Single leader: if no poll outlasts LockTTL, at most one instance is in  *)
(* ConsumerFunc at any time, whatever crashes and takeovers happen.        *)
THEOREM LeaderExclusive ==
    ASSUME LeaseCoversPoll
    PROVE  Spec => []SingleLeader
  <1>1. LeaseHeld => SingleLeader
    BY DEF LeaseHeld, SingleLeader, Polling, Labels
  <1> QED
    BY <1>1, LeaseInvariance, PTL

LEMMA StepDeadLetters ==
    ASSUME IInv, LeaseHeld, DeadLettersBehindCursor, NEW i \in Inst,
           Step(i) \/ Disturbance(i) \/ BackoffElapses(i) \/ StartRun(i),
           [Before(cursor, cursor')]_cursor, TypeOK'
    PROVE  DeadLettersBehindCursor'
  <1>1. \A e \in parked : AtOrBefore(e, cursor')
    <2> TAKE e \in parked
    <2>1. e \in Position /\ cursor \in Position /\ cursor' \in Position
      BY DEF IInv, TypeOK, ConTypeOK, Position
    <2>2. AtOrBefore(e, cursor)
      BY DEF DeadLettersBehindCursor
    <2> QED
      BY <2>1, <2>2, BeforeTransitive DEF AtOrBefore
  <1>2. ASSUME CommitDeadLetters(i), pc[i] = "dlCommit"
        PROVE  DeadLettersBehindCursor'
    <2>1. PICK last \in batch[i] : IsLast(last, batch[i]) /\ AdvanceConsumerCursor(i, last)
      BY <1>2 DEF CommitDeadLetters
    <2>2. cursor' = last
      BY <1>2, <2>1 DEF LeaseHeld, Polling, Labels, AdvanceConsumerCursor
    <2>3. \A e \in batch[i] : AtOrBefore(e, cursor')
      BY <2>1, <2>2 DEF IsLast, AtOrBefore
    <2> QED
      BY <1>1, <1>2, <2>3 DEF CommitDeadLetters, DeadLettersBehindCursor
  <1>3. CASE DeadLetterCommit(i) \/ DeadLetterError(i)
    BY <1>1, <1>2, <1>3 DEF DeadLetterCommit, DeadLetterError, DeadLettersBehindCursor
  <1>4. CASE parked' = parked
    BY <1>1, <1>4 DEF DeadLettersBehindCursor
  <1> QED
    BY <1>3, <1>4
    DEF Step, Disturbance, Renew, Acquire, LockError, GetCursor, GetEvents, ReadError,
        ProcessOk, ProcessError, Advance, AdvanceError, RetryLater, GiveUp,
        DeadLetterCursor, DeadLetterEvents, Reset, BackoffElapses, Shutdown, Crash,
        StartRun, histVars

(* If no poll outlasts LockTTL, dead-lettered events are behind the        *)
(* cursor: dead-lettering always unblocks the consumer.                    *)
THEOREM DeadLetteringUnblocks ==
    ASSUME LeaseCoversPoll
    PROVE  Spec => []DeadLettersBehindCursor
  <1>1. Init => DeadLettersBehindCursor
    BY DEF Init, ConInit, DeadLettersBehindCursor
  <1>2. IInv /\ IInv' /\ LeaseHeld /\ DeadLettersBehindCursor /\ [Next]_vars
        /\ [Before(cursor, cursor')]_cursor
        => DeadLettersBehindCursor'
    <2> SUFFICES ASSUME IInv, IInv', LeaseHeld, DeadLettersBehindCursor, [Next]_vars,
                        [Before(cursor, cursor')]_cursor
                 PROVE  DeadLettersBehindCursor'
      OBVIOUS
    <2>1. ASSUME NEW i \in Inst,
                 Step(i) \/ Disturbance(i) \/ BackoffElapses(i) \/ StartRun(i)
          PROVE  DeadLettersBehindCursor'
      BY <2>1, StepDeadLetters DEF IInv
    <2>2. CASE \/ LogNext /\ UNCHANGED conVars
               \/ LeaseExpires
               \/ UNCHANGED vars
      BY <2>2
      DEF LeaseExpires, DeadLettersBehindCursor, vars, conVars, rowVars, histVars
    <2> QED
      BY <2>1, <2>2 DEF Next
  <1> QED
    BY <1>1, <1>2, Invariance, LeaseInvariance, CursorNeverRegresses, PTL
    DEF Spec, CursorMonotonic

-----------------------------------------------------------------------------
(* Health.                                                                 *)

(* Without faults an instance asks for the lock only when it does not have *)
(* it, and comes to rest with the lock only after it has written its count *)
(* of failures, which the fence then keeps from everybody else.            *)
HealthOK ==
    faults = 0 =>
        \A i \in Inst :
            /\ pc[i] # "down"
            /\ pc[i] = "acquire" => holder # i
            /\ pc[i] = "idle" /\ holder = i /\ failures[i] > 0 => rowFailures = failures[i]

(* A fault is never forgotten.                                             *)
LEMMA NoFault ==
    ASSUME TypeOK, NEW i \in Inst, Disturbance(i)
    PROVE  faults' # 0
  <1>1. Fault
    BY DEF Disturbance, LockError, ReadError, AdvanceError, DeadLetterError, Shutdown, Crash
  <1> QED
    BY <1>1 DEF Fault, TypeOK, ConTypeOK

LEMMA StepHealthOK ==
    ASSUME TypeOK, HealthOK, faults = 0, faults' = 0, NEW i \in Inst,
           Step(i) \/ Disturbance(i) \/ BackoffElapses(i) \/ StartRun(i)
    PROVE  HealthOK'
  <1> USE DEF TypeOK, ConTypeOK, HealthOK, Labels, rowVars, pollVars, memVars, histVars
  <1>1. CASE Renew(i)
    BY <1>1 DEF Renew, RenewConsumerLock, Goto
  <1>2. CASE Acquire(i)
    BY <1>2 DEF Acquire, TryAcquireConsumerLock, Acquirable, Goto
  <1>3. CASE GetCursor(i)
    BY <1>3 DEF GetCursor
  <1>4. CASE GetEvents(i)
    BY <1>4 DEF GetEvents, AfterSuccess, Leave
  <1>5. CASE ProcessOk(i)
    BY <1>5 DEF ProcessOk, Goto
  <1>6. CASE ProcessError(i)
    BY <1>6 DEF ProcessError, Leave
  <1>7. CASE Advance(i)
    BY <1>7 DEF Advance, AdvanceConsumerCursor, AfterSuccess, Leave
  <1>8. CASE RetryLater(i)
    BY <1>8 DEF RetryLater, UpdateConsumerFailureState, Goto, Fault
  <1>9. CASE GiveUp(i)
    BY <1>9 DEF GiveUp, Goto
  <1>10. CASE DeadLetterCursor(i)
    BY <1>10 DEF DeadLetterCursor
  <1>11. CASE DeadLetterEvents(i)
    BY <1>11 DEF DeadLetterEvents, Leave
  <1>12. CASE DeadLetterCommit(i)
    BY <1>12 DEF DeadLetterCommit, CommitDeadLetters, AdvanceConsumerCursor, Leave
  <1>13. CASE Reset(i)
    BY <1>13 DEF Reset, UpdateConsumerFailureState, Goto, Fault
  <1>14. CASE Disturbance(i)
    BY <1>14, NoFault
  <1>15. CASE BackoffElapses(i)
    BY <1>15 DEF BackoffElapses
  <1>16. CASE StartRun(i)
    BY <1>16 DEF StartRun
  <1> QED
    BY <1>1, <1>2, <1>3, <1>4, <1>5, <1>6, <1>7, <1>8, <1>9, <1>10, <1>11, <1>12,
       <1>13, <1>14, <1>15, <1>16
    DEF Step

(* A step leaves the number of faults or adds to it.                       *)
LEMMA FaultsGrow ==
    ASSUME TypeOK, [Next]_vars, faults' = 0
    PROVE  faults = 0
  <1> USE DEF TypeOK, ConTypeOK
  <1>1. CASE (LogNext /\ UNCHANGED conVars) \/ LeaseExpires \/ UNCHANGED vars
    BY <1>1 DEF LeaseExpires, vars, conVars, histVars
  <1>2. ASSUME NEW i \in Inst,
               Step(i) \/ Disturbance(i) \/ BackoffElapses(i) \/ StartRun(i)
        PROVE  faults = 0
    <2>1. CASE Disturbance(i)
      BY <2>1, NoFault
    <2>2. CASE BackoffElapses(i) \/ StartRun(i)
      BY <2>2 DEF BackoffElapses, StartRun, histVars
    <2>3. CASE Step(i)
      BY <2>3 DEF Step, Renew, Acquire, GetCursor, GetEvents, ProcessOk, ProcessError, Advance,
         RetryLater, GiveUp, DeadLetterCursor, DeadLetterEvents, DeadLetterCommit, Reset,
         histVars, Fault
    <2> QED
      BY <1>2, <2>1, <2>2, <2>3
  <1> QED
    BY <1>1, <1>2 DEF Next

LEMMA NextHealthOK ==
    ASSUME TypeOK, HealthOK, [Next]_vars
    PROVE  HealthOK'
  <1> SUFFICES ASSUME faults' = 0 PROVE HealthOK'
    BY DEF HealthOK
  <1>1. faults = 0
    BY FaultsGrow
  <1>2. CASE (LogNext /\ UNCHANGED conVars) \/ LeaseExpires \/ UNCHANGED vars
    BY <1>2 DEF LeaseExpires, HealthOK, vars, conVars, rowVars, pollVars, memVars, histVars
  <1>3. ASSUME NEW i \in Inst,
               Step(i) \/ Disturbance(i) \/ BackoffElapses(i) \/ StartRun(i)
        PROVE  HealthOK'
    BY <1>1, <1>3, StepHealthOK
  <1> QED
    BY <1>2, <1>3 DEF Next

(* The history variables of ConsumerTries do not constrain Consumer.       *)
LEMMA TriesStepIsStep == [TriesNext]_triesVars => [Next]_vars
  BY DEF TriesNext, triesVars

(* While the holder of the lock waits to retry and the database has been   *)
(* healthy, Health reads the holder's own count of failures and does not   *)
(* call the consumer healthy: for every number of instances, of takeovers  *)
(* and of lapses of the lease.                                             *)
THEOREM HealthIsTrue == TriesSpec => []HealthReflectsLeader
  <1>1. TriesInit => TypeOK /\ HealthOK
    BY LogInitType, ConInitType DEF TriesInit, Init, ConInit, HealthOK, TypeOK
  <1>2. TypeOK /\ HealthOK /\ [TriesNext]_triesVars => HealthOK'
    BY TriesStepIsStep, NextHealthOK
  <1>3. TypeOK /\ HealthOK => HealthReflectsLeader
    <2> SUFFICES ASSUME TypeOK, HealthOK, NEW i \in Inst,
                        holder = i, pc[i] = "idle", failures[i] > 0, faults = 0
                 PROVE  /\ ListConsumers.consecutiveFailures = failures[i]
                        /\ ConsumerState # "healthy"
      BY DEF HealthReflectsLeader
    <2>1. ListConsumers.consecutiveFailures = rowFailures
      BY DEF ListConsumers
    <2>2. rowFailures = failures[i] /\ failures[i] \in Nat
      BY DEF HealthOK, TypeOK, ConTypeOK
    <2>3. ~(ListConsumers.consecutiveFailures = 0)
      BY <2>1, <2>2
    <2>4. ConsumerState \in {"failing", "degraded"}
      BY <2>3, Zenon DEF ConsumerState
    <2> QED
      BY <2>1, <2>2, <2>4
  <1>4. IInv => TypeOK
    BY DEF IInv
  <1>5. TriesInit => IInv
    BY InitIInv DEF TriesInit
  <1>6. IInv /\ [TriesNext]_triesVars => IInv'
    BY TriesStepIsStep, NextIInv
  <1> QED
    BY <1>1, <1>2, <1>3, <1>4, <1>5, <1>6, PTL DEF TriesSpec

-----------------------------------------------------------------------------
(* Retries.                                                                *)

(* The first row after the cursor.                                         *)
First(e) ==
    /\ e \in log /\ Before(cursor, e)
    /\ \A f \in log : Before(cursor, f) => AtOrBefore(e, f)

(* The first row after the cursor has failed n times.                      *)
Retried(n) == n > 0 => \E e \in log : First(e) /\ (tries[e.id] = MaxRetries \/ tries[e.id] >= n)

(* Failures of the poll that the struct will have counted when the poll    *)
(* ends.                                                                   *)
Counted(i) == IF pc[i] = "failed" THEN failures[i] + 1 ELSE failures[i]

(* Nobody but i has had the lock, the database has been healthy and the    *)
(* log has grown in order.                                                 *)
Solo(i) == leaders \subseteq {i} /\ faults = 0 /\ late = {}

(* The poll of i: it works on the first rows after the cursor, and the     *)
(* oldest of them has failed as often as i has counted.                    *)
OwnOK(i) ==
    /\ pc[i] # "down"
    /\ pc[i] \in HasRead => read[i] = cursor
    /\ pc[i] \in HasBatch => \E e \in batch[i] : First(e)
    /\ pc[i] # "reset" => Retried(Counted(i))
    /\ pc[i] \in {"dlCursor", "dlEvents", "dlCommit"} => MaxRetries > 0 /\ failures[i] >= MaxRetries

SoloOK(i) == OwnOK(i) /\ \A j \in Inst \ {i} : pc[j] \in {"idle", "acquire"}

TriesOK ==
    /\ tries \in [Ids -> 0..MaxRetries]
    /\ holder \in leaders \cup {NoHolder}
    /\ \A i \in Inst : Solo(i) => SoloOK(i)

LEMMA FirstUnique ==
    ASSUME IInv, NEW e, NEW f, First(e), First(f)
    PROVE  e = f
  <1>1. e \in Position /\ f \in Position
    BY DEF First, IInv, TypeOK, LogTypeOK, Position
  <1>2. AtOrBefore(e, f) /\ AtOrBefore(f, e)
    BY DEF First
  <1> QED
    BY <1>1, <1>2, BeforeTransitive, BeforeIrreflexive DEF AtOrBefore

(* A batch read at the cursor has the first row after it: of the rows      *)
(* after the cursor, one has the fewest before it, and that is none.       *)
LEMMA BatchHasFirst ==
    ASSUME IInv, GetEventsAfterCursor(cursor) # {}
    PROVE  \E e \in GetEventsAfterCursor(cursor) : First(e)
  <1> DEFINE After == {e \in log : Before(cursor, e)}
             Between(x) == {f \in log : Before(cursor, f) /\ Before(f, x)}
             Sizes == {Cardinality(Between(x)) : x \in After}
  <1>1. log \subseteq Event /\ log \subseteq Position /\ IsFiniteSet(log) /\ cursor \in Position
    BY DEF IInv, LogFinite, TypeOK, LogTypeOK, ConTypeOK, Position
  <1>2. \A x : IsFiniteSet(Between(x)) /\ Cardinality(Between(x)) \in Nat
    BY <1>1, FS_Subset, FS_CardinalityType
  <1>3. Sizes \in SUBSET Nat /\ Sizes # {}
    BY <1>2 DEF GetEventsAfterCursor
  <1>4. PICK n \in Sizes : \A m \in Sizes : n <= m
    BY <1>3, LeastNatural
  <1>5. PICK e \in After : n = Cardinality(Between(e))
    OBVIOUS
  <1>6. Between(e) = {}
    <2> SUFFICES ASSUME NEW f \in Between(e) PROVE FALSE
      OBVIOUS
    <2>1. f \in After /\ f \in Position /\ e \in Position /\ Before(f, e)
      BY <1>1
    <2>2. Between(f) \subseteq Between(e) \ {f}
      BY <1>1, <2>1, BeforeTransitive, BeforeIrreflexive
    <2> HIDE DEF Between
    <2>3. IsFiniteSet(Between(e) \ {f}) /\ Cardinality(Between(e) \ {f}) = Cardinality(Between(e)) - 1
      BY <1>2, FS_RemoveElement
    <2>4. Cardinality(Between(f)) <= Cardinality(Between(e)) - 1
      BY <2>2, <2>3, FS_Subset
    <2>5. Cardinality(Between(f)) \in Sizes
      BY <2>1
    <2>6. Cardinality(Between(e)) <= Cardinality(Between(f))
      BY <1>4, <1>5, <2>5
    <2> QED
      BY <1>2, <2>4, <2>6
  <1>7. Cardinality(Between(e)) < BatchSize
    <2>1. Cardinality({}) = 0
      BY FS_EmptySet
    <2> QED
      BY <1>6, <2>1, BatchSizeAssumption
  <1>8. e \in GetEventsAfterCursor(cursor)
    BY <1>7 DEF GetEventsAfterCursor
  <1>9. ASSUME NEW f \in log, Before(cursor, f) PROVE AtOrBefore(e, f)
    <2>1. ~Before(f, e)
      BY <1>6, <1>9
    <2> QED
      BY <1>1, <2>1, BeforeTotal DEF AtOrBefore
  <1>10. First(e)
    BY <1>9 DEF First
  <1> QED
    BY <1>8, <1>10

(* A row that is first stays first while the cursor stays and the log      *)
(* grows in order.                                                         *)
LEMMA FirstStays ==
    ASSUME IInv, IInv', LogNext \/ UNCHANGED logVars, cursor' = cursor, late' = {},
           NEW e, First(e)
    PROVE  First(e)'
  <1>1. log \subseteq log' /\ \A f \in log' : f \in log \/ \A g \in log : ~Before(f, g)
    <2>1. CASE LogNext
      <3>1. log \subseteq log' /\ \A f \in InOrder' : f \in InOrder \/ \A g \in log : ~Before(f, g)
        BY <2>1, LogGrows DEF IInv, TypeOK
      <3>2. InOrder' = log' /\ InOrder \subseteq log
        BY DEF InOrder
      <3> QED
        BY <3>1, <3>2
    <2>2. CASE UNCHANGED logVars
      BY <2>2 DEF logVars
    <2> QED
      BY <2>1, <2>2
  <1>2. log' \subseteq Position
    BY DEF IInv, TypeOK, LogTypeOK, Position
  <1>3. e \in log /\ Before(cursor, e)
    BY DEF First
  <1>4. ASSUME NEW f \in log', Before(cursor, f) PROVE AtOrBefore(e, f)
    <2>1. CASE f \in log
      BY <1>4, <2>1 DEF First
    <2>2. CASE f \notin log
      BY <1>1, <1>2, <1>3, <2>2, BeforeTotal DEF AtOrBefore
    <2> QED
      BY <2>1, <2>2
  <1> QED
    BY <1>1, <1>3, <1>4 DEF First

LEMMA TriesGrow ==
    ASSUME tries \in [Ids -> 0..MaxRetries], CountTries
    PROVE  /\ tries' \in [Ids -> 0..MaxRetries]
           /\ \A id \in Ids : tries[id] <= tries'[id]
           /\ \A e \in FailedNow : e.id \in Ids =>
                 tries'[e.id] = MaxRetries \/ tries'[e.id] = tries[e.id] + 1
  BY MaxRetriesAssumption DEF CountTries

LEMMA RetriedStays ==
    ASSUME IInv, IInv', tries \in [Ids -> 0..MaxRetries], CountTries,
           LogNext \/ UNCHANGED logVars, cursor' = cursor, late' = {},
           NEW n \in Nat, Retried(n)
    PROVE  Retried(n)'
  <1> SUFFICES ASSUME n > 0 PROVE Retried(n)'
    BY DEF Retried
  <1>1. PICK e \in log : First(e) /\ (tries[e.id] = MaxRetries \/ tries[e.id] >= n)
    BY DEF Retried
  <1>2. First(e)'
    BY <1>1, FirstStays
  <1>3. e.id \in Ids
    BY DEF IInv, TypeOK, LogTypeOK, Event
  <1>4. tries'[e.id] \in 0..MaxRetries /\ tries[e.id] \in 0..MaxRetries /\ tries[e.id] <= tries'[e.id]
    BY <1>3, TriesGrow
  <1>5. tries'[e.id] = MaxRetries \/ tries'[e.id] >= n
    BY <1>1, <1>4, MaxRetriesAssumption
  <1>6. e \in log'
    BY <1>2 DEF First
  <1> QED
    BY <1>2, <1>5, <1>6 DEF Retried

LEMMA CountedStays ==
    ASSUME IInv, IInv', tries \in [Ids -> 0..MaxRetries], CountTries,
           LogNext \/ UNCHANGED logVars, cursor' = cursor, late' = {},
           NEW i \in Inst, Counted(i)' = Counted(i), Retried(Counted(i))
    PROVE  Retried(Counted(i))'
  <1>1. Counted(i) \in Nat
    BY DEF Counted, IInv, TypeOK, ConTypeOK
  <1>2. \A n \in Nat : Retried(n) => Retried(n)'
    BY RetriedStays
  <1>3. \A n : n = Counted(i) => Retried(n)'
    BY <1>1, <1>2
  <1> QED
    BY <1>3 DEF Retried

(* An instance that has never had the lock only asks for it.               *)
LEMMA OthersStep ==
    ASSUME TypeOK, TriesOK, NEW i \in Inst, Solo(i), SoloOK(i), Solo(i)',
           leaders' = leaders \cup ({holder'} \ {NoHolder}), NEW j \in Inst \ {i},
           Step(j) \/ Disturbance(j) \/ BackoffElapses(j) \/ StartRun(j)
    PROVE  /\ UNCHANGED <<logVars, cursor, read, batch, failures>>
           /\ \E label \in {"idle", "acquire"} : pc' = [pc EXCEPT ![j] = label]
  <1> USE DEF rowVars, pollVars, memVars, histVars
  <1>1. pc[j] \in {"idle", "acquire"} /\ holder # j /\ holder' # j
    BY NoHolderAssumption DEF SoloOK, TriesOK, Solo
  <1>2. CASE Disturbance(j)
    BY <1>2, NoFault DEF Solo
  <1>3. CASE BackoffElapses(j)
    <2>1. pc' = [pc EXCEPT ![j] = pc[j]]
      BY <1>3 DEF BackoffElapses, TypeOK, ConTypeOK
    <2> QED
      BY <1>1, <1>3, <2>1 DEF BackoffElapses
  <1>4. CASE StartRun(j)
    BY <1>1, <1>4 DEF StartRun
  <1>5. CASE Renew(j)
    BY <1>1, <1>5 DEF Renew, RenewConsumerLock, Goto
  <1>6. CASE Acquire(j)
    BY <1>1, <1>6 DEF Acquire, TryAcquireConsumerLock, Goto
  <1>7. ASSUME Step(j), ~Renew(j), ~Acquire(j) PROVE FALSE
    BY <1>1, <1>7 DEF Step, GetCursor, GetEvents, ProcessOk, ProcessError, Advance,
       RetryLater, GiveUp, DeadLetterCursor, DeadLetterEvents, DeadLetterCommit, Reset
  <1> QED
    BY <1>2, <1>3, <1>4, <1>5, <1>6, <1>7

(* Steps that leave the cursor, the batch and the count of failures.       *)
LEMMA OwnQuietStep ==
    ASSUME IInv, IInv', tries \in [Ids -> 0..MaxRetries], CountTries, NEW i \in Inst, OwnOK(i),
           UNCHANGED <<logVars, cursor>>, late = {}, failures'[i] = failures[i],
           pc'[i] # "down",
           pc[i] # "reset" /\ pc[i] # "failed" /\ pc'[i] # "failed",
           pc'[i] \in HasRead => read'[i] = cursor,
           pc'[i] \in HasBatch => \E e \in batch'[i] : First(e),
           pc'[i] \in {"dlCursor", "dlEvents", "dlCommit"} =>
              pc[i] \in {"dlCursor", "dlEvents", "dlCommit"}
    PROVE  OwnOK(i)'
  <1> USE DEF logVars
  <1>1. Counted(i)' = Counted(i) /\ Retried(Counted(i))
    BY DEF OwnOK, Counted
  <1>2. Retried(Counted(i))'
    BY <1>1, CountedStays
  <1>3. \A e : First(e) => First(e)'
    BY FirstStays
  <1> QED
    BY <1>2, <1>3 DEF OwnOK

LEMMA OwnFailedStep ==
    ASSUME IInv, IInv', tries \in [Ids -> 0..MaxRetries], CountTries, NEW i \in Inst, OwnOK(i),
           late = {}, ProcessError(i)
    PROVE  OwnOK(i)'
  <1> USE DEF rowVars, pollVars, memVars, histVars
  <1>1. UNCHANGED <<logVars, cursor, failures>> /\ pc[i] = "process" /\ pc'[i] = "failed"
    BY DEF ProcessError, Leave, IInv, TypeOK, ConTypeOK
  <1>2. failures[i] \in Nat /\ Counted(i) = failures[i] /\ Counted(i)' = failures[i] + 1
    BY <1>1 DEF IInv, TypeOK, ConTypeOK, Counted
  <1>3. PICK e \in batch[i] : First(e)
    BY <1>1 DEF OwnOK, HasBatch
  <1>4. e \in FailedNow
    BY <1>1 DEF FailedNow
  <1>5. e.id \in Ids /\ e \in log
    BY <1>3 DEF First, IInv, TypeOK, LogTypeOK, Event
  <1>6. /\ tries'[e.id] = MaxRetries \/ tries'[e.id] = tries[e.id] + 1
        /\ tries[e.id] \in 0..MaxRetries /\ tries'[e.id] \in 0..MaxRetries
        /\ tries[e.id] <= tries'[e.id]
    BY <1>4, <1>5, TriesGrow
  <1>7. failures[i] = 0 \/ tries[e.id] = MaxRetries \/ tries[e.id] >= failures[i]
    <2> SUFFICES ASSUME failures[i] > 0 PROVE tries[e.id] = MaxRetries \/ tries[e.id] >= failures[i]
      BY <1>2
    <2>1. PICK f \in log : First(f) /\ (tries[f.id] = MaxRetries \/ tries[f.id] >= failures[i])
      BY <1>1, <1>2 DEF OwnOK, Retried
    <2> QED
      BY <1>3, <2>1, FirstUnique
  <1>8. tries'[e.id] = MaxRetries \/ tries'[e.id] >= failures[i] + 1
    BY <1>2, <1>6, <1>7, MaxRetriesAssumption
  <1>9. First(e)' /\ e \in log'
    BY <1>1, <1>3, <1>5, FirstStays DEF logVars
  <1>10. Retried(Counted(i))'
    BY <1>1, <1>8, <1>9 DEF Retried, Counted
  <1> QED
    BY <1>1, <1>10 DEF OwnOK, HasRead, HasBatch

LEMMA OwnStep ==
    ASSUME IInv, IInv', tries \in [Ids -> 0..MaxRetries], CountTries, NEW i \in Inst, OwnOK(i),
           late = {}, faults' = 0,
           Step(i) \/ Disturbance(i) \/ BackoffElapses(i) \/ StartRun(i)
    PROVE  OwnOK(i)'
  <1> USE DEF rowVars, pollVars, memVars, histVars, HasRead, HasBatch
  <1>0. /\ pc \in [Inst -> Labels] /\ read \in [Inst -> Position] /\ batch \in [Inst -> SUBSET Event]
        /\ failures \in [Inst -> Nat] /\ faults \in Nat
    BY DEF IInv, TypeOK, ConTypeOK, Position
  <1>1. CASE Renew(i)
    <2>1. /\ UNCHANGED <<logVars, cursor>> /\ failures'[i] = failures[i] /\ pc[i] = "idle"
          /\ pc'[i] \in {"cursor", "acquire"}
      BY <1>0, <1>1 DEF Renew, RenewConsumerLock, Goto
    <2> QED
      BY <2>1, OwnQuietStep
  <1>2. CASE Acquire(i)
    <2>1. /\ UNCHANGED <<logVars, cursor>> /\ failures'[i] = failures[i] /\ pc[i] = "acquire"
          /\ pc'[i] \in {"cursor", "idle"}
      BY <1>0, <1>2 DEF Acquire, TryAcquireConsumerLock, Goto
    <2> QED
      BY <2>1, OwnQuietStep
  <1>3. CASE GetCursor(i)
    <2>1. /\ UNCHANGED <<logVars, cursor>> /\ failures'[i] = failures[i] /\ pc[i] = "cursor"
          /\ pc'[i] = "events" /\ read'[i] = cursor
      BY <1>0, <1>3 DEF GetCursor, GetConsumerCursor
    <2> QED
      BY <2>1, OwnQuietStep
  <1>4. CASE GetEvents(i)
    <2>1. /\ UNCHANGED <<logVars, cursor>> /\ failures'[i] = failures[i] /\ pc[i] = "events"
          /\ read[i] = cursor
      BY <1>4 DEF GetEvents, OwnOK
    <2>2. CASE GetEventsAfterCursor(read[i]) = {}
      <3>1. pc'[i] \in {"reset", "idle"}
        BY <1>0, <1>4, <2>2 DEF GetEvents, AfterSuccess, Leave
      <3> QED
        BY <2>1, <3>1, OwnQuietStep
    <2>3. CASE GetEventsAfterCursor(read[i]) # {}
      <3>1. pc'[i] = "process" /\ read'[i] = read[i] /\ batch'[i] = GetEventsAfterCursor(cursor)
        BY <1>0, <1>4, <2>1, <2>3 DEF GetEvents
      <3>2. \E e \in batch'[i] : First(e)
        BY <2>1, <2>3, <3>1, BatchHasFirst
      <3> QED
        BY <2>1, <3>1, <3>2, OwnQuietStep
    <2> QED
      BY <2>2, <2>3
  <1>5. CASE ProcessOk(i)
    <2>1. /\ UNCHANGED <<logVars, cursor>> /\ failures'[i] = failures[i] /\ pc[i] = "process"
          /\ pc'[i] = "advance" /\ read'[i] = read[i] /\ batch'[i] = batch[i]
      BY <1>0, <1>5 DEF ProcessOk, Goto
    <2>2. read[i] = cursor /\ \E e \in batch[i] : First(e)
      BY <2>1 DEF OwnOK
    <2> QED
      BY <2>1, <2>2, OwnQuietStep
  <1>6. CASE ProcessError(i)
    BY <1>6, OwnFailedStep
  <1>7. CASE Advance(i)
    <2>1. failures'[i] = failures[i] /\ (pc'[i] = "reset" \/ (pc'[i] = "idle" /\ failures[i] = 0))
      BY <1>0, <1>7 DEF Advance, AfterSuccess, Leave
    <2> QED
      BY <2>1 DEF OwnOK, Retried, Counted
  <1>8. CASE RetryLater(i)
    <2>1. /\ UNCHANGED <<logVars, cursor>> /\ failures'[i] = failures[i] + 1 /\ pc[i] = "failed"
          /\ pc'[i] = "idle"
      BY <1>0, <1>8 DEF RetryLater, UpdateConsumerFailureState, Goto
    <2>2. Counted(i)' = Counted(i) /\ Retried(Counted(i))
      BY <2>1 DEF Counted, OwnOK
    <2>3. Retried(Counted(i))'
      BY <2>1, <2>2, CountedStays DEF logVars
    <2> QED
      BY <2>1, <2>3 DEF OwnOK
  <1>9. CASE GiveUp(i)
    <2>1. /\ UNCHANGED <<logVars, cursor>> /\ failures'[i] = failures[i] + 1 /\ pc[i] = "failed"
          /\ pc'[i] = "dlCursor" /\ MaxRetries > 0 /\ failures[i] + 1 >= MaxRetries
      BY <1>0, <1>9 DEF GiveUp, GivesUp, Goto
    <2>2. Counted(i)' = Counted(i) /\ Retried(Counted(i))
      BY <2>1 DEF Counted, OwnOK
    <2>3. Retried(Counted(i))'
      BY <2>1, <2>2, CountedStays DEF logVars
    <2> QED
      BY <2>1, <2>3 DEF OwnOK
  <1>10. CASE DeadLetterCursor(i)
    <2>1. /\ UNCHANGED <<logVars, cursor>> /\ failures'[i] = failures[i] /\ pc[i] = "dlCursor"
          /\ pc'[i] = "dlEvents" /\ read'[i] = cursor
      BY <1>0, <1>10 DEF DeadLetterCursor, GetConsumerCursor
    <2> QED
      BY <2>1, OwnQuietStep
  <1>11. CASE DeadLetterEvents(i)
    <2>1. /\ UNCHANGED <<logVars, cursor>> /\ failures'[i] = failures[i] /\ pc[i] = "dlEvents"
          /\ read[i] = cursor
      BY <1>11 DEF DeadLetterEvents, OwnOK
    <2>2. CASE GetEventsAfterCursor(read[i]) = {}
      <3>1. pc'[i] = "reset"
        BY <1>0, <1>11, <2>2 DEF DeadLetterEvents, Leave
      <3> QED
        BY <2>1, <3>1, OwnQuietStep
    <2>3. CASE GetEventsAfterCursor(read[i]) # {}
      <3>1. pc'[i] = "dlCommit" /\ read'[i] = read[i] /\ batch'[i] = GetEventsAfterCursor(cursor)
        BY <1>0, <1>11, <2>1, <2>3 DEF DeadLetterEvents
      <3>2. \E e \in batch'[i] : First(e)
        BY <2>1, <2>3, <3>1, BatchHasFirst
      <3> QED
        BY <2>1, <3>1, <3>2, OwnQuietStep
    <2> QED
      BY <2>2, <2>3
  <1>12. CASE DeadLetterCommit(i)
    <2>1. pc'[i] = "reset"
      BY <1>0, <1>12 DEF DeadLetterCommit, Leave
    <2> QED
      BY <2>1 DEF OwnOK
  <1>13. CASE Reset(i)
    <2>1. pc'[i] = "idle" /\ failures'[i] = 0
      BY <1>0, <1>13 DEF Reset, Goto
    <2> QED
      BY <2>1 DEF OwnOK, Retried, Counted
  <1>14. CASE Disturbance(i)
    BY <1>14, NoFault DEF IInv
  <1>15. CASE BackoffElapses(i)
    <2>1. UNCHANGED <<logVars, cursor, pc, read, batch, failures>>
      BY <1>15 DEF BackoffElapses
    <2>2. Counted(i)' = Counted(i)
      BY <2>1 DEF Counted
    <2>3. Retried(Counted(i)) => Retried(Counted(i))'
      BY <2>1, <2>2, CountedStays DEF logVars
    <2>4. \A e : First(e) => First(e)'
      BY <2>1, FirstStays DEF logVars
    <2> QED
      BY <2>1, <2>3, <2>4 DEF OwnOK
  <1>16. CASE StartRun(i)
    BY <1>16 DEF StartRun, OwnOK
  <1> QED
    BY <1>1, <1>2, <1>3, <1>4, <1>5, <1>6, <1>7, <1>8, <1>9, <1>10, <1>11, <1>12,
       <1>13, <1>14, <1>15, <1>16
    DEF Step

(* An instance moves its own program counter only.                         *)
LEMMA OnlyOwnLabel ==
    ASSUME TypeOK, NEW i \in Inst,
           Step(i) \/ Disturbance(i) \/ BackoffElapses(i) \/ StartRun(i)
    PROVE  \A j \in Inst \ {i} : pc'[j] = pc[j]
  <1>1. UNCHANGED pc \/ \E label : pc' = [pc EXCEPT ![i] = label]
    <2>1. CASE Step(i)
      BY <2>1 DEF Step, Renew, Acquire, GetCursor, GetEvents, ProcessOk, ProcessError, Advance,
         RetryLater, GiveUp, DeadLetterCursor, DeadLetterEvents, DeadLetterCommit, Reset,
         Goto, Leave, AfterSuccess
    <2>2. CASE Disturbance(i)
      BY <2>2 DEF Disturbance, LockError, ReadError, AdvanceError, DeadLetterError, Shutdown,
         Crash, Goto, Leave
    <2>3. CASE BackoffElapses(i) \/ StartRun(i)
      BY <2>3 DEF BackoffElapses, StartRun, Goto, pollVars
    <2> QED
      BY <2>1, <2>2, <2>3
  <1> QED
    BY <1>1 DEF TypeOK, ConTypeOK

LEMMA NextTriesOK ==
    ASSUME IInv, IInv', TriesOK, [TriesNext]_triesVars
    PROVE  TriesOK'
  <1>1. CASE UNCHANGED triesVars
    BY <1>1 DEF triesVars, vars, conVars, rowVars, pollVars, memVars, histVars, logVars,
                TriesOK, Solo, SoloOK, OwnOK, Retried, Counted, First
  <1>2. CASE TriesNext
    <2>1. Next /\ CountTries /\ leaders' = leaders \cup ({holder'} \ {NoHolder})
      BY <1>2 DEF TriesNext
    <2>2. tries' \in [Ids -> 0..MaxRetries]
      BY <2>1, TriesGrow DEF TriesOK
    <2>3. holder' \in leaders' \cup {NoHolder}
      BY <2>1
    <2>4. ASSUME NEW i \in Inst, Solo(i)'
          PROVE  SoloOK(i)'
      <3>1. late \subseteq late'
        <4>1. CASE LogNext
          BY <4>1, LogGrows DEF IInv, TypeOK
        <4>2. ASSUME NEW k \in Inst,
                     Step(k) \/ Disturbance(k) \/ BackoffElapses(k) \/ StartRun(k)
              PROVE  late' = late
          BY <4>2, StepType DEF IInv, logVars
        <4>3. CASE LeaseExpires
          BY <4>3 DEF LeaseExpires, logVars
        <4> QED
          BY <2>1, <4>1, <4>2, <4>3 DEF Next
      <3>2. faults = 0
        BY <2>1, <2>4, FaultsGrow DEF IInv, Solo
      <3>3. Solo(i) /\ late' = {}
        BY <2>1, <2>4, <3>1, <3>2 DEF Solo
      <3>4. SoloOK(i) /\ OwnOK(i) /\ tries \in [Ids -> 0..MaxRetries]
        BY <3>3 DEF TriesOK, SoloOK
      <3>5. ASSUME UNCHANGED <<cursor, read, batch, failures>>, pc'[i] = pc[i],
                   LogNext \/ UNCHANGED logVars
            PROVE  OwnOK(i)'
        <4>1. Counted(i)' = Counted(i)
          BY <3>5 DEF Counted
        <4>2. Retried(Counted(i)) => Retried(Counted(i))'
          BY <2>1, <3>3, <3>4, <3>5, <4>1, CountedStays
        <4>3. \A e : First(e) => First(e)'
          BY <3>3, <3>5, FirstStays
        <4> QED
          BY <3>4, <3>5, <4>2, <4>3 DEF OwnOK
      <3>6. CASE (LogNext /\ UNCHANGED conVars) \/ LeaseExpires
        BY <3>4, <3>5, <3>6 DEF LeaseExpires, conVars, rowVars, pollVars, memVars, SoloOK
      <3>7. ASSUME Step(i) \/ Disturbance(i) \/ BackoffElapses(i) \/ StartRun(i)
            PROVE  SoloOK(i)'
        <4>1. OwnOK(i)'
          BY <2>1, <2>4, <3>3, <3>4, <3>7, OwnStep DEF Solo
        <4>2. \A j \in Inst \ {i} : pc'[j] = pc[j]
          BY <3>7, OnlyOwnLabel DEF IInv
        <4> QED
          BY <3>4, <4>1, <4>2 DEF SoloOK
      <3>8. ASSUME NEW j \in Inst \ {i},
                   Step(j) \/ Disturbance(j) \/ BackoffElapses(j) \/ StartRun(j)
            PROVE  SoloOK(i)'
        <4>1. /\ UNCHANGED <<logVars, cursor, read, batch, failures>>
              /\ \E label \in {"idle", "acquire"} : pc' = [pc EXCEPT ![j] = label]
          BY <2>1, <2>4, <3>3, <3>4, <3>8, OthersStep DEF IInv
        <4>2. pc \in [Inst -> Labels]
          BY DEF IInv, TypeOK, ConTypeOK
        <4>3. pc'[i] = pc[i] /\ \A k \in Inst \ {i} : pc'[k] \in {"idle", "acquire"}
          BY <3>4, <4>1, <4>2 DEF SoloOK
        <4>4. OwnOK(i)'
          BY <3>5, <4>1, <4>3
        <4> QED
          BY <4>3, <4>4 DEF SoloOK
      <3> QED
        BY <2>1, <3>6, <3>7, <3>8 DEF Next
    <2> QED
      BY <2>2, <2>3, <2>4 DEF TriesOK
  <1> QED
    BY <1>1, <1>2

(* A poison batch is not given up early: when the only leader so far is    *)
(* about to dead-letter a batch, its oldest event has made ConsumerFunc    *)
(* fail MaxRetries times, for every batch size, retry limit and log that   *)
(* grew in order.                                                          *)
THEOREM PoisonRetried == TriesSpec => []OldestRetried
  <1>1. TriesInit => IInv /\ TriesOK
    <2> SUFFICES ASSUME TriesInit PROVE IInv /\ TriesOK
      OBVIOUS
    <2>1. IInv
      BY InitIInv DEF TriesInit
    <2>2. /\ pc = [i \in Inst |-> "idle"] /\ failures = [i \in Inst |-> 0]
          /\ tries = [id \in Ids |-> 0] /\ holder = NoHolder
      BY DEF TriesInit, Init, ConInit
    <2>3. \A i \in Inst : SoloOK(i)
      BY <2>2 DEF SoloOK, OwnOK, Retried, Counted, HasRead, HasBatch
    <2> QED
      BY <2>1, <2>2, <2>3, MaxRetriesAssumption DEF TriesOK
  <1>2. IInv /\ [TriesNext]_triesVars => IInv'
    BY TriesStepIsStep, NextIInv
  <1>3. IInv /\ IInv' /\ TriesOK /\ [TriesNext]_triesVars => TriesOK'
    BY NextTriesOK
  <1>4. IInv /\ TriesOK => OldestRetried
    <2> SUFFICES ASSUME IInv, TriesOK, NEW i \in Inst,
                        pc[i] = "dlCommit", late = {}, faults = 0, leaders = {i}
                 PROVE  \E e \in batch[i] : /\ \A f \in batch[i] : AtOrBefore(e, f)
                                            /\ tries[e.id] = MaxRetries
      BY DEF OldestRetried
    <2>1. OwnOK(i) /\ tries \in [Ids -> 0..MaxRetries]
      BY DEF TriesOK, Solo, SoloOK
    <2>2. read[i] = cursor /\ MaxRetries > 0 /\ failures[i] >= MaxRetries /\ failures[i] \in Nat
      BY <2>1 DEF OwnOK, HasRead, IInv, TypeOK, ConTypeOK
    <2>3. PICK e \in batch[i] : First(e)
      BY <2>1 DEF OwnOK, HasBatch
    <2>4. \A f \in batch[i] : f \in log /\ Before(cursor, f)
      BY <2>2 DEF IInv, BatchesOK, BatchOK, HasBatch
    <2>5. \A f \in batch[i] : AtOrBefore(e, f)
      BY <2>3, <2>4 DEF First
    <2>6. failures[i] > 0 /\ Counted(i) = failures[i]
      BY <2>2, MaxRetriesAssumption DEF Counted
    <2>7. PICK g \in log : First(g) /\ (tries[g.id] = MaxRetries \/ tries[g.id] >= failures[i])
      BY <2>1, <2>6 DEF OwnOK, Retried
    <2>8. g = e /\ e.id \in Ids
      BY <2>3, <2>7, FirstUnique DEF First, IInv, TypeOK, LogTypeOK, Event
    <2>9. tries[e.id] = MaxRetries
      BY <2>1, <2>2, <2>7, <2>8, MaxRetriesAssumption
    <2> QED
      BY <2>5, <2>9
  <1> QED
    BY <1>1, <1>2, <1>3, <1>4, PTL DEF TriesSpec
=============================================================================
