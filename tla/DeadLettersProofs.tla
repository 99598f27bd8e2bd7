------------------------- MODULE DeadLettersProofs -------------------------
(***************************************************************************)
(* No dead letter is lost, for any number of replays, consumers, letters   *)
(* and faults.  NoLetterLost does not say why a replay may delete a row;   *)
(* the invariant adds that the id a replay is about to delete, which it    *)
(* keeps in memory while purges and other replays go on, is the id of an   *)
(* accepted event.                                                         *)
(***************************************************************************)
EXTENDS DeadLetters, TLAPS

Pending == nextId \in Nat \ {0} /\ done \in [Replayer -> accepted \cup {0}]

LInv == Pending /\ NoLetterLost

-----------------------------------------------------------------------------

(* The empty table loses nothing.                                          *)
LEMMA LInvInit == Init => LInv
  <1> SUFFICES ASSUME Init PROVE LInv
    OBVIOUS
  <1>1. Pending
    BY DEF Init, Pending
  <1>2. NoLetterLost
    BY DEF Init, NoLetterLost
  <1> QED
    BY <1>1, <1>2 DEF LInv

(* A step that leaves nextId alone and accounts for every row it removes   *)
(* loses none: what DELETE and purge have in common.                       *)
LEMMA Accounted ==
  ASSUME NoLetterLost,
         nextId' = nextId,
         accepted \subseteq accepted',
         purged \subseteq purged',
         \A l \in letters : l \in letters' \/ l.id \in accepted' \cup purged'
  PROVE  NoLetterLost'
  <1> SUFFICES ASSUME NEW id \in 1..(nextId - 1)
               PROVE  id \in IdsOf(letters)' \cup accepted' \cup purged'
    BY DEF NoLetterLost
  <1>1. CASE id \in accepted \cup purged
    BY <1>1
  <1>2. CASE id \in IdsOf(letters)
    <2>1. PICK l \in letters : l.id = id
      BY <1>2 DEF IdsOf
    <2> QED
      BY <2>1 DEF IdsOf
  <1> QED
    BY <1>1, <1>2 DEF NoLetterLost

(* InsertDeadLetter adds the row of the next id.                           *)
LEMMA ParkStep ==
  ASSUME LInv, NEW n \in Name, NEW k \in Kind, Park(n, k)
  PROVE  LInv'
  <1>1. PICK t \in Nat : letters' = letters \cup
            {[id |-> nextId, name |-> n, kind |-> k, at |-> t]}
    BY DLBoundAssumption DEF Park
  <1>2. nextId \in Nat \ {0} /\ nextId' = nextId + 1
    BY DEF LInv, Pending, Park
  <1>3. UNCHANGED <<done, accepted, purged>>
    BY DEF Park, histVars
  <1>4. Pending'
    BY <1>2, <1>3 DEF LInv, Pending
  <1>5. ASSUME NEW id \in 1..(nextId' - 1)
        PROVE  id \in IdsOf(letters)' \cup accepted' \cup purged'
    <2>1. CASE id = nextId
      <3> DEFINE new == [id |-> nextId, name |-> n, kind |-> k, at |-> t]
      <3>1. new \in letters' /\ new.id = id
        BY <1>1, <2>1
      <3> HIDE DEF new
      <3> QED
        BY <3>1 DEF IdsOf
    <2>2. CASE id # nextId
      <3>1. id \in 1..(nextId - 1)
        BY <1>2, <2>2
      <3>2. id \in IdsOf(letters) \cup accepted \cup purged
        BY <3>1 DEF LInv, NoLetterLost
      <3> QED
        BY <1>1, <1>3, <3>2 DEF IdsOf
    <2> QED
      BY <2>1, <2>2
  <1> QED
    BY <1>4, <1>5 DEF LInv, NoLetterLost

(* Every action keeps the invariant.                                       *)
LEMMA LInvStep == LInv /\ [Next]_vars => LInv'
  <1> SUFFICES ASSUME LInv, [Next]_vars PROVE LInv'
    OBVIOUS
  <1> USE DEF LInv
  <1>1. ASSUME NEW n \in Name, NEW k \in Kind, Park(n, k)
        PROVE  LInv'
    BY <1>1, ParkStep
  <1>2. ASSUME NEW p \in Replayer, NEW n \in Name, NEW kinds \in SUBSET Kind,
               StartReplay(p, n, kinds)
        PROVE  LInv'
    BY <1>2 DEF StartReplay, histVars, Pending, NoLetterLost, IdsOf
  <1>3. ASSUME NEW p \in Replayer, NEW r \in todo[p], ReplayFails(p, r)
        PROVE  LInv'
    BY <1>3 DEF ReplayFails, TakeRow, Pending, NoLetterLost, IdsOf
  <1>4. ASSUME NEW p \in Replayer, NEW r \in todo[p], ReplayOk(p, r)
        PROVE  LInv'
    <2>1. /\ accepted' = accepted \cup {r.id}
          /\ done' = [done EXCEPT ![p] = r.id]
          /\ UNCHANGED <<letters, nextId, purged>>
      BY <1>4 DEF ReplayOk, TakeRow
    <2>2. Pending'
      BY <2>1 DEF Pending
    <2>3. NoLetterLost'
      BY <2>1, Accounted
    <2> QED
      BY <2>2, <2>3
  <1>5. ASSUME NEW p \in Replayer, DeleteLetter(p)
        PROVE  LInv'
    <2>1. /\ UNCHANGED <<nextId, accepted, purged>>
          /\ done' = [done EXCEPT ![p] = 0]
          /\ letters' = {l \in letters : l.id # done[p]} \/ UNCHANGED letters
      BY <1>5 DEF DeleteLetter, histVars
    <2>2. Pending'
      BY <2>1 DEF Pending
    <2>3. done[p] \in accepted
      BY <1>5 DEF DeleteLetter, Pending
    <2>4. \A l \in letters : l \in letters' \/ l.id \in accepted' \cup purged'
      BY <2>1, <2>3
    <2>5. NoLetterLost'
      BY <2>1, <2>4, Accounted
    <2> QED
      BY <2>2, <2>5
  <1>6. ASSUME NEW p \in Replayer, EndReplay(p)
        PROVE  LInv'
    BY <1>6 DEF EndReplay, histVars, Pending, NoLetterLost, IdsOf
  <1>7. ASSUME NEW p \in Replayer, Crash(p)
        PROVE  LInv'
    <2>1. UNCHANGED <<letters, nextId, accepted, purged>> /\ done' = [done EXCEPT ![p] = 0]
      BY <1>7 DEF Crash, histVars
    <2>2. Pending'
      BY <2>1 DEF Pending
    <2>3. NoLetterLost'
      BY <2>1, Accounted
    <2> QED
      BY <2>2, <2>3
  <1>8. ASSUME NEW t \in 1..MaxTime, Purge(t)
        PROVE  LInv'
    <2>1. /\ purged' = purged \cup IdsOf(letters \ letters')
          /\ UNCHANGED <<nextId, done, accepted>>
      BY <1>8 DEF Purge
    <2>2. \A l \in letters : l \in letters' \/ l.id \in accepted' \cup purged'
      BY <2>1 DEF IdsOf
    <2>3. NoLetterLost'
      BY <2>1, <2>2, Accounted
    <2>4. Pending'
      BY <2>1 DEF Pending
    <2> QED
      BY <2>3, <2>4
  <1>9. CASE UNCHANGED vars
    BY <1>9 DEF vars, histVars, Pending, NoLetterLost, IdsOf
  <1> QED
    BY <1>1, <1>2, <1>3, <1>4, <1>5, <1>6, <1>7, <1>8, <1>9 DEF Next

(* A dead letter that a consumer parked is in the table until ConsumerFunc *)
(* has accepted its event or a purge has removed it, whatever replays of   *)
(* ReplayDeadLetters, purges and crashes overlap.                          *)
THEOREM LettersKept == Spec => []NoLetterLost
  <1>1. LInv => NoLetterLost
    BY DEF LInv
  <1> QED
    BY <1>1, LInvInit, LInvStep, PTL DEF Spec
=============================================================================
