--------------------------- MODULE PipelineProofs ---------------------------
(***************************************************************************)
(* Entity resolution, for every set of extractors, entities, message types *)
(* and values.                                                             *)
(***************************************************************************)
EXTENDS Pipeline, Integers, FiniteSetTheorems, WellFoundedInduction, TLAPS

-----------------------------------------------------------------------------
(* Some element of a set of numbers is the least.                          *)
LEMMA LeastNatural ==
    ASSUME NEW S \in SUBSET Nat, S # {}
    PROVE  \E t \in S : \A u \in S : t <= u
  <1> DEFINE R == OpToRel(<, Nat)
  <1>1. \A x, y \in Nat : x < y => <<x, y>> \in R
    BY DEF OpToRel
  <1>2. IsWellFoundedOn(R, Nat)
    BY NatLessThanWellFounded
  <1> HIDE DEF R
  <1>3. \E t \in S : \A u \in S : <<u, t>> \notin R
    BY <1>2, WFMin
  <1>4. PICK t \in S : \A u \in S : <<u, t>> \notin R
    BY <1>3
  <1>5. \A u \in S : ~(u < t)
    BY <1>1, <1>4
  <1>6. \A u \in S : t <= u
    BY <1>5
  <1> QED
    BY <1>6

(* Induction up to n: what is true of 0 and of every successor of a number *)
(* that it is true of is true of all; P is the set of these numbers.       *)
LEMMA UpTo ==
    ASSUME NEW n \in Nat, NEW P, 0 \in P, \A i \in 1 .. n : i - 1 \in P => i \in P
    PROVE  \A i \in 0 .. n : i \in P
  <1> DEFINE Bad == {i \in 0 .. n : i \notin P}
  <1> SUFFICES ASSUME Bad # {} PROVE FALSE
    OBVIOUS
  <1>1. Bad \in SUBSET Nat
    OBVIOUS
  <1>2. PICK i \in Bad : \A k \in Bad : i <= k
    BY <1>1, LeastNatural
  <1>3. i \in 1 .. n /\ i - 1 \in 0 .. n /\ i - 1 \notin Bad
    BY <1>1, <1>2
  <1> QED
    BY <1>2, <1>3

-----------------------------------------------------------------------------
(* What a merge was decided on.                                            *)

Fields == ToSet(type.fields)

\* What the proofs need of the tables.
RowsOK ==
    /\ type \in Types
    /\ config = MatchConfig(type)
    /\ row = [e \in Entity |-> row[e]]
    /\ \A e \in Entity :
           /\ row[e] = [st |-> row[e].st, version |-> row[e].version,
                        data |-> row[e].data, display |-> row[e].display]
           /\ row[e].version \in Nat
           /\ row[e].st = "live" => DOMAIN row[e].data = Fields

\* A candidate may be out of date, but as long as its version is the one in
\* the table, so is its data.
HeldOK(rows, c) ==
    /\ c.id \in Entity
    /\ c.version \in Nat
    /\ rows[c.id].st # "none"
    /\ rows[c.id].st = "live" =>
           /\ c.version <= rows[c.id].version
           /\ c.version = rows[c.id].version => c.data = rows[c.id].data

\* Nothing was decided to be merged that a human has to look at.
PlanOK(cfg, d, c) == ~hasConflictOps(buildMergePlan(cfg, d, c.data))

\* What an extractor holds: the data, the candidates and the decision.
MatchOK(rows, cfg, fs, p, d, F, dec) ==
    /\ p # "idle" => DOMAIN d = fs
    /\ \A c \in F : HeldOK(rows, c)
    /\ dec.action = "update" =>
           HeldOK(rows, dec.matched) /\ PlanOK(cfg, d, dec.matched) /\ p = "decided"

MatchesOK ==
    /\ pc = [x \in Extractor |-> pc[x]]
    /\ data = [x \in Extractor |-> data[x]]
    /\ found = [x \in Extractor |-> found[x]]
    /\ decision = [x \in Extractor |-> decision[x]]
    /\ \A x \in Extractor :
           MatchOK(row, config, Fields, pc[x], data[x], found[x], decision[x])

MInv == RowsOK /\ MatchesOK

LEMMA InitMInv == Init => MInv
  <1> SUFFICES ASSUME Init PROVE MInv
    OBVIOUS
  <1>1. RowsOK
    BY DEF Init, RowsOK, NoRow
  <1>2. \A x \in Extractor : decision[x].action = "none"
    BY DEF Init, Undecided, Decision
  <1>3. MatchesOK
    BY <1>2 DEF Init, MatchesOK, MatchOK
  <1> QED
    BY <1>1, <1>3 DEF MInv

(* What a query returns is what the table has.                             *)
LEMMA AddedHeld ==
    ASSUME RowsOK, NEW cands, \A c \in cands : HeldOK(row, c), NEW ids, ids \subseteq Live
    PROVE  \A c \in AddUnique(cands, ids) : HeldOK(row, c)
  <1> SUFFICES ASSUME NEW e \in ids PROVE HeldOK(row, Candidate(e))
    BY DEF AddUnique
  <1> QED
    BY DEF RowsOK, Live, Candidate, HeldOK

LEMMA UpdateIsPlanned ==
    ASSUME NEW d, NEW c, UpdateOrConflict(config, d, c).action = "update"
    PROVE  UpdateOrConflict(config, d, c).matched = c /\ PlanOK(config, d, c)
  BY DEF UpdateOrConflict, Decision, PlanOK

(* The short-circuit on anchors takes one of the entities found.           *)
LEMMA AnchorUpdate ==
    ASSUME NEW d, NEW F, F # {}, AnchorDecision(config, d, F).action = "update"
    PROVE  /\ AnchorDecision(config, d, F).matched \in F
           /\ PlanOK(config, d, AnchorDecision(config, d, F).matched)
           /\ Cardinality(F) = 1
  <1> DEFINE c == CHOOSE c \in F : TRUE
  <1>1. c \in F
    OBVIOUS
  <1> HIDE DEF c
  <1>2. Cardinality(F) = 1
    BY DEF AnchorDecision, Decision
  <1>3. AnchorDecision(config, d, F) = UpdateOrConflict(config, d, c)
    BY <1>2 DEF AnchorDecision, c
  <1> QED
    BY <1>1, <1>2, <1>3, UpdateIsPlanned

(* So does the decision by score.                                          *)
LEMMA FuzzyUpdate ==
    ASSUME NEW d, NEW F, NEW dec \in FuzzyDecisions(config, d, F), dec.action = "update"
    PROVE  dec.matched \in F /\ PlanOK(config, d, dec.matched)
  <1>1. F # {}
    BY DEF FuzzyDecisions, Decision
  <1>2. PICK best \in Best(config, d, F) : dec = ScoredDecision(config, d, best)
    BY <1>1 DEF FuzzyDecisions
  <1>3. best \in F
    BY DEF Best
  <1>4. dec = UpdateOrConflict(config, d, best)
    <2> DEFINE score == Score(config, d, best.data)
               low == Less(score, <<config.thresholds.review, 1>>)
               middle == Less(score, <<config.thresholds.auto, 1>>)
    <2>1. ScoredDecision(config, d, best) =
              IF low THEN Decision("create", NoCandidate, NoPlan)
              ELSE IF middle THEN Decision("review", best, NoPlan)
              ELSE UpdateOrConflict(config, d, best)
      BY DEF ScoredDecision
    <2> HIDE DEF score, low, middle
    <2>2. Decision("create", NoCandidate, NoPlan).action = "create"
          /\ Decision("review", best, NoPlan).action = "review"
      BY DEF Decision
    <2> QED
      BY <1>2, <2>1, <2>2
  <1> QED
    BY <1>3, <1>4, UpdateIsPlanned

(* An entity is written once per version, and the version grows.           *)
LEMMA HeldWritten ==
    ASSUME RowsOK, NEW c, HeldOK(row, c), NEW e \in Entity, NEW r,
           row[e].st # "none", r.st # "none",
           r.st = "live" => row[e].st = "live" /\ r.version \in Nat
                            /\ r.version > row[e].version
    PROVE  HeldOK([row EXCEPT ![e] = r], c)
  <1>1. CASE c.id = e
    BY <1>1 DEF HeldOK, RowsOK
  <1>2. CASE c.id # e
    BY <1>2 DEF HeldOK, RowsOK
  <1> QED
    BY <1>1, <1>2

(* A new entity is no candidate yet.                                       *)
LEMMA HeldCreated ==
    ASSUME RowsOK, NEW c, HeldOK(row, c), NEW e \in Entity, NEW r, row[e].st = "none"
    PROVE  HeldOK([row EXCEPT ![e] = r], c)
  BY DEF HeldOK, RowsOK

(* An extractor that does nothing keeps what it holds, whatever happens to *)
(* the entities.                                                           *)
LEMMA OthersOK ==
    ASSUME MInv, UNCHANGED const, \A c : HeldOK(row, c) => HeldOK(row', c),
           NEW y \in Extractor, pc'[y] = pc[y], data'[y] = data[y],
           found'[y] = found[y], decision'[y] = decision[y]
    PROVE  MatchOK(row', config', Fields', pc'[y], data'[y], found'[y], decision'[y])
  <1>1. config' = config /\ Fields' = Fields
    BY DEF const, Fields
  <1>2. MatchOK(row, config, Fields, pc[y], data[y], found[y], decision[y])
    BY DEF MInv, MatchesOK
  <1> QED
    BY <1>1, <1>2 DEF MatchOK

(* The same when an extractor forgets its document.                        *)
LEMMA Forgotten ==
    ASSUME MInv, NEW x \in Extractor, Forget(x), UNCHANGED const,
           \A c : HeldOK(row, c) => HeldOK(row', c)
    PROVE  MatchesOK'
  <1>1. /\ pc' = [y \in Extractor |-> pc'[y]]
        /\ data' = [y \in Extractor |-> data'[y]]
        /\ found' = [y \in Extractor |-> found'[y]]
        /\ decision' = [y \in Extractor |-> decision'[y]]
    BY DEF Forget, MInv, MatchesOK
  <1>2. ASSUME NEW y \in Extractor
        PROVE  MatchOK(row', config', Fields', pc'[y], data'[y], found'[y], decision'[y])
    <2>1. CASE y = x
      <3>1. pc'[y] = "idle" /\ found'[y] = {} /\ decision'[y] = Undecided
        BY <2>1 DEF Forget, MInv, MatchesOK
      <3>2. decision'[y].action # "update"
        BY <3>1 DEF Undecided, Decision
      <3> QED
        BY <3>1, <3>2 DEF MatchOK
    <2>2. CASE y # x
      <3>1. /\ pc'[y] = pc[y] /\ found'[y] = found[y] /\ decision'[y] = decision[y]
            /\ data'[y] = data[y]
        BY <2>2 DEF Forget, MInv, MatchesOK
      <3> QED
        BY <3>1, OthersOK
    <2> QED
      BY <2>1, <2>2
  <1> QED
    BY <1>1, <1>2 DEF MatchesOK

(* A step of one extractor that writes nothing.                            *)
LEMMA Matched ==
    ASSUME MInv, NEW x \in Extractor, UNCHANGED <<const, tables>>,
           NEW p, NEW d, NEW F, NEW dec,
           pc' = [pc EXCEPT ![x] = p], data' = [data EXCEPT ![x] = d],
           found' = [found EXCEPT ![x] = F], decision' = [decision EXCEPT ![x] = dec],
           MatchOK(row, config, Fields, p, d, F, dec)
    PROVE  MInv'
  <1>1. UNCHANGED const /\ row' = row /\ config' = config /\ type' = type /\ Fields' = Fields
    BY DEF const, tables, Fields
  <1>2. RowsOK'
    BY <1>1 DEF MInv, RowsOK
  <1>3. /\ pc' = [y \in Extractor |-> pc'[y]]
        /\ data' = [y \in Extractor |-> data'[y]]
        /\ found' = [y \in Extractor |-> found'[y]]
        /\ decision' = [y \in Extractor |-> decision'[y]]
    BY DEF MInv, MatchesOK
  <1>4. ASSUME NEW y \in Extractor
        PROVE  MatchOK(row', config', Fields', pc'[y], data'[y], found'[y], decision'[y])
    <2>1. CASE y = x
      <3>1. pc'[y] = p /\ found'[y] = F /\ decision'[y] = dec /\ data'[y] = d
        BY <2>1 DEF MInv, MatchesOK
      <3> QED
        BY <1>1, <3>1
    <2>2. CASE y # x
      <3>1. /\ pc'[y] = pc[y] /\ found'[y] = found[y] /\ decision'[y] = decision[y]
            /\ data'[y] = data[y]
        BY <2>2 DEF MInv, MatchesOK
      <3> QED
        BY <1>1, <3>1, OthersOK
    <2> QED
      BY <2>1, <2>2
  <1> QED
    BY <1>2, <1>3, <1>4 DEF MInv, MatchesOK

(* The steps of Match.                                                     *)
LEMMA MatchMInv ==
    ASSUME MInv, NEW x \in Extractor,
           Extract(x) \/ QueryAnchor(x) \/ QueryTokens(x) \/ QueryEmbedding(x)
    PROVE  MInv'
  <1> DEFINE OK(p, d, F, dec) == MatchOK(row, config, Fields, p, d, F, dec)
  <1>1. OK(pc[x], data[x], found[x], decision[x])
    BY DEF MInv, MatchesOK
  <1>2. /\ pc = [y \in Extractor |-> pc[y]]
        /\ data = [y \in Extractor |-> data[y]]
        /\ found = [y \in Extractor |-> found[y]]
        /\ decision = [y \in Extractor |-> decision[y]]
    BY DEF MInv, MatchesOK
  <1>3. RowsOK
    BY DEF MInv
  <1>4. CASE Extract(x)
    <2>1. PICK d \in Documents : data' = [data EXCEPT ![x] = d]
      BY <1>4 DEF Extract
    <2>2. DOMAIN d = Fields
      BY <2>1 DEF Documents, Fields
    <2>3. PICK p : pc' = [pc EXCEPT ![x] = p]
      BY <1>4 DEF Extract
    <2>4. found' = found /\ decision' = decision /\ pc[x] = "idle"
      BY <1>4 DEF Extract
    <2>5. UNCHANGED <<const, tables>>
      BY <1>4 DEF Extract
    <2>6. /\ found' = [found EXCEPT ![x] = found[x]]
          /\ decision' = [decision EXCEPT ![x] = decision[x]]
      BY <1>2, <2>4
    <2>7. OK(p, d, found[x], decision[x])
      BY <1>1, <2>2, <2>4 DEF MatchOK
    <2> QED
      BY <2>1, <2>3, <2>5, <2>6, <2>7, Matched
  <1>5. CASE QueryAnchor(x)
    <2> DEFINE F == FindByAnchors(found[x], Head(queries[x]))
    <2>1. /\ pc[x] = "anchors" /\ found' = [found EXCEPT ![x] = F]
          /\ UNCHANGED <<const, tables>> /\ data' = data
      BY <1>5 DEF QueryAnchor
    <2>2. \A c \in F : HeldOK(row, c)
      BY <1>1, <1>3, AddedHeld DEF MatchOK, FindByAnchors, FindByAnchor, Live
    <2>3. found'[x] = F
      BY <1>2, <2>1
    <2>4. \/ UNCHANGED <<pc, decision>>
          \/ pc' = [pc EXCEPT ![x] = "tokens"] /\ UNCHANGED decision
          \/ /\ F # {} /\ pc' = [pc EXCEPT ![x] = "decided"]
             /\ decision' = [decision EXCEPT ![x] = AnchorDecision(config, data[x], F)]
      BY <1>5, <2>3 DEF QueryAnchor
    <2> HIDE DEF F
    <2>5. data' = [data EXCEPT ![x] = data[x]]
      BY <1>2, <2>1
    <2>6. decision[x].action # "update"
      BY <1>1, <2>1 DEF MatchOK
    <2>7. CASE UNCHANGED <<pc, decision>>
      <3>1. /\ pc' = [pc EXCEPT ![x] = pc[x]]
            /\ decision' = [decision EXCEPT ![x] = decision[x]]
        BY <1>2, <2>7
      <3>2. OK(pc[x], data[x], F, decision[x])
        BY <1>1, <2>2 DEF MatchOK
      <3> QED
        BY <2>1, <2>5, <3>1, <3>2, Matched
    <2>8. CASE pc' = [pc EXCEPT ![x] = "tokens"] /\ UNCHANGED decision
      <3>1. decision' = [decision EXCEPT ![x] = decision[x]]
        BY <1>2, <2>8
      <3>2. OK("tokens", data[x], F, decision[x])
        BY <1>1, <2>1, <2>2, <2>6 DEF MatchOK
      <3> QED
        BY <2>1, <2>5, <2>8, <3>1, <3>2, Matched
    <2>9. CASE /\ F # {} /\ pc' = [pc EXCEPT ![x] = "decided"]
               /\ decision' = [decision EXCEPT ![x] = AnchorDecision(config, data[x], F)]
      <3> DEFINE dec == AnchorDecision(config, data[x], F)
      <3>1. dec.action = "update" => dec.matched \in F /\ PlanOK(config, data[x], dec.matched)
        BY <2>9, AnchorUpdate
      <3>2. decision' = [decision EXCEPT ![x] = dec]
        BY <2>9
      <3> HIDE DEF dec
      <3>3. OK("decided", data[x], F, dec)
        BY <1>1, <2>1, <2>2, <3>1 DEF MatchOK
      <3> QED
        BY <2>1, <2>5, <2>9, <3>2, <3>3, Matched
    <2> QED
      BY <2>4, <2>7, <2>8, <2>9
  <1>6. CASE QueryTokens(x)
    <2>1. /\ pc[x] = "tokens" /\ pc' = [pc EXCEPT ![x] = "embedding"]
          /\ UNCHANGED <<const, tables>> /\ data' = data /\ decision' = decision
      BY <1>6 DEF QueryTokens
    <2>2. /\ data' = [data EXCEPT ![x] = data[x]]
          /\ decision' = [decision EXCEPT ![x] = decision[x]]
      BY <1>2, <2>1
    <2>3. PICK F : found' = [found EXCEPT ![x] = F] /\ \A c \in F : HeldOK(row, c)
      <3>1. CASE UNCHANGED found
        <4>1. found' = [found EXCEPT ![x] = found[x]]
          BY <1>2, <3>1
        <4> QED
          BY <1>1, <4>1 DEF MatchOK
      <3>2. CASE ~ UNCHANGED found
        <4> DEFINE query == flattenTokens(buildTokens(config, data[x]))
        <4>1. \E page \in FindByTokens(query) :
                  found' = [found EXCEPT ![x] = AddUnique(found[x], {r[1] : r \in page})]
          BY <1>6, <3>2 DEF QueryTokens
        <4> HIDE DEF query
        <4>2. PICK page \in FindByTokens(query) :
                  found' = [found EXCEPT ![x] = AddUnique(found[x], {r[1] : r \in page})]
          BY <4>1
        <4>3. page \subseteq TokenRows(query)
          BY <4>2 DEF FindByTokens
        <4>4. {r[1] : r \in page} \subseteq Live
          BY <4>3 DEF TokenRows
        <4>5. \A c \in AddUnique(found[x], {r[1] : r \in page}) : HeldOK(row, c)
          BY <1>1, <1>3, <4>4, AddedHeld DEF MatchOK
        <4> QED
          BY <4>2, <4>5
      <3> QED
        BY <3>1, <3>2
    <2>4. OK("embedding", data[x], F, decision[x])
      BY <1>1, <2>1, <2>3 DEF MatchOK
    <2> QED
      BY <2>1, <2>2, <2>3, <2>4, Matched
  <1>7. CASE QueryEmbedding(x)
    <2>1. /\ pc[x] = "embedding" /\ pc' = [pc EXCEPT ![x] = "decided"]
          /\ UNCHANGED <<const, tables>> /\ data' = data
      BY <1>7 DEF QueryEmbedding
    <2>2. data' = [data EXCEPT ![x] = data[x]]
      BY <1>2, <2>1
    <2>3. PICK F : found' = [found EXCEPT ![x] = F] /\ \A c \in F : HeldOK(row, c)
      <3>1. CASE UNCHANGED found
        <4>1. found' = [found EXCEPT ![x] = found[x]]
          BY <1>2, <3>1
        <4> QED
          BY <1>1, <4>1 DEF MatchOK
      <3>2. CASE ~ UNCHANGED found
        <4>1. PICK near \in FindByEmbedding :
                  found' = [found EXCEPT ![x] = AddUnique(found[x], near)]
          BY <1>7, <3>2 DEF QueryEmbedding
        <4>2. near \subseteq Live
          BY <4>1 DEF FindByEmbedding
        <4>3. \A c \in AddUnique(found[x], near) : HeldOK(row, c)
          BY <1>1, <1>3, <4>2, AddedHeld DEF MatchOK
        <4> QED
          BY <4>1, <4>3
      <3> QED
        BY <3>1, <3>2
    <2>4. found'[x] = F
      BY <1>2, <2>3
    <2>5. PICK dec \in FuzzyDecisions(config, data[x], F) :
              decision' = [decision EXCEPT ![x] = dec]
      BY <1>7, <2>4 DEF QueryEmbedding
    <2>6. dec.action = "update" => dec.matched \in F /\ PlanOK(config, data[x], dec.matched)
      BY <2>5, FuzzyUpdate
    <2>7. OK("decided", data[x], F, dec)
      BY <1>1, <2>1, <2>3, <2>6 DEF MatchOK
    <2> QED
      BY <2>1, <2>2, <2>3, <2>5, <2>7, Matched
  <1> QED
    BY <1>4, <1>5, <1>6, <1>7

(* A merge of the data of a document changes no guarded field of the       *)
(* entity it was planned for.                                              *)
LEMMA MergedData ==
    ASSUME RowsOK, NEW d, DOMAIN d = Fields, NEW old, DOMAIN old = Fields,
           NEW c, c.data = old, PlanOK(config, d, c)
    PROVE  /\ DOMAIN MergeData(old, d) = Fields
           /\ \A f \in Guarded : old[f] # Empty =>
                  NormalizeField(config, f, MergeData(old, d)[f])
                      = NormalizeField(config, f, old[f])
  <1>1. DOMAIN MergeData(old, d) = Fields
    BY DEF MergeData
  <1>2. ASSUME NEW f \in Guarded, old[f] # Empty
        PROVE  NormalizeField(config, f, MergeData(old, d)[f])
                   = NormalizeField(config, f, old[f])
    <2>1. /\ type \in Types /\ config = MatchConfig(type)
          /\ f \in DOMAIN config.strategies /\ config.strategies[f] # "latest_wins"
      BY <1>2 DEF RowsOK, Guarded
    <2>2. DOMAIN config.strategies \subseteq DOMAIN type.opts
      BY <2>1 DEF MatchConfig
    <2>3. f \in Fields
      BY <2>1, <2>2, TypesAssumption DEF IsMessageType, Fields
    <2>4. Value(d, f) = d[f] /\ Value(old, f) = old[f]
      BY <2>3 DEF Value
    <2>5. f \in PlanFields(config)
      BY <2>1 DEF PlanFields
    <2>6. MergeOp(config, f, d[f], old[f]) # "conflict"
      BY <2>4, <2>5 DEF PlanOK, hasConflictOps, buildMergePlan
    <2>7. d[f] = Empty \/ NormalizeField(config, f, d[f]) = NormalizeField(config, f, old[f])
      BY <1>2, <2>1, <2>6 DEF MergeOp
    <2>8. MergeData(old, d)[f] = IF d[f] = Empty THEN old[f] ELSE d[f]
      BY <2>3 DEF MergeData
    <2> QED
      BY <2>7, <2>8
  <1> QED
    BY <1>1, <1>2

(* The row of an entity changes; the type does not.                        *)
LEMMA RowWritten ==
    ASSUME RowsOK, UNCHANGED const, NEW e \in Entity, NEW st, NEW version \in Nat,
           NEW d, NEW display,
           row' = [row EXCEPT ![e] = [st |-> st, version |-> version,
                                      data |-> d, display |-> display]],
           st = "live" => DOMAIN d = Fields
    PROVE  RowsOK'
  <1>1. type' = type /\ config' = config /\ Fields' = Fields
    BY DEF const, Fields
  <1> DEFINE r == [st |-> st, version |-> version, data |-> d, display |-> display]
  <1>2. row'[e] = r /\ \A g \in Entity \ {e} : row'[g] = row[g]
    BY DEF RowsOK
  <1>3. /\ r.st = st /\ r.version = version /\ r.data = d /\ r.display = display
    OBVIOUS
  <1>4. r = [st |-> r.st, version |-> r.version, data |-> r.data, display |-> r.display]
    OBVIOUS
  <1>5. row' = [g \in Entity |-> row'[g]]
    BY DEF RowsOK
  <1> HIDE DEF r
  <1>6. ASSUME NEW g \in Entity
        PROVE  /\ row'[g] = [st |-> row'[g].st, version |-> row'[g].version,
                             data |-> row'[g].data, display |-> row'[g].display]
               /\ row'[g].version \in Nat
               /\ row'[g].st = "live" => DOMAIN row'[g].data = Fields'
    <2>1. CASE g = e
      BY <1>1, <1>2, <1>3, <1>4, <2>1
    <2>2. CASE g # e
      BY <1>1, <1>2, <2>2 DEF RowsOK
    <2> QED
      BY <2>1, <2>2
  <1> QED
    BY <1>1, <1>5, <1>6 DEF RowsOK

(* The caller's steps and the deletions; with them, what a merge may do to *)
(* a live entity.                                                          *)
LEMMA ApplyMInv ==
    ASSUME MInv, NEW x \in Extractor, ApplyCreate(x) \/ ApplyMerge(x) \/ GiveUp(x) \/ MatchFails(x)
    PROVE  MInv'
  <1>1. RowsOK /\ MatchOK(row, config, Fields, pc[x], data[x], found[x], decision[x])
    BY DEF MInv, MatchesOK
  <1>2. CASE ApplyCreate(x)
    <2> DEFINE op == WriteOp(type, data[x], "create")
    <2>1. PICK e \in Entity :
              /\ row[e].st = "none"
              /\ row' = [row EXCEPT ![e] = [st |-> "live", version |-> 0,
                                            data |-> op.data, display |-> op.display]]
      BY <1>2 DEF ApplyCreate, WriteEntity
    <2>2. op.data = data[x]
      BY DEF WriteOp
    <2> HIDE DEF op
    <2>3. pc[x] = "decided" /\ UNCHANGED const /\ Forget(x)
      BY <1>2 DEF ApplyCreate
    <2>4. DOMAIN op.data = Fields
      BY <1>1, <2>2, <2>3 DEF MatchOK
    <2>5. RowsOK'
      BY <1>1, <2>1, <2>3, <2>4, RowWritten
    <2>6. \A c : HeldOK(row, c) => HeldOK(row', c)
      BY <1>1, <2>1, HeldCreated
    <2> QED
      BY <2>3, <2>5, <2>6, Forgotten DEF MInv
  <1>3. CASE ApplyMerge(x)
    <2> DEFINE op == WriteOp(type, data[x], "merge")
               c == decision[x].matched
               merged == MergeData(row[c.id].data, op.data)
    <2>1. /\ pc[x] = "decided" /\ decision[x].action = "update" /\ Current(c)
          /\ row' = [row EXCEPT ![c.id] = [st |-> "live", version |-> c.version + 1,
                                           data |-> merged, display |-> op.display]]
          /\ UNCHANGED const /\ Forget(x)
      BY <1>3 DEF ApplyMerge, WriteEntity
    <2>2. HeldOK(row, c)
      BY <1>1, <2>1 DEF MatchOK
    <2>3. row[c.id].st = "live" /\ row[c.id].version = c.version
      BY <2>1 DEF Current
    <2>4. DOMAIN merged = Fields
      BY <1>1, <2>2, <2>3 DEF MergeData, RowsOK, HeldOK
    <2> DEFINE r == [st |-> "live", version |-> c.version + 1,
                     data |-> merged, display |-> op.display]
    <2>5. r.st = "live" /\ r.version = c.version + 1
      OBVIOUS
    <2>6. row' = [row EXCEPT ![c.id] = r] /\ c.id \in Entity /\ c.version \in Nat
      BY <2>1, <2>2 DEF HeldOK
    <2>7. RowsOK'
      <3>1. c.version + 1 \in Nat
        BY <2>6
      <3>2. UNCHANGED const /\ c.id \in Entity
        BY <2>1, <2>6
      <3>3. row' = [row EXCEPT ![c.id] = [st |-> "live", version |-> c.version + 1,
                                          data |-> merged, display |-> op.display]]
        BY <2>1
      <3> HIDE DEF op, c, merged, r
      <3> QED
        BY <1>1, <2>4, <3>1, <3>2, <3>3, RowWritten
    <2> HIDE DEF op, c, merged, r
    <2>8. ASSUME NEW b, HeldOK(row, b) PROVE HeldOK(row', b)
      <3>1. row[c.id].version \in Nat /\ r.version \in Nat /\ r.version > row[c.id].version
        BY <2>3, <2>5, <2>6
      <3>2. HeldOK([row EXCEPT ![c.id] = r], b)
        BY <1>1, <2>3, <2>5, <2>6, <2>8, <3>1, HeldWritten
      <3> QED
        BY <2>6, <3>2
    <2> QED
      BY <2>1, <2>7, <2>8, Forgotten DEF MInv
  <1>4. CASE GiveUp(x) \/ MatchFails(x)
    <2>1. Forget(x) /\ UNCHANGED <<const, tables>>
      BY <1>4 DEF GiveUp, MatchFails
    <2>2. row' = row /\ type' = type /\ config' = config /\ Fields' = Fields /\ UNCHANGED const
      BY <2>1 DEF const, tables, Fields
    <2>3. RowsOK'
      BY <1>1, <2>2 DEF RowsOK
    <2> QED
      BY <2>1, <2>2, <2>3, Forgotten DEF MInv
  <1> QED
    BY <1>2, <1>3, <1>4

LEMMA Removed ==
    ASSUME MInv, NEW e \in Entity, row[e].st # "none", UNCHANGED <<const, matchVars>>,
           NEW st \in {"deleted", "gone"}, NEW version \in Nat, NEW d, NEW display,
           row' = [row EXCEPT ![e] = [st |-> st, version |-> version,
                                      data |-> d, display |-> display]]
    PROVE  MInv'
  <1>1. RowsOK
    BY DEF MInv
  <1>2. UNCHANGED const /\ UNCHANGED <<pc, data, found, decision>>
    BY DEF matchVars
  <1>3. RowsOK'
    BY <1>1, <1>2, RowWritten
  <1>4. ASSUME NEW c, HeldOK(row, c) PROVE HeldOK(row', c)
    <2> DEFINE r == [st |-> st, version |-> version, data |-> d, display |-> display]
    <2>1. r.st # "none" /\ r.st # "live" /\ row' = [row EXCEPT ![e] = r]
      OBVIOUS
    <2> HIDE DEF r
    <2>2. HeldOK([row EXCEPT ![e] = r], c)
      BY <1>1, <1>4, <2>1, HeldWritten
    <2> QED
      BY <2>1, <2>2
  <1>5. MatchesOK'
    <2>1. ASSUME NEW y \in Extractor
          PROVE  MatchOK(row', config', Fields', pc'[y], data'[y], found'[y], decision'[y])
      BY <1>2, <1>4, OthersOK
    <2> QED
      BY <1>2, <2>1 DEF MInv, MatchesOK
  <1> QED
    BY <1>3, <1>5 DEF MInv

LEMMA DeleteMInv ==
    ASSUME MInv, NEW e \in Entity, DeleteEntity(e) \/ HardDeleteEntity(e)
    PROVE  MInv'
  <1>1. RowsOK
    BY DEF MInv
  <1>2. UNCHANGED <<const, matchVars>> /\ row[e].st # "none"
    BY DEF DeleteEntity, HardDeleteEntity
  <1>3. CASE DeleteEntity(e)
    <2>1. row' = [row EXCEPT ![e] = [row[e] EXCEPT !.st = "deleted"]]
      BY <1>1, <1>3 DEF DeleteEntity, RowsOK
    <2>2. [row[e] EXCEPT !.st = "deleted"] =
              [st |-> "deleted", version |-> row[e].version,
               data |-> row[e].data, display |-> row[e].display]
      BY <1>1 DEF RowsOK
    <2>3. row[e].version \in Nat
      BY <1>1 DEF RowsOK
    <2>4. row' = [row EXCEPT ![e] = [st |-> "deleted", version |-> row[e].version,
                                     data |-> row[e].data, display |-> row[e].display]]
      BY <2>1, <2>2
    <2> QED
      BY <1>2, <2>3, <2>4, Removed
  <1>4. CASE HardDeleteEntity(e)
    <2>1. [NoRow EXCEPT !.st = "gone"] =
              [st |-> "gone", version |-> 0, data |-> <<>>, display |-> Empty]
      BY DEF NoRow
    <2>2. row' = [row EXCEPT ![e] = [st |-> "gone", version |-> 0,
                                     data |-> <<>>, display |-> Empty]]
      BY <1>4, <2>1 DEF HardDeleteEntity
    <2> QED
      BY <1>2, <2>2, Removed
  <1> QED
    BY <1>3, <1>4

LEMMA NextMInv == MInv /\ [Next]_vars => MInv'
  <1> SUFFICES ASSUME MInv, [Next]_vars PROVE MInv'
    OBVIOUS
  <1>1. CASE Next
    BY <1>1, MatchMInv, ApplyMInv, DeleteMInv DEF Next
  <1>2. CASE UNCHANGED vars
    <2>1. UNCHANGED <<type, config, row, pc, data, found, decision>>
      BY <1>2 DEF vars, const, tables, matchVars
    <2>2. Fields' = Fields
      BY <2>1 DEF Fields
    <2> QED
      BY <2>1, <2>2 DEF MInv, RowsOK, MatchesOK
  <1> QED
    BY <1>1, <1>2

GuardedKept ==
    \A e \in Entity : \A f \in Guarded :
        row[e].st = "live" /\ row'[e].st = "live" /\ row[e].data[f] # Empty
        => NormalizeField(config, f, row'[e].data[f])
             = NormalizeField(config, f, row[e].data[f])

LEMMA MergeKeeps ==
    ASSUME MInv, NEW x \in Extractor, ApplyMerge(x)
    PROVE  GuardedKept
  <1> DEFINE op == WriteOp(type, data[x], "merge")
             c == decision[x].matched
             merged == MergeData(row[c.id].data, op.data)
  <1>1. /\ pc[x] = "decided" /\ decision[x].action = "update" /\ Current(c)
        /\ row' = [row EXCEPT ![c.id] = [st |-> "live", version |-> c.version + 1,
                                         data |-> merged, display |-> op.display]]
    BY DEF ApplyMerge, WriteEntity
  <1>2. RowsOK /\ MatchOK(row, config, Fields, pc[x], data[x], found[x], decision[x])
    BY DEF MInv, MatchesOK
  <1>3. HeldOK(row, c) /\ PlanOK(config, data[x], c) /\ DOMAIN data[x] = Fields
    BY <1>1, <1>2 DEF MatchOK
  <1>4. /\ c.id \in Entity /\ row[c.id].st = "live"
        /\ c.data = row[c.id].data
    BY <1>1, <1>3 DEF HeldOK, Current
  <1>5. DOMAIN row[c.id].data = Fields
    BY <1>2, <1>4 DEF RowsOK
  <1>6. op.data = data[x]
    BY DEF WriteOp
  <1>7. \A f \in Guarded : row[c.id].data[f] # Empty =>
            NormalizeField(config, f, merged[f]) = NormalizeField(config, f, row[c.id].data[f])
    <2> HIDE DEF c, op
    <2>1. \A f \in Guarded : row[c.id].data[f] # Empty =>
              NormalizeField(config, f, MergeData(row[c.id].data, data[x])[f])
                  = NormalizeField(config, f, row[c.id].data[f])
      BY <1>2, <1>3, <1>4, <1>5, MergedData
    <2> QED
      BY <1>6, <2>1 DEF merged
  <1>8. row'[c.id].data = merged /\ \A e \in Entity \ {c.id} : row'[e] = row[e]
    BY <1>1, <1>2, <1>4 DEF RowsOK
  <1> HIDE DEF c, merged
  <1> QED
    BY <1>7, <1>8 DEF GuardedKept

LEMMA StepKeeps ==
    ASSUME MInv, [Next]_vars
    PROVE  GuardedKept
  <1>1. ASSUME row' = row PROVE GuardedKept
    BY <1>1 DEF GuardedKept
  <1>2. RowsOK
    BY DEF MInv
  <1>3. ASSUME NEW x \in Extractor,
               Extract(x) \/ QueryAnchor(x) \/ QueryTokens(x) \/ QueryEmbedding(x)
                   \/ MatchFails(x) \/ GiveUp(x)
        PROVE  GuardedKept
    <2>1. row' = row
      BY <1>3 DEF Extract, QueryAnchor, QueryTokens, QueryEmbedding, MatchFails, GiveUp, tables
    <2> QED
      BY <1>1, <2>1
  <1>4. ASSUME NEW x \in Extractor, ApplyCreate(x) PROVE GuardedKept
    <2>1. PICK e \in Entity : row[e].st = "none" /\ \E r : row' = [row EXCEPT ![e] = r]
      BY <1>4 DEF ApplyCreate, WriteEntity
    <2>2. \A g \in Entity : row[g].st = "live" => row'[g] = row[g]
      BY <1>2, <2>1 DEF RowsOK
    <2> QED
      BY <2>2 DEF GuardedKept
  <1>5. ASSUME NEW e \in Entity, DeleteEntity(e) \/ HardDeleteEntity(e) PROVE GuardedKept
    <2>1. \A g \in Entity \ {e} : row'[g] = row[g]
      BY <1>2, <1>5 DEF DeleteEntity, HardDeleteEntity, RowsOK
    <2>2. row'[e].st # "live"
      <3>1. CASE DeleteEntity(e)
        <4>1. row'[e] = [row[e] EXCEPT !.st = "deleted"]
          BY <1>2, <3>1 DEF DeleteEntity, RowsOK
        <4> QED
          BY <1>2, <4>1 DEF RowsOK
      <3>2. CASE HardDeleteEntity(e)
        BY <1>2, <3>2 DEF HardDeleteEntity, NoRow, RowsOK
      <3> QED
        BY <1>5, <3>1, <3>2
    <2> QED
      BY <2>1, <2>2 DEF GuardedKept
  <1>6. CASE UNCHANGED vars
    BY <1>1, <1>6 DEF vars, tables
  <1> QED
    BY <1>3, <1>4, <1>5, <1>6, MergeKeeps DEF Next

(* No automatic step replaces the value of a field that a human or a       *)
(* confidence has to decide about (buildMergePlan), although other         *)
(* extractors write between the query and the merge: the version that the  *)
(* merge expects is that of the data its plan was made from.               *)
THEOREM GuardedFieldsKept == Spec => NoGuardedOverwrite
  <1>1. Init => MInv
    BY InitMInv
  <1>2. MInv /\ [Next]_vars => MInv'
    BY NextMInv
  <1>3. MInv /\ [Next]_vars => [GuardedKept]_vars
    BY StepKeeps
  <1> QED
    BY <1>1, <1>2, <1>3, PTL DEF Spec, NoGuardedOverwrite, GuardedKept

-----------------------------------------------------------------------------
(* Which entity an anchor identifies.                                      *)

\* The anchors of data that Match looks up and a write stores.
SingleKeys(ty, d) ==
    {Anchor(<<f>>, "", Normalize(NormalizerOf(ty, f), d[f])) :
        f \in {g \in DOMAIN ty.opts :
                  /\ ty.opts[g].anchor /\ d[g] # Empty
                  /\ Normalize(NormalizerOf(ty, g), d[g]) # Empty}}

Points(table, q, e) == q \in DOMAIN table /\ table[q] = e

\* What the table of anchors has of every live entity.
OwnersOK(rows, table, ty) ==
    \A e \in Entity : rows[e].st = "live" =>
        \A q \in SingleKeys(ty, rows[e].data) : Points(table, q, e)

\* What a match knows of the live entity e that the anchor q of its data points
\* to: it will ask for it, or it has found it; once it has no more questions, e
\* can only be the entity it is going to update.
Settled(p, Q, F, dec, q, e) ==
    /\ p = "anchors" => q \in ToSet(Q) \/ \E c \in F : c.id = e
    /\ p \notin {"tokens", "embedding"}
    /\ p = "decided" =>
           dec.action # "create" /\ (dec.action = "update" => dec.matched.id = e)

SettledOK(rows, table, ty, p, d, Q, F, dec) ==
    p # "idle" =>
        \A e \in Entity : rows[e].st = "live" =>
            \A q \in SingleKeys(ty, d) : Points(table, q, e) => Settled(p, Q, F, dec, q, e)

\* The state of a match.
StageOK(p, Q, F) ==
    /\ p = "idle" => F = {}
    /\ p = "anchors" => Q # <<>> /\ Q \in Seq(ToSet(Q)) /\ IsFiniteSet(F)

StagesOK ==
    /\ anchorOf = [a \in DOMAIN anchorOf |-> anchorOf[a]]
    /\ queries = [x \in Extractor |-> queries[x]]
    /\ \A x \in Extractor : StageOK(pc[x], queries[x], found[x])

Alone == \A x, y \in Extractor : pc[x] # "idle" /\ pc[y] # "idle" => x = y

AloneOK ==
    ~overlapped =>
        /\ Alone
        /\ OwnersOK(row, anchorOf, type)
        /\ \A x \in Extractor :
               SettledOK(row, anchorOf, type, pc[x], data[x], queries[x], found[x], decision[x])

AInv == MInv /\ StagesOK /\ overlapped \in BOOLEAN /\ AloneOK

-----------------------------------------------------------------------------
(* The loop that selects elements satisfies its equation.                  *)

LEMMA SelectedEquation ==
    ASSUME NEW T, NEW s \in Seq(T), NEW S
    PROVE  \A i \in 0 .. Len(s) :
               Selected(s, S)[i] =
                   IF i = 0 THEN <<>>
                   ELSE IF s[i] \in S THEN Append(Selected(s, S)[i - 1], s[i])
                   ELSE Selected(s, S)[i - 1]
  <1> DEFINE Step(g, i) == IF s[i] \in S THEN Append(g[i - 1], s[i]) ELSE g[i - 1]
             Upto(g, n) == g = [i \in 0 .. n |-> IF i = 0 THEN <<>> ELSE
                                    IF s[i] \in S THEN Append(g[i - 1], s[i]) ELSE g[i - 1]]
             Bad == {n \in Nat : ~\E g : Upto(g, n)}
  <1>1. ASSUME NEW n \in Nat, NEW g, Upto(g, n)
        PROVE  \E h : Upto(h, n + 1)
    <2> DEFINE last == IF s[n + 1] \in S THEN Append(g[n], s[n + 1]) ELSE g[n]
               h == [i \in 0 .. (n + 1) |-> IF i = n + 1 THEN last ELSE g[i]]
    <2>1. \A i \in 0 .. n : h[i] = g[i] /\ g[i] = IF i = 0 THEN <<>> ELSE Step(g, i)
      <3>1. \A i \in 0 .. n : h[i] = g[i]
        <4> HIDE DEF last
        <4> QED
          OBVIOUS
      <3> HIDE DEF h
      <3>2. ASSUME NEW i \in 0 .. n PROVE g[i] = IF i = 0 THEN <<>> ELSE Step(g, i)
        <4> DEFINE body(j) == IF j = 0 THEN <<>> ELSE Step(g, j)
        <4>1. g = [j \in 0 .. n |-> body(j)]
          BY <1>1
        <4> HIDE DEF body
        <4>2. g[i] = body(i)
          BY <4>1
        <4> QED
          BY <4>2 DEF body
      <3> QED
        BY <3>1, <3>2
    <2>2. h[n + 1] = last
      OBVIOUS
    <2>3. ASSUME NEW i \in 0 .. (n + 1)
          PROVE  h[i] = IF i = 0 THEN <<>> ELSE Step(h, i)
      <3> HIDE DEF h
      <3>1. CASE i = n + 1
        <4>1. i - 1 = n /\ n \in 0 .. n
          BY <3>1
        <4> QED
          BY <2>1, <2>2, <3>1, <4>1
      <3>2. CASE i # n + 1
        <4>1. i \in 0 .. n /\ (i = 0 \/ i - 1 \in 0 .. n)
          BY <3>2
        <4> QED
          BY <2>1, <4>1
      <3> QED
        BY <3>1, <3>2
    <2>4. Upto(h, n + 1)
      BY <2>3
    <2> QED
      BY <2>4
  <1>2. \E g : Upto(g, 0)
    <2>1. Upto([i \in 0 .. 0 |-> <<>>], 0)
      OBVIOUS
    <2> QED
      BY <2>1
  <1> HIDE DEF Upto
  <1>3. Bad = {}
    <2> SUFFICES ASSUME Bad # {} PROVE FALSE
      OBVIOUS
    <2>1. PICK n \in Bad : \A m \in Bad : n <= m
      BY LeastNatural
    <2>2. n \in Nat /\ n # 0
      BY <1>2
    <2>3. n - 1 \in Nat /\ n - 1 \notin Bad /\ n = (n - 1) + 1
      BY <2>1, <2>2
    <2> QED
      BY <1>1, <2>3
  <1>4. \E g : Upto(g, Len(s))
    <2>1. Len(s) \in Nat
      OBVIOUS
    <2> QED
      BY <1>3, <2>1
  <1>5. Upto(CHOOSE g : Upto(g, Len(s)), Len(s))
    BY <1>4, Zenon
  <1>6. Selected(s, S) = CHOOSE g : Upto(g, Len(s))
    BY Zenon DEF Selected, Upto
  <1>7. Upto(Selected(s, S), Len(s))
    BY <1>5, <1>6, Zenon
  <1> QED
    BY <1>7 DEF Upto

(* What it selects.                                                        *)
LEMMA SelectIs ==
    ASSUME NEW T, NEW s \in Seq(T), NEW S
    PROVE  Select(s, S) \in Seq(T) /\ ToSet(Select(s, S)) = ToSet(s) \cap S
  <1> DEFINE K == Selected(s, S)
             upTo(i) == {s[j] : j \in 1 .. i} \cap S
             OK(i) == K[i] \in Seq(T) /\ ToSet(K[i]) = upTo(i)
             Bad == {i \in 0 .. Len(s) : ~OK(i)}
  <1>1. \A i \in 0 .. Len(s) : K[i] = IF i = 0 THEN <<>>
            ELSE IF s[i] \in S THEN Append(K[i - 1], s[i]) ELSE K[i - 1]
    BY SelectedEquation
  <1> HIDE DEF K
  <1>2. OK(0)
    <2>1. K[0] = <<>>
      BY <1>1
    <2>2. ToSet(<<>>) = {}
      BY DEF ToSet
    <2> QED
      BY <2>1, <2>2
  <1>3. ASSUME NEW i \in 1 .. Len(s), OK(i - 1) PROVE OK(i)
    <2>1. K[i] = IF s[i] \in S THEN Append(K[i - 1], s[i]) ELSE K[i - 1]
      BY <1>1
    <2>2. upTo(i) = upTo(i - 1) \cup ({s[i]} \cap S)
      OBVIOUS
    <2>3. s[i] \in T
      OBVIOUS
    <2>4. CASE s[i] \in S
      <3>1. K[i - 1] \in Seq(T) /\ K[i] = Append(K[i - 1], s[i])
        BY <1>3, <2>1, <2>4
      <3>2. ToSet(Append(K[i - 1], s[i])) = ToSet(K[i - 1]) \cup {s[i]}
        <4> DEFINE k == K[i - 1]
        <4>1. ASSUME NEW t \in Seq(T) PROVE ToSet(Append(t, s[i])) = ToSet(t) \cup {s[i]}
          <5>1. DOMAIN Append(t, s[i]) = 1 .. (Len(t) + 1) /\ DOMAIN t = 1 .. Len(t)
            OBVIOUS
          <5>2. /\ \A j \in 1 .. Len(t) : Append(t, s[i])[j] = t[j]
                /\ Append(t, s[i])[Len(t) + 1] = s[i]
            OBVIOUS
          <5> QED
            BY <5>1, <5>2 DEF ToSet
        <4> QED
          BY <3>1, <4>1
      <3>3. Append(K[i - 1], s[i]) \in Seq(T)
        BY <2>3, <3>1
      <3> QED
        BY <1>3, <2>2, <2>4, <3>1, <3>2, <3>3
    <2>5. CASE s[i] \notin S
      BY <1>3, <2>1, <2>2, <2>5
    <2> QED
      BY <2>4, <2>5
  <1>4. Bad = {}
    <2> HIDE DEF OK
    <2> SUFFICES ASSUME Bad # {} PROVE FALSE
      OBVIOUS
    <2>1. Bad \in SUBSET Nat
      OBVIOUS
    <2>2. PICK n \in Bad : \A m \in Bad : n <= m
      BY <2>1, LeastNatural
    <2>3. n # 0 /\ n \in 0 .. Len(s)
      BY <1>2, <2>2
    <2>4. n \in 1 .. Len(s) /\ n - 1 \in 0 .. Len(s) /\ n - 1 \notin Bad
      BY <2>1, <2>2, <2>3
    <2> QED
      BY <1>3, <2>2, <2>4
  <1>5. OK(Len(s))
    <2>1. Len(s) \in 0 .. Len(s)
      OBVIOUS
    <2> HIDE DEF OK
    <2> QED
      BY <1>4, <2>1
  <1>6. ToSet(s) = {s[j] : j \in 1 .. Len(s)}
    BY DEF ToSet
  <1> QED
    BY <1>5, <1>6 DEF Select, K

(* A function on the positions of a sequence is a sequence.                *)
LEMMA IndexedSeq ==
    ASSUME NEW T, NEW s \in Seq(T), NEW t, t = [i \in DOMAIN s |-> t[i]]
    PROVE  t \in Seq(ToSet(t))
  <1>1. DOMAIN t = 1 .. Len(s) /\ Len(s) \in Nat
    OBVIOUS
  <1>2. t \in [1 .. Len(s) -> ToSet(t)]
    BY <1>1 DEF ToSet
  <1> QED
    BY <1>1, <1>2

(* A sequence is one of its own elements.                                  *)
LEMMA OwnElements ==
    ASSUME NEW T, NEW s \in Seq(T)
    PROVE  s \in Seq(ToSet(s))
  <1>1. s = [i \in DOMAIN s |-> s[i]]
    OBVIOUS
  <1> QED
    BY <1>1, IndexedSeq

(* The single anchors that Match asks for, as Codegen configures them, are *)
(* those that a write stores, but for empty ones.                          *)
LEMMA SingleQueriesAre ==
    ASSUME NEW ty, IsMessageType(ty), NEW d, DOMAIN d = ToSet(ty.fields)
    PROVE  /\ SingleQueries(MatchConfig(ty), d) \in Seq(ToSet(SingleQueries(MatchConfig(ty), d)))
           /\ ToSet(SingleQueries(MatchConfig(ty), d)) = SingleKeys(ty, d)
  <1> DEFINE A == {f \in DOMAIN ty.opts : ty.opts[f].anchor}
             anchors == Annotated(ty, A)
             singles == [i \in DOMAIN anchors |-> AnchorField(ty, anchors[i])]
             query(a) == Anchor(<<a.field>>, "", Normalize(a.normalizer, Value(d, a.field)))
             usable == {a \in ToSet(singles) : Value(d, a.field) # Empty /\ query(a).value # Empty}
             fs == Select(singles, usable)
             Q == [i \in DOMAIN fs |-> query(fs[i])]
  <1>1. MatchConfig(ty).singles = singles
    BY DEF MatchConfig
  <1>2. SingleQueries(MatchConfig(ty), d) = Q
    BY <1>1 DEF SingleQueries
  <1>3. A \subseteq ToSet(ty.fields) /\ ty.fields \in Seq(FieldName)
    BY DEF IsMessageType
  <1>4. anchors \in Seq(FieldName) /\ ToSet(anchors) = A
    <2> HIDE DEF A
    <2>1. Select(ty.fields, A) \in Seq(FieldName)
          /\ ToSet(Select(ty.fields, A)) = ToSet(ty.fields) \cap A
      BY <1>3, SelectIs
    <2> QED
      BY <1>3, <2>1 DEF Annotated
  <1> HIDE DEF anchors
  <1>5. singles \in Seq(ToSet(singles)) /\ ToSet(singles) = {AnchorField(ty, f) : f \in A}
    <2>1. singles \in Seq(ToSet(singles))
      BY <1>4, IndexedSeq
    <2>2. ToSet(singles) = {AnchorField(ty, anchors[i]) : i \in DOMAIN anchors}
      BY DEF ToSet
    <2>3. A = {anchors[i] : i \in DOMAIN anchors}
      BY <1>4 DEF ToSet
    <2> HIDE DEF A, singles
    <2> QED
      BY <2>1, <2>2, <2>3
  <1> HIDE DEF singles, A
  <1>6. fs \in Seq(ToSet(singles)) /\ ToSet(fs) = usable
    <2>1. fs \in Seq(ToSet(singles)) /\ ToSet(fs) = ToSet(singles) \cap usable
      BY <1>5, SelectIs
    <2> QED
      BY <2>1
  <1> HIDE DEF fs
  <1>7. Q \in Seq(ToSet(Q)) /\ ToSet(Q) = {query(a) : a \in usable}
    <2>1. Q \in Seq(ToSet(Q))
      BY <1>6, IndexedSeq
    <2>2. ToSet(Q) = {query(fs[i]) : i \in DOMAIN fs}
      BY DEF ToSet
    <2>3. usable = {fs[i] : i \in DOMAIN fs}
      BY <1>6 DEF ToSet
    <2> HIDE DEF Q, usable, query
    <2> QED
      BY <2>1, <2>2, <2>3
  <1> HIDE DEF Q
  <1>8. \A f \in A : /\ AnchorField(ty, f).field = f
                     /\ AnchorField(ty, f).normalizer = NormalizerOf(ty, f)
                     /\ Value(d, f) = d[f]
    BY <1>3 DEF AnchorField, Value
  <1>9. \A f \in A : query(AnchorField(ty, f))
                         = Anchor(<<f>>, "", Normalize(NormalizerOf(ty, f), d[f]))
    BY <1>8
  <1>10. \A f \in A : query(AnchorField(ty, f)).value = Normalize(NormalizerOf(ty, f), d[f])
    BY <1>9 DEF Anchor
  <1> DEFINE B == {f \in A : d[f] # Empty /\ Normalize(NormalizerOf(ty, f), d[f]) # Empty}
  <1>11. usable = {AnchorField(ty, f) : f \in B}
    <2> HIDE DEF query
    <2> QED
      BY <1>5, <1>8, <1>10
  <1>12. {query(a) : a \in usable}
             = {Anchor(<<f>>, "", Normalize(NormalizerOf(ty, f), d[f])) : f \in B}
    <2> HIDE DEF usable, B, query
    <2>1. B \subseteq A
      BY DEF B
    <2>2. \A f \in B : query(AnchorField(ty, f))
                           = Anchor(<<f>>, "", Normalize(NormalizerOf(ty, f), d[f]))
      BY <1>9, <2>1
    <2> QED
      BY <1>11, <2>2
  <1>13. SingleKeys(ty, d) = {Anchor(<<f>>, "", Normalize(NormalizerOf(ty, f), d[f])) : f \in B}
    <2>1. B = {g \in DOMAIN ty.opts :
                  /\ ty.opts[g].anchor /\ d[g] # Empty
                  /\ Normalize(NormalizerOf(ty, g), d[g]) # Empty}
      BY DEF A
    <2> HIDE DEF B
    <2> QED
      BY <2>1 DEF SingleKeys
  <1> QED
    BY <1>2, <1>7, <1>12, <1>13

(* All queries, composite ones after the single ones.                      *)
LEMMA QueriesAre ==
    ASSUME NEW ty, IsMessageType(ty), NEW d, DOMAIN d = ToSet(ty.fields)
    PROVE  /\ buildAnchors(MatchConfig(ty), d) \in Seq(ToSet(buildAnchors(MatchConfig(ty), d)))
           /\ SingleKeys(ty, d) \subseteq ToSet(buildAnchors(MatchConfig(ty), d))
  <1> DEFINE cfg == MatchConfig(ty)
             P == SingleQueries(cfg, d)
             Q == CompositeQueries(cfg, d)
  <1>1. P \in Seq(ToSet(P)) /\ ToSet(P) = SingleKeys(ty, d)
    BY SingleQueriesAre
  <1>2. Q \in Seq(ToSet(Q))
    <2> DEFINE names(c) == [i \in DOMAIN c |-> c[i].field]
               norm(c, i) == Normalize(c[i].normalizer, Value(d, c[i].field))
               complete == {c \in ToSet(cfg.composites) :
                               c # <<>> /\ \A i \in DOMAIN c : Value(d, c[i].field) # Empty}
               cs == Select(cfg.composites, complete)
               val(c) == Join([i \in DOMAIN c |-> norm(c, i)], <<"|">>)
    <2>1. Q = [k \in DOMAIN cs |-> Anchor(names(cs[k]), "|", val(cs[k]))]
      BY DEF CompositeQueries
    <2>2. cfg.composites = [i \in DOMAIN ty.composites |->
                               [j \in DOMAIN ty.composites[i] |->
                                   AnchorField(ty, ty.composites[i][j])]]
      BY DEF MatchConfig
    <2>3. ty.composites \in Seq(Seq(FieldName))
      BY DEF IsMessageType
    <2>4. cfg.composites = [i \in DOMAIN ty.composites |-> cfg.composites[i]]
      BY <2>2
    <2>5. cfg.composites \in Seq(ToSet(cfg.composites))
      <3> HIDE DEF cfg
      <3> QED
        BY <2>3, <2>4, IndexedSeq
    <2> HIDE DEF cfg, complete
    <2>6. cs \in Seq(ToSet(cfg.composites))
      BY <2>5, SelectIs
    <2> HIDE DEF cs, names, val, Q
    <2>7. Q = [k \in DOMAIN cs |-> Q[k]]
      BY <2>1
    <2> QED
      BY <2>6, <2>7, IndexedSeq
  <1>3. buildAnchors(cfg, d) = P \o Q
    BY DEF buildAnchors
  <1> HIDE DEF P, Q
  <1>4. ASSUME NEW S, NEW T, NEW s \in Seq(S), NEW t \in Seq(T)
        PROVE  s \o t \in Seq(ToSet(s \o t)) /\ ToSet(s) \subseteq ToSet(s \o t)
    <2>1. s \o t \in Seq(S \cup T)
      <3>1. s \in Seq(S \cup T) /\ t \in Seq(S \cup T)
        OBVIOUS
      <3> QED
        BY <3>1
    <2>2. s \o t \in Seq(ToSet(s \o t))
      BY <2>1, OwnElements
    <2>3. DOMAIN s = 1 .. Len(s) /\ DOMAIN (s \o t) = 1 .. (Len(s) + Len(t))
          /\ Len(s) \in Nat /\ Len(t) \in Nat
      OBVIOUS
    <2>4. \A i \in 1 .. Len(s) : (s \o t)[i] = s[i]
      OBVIOUS
    <2>5. ToSet(s) \subseteq ToSet(s \o t)
      BY <2>3, <2>4 DEF ToSet
    <2> QED
      BY <2>2, <2>5
  <1> QED
    BY <1>1, <1>2, <1>3, <1>4

-----------------------------------------------------------------------------
(* The invariant.                                                          *)

LEMMA InitAInv == Init => AInv
  <1> SUFFICES ASSUME Init PROVE AInv
    OBVIOUS
  <1>1. MInv
    BY InitMInv
  <1>2. StagesOK
    BY FS_EmptySet DEF Init, StagesOK, StageOK
  <1>3. overlapped \in BOOLEAN
    BY DEF Init
  <1>4. AloneOK
    <2>1. Alone
      BY DEF Init, Alone
    <2>2. OwnersOK(row, anchorOf, type)
      BY DEF Init, OwnersOK, NoRow
    <2>3. \A x \in Extractor : pc[x] = "idle"
      BY DEF Init
    <2> QED
      BY <2>1, <2>2, <2>3 DEF AloneOK, SettledOK
  <1> QED
    BY <1>1, <1>2, <1>3, <1>4 DEF AInv

(* A step of one extractor that writes nothing.  If matches do not overlap *)
(* the others are idle.                                                    *)
LEMMA Asked ==
    ASSUME AInv, MInv', NEW x \in Extractor, UNCHANGED <<const, tables>>,
           NEW p, NEW d, NEW Q, NEW F, NEW dec,
           pc' = [pc EXCEPT ![x] = p], data' = [data EXCEPT ![x] = d],
           queries' = [queries EXCEPT ![x] = Q],
           found' = [found EXCEPT ![x] = F], decision' = [decision EXCEPT ![x] = dec],
           StageOK(p, Q, F), overlapped' \in BOOLEAN,
           ~overlapped' => ~overlapped /\ \A y \in Extractor \ {x} : pc[y] = "idle",
           ~overlapped' => SettledOK(row, anchorOf, type, p, d, Q, F, dec)
    PROVE  AInv'
  <1>1. row' = row /\ anchorOf' = anchorOf /\ type' = type
    BY DEF const, tables
  <1>2. MInv /\ StagesOK /\ MatchesOK
    BY DEF AInv, MInv
  <1>3. pc'[x] = p /\ data'[x] = d /\ queries'[x] = Q /\ found'[x] = F /\ decision'[x] = dec
    BY <1>2 DEF MatchesOK, StagesOK
  <1>4. \A y \in Extractor \ {x} : pc'[y] = pc[y] /\ queries'[y] = queries[y] /\ found'[y] = found[y]
    BY <1>2 DEF MatchesOK, StagesOK
  <1>5. queries' = [y \in Extractor |-> queries'[y]]
    BY <1>2 DEF StagesOK
  <1>6. ASSUME NEW y \in Extractor PROVE StageOK(pc'[y], queries'[y], found'[y])
    <2>1. CASE y = x
      BY <1>3, <2>1
    <2>2. CASE y # x
      <3>1. StageOK(pc[y], queries[y], found[y])
        BY <1>2 DEF StagesOK
      <3>2. pc'[y] = pc[y] /\ queries'[y] = queries[y] /\ found'[y] = found[y]
        BY <1>4, <2>2
      <3> QED
        BY <3>1, <3>2
    <2> QED
      BY <2>1, <2>2
  <1>7. StagesOK'
    BY <1>1, <1>2, <1>5, <1>6 DEF StagesOK
  <1>8. AloneOK'
    <2> SUFFICES ASSUME ~overlapped' 
                 PROVE  /\ Alone'
                        /\ OwnersOK(row', anchorOf', type')
                        /\ \A y \in Extractor :
                               SettledOK(row', anchorOf', type', pc'[y], data'[y],
                                         queries'[y], found'[y], decision'[y])
      BY DEF AloneOK
    <2>1. ~overlapped /\ \A y \in Extractor \ {x} : pc'[y] = "idle"
      BY <1>4
    <2>2. Alone'
      BY <2>1 DEF Alone
    <2>3. OwnersOK(row', anchorOf', type')
      BY <1>1, <2>1 DEF AInv, AloneOK
    <2>4. ASSUME NEW y \in Extractor
          PROVE  SettledOK(row', anchorOf', type', pc'[y], data'[y],
                           queries'[y], found'[y], decision'[y])
      <3>1. CASE y = x
        BY <1>1, <1>3, <3>1
      <3>2. CASE y # x
        BY <2>1, <3>2 DEF SettledOK
      <3> QED
        BY <3>1, <3>2
    <2> QED
      BY <2>2, <2>3, <2>4
  <1> QED
    BY <1>7, <1>8 DEF AInv

LEMMA OthersIdle ==
    ASSUME AInv, NEW x \in Extractor, pc[x] # "idle", ~overlapped
    PROVE  \A y \in Extractor \ {x} : pc[y] = "idle"
  BY DEF AInv, AloneOK, Alone

LEMMA ExtractAInv ==
    ASSUME AInv, NEW x \in Extractor, Extract(x)
    PROVE  AInv'
  <1>1. MInv /\ RowsOK /\ MatchesOK /\ StagesOK
    BY DEF AInv, MInv
  <1>2. MInv'
    BY <1>1, MatchMInv
  <1>3. PICK d \in Documents : /\ data' = [data EXCEPT ![x] = d]
                               /\ queries' = [queries EXCEPT ![x] = buildAnchors(config, d)]
    BY DEF Extract
  <1> DEFINE Q == buildAnchors(config, d)
             p == IF Q = <<>> THEN "tokens" ELSE "anchors"
  <1>4. queries' = [queries EXCEPT ![x] = Q] /\ queries'[x] = Q
    BY <1>1, <1>3 DEF StagesOK
  <1>5. pc' = [pc EXCEPT ![x] = p]
    BY <1>4 DEF Extract
  <1>6. /\ found' = [found EXCEPT ![x] = found[x]]
        /\ decision' = [decision EXCEPT ![x] = decision[x]]
    BY <1>1 DEF Extract, MatchesOK
  <1>7. UNCHANGED <<const, tables>>
    BY DEF Extract
  <1>8. Q \in Seq(ToSet(Q)) /\ SingleKeys(type, d) \subseteq ToSet(Q)
    <2>1. IsMessageType(type) /\ config = MatchConfig(type)
      BY <1>1, TypesAssumption DEF RowsOK
    <2>2. DOMAIN d = ToSet(type.fields)
      BY <1>3 DEF Documents
    <2> QED
      BY <2>1, <2>2, QueriesAre
  <1>9. found[x] = {}
    BY <1>1 DEF Extract, StagesOK, StageOK
  <1> HIDE DEF Q
  <1>10. StageOK(p, Q, found[x])
    BY <1>8, <1>9, FS_EmptySet DEF StageOK
  <1>11. SettledOK(row, anchorOf, type, p, d, Q, found[x], decision[x])
    <2>1. CASE Q = <<>>
      <3>1. ToSet(Q) = {}
        BY <2>1 DEF ToSet
      <3> QED
        BY <1>8, <3>1 DEF SettledOK
    <2>2. CASE Q # <<>>
      BY <1>8, <2>2 DEF SettledOK, Settled
    <2> QED
      BY <2>1, <2>2
  <1>12. overlapped' = (overlapped \/ \E y \in Extractor \ {x} : pc[y] # "idle")
    BY DEF Extract
  <1>13. overlapped' \in BOOLEAN
    BY <1>12, Zenon
  <1>14. ~overlapped' => ~overlapped /\ \A y \in Extractor \ {x} : pc[y] = "idle"
    BY <1>12, Zenon
  <1> HIDE DEF p
  <1> QED
    BY <1>2, <1>3, <1>4, <1>5, <1>6, <1>7, <1>10, <1>11, <1>13, <1>14, Asked

(* The next anchor is asked for: who owns it is found.                     *)
LEMMA AnchorFound ==
    ASSUME AInv, NEW x \in Extractor, pc[x] = "anchors"
    PROVE  LET F == FindByAnchors(found[x], Head(queries[x]))
               Q == Tail(queries[x])
           IN  /\ IsFiniteSet(F) /\ Q \in Seq(ToSet(Q))
               /\ ~overlapped =>
                      \A e \in Entity : row[e].st = "live" =>
                          \A q \in SingleKeys(type, data[x]) : Points(anchorOf, q, e) =>
                              q \in ToSet(Q) \/ \E c \in F : c.id = e
  <1> DEFINE h == Head(queries[x])
             F == FindByAnchors(found[x], h)
             Q == Tail(queries[x])
  <1>1. queries[x] # <<>> /\ queries[x] \in Seq(ToSet(queries[x])) /\ IsFiniteSet(found[x])
    BY DEF AInv, StagesOK, StageOK
  <1>2. /\ Q \in Seq(ToSet(Q))
        /\ ToSet(queries[x]) \subseteq {h} \cup ToSet(Q)
    <2>1. ASSUME NEW T, NEW s \in Seq(T), s # <<>>
          PROVE  Tail(s) \in Seq(ToSet(Tail(s))) /\ ToSet(s) \subseteq {Head(s)} \cup ToSet(Tail(s))
      <3>1. /\ Tail(s) \in Seq(T) /\ Len(s) \in Nat /\ Len(s) # 0
            /\ DOMAIN s = 1 .. Len(s) /\ DOMAIN Tail(s) = 1 .. (Len(s) - 1)
        BY <2>1
      <3>2. \A i \in 1 .. (Len(s) - 1) : Tail(s)[i] = s[i + 1]
        BY <2>1
      <3>3. ASSUME NEW i \in 1 .. Len(s) PROVE s[i] = Head(s) \/ s[i] \in ToSet(Tail(s))
        <4>1. CASE i = 1
          BY <2>1, <4>1
        <4>2. CASE i # 1
          <5>1. i - 1 \in 1 .. (Len(s) - 1) /\ Tail(s)[i - 1] = s[i]
            BY <3>1, <3>2, <4>2
          <5> QED
            BY <3>1, <5>1 DEF ToSet
        <4> QED
          BY <4>1, <4>2
      <3>4. ToSet(s) \subseteq {Head(s)} \cup ToSet(Tail(s))
        BY <3>1, <3>3 DEF ToSet
      <3>5. Tail(s) \in Seq(ToSet(Tail(s)))
        BY <3>1, OwnElements
      <3> QED
        BY <3>4, <3>5
    <2> QED
      BY <1>1, <2>1
  <1>3. F = found[x] \cup {Candidate(e) : e \in {i \in FindByAnchor(h) : \A c \in found[x] : c.id # i}}
    BY DEF FindByAnchors, AddUnique
  <1>4. \A e \in FindByAnchor(h) : e = anchorOf[h]
    BY DEF FindByAnchor
  <1>5. IsFiniteSet(F)
    <2>1. F = found[x] \/ F = found[x] \cup {Candidate(anchorOf[h])}
      BY <1>3, <1>4
    <2> QED
      BY <1>1, <2>1, FS_AddElement
  <1>6. \A e \in FindByAnchor(h) : \E c \in F : c.id = e
    <2> SUFFICES ASSUME NEW e \in FindByAnchor(h) PROVE \E c \in F : c.id = e
      OBVIOUS
    <2>1. CASE \E c \in found[x] : c.id = e
      BY <1>3, <2>1
    <2>2. CASE ~\E c \in found[x] : c.id = e
      <3>1. Candidate(e) \in F
        BY <1>3, <2>2
      <3>2. Candidate(e).id = e
        BY DEF Candidate
      <3> QED
        BY <3>1, <3>2
    <2> QED
      BY <2>1, <2>2
  <1>7. ASSUME ~overlapped, NEW e \in Entity, row[e].st = "live",
               NEW q \in SingleKeys(type, data[x]), Points(anchorOf, q, e)
        PROVE  q \in ToSet(Q) \/ \E c \in F : c.id = e
    <2>1. q \in ToSet(queries[x]) \/ \E c \in found[x] : c.id = e
      BY <1>7 DEF AInv, AloneOK, SettledOK, Settled
    <2>2. CASE \E c \in found[x] : c.id = e
      BY <1>3, <2>2
    <2>3. CASE q = h
      <3>1. e \in FindByAnchor(h)
        BY <1>7, <2>3 DEF FindByAnchor, Live, Points
      <3> QED
        BY <1>6, <3>1
    <2>4. CASE q \in ToSet(Q)
      BY <2>4
    <2> QED
      BY <1>2, <2>1, <2>2, <2>3, <2>4
  <1> QED
    BY <1>2, <1>5, <1>7

LEMMA QueryAInv ==
    ASSUME AInv, NEW x \in Extractor, QueryAnchor(x)
    PROVE  AInv'
  <1> DEFINE F == FindByAnchors(found[x], Head(queries[x]))
             Q == Tail(queries[x])
             dec == AnchorDecision(config, data[x], F)
             known(e, q) == q \in ToSet(Q) \/ \E c \in F : c.id = e
  <1>1. MInv /\ MatchesOK /\ StagesOK
    BY DEF AInv, MInv
  <1>2. MInv'
    BY <1>1, MatchMInv
  <1>3. pc[x] = "anchors"
    BY DEF QueryAnchor
  <1>4. /\ IsFiniteSet(F) /\ Q \in Seq(ToSet(Q))
        /\ ~overlapped =>
               \A e \in Entity : row[e].st = "live" =>
                   \A q \in SingleKeys(type, data[x]) : Points(anchorOf, q, e) => known(e, q)
    BY <1>3, AnchorFound
  <1>5. /\ found' = [found EXCEPT ![x] = F] /\ queries' = [queries EXCEPT ![x] = Q]
        /\ found'[x] = F /\ queries'[x] = Q
    BY <1>1 DEF QueryAnchor, MatchesOK, StagesOK
  <1>6. \/ Q # <<>> /\ UNCHANGED <<pc, decision>>
        \/ Q = <<>> /\ F = {} /\ pc' = [pc EXCEPT ![x] = "tokens"] /\ UNCHANGED decision
        \/ /\ Q = <<>> /\ F # {} /\ pc' = [pc EXCEPT ![x] = "decided"]
           /\ decision' = [decision EXCEPT ![x] = dec]
    <2> HIDE DEF F, Q
    <2> QED
      BY <1>5 DEF QueryAnchor
  <1> HIDE DEF F, Q
  <1>7. UNCHANGED <<const, tables>> /\ data' = [data EXCEPT ![x] = data[x]]
    BY <1>1 DEF QueryAnchor, MatchesOK
  <1>8. overlapped' = overlapped
    BY DEF QueryAnchor
  <1>9. overlapped' \in BOOLEAN
    BY <1>8 DEF AInv
  <1>10. ~overlapped' => ~overlapped /\ \A y \in Extractor \ {x} : pc[y] = "idle"
    BY <1>3, <1>8, OthersIdle
  <1>11. ToSet(<<>>) = {}
    BY DEF ToSet
  <1>12. CASE Q # <<>> /\ UNCHANGED <<pc, decision>>
    <2>1. /\ pc' = [pc EXCEPT ![x] = pc[x]]
          /\ decision' = [decision EXCEPT ![x] = decision[x]]
      BY <1>1, <1>12 DEF MatchesOK
    <2>2. StageOK(pc[x], Q, F)
      BY <1>3, <1>4, <1>12 DEF StageOK
    <2>3. ~overlapped' => SettledOK(row, anchorOf, type, pc[x], data[x], Q, F, decision[x])
      BY <1>3, <1>4, <1>8 DEF SettledOK, Settled
    <2> QED
      BY <1>2, <1>5, <1>7, <1>9, <1>10, <2>1, <2>2, <2>3, Asked
  <1>13. CASE Q = <<>> /\ F = {} /\ pc' = [pc EXCEPT ![x] = "tokens"] /\ UNCHANGED decision
    <2>1. decision' = [decision EXCEPT ![x] = decision[x]] /\ pc' = [pc EXCEPT ![x] = "tokens"]
      BY <1>1, <1>13 DEF MatchesOK
    <2>2. StageOK("tokens", Q, F)
      BY DEF StageOK
    <2>3. \A e, q : ~known(e, q)
      BY <1>11, <1>13
    <2>4. ~overlapped' => SettledOK(row, anchorOf, type, "tokens", data[x], Q, F, decision[x])
      BY <1>4, <1>8, <2>3 DEF SettledOK
    <2> QED
      BY <1>2, <1>5, <1>7, <1>9, <1>10, <2>1, <2>2, <2>4, Asked
  <1>14. CASE /\ Q = <<>> /\ F # {} /\ pc' = [pc EXCEPT ![x] = "decided"]
              /\ decision' = [decision EXCEPT ![x] = dec]
    <2>1. decision' = [decision EXCEPT ![x] = dec] /\ pc' = [pc EXCEPT ![x] = "decided"]
      BY <1>14
    <2>2. StageOK("decided", Q, F)
      BY DEF StageOK
    <2>3. dec.action # "create"
      BY DEF AnchorDecision, UpdateOrConflict, Decision
    <2>4. dec.action = "update" => dec.matched \in F /\ Cardinality(F) = 1
      BY <1>14, AnchorUpdate
    <2> HIDE DEF dec
    <2>5. \A e, q : known(e, q) => (dec.action = "update" => dec.matched.id = e)
      <3>1. Cardinality(F) = 1 => \E c : F = {c}
        BY <1>4, FS_Singleton
      <3> QED
        BY <1>11, <1>14, <2>4, <3>1
    <2> HIDE DEF known
    <2>6. ~overlapped' => SettledOK(row, anchorOf, type, "decided", data[x], Q, F, dec)
      BY <1>4, <1>8, <2>3, <2>5 DEF SettledOK, Settled
    <2> QED
      BY <1>2, <1>5, <1>7, <1>9, <1>10, <2>1, <2>2, <2>6, Asked
  <1> QED
    BY <1>6, <1>12, <1>13, <1>14

(* A match that goes on to tokens knows that no live entity owns one of    *)
(* its anchors.                                                            *)
LEMMA FuzzyAInv ==
    ASSUME AInv, NEW x \in Extractor, QueryTokens(x) \/ QueryEmbedding(x)
    PROVE  AInv'
  <1>1. MInv /\ MatchesOK /\ StagesOK
    BY DEF AInv, MInv
  <1>2. MInv'
    BY <1>1, MatchMInv
  <1>3. pc[x] \in {"tokens", "embedding"}
    BY DEF QueryTokens, QueryEmbedding
  <1>4. PICK p \in {"embedding", "decided"} : pc' = [pc EXCEPT ![x] = p]
    BY DEF QueryTokens, QueryEmbedding
  <1>5. PICK F : found' = [found EXCEPT ![x] = F]
    <2>1. found = [found EXCEPT ![x] = found[x]]
      BY <1>1 DEF MatchesOK
    <2>2. CASE QueryTokens(x)
      <3> DEFINE query == flattenTokens(buildTokens(config, data[x]))
      <3>1. \/ found' = found
            \/ \E page \in FindByTokens(query) :
                   found' = [found EXCEPT ![x] = AddUnique(found[x], {r[1] : r \in page})]
        BY <2>2 DEF QueryTokens
      <3> HIDE DEF query
      <3> QED
        BY <2>1, <3>1
    <2>3. CASE QueryEmbedding(x)
      <3>1. \/ found' = found
            \/ \E near \in FindByEmbedding :
                   found' = [found EXCEPT ![x] = AddUnique(found[x], near)]
        BY <2>3 DEF QueryEmbedding
      <3> QED
        BY <2>1, <3>1
    <2> QED
      BY <2>2, <2>3
  <1>6. PICK dec : decision' = [decision EXCEPT ![x] = dec]
    <2>1. decision = [decision EXCEPT ![x] = decision[x]]
      BY <1>1 DEF MatchesOK
    <2>2. CASE QueryTokens(x)
      BY <2>1, <2>2 DEF QueryTokens
    <2>3. CASE QueryEmbedding(x)
      BY <2>3 DEF QueryEmbedding
    <2> QED
      BY <2>2, <2>3
  <1>7. /\ UNCHANGED <<const, tables>>
        /\ data' = [data EXCEPT ![x] = data[x]]
        /\ queries' = [queries EXCEPT ![x] = queries[x]]
    BY <1>1 DEF QueryTokens, QueryEmbedding, MatchesOK, StagesOK
  <1>8. overlapped' = overlapped
    BY DEF QueryTokens, QueryEmbedding
  <1>9. overlapped' \in BOOLEAN
    BY <1>8 DEF AInv
  <1>10. ~overlapped' => ~overlapped /\ \A y \in Extractor \ {x} : pc[y] = "idle"
    BY <1>3, <1>8, OthersIdle
  <1>11. StageOK(p, queries[x], F)
    BY <1>4 DEF StageOK
  <1>12. ~overlapped' => SettledOK(row, anchorOf, type, p, data[x], queries[x], F, dec)
    BY <1>3, <1>8 DEF AInv, AloneOK, SettledOK, Settled
  <1> QED
    BY <1>2, <1>4, <1>5, <1>6, <1>7, <1>9, <1>10, <1>11, <1>12, Asked

LEMMA StopAInv ==
    ASSUME AInv, NEW x \in Extractor, MatchFails(x) \/ GiveUp(x)
    PROVE  AInv'
  <1>1. MInv
    BY DEF AInv
  <1>2. MInv'
    BY <1>1, ApplyMInv
  <1>3. pc[x] # "idle" /\ Forget(x) /\ UNCHANGED <<const, tables>> /\ overlapped' = overlapped
    BY DEF MatchFails, GiveUp
  <1>4. overlapped' \in BOOLEAN
    BY <1>3 DEF AInv
  <1>5. ~overlapped' => ~overlapped /\ \A y \in Extractor \ {x} : pc[y] = "idle"
    BY <1>3, OthersIdle
  <1>6. StageOK("idle", <<>>, {}) /\ SettledOK(row, anchorOf, type, "idle", <<>>, <<>>, {}, Undecided)
    BY DEF StageOK, SettledOK
  <1>7. /\ pc' = [pc EXCEPT ![x] = "idle"] /\ data' = [data EXCEPT ![x] = <<>>]
        /\ queries' = [queries EXCEPT ![x] = <<>>] /\ found' = [found EXCEPT ![x] = {}]
        /\ decision' = [decision EXCEPT ![x] = Undecided]
    BY <1>3 DEF Forget
  <1>8. UNCHANGED <<const, tables>>
    BY <1>3
  <1> QED
    BY <1>2, <1>4, <1>5, <1>6, <1>7, <1>8, Asked

(* Once the decision is applied everybody is idle, and all that is left to *)
(* show is that the table of anchors is right.                             *)
LEMMA Applied ==
    ASSUME AInv, MInv', NEW x \in Extractor, pc[x] # "idle", Forget(x),
           type' = type, overlapped' = overlapped,
           anchorOf' = [a \in DOMAIN anchorOf' |-> anchorOf'[a]],
           ~overlapped => OwnersOK(row', anchorOf', type)
    PROVE  AInv'
  <1>1. MInv /\ MatchesOK /\ StagesOK
    BY DEF AInv, MInv
  <1>2. pc'[x] = "idle" /\ found'[x] = {}
    BY <1>1 DEF Forget, MatchesOK
  <1>3. \A y \in Extractor \ {x} :
            pc'[y] = pc[y] /\ queries'[y] = queries[y] /\ found'[y] = found[y]
    BY <1>1 DEF Forget, MatchesOK, StagesOK
  <1>4. queries' = [y \in Extractor |-> queries'[y]]
    BY <1>1 DEF Forget, StagesOK
  <1>5. ASSUME NEW y \in Extractor PROVE StageOK(pc'[y], queries'[y], found'[y])
    <2>1. CASE y = x
      BY <1>2, <2>1 DEF StageOK
    <2>2. CASE y # x
      <3>1. StageOK(pc[y], queries[y], found[y])
        BY <1>1 DEF StagesOK
      <3>2. pc'[y] = pc[y] /\ queries'[y] = queries[y] /\ found'[y] = found[y]
        BY <1>3, <2>2
      <3> QED
        BY <3>1, <3>2
    <2> QED
      BY <2>1, <2>2
  <1>6. StagesOK'
    BY <1>4, <1>5 DEF StagesOK
  <1>7. ~overlapped' => \A y \in Extractor : pc'[y] = "idle"
    BY <1>2, <1>3, OthersIdle
  <1>8. AloneOK'
    BY <1>7 DEF AloneOK, Alone, SettledOK
  <1>9. overlapped' \in BOOLEAN
    BY DEF AInv
  <1> QED
    BY <1>6, <1>8, <1>9 DEF AInv

(* The value of a composite anchor of one field is that of a single one.   *)
LEMMA CompositeOfOne ==
    ASSUME NEW ty, NEW d, NEW f \in DOMAIN ty.opts
    PROVE  CompositeValue(ty, d, <<f>>) = Normalize(NormalizerOf(ty, f), d[f])
  <1> DEFINE norm(h) == Normalize(NormalizerOf(ty, h), d[h])
             Built(g, c) == g = [i \in 0 .. Len(c) |->
                                    IF i = 0 THEN Empty
                                    ELSE IF c[i] \notin DOMAIN ty.opts THEN g[i - 1]
                                    ELSE IF i = 1 THEN norm(c[i])
                                    ELSE g[i - 1] \o <<"|">> \o norm(c[i])]
             c == <<f>>
             built == CHOOSE g : Built(g, c)
  <1>1. CompositeValue(ty, d, c) = built[Len(c)]
    BY Zenon DEF CompositeValue
  <1>2. Len(c) = 1 /\ c[1] = f
    OBVIOUS
  <1>3. \E g : Built(g, c)
    <2> DEFINE g == [i \in 0 .. 1 |-> IF i = 0 THEN Empty ELSE norm(f)]
    <2> HIDE DEF norm
    <2>1. \A i \in 0 .. 1 : i = 0 \/ i = 1
      OBVIOUS
    <2> HIDE DEF c
    <2>2. Built(g, c)
      BY <1>2, <2>1
    <2> QED
      BY <2>2
  <1> HIDE DEF Built
  <1>4. Built(built, c)
    BY <1>3, Zenon
  <1> HIDE DEF built, c, norm
  <1>5. built[1] = norm(f)
    BY <1>2, <1>4 DEF Built
  <1> QED
    BY <1>1, <1>2, <1>5 DEF c, norm

(* The anchors of an operation that Match may ask for are those of the     *)
(* data: composite ones are stored under other names, unless they are of   *)
(* one field, whose value they have.                                       *)
LEMMA StoredKeys ==
    ASSUME NEW ty, NEW d, NEW e, NEW q \in SingleKeys(ty, e)
    PROVE  /\ q \in Anchors(ty, d) => q \in SingleKeys(ty, d)
           /\ q \in SingleKeys(ty, d) => q \in Anchors(ty, d)
  <1>1. PICK f \in DOMAIN ty.opts :
            /\ ty.opts[f].anchor
            /\ q = Anchor(<<f>>, "", Normalize(NormalizerOf(ty, f), e[f]))
            /\ Normalize(NormalizerOf(ty, f), e[f]) # Empty
    BY DEF SingleKeys
  <1>2. q.fields = <<f>> /\ q.sep = "" /\ q.value # Empty
    BY <1>1 DEF Anchor
  <1>3. ASSUME NEW h \in DOMAIN ty.opts, ty.opts[h].anchor, d[h] # Empty,
               q = Anchor(<<h>>, "", Normalize(NormalizerOf(ty, h), d[h]))
        PROVE  q \in SingleKeys(ty, d)
    <2>1. q.value = Normalize(NormalizerOf(ty, h), d[h])
      BY <1>3 DEF Anchor
    <2> QED
      BY <1>2, <1>3, <2>1 DEF SingleKeys
  <1>4. q \in SingleAnchors(ty, d) => q \in SingleKeys(ty, d)
    BY <1>3 DEF SingleAnchors
  <1>5. q \in CompositeAnchors(ty, d) => q \in SingleKeys(ty, d)
    <2> SUFFICES ASSUME q \in CompositeAnchors(ty, d) PROVE q \in SingleKeys(ty, d)
      OBVIOUS
    <2>1. PICK c : /\ q = Anchor(c, "+", CompositeValue(ty, d, c))
                   /\ \A h \in ToSet(c) \cap DOMAIN ty.opts : d[h] # Empty
      BY DEF CompositeAnchors
    <2>2. c = <<f>>
      BY <1>2, <2>1 DEF Anchor
    <2>3. f \in ToSet(<<f>>)
      BY DEF ToSet
    <2>4. d[f] # Empty
      BY <2>1, <2>2, <2>3
    <2>5. q = Anchor(<<f>>, "", Normalize(NormalizerOf(ty, f), d[f]))
      <3>1. q = Anchor(<<f>>, "+", Normalize(NormalizerOf(ty, f), d[f]))
        BY <2>1, <2>2, CompositeOfOne
      <3> QED
        BY <3>1 DEF Anchor
    <2> QED
      BY <1>1, <1>3, <2>4, <2>5
  <1>6. SingleKeys(ty, d) \subseteq SingleAnchors(ty, d)
    BY DEF SingleKeys, SingleAnchors
  <1> QED
    BY <1>4, <1>5, <1>6 DEF Anchors

(* A write keeps the table right: the entity written gets the anchors of   *)
(* its new data, and no other live entity had one of those written.        *)
LEMMA OwnersWritten ==
    ASSUME NEW ty, NEW rows, rows = [e \in Entity |-> rows[e]],
           NEW table, OwnersOK(rows, table, ty),
           NEW g \in Entity, NEW r, NEW d, NEW new, new = [rows EXCEPT ![g] = r],
           NEW next, next = [a \in DOMAIN table \cup Anchors(ty, d) |->
                                 IF a \in Anchors(ty, d) THEN g ELSE table[a]],
           \A e \in Entity \ {g} : rows[e].st = "live" =>
               \A q \in SingleKeys(ty, d) : ~Points(table, q, e),
           r.st = "live" => \A q \in SingleKeys(ty, r.data) :
                                q \in SingleKeys(ty, d) \/ Points(table, q, g)
    PROVE  OwnersOK(new, next, ty)
  <1>1. new[g] = r /\ \A e \in Entity \ {g} : new[e] = rows[e]
    OBVIOUS
  <1>2. ASSUME NEW q, NEW e, Points(table, q, e), q \in Anchors(ty, d) => e = g
        PROVE  Points(next, q, e)
    BY <1>2 DEF Points
  <1>3. ASSUME NEW q \in Anchors(ty, d) PROVE Points(next, q, g)
    BY DEF Points
  <1>4. ASSUME NEW e \in Entity, new[e].st = "live", NEW q \in SingleKeys(ty, new[e].data)
        PROVE  Points(next, q, e)
    <2>1. CASE e = g
      <3>1. q \in SingleKeys(ty, d) \/ Points(table, q, g)
        BY <1>1, <1>4, <2>1
      <3>2. CASE q \in SingleKeys(ty, d)
        <4>1. q \in Anchors(ty, d)
          BY <3>2, StoredKeys
        <4> QED
          BY <1>3, <2>1, <4>1
      <3>3. CASE Points(table, q, g)
        BY <1>2, <2>1, <3>3
      <3> QED
        BY <3>1, <3>2, <3>3
    <2>2. CASE e # g
      <3>1. rows[e].st = "live" /\ q \in SingleKeys(ty, rows[e].data)
        BY <1>1, <1>4, <2>2
      <3>2. Points(table, q, e)
        BY <3>1 DEF OwnersOK
      <3>3. q \notin SingleKeys(ty, d)
        BY <2>2, <3>1, <3>2
      <3>4. q \notin Anchors(ty, d)
        BY <3>3, StoredKeys
      <3> QED
        BY <1>2, <3>2, <3>4
    <2> QED
      BY <2>1, <2>2
  <1> QED
    BY <1>4 DEF OwnersOK

LEMMA CreateAInv ==
    ASSUME AInv, NEW x \in Extractor, ApplyCreate(x)
    PROVE  AInv'
  <1> DEFINE op == WriteOp(type, data[x], "create")
             r == [st |-> "live", version |-> 0, data |-> op.data, display |-> op.display]
  <1>1. MInv /\ RowsOK
    BY DEF AInv, MInv
  <1>2. MInv'
    BY <1>1, ApplyMInv
  <1>3. /\ pc[x] = "decided" /\ decision[x].action = "create" /\ Forget(x)
        /\ type' = type /\ overlapped' = overlapped
    BY DEF ApplyCreate, const
  <1>4. PICK g \in Entity : /\ row[g].st = "none" /\ row' = [row EXCEPT ![g] = r]
                            /\ UpsertAnchors(g, op.anchors)
    BY DEF ApplyCreate, WriteEntity
  <1>5. op.data = data[x] /\ op.anchors = Anchors(type, data[x])
    BY DEF WriteOp
  <1>6. r.st = "live" /\ r.data = data[x]
    BY <1>5
  <1> HIDE DEF op, r
  <1>7. anchorOf' = [a \in DOMAIN anchorOf \cup Anchors(type, data[x]) |->
                         IF a \in Anchors(type, data[x]) THEN g ELSE anchorOf[a]]
    BY <1>4, <1>5 DEF UpsertAnchors
  <1>8. anchorOf' = [a \in DOMAIN anchorOf' |-> anchorOf'[a]]
    BY <1>7
  <1>9. ASSUME ~overlapped PROVE OwnersOK(row', anchorOf', type)
    <2>1. OwnersOK(row, anchorOf, type) /\ row = [e \in Entity |-> row[e]]
      BY <1>1, <1>9 DEF AInv, AloneOK, RowsOK
    <2>2. \A e \in Entity : row[e].st = "live" =>
              \A q \in SingleKeys(type, data[x]) : ~Points(anchorOf, q, e)
      BY <1>3, <1>9 DEF AInv, AloneOK, SettledOK, Settled
    <2>3. \A q \in SingleKeys(type, r.data) :
              q \in SingleKeys(type, data[x]) \/ Points(anchorOf, q, g)
      BY <1>6
    <2> QED
      BY <1>4, <1>7, <2>1, <2>2, <2>3, OwnersWritten
  <1> QED
    BY <1>2, <1>3, <1>8, <1>9, Applied

LEMMA MergeAInv ==
    ASSUME AInv, NEW x \in Extractor, ApplyMerge(x)
    PROVE  AInv'
  <1> DEFINE op == WriteOp(type, data[x], "merge")
             c == decision[x].matched
             g == c.id
             merged == MergeData(row[g].data, op.data)
             r == [st |-> "live", version |-> c.version + 1,
                   data |-> merged, display |-> op.display]
  <1>1. MInv /\ RowsOK /\ MatchOK(row, config, Fields, pc[x], data[x], found[x], decision[x])
    BY DEF AInv, MInv, MatchesOK
  <1>2. MInv'
    BY <1>1, ApplyMInv
  <1>3. /\ pc[x] = "decided" /\ decision[x].action = "update" /\ Forget(x)
        /\ type' = type /\ overlapped' = overlapped
    BY DEF ApplyMerge, const
  <1>4. /\ row' = [row EXCEPT ![g] = r] /\ UpsertAnchors(g, op.anchors)
        /\ row[g].st = "live"
    BY DEF ApplyMerge, WriteEntity, Current
  <1>5. g \in Entity
    BY <1>1, <1>3 DEF MatchOK, HeldOK
  <1>6. op.data = data[x] /\ op.anchors = Anchors(type, data[x])
    BY DEF WriteOp
  <1>7. r.st = "live" /\ r.data = MergeData(row[g].data, data[x])
    BY <1>6
  <1>8. g = decision[x].matched.id
    OBVIOUS
  <1> HIDE DEF op, r, merged, c, g
  <1>9. anchorOf' = [a \in DOMAIN anchorOf \cup Anchors(type, data[x]) |->
                         IF a \in Anchors(type, data[x]) THEN g ELSE anchorOf[a]]
    BY <1>4, <1>6 DEF UpsertAnchors
  <1>10. anchorOf' = [a \in DOMAIN anchorOf' |-> anchorOf'[a]]
    BY <1>9
  <1>11. ASSUME ~overlapped PROVE OwnersOK(row', anchorOf', type)
    <2>1. OwnersOK(row, anchorOf, type) /\ row = [e \in Entity |-> row[e]]
      BY <1>1, <1>11 DEF AInv, AloneOK, RowsOK
    <2>2. \A e \in Entity \ {g} : row[e].st = "live" =>
              \A q \in SingleKeys(type, data[x]) : ~Points(anchorOf, q, e)
      BY <1>3, <1>8, <1>11 DEF AInv, AloneOK, SettledOK, Settled
    <2>3. ASSUME NEW q \in SingleKeys(type, r.data)
          PROVE  q \in SingleKeys(type, data[x]) \/ Points(anchorOf, q, g)
      <3> DEFINE N(f, v) == Normalize(NormalizerOf(type, f), v)
      <3>1. PICK f \in DOMAIN type.opts :
                /\ type.opts[f].anchor /\ r.data[f] # Empty /\ N(f, r.data[f]) # Empty
                /\ q = Anchor(<<f>>, "", N(f, r.data[f]))
        BY DEF SingleKeys
      <3>2. f \in DOMAIN row[g].data
        BY <1>1, <1>4, <1>5, TypesAssumption DEF RowsOK, IsMessageType, Fields
      <3>3. r.data[f] = IF data[x][f] = Empty THEN row[g].data[f] ELSE data[x][f]
        BY <1>7, <3>2 DEF MergeData
      <3> HIDE DEF N
      <3>4. CASE data[x][f] = Empty
        <4>1. r.data[f] = row[g].data[f]
          BY <3>3, <3>4
        <4>2. q \in SingleKeys(type, row[g].data)
          BY <3>1, <4>1 DEF SingleKeys, N
        <4> QED
          BY <1>4, <1>5, <2>1, <4>2 DEF OwnersOK
      <3>5. CASE data[x][f] # Empty
        <4>1. r.data[f] = data[x][f]
          BY <3>3, <3>5
        <4> QED
          BY <3>1, <4>1 DEF SingleKeys, N
      <3> QED
        BY <3>4, <3>5
    <2> QED
      BY <1>4, <1>5, <1>9, <2>1, <2>2, <2>3, OwnersWritten
  <1> QED
    BY <1>2, <1>3, <1>10, <1>11, Applied

(* A deletion takes anchors and live entities away, and none of those of   *)
(* an entity that stays.                                                   *)
LEMMA DeleteAInv ==
    ASSUME AInv, NEW e \in Entity, DeleteEntity(e) \/ HardDeleteEntity(e)
    PROVE  AInv'
  <1>1. MInv /\ RowsOK /\ StagesOK
    BY DEF AInv, MInv
  <1>2. MInv'
    BY <1>1, DeleteMInv
  <1>3. UNCHANGED <<type, pc, data, queries, found, decision, overlapped>>
    BY DEF DeleteEntity, HardDeleteEntity, const, matchVars
  <1>4. \A g \in Entity \ {e} : row'[g] = row[g]
    BY <1>1 DEF DeleteEntity, HardDeleteEntity, RowsOK
  <1>5. row'[e].st # "live"
    <2>1. CASE DeleteEntity(e)
      <3>1. row'[e] = [row[e] EXCEPT !.st = "deleted"]
        BY <1>1, <2>1 DEF DeleteEntity, RowsOK
      <3> QED
        BY <1>1, <3>1 DEF RowsOK
    <2>2. CASE HardDeleteEntity(e)
      BY <1>1, <2>2 DEF HardDeleteEntity, NoRow, RowsOK
    <2> QED
      BY <2>1, <2>2
  <1>6. anchorOf' = [a \in DOMAIN anchorOf' |-> anchorOf'[a]]
    <2>1. CASE DeleteEntity(e)
      BY <1>1, <2>1 DEF DeleteEntity, StagesOK
    <2>2. CASE HardDeleteEntity(e)
      BY <2>2 DEF HardDeleteEntity
    <2> QED
      BY <2>1, <2>2
  <1>7. \A g \in Entity \ {e} : \A q : Points(anchorOf', q, g) <=> Points(anchorOf, q, g)
    <2>1. CASE DeleteEntity(e)
      BY <2>1 DEF DeleteEntity
    <2>2. CASE HardDeleteEntity(e)
      BY <2>2 DEF HardDeleteEntity, Points
    <2> QED
      BY <2>1, <2>2
  <1>8. StagesOK'
    BY <1>1, <1>3, <1>6 DEF StagesOK
  <1>9. AloneOK'
    <2> SUFFICES ASSUME ~overlapped
                 PROVE  /\ Alone'
                        /\ OwnersOK(row', anchorOf', type')
                        /\ \A x \in Extractor :
                               SettledOK(row', anchorOf', type', pc'[x], data'[x],
                                         queries'[x], found'[x], decision'[x])
      BY <1>3 DEF AloneOK
    <2>1. /\ Alone /\ OwnersOK(row, anchorOf, type)
          /\ \A x \in Extractor :
                 SettledOK(row, anchorOf, type, pc[x], data[x], queries[x], found[x], decision[x])
      BY DEF AInv, AloneOK
    <2>2. Alone'
      BY <1>3, <2>1 DEF Alone
    <2>3. OwnersOK(row', anchorOf', type')
      BY <1>3, <1>4, <1>5, <1>7, <2>1 DEF OwnersOK
    <2>4. ASSUME NEW x \in Extractor
          PROVE  SettledOK(row', anchorOf', type', pc'[x], data'[x],
                           queries'[x], found'[x], decision'[x])
      <3>1. SettledOK(row, anchorOf, type, pc[x], data[x], queries[x], found[x], decision[x])
        BY <2>1
      <3>2. \A g \in Entity : row'[g].st = "live" => g # e /\ row[g].st = "live"
        BY <1>4, <1>5
      <3> QED
        BY <1>3, <1>7, <3>1, <3>2 DEF SettledOK
    <2> QED
      BY <2>2, <2>3, <2>4
  <1>10. overlapped' \in BOOLEAN
    BY <1>3 DEF AInv
  <1> QED
    BY <1>2, <1>8, <1>9, <1>10 DEF AInv

LEMMA NextAInv == AInv /\ [Next]_vars => AInv'
  <1> SUFFICES ASSUME AInv, [Next]_vars PROVE AInv'
    OBVIOUS
  <1>1. CASE Next
    BY <1>1, ExtractAInv, QueryAInv, FuzzyAInv, StopAInv, CreateAInv, MergeAInv, DeleteAInv
       DEF Next
  <1>2. CASE UNCHANGED vars
    <2>1. UNCHANGED <<type, row, anchorOf, pc, data, queries, found, decision, overlapped>>
      BY <1>2 DEF vars, const, tables, matchVars
    <2>2. MInv'
      BY <1>2, NextMInv DEF AInv
    <2>3. StagesOK'
      BY <2>1 DEF AInv, StagesOK
    <2>4. AloneOK'
      BY <2>1 DEF AInv, AloneOK, Alone
    <2>5. overlapped' \in BOOLEAN
      BY <2>1 DEF AInv
    <2> QED
      BY <2>2, <2>3, <2>4, <2>5 DEF AInv
  <1> QED
    BY <1>1, <1>2

LEMMA AInvFindsSelf == AInv => AnchorsFindSelf
  <1> SUFFICES ASSUME AInv, ~overlapped, NEW e \in Live,
                      NEW q \in ToSet(SingleQueries(config, row[e].data))
               PROVE  FindByAnchor(q) = {e}
    BY DEF AnchorsFindSelf
  <1>1. RowsOK /\ OwnersOK(row, anchorOf, type) /\ e \in Entity /\ row[e].st = "live"
    BY DEF AInv, MInv, AloneOK, Live
  <1>2. /\ IsMessageType(type) /\ config = MatchConfig(type)
        /\ DOMAIN row[e].data = ToSet(type.fields)
    BY <1>1, TypesAssumption DEF RowsOK, Fields
  <1>3. q \in SingleKeys(type, row[e].data)
    BY <1>2, SingleQueriesAre
  <1>4. Points(anchorOf, q, e)
    BY <1>1, <1>3 DEF OwnersOK
  <1> QED
    BY <1>4 DEF Points, FindByAnchor

(* As long as matches do not overlap, an anchor identifies: looking up any *)
(* single anchor of what is stored about a live entity (FindByAnchors)     *)
(* finds that entity and no other, whatever was created, merged, renamed   *)
(* or deleted before.                                                      *)
THEOREM AnchorsIdentify == Spec => []AnchorsFindSelf
  <1>1. Init => AInv
    BY InitAInv
  <1>2. AInv /\ [Next]_vars => AInv'
    BY NextAInv
  <1>3. AInv => AnchorsFindSelf
    BY AInvFindsSelf
  <1> QED
    BY <1>1, <1>2, <1>3, PTL DEF Spec

-----------------------------------------------------------------------------
(* The token rows of an entity.                                            *)

TokenFields(ty) == {f \in DOMAIN ty.opts : ty.opts[f].token_field}

\* The rows an entity has are those of the data d.
HasTokens(rows, ty, d) ==
    \A f \in TokenFields(ty) : d[f] # Empty =>
        f \in DOMAIN rows /\ rows[f] = Tokenize(d[f])

TokensOK ==
    /\ tokens = [e \in Entity |-> tokens[e]]
    /\ \A e \in Entity : row[e].st = "live" => HasTokens(tokens[e], type, row[e].data)

TInv == MInv /\ TokensOK

LEMMA InitTInv == Init => TInv
  <1> SUFFICES ASSUME Init PROVE TInv
    OBVIOUS
  <1>1. MInv
    BY InitMInv
  <1>2. TokensOK
    BY DEF Init, TokensOK, NoRow
  <1> QED
    BY <1>1, <1>2 DEF TInv

(* The fields that the generator makes tokens of.                          *)
LEMMA AnnotatedTokens ==
    ASSUME NEW ty, IsMessageType(ty)
    PROVE  ToSet(Annotated(ty, TokenFields(ty))) = TokenFields(ty)
           /\ TokenFields(ty) \subseteq ToSet(ty.fields)
           /\ TokenFields(ty) \subseteq FieldName
  <1>1. ty.fields \in Seq(FieldName) /\ TokenFields(ty) \subseteq ToSet(ty.fields)
    BY DEF IsMessageType, TokenFields
  <1>2. ToSet(Select(ty.fields, TokenFields(ty))) = ToSet(ty.fields) \cap TokenFields(ty)
    BY <1>1, SelectIs
  <1>3. ToSet(ty.fields) \subseteq FieldName
    BY <1>1 DEF ToSet
  <1> QED
    BY <1>1, <1>2, <1>3 DEF Annotated

(* A write replaces the rows of the fields that have a value.              *)
LEMMA TokensWritten ==
    ASSUME MInv, TokensOK, NEW e \in Entity, NEW d, UpsertTokens(e, Tokens(type, d))
    PROVE  /\ tokens' = [g \in Entity |-> tokens'[g]]
           /\ \A g \in Entity \ {e} : tokens'[g] = tokens[g]
           /\ \A f \in TokenFields(type) :
                  IF d[f] # Empty
                  THEN f \in DOMAIN tokens'[e] /\ tokens'[e][f] = Tokenize(d[f])
                  ELSE f \in DOMAIN tokens[e] =>
                           f \in DOMAIN tokens'[e] /\ tokens'[e][f] = tokens[e][f]
  <1> DEFINE T == Tokens(type, d)
             new == [f \in DOMAIN tokens[e] \cup DOMAIN T |->
                        IF f \in DOMAIN T THEN T[f] ELSE tokens[e][f]]
  <1>1. tokens' = [tokens EXCEPT ![e] = new]
    BY DEF UpsertTokens
  <1>2. IsMessageType(type)
    BY TypesAssumption DEF MInv, RowsOK
  <1>3. T = [f \in {g \in TokenFields(type) : d[g] # Empty} |-> Tokenize(d[f])]
    <2> DEFINE fs == ToSet(Annotated(type, TokenFields(type)))
    <2>1. T = [f \in {g \in fs : d[g] # Empty} |-> Tokenize(d[f])]
      BY DEF Tokens, TokenFields
    <2>2. fs = TokenFields(type)
      BY <1>2, AnnotatedTokens
    <2> HIDE DEF fs, T
    <2> QED
      BY <2>1, <2>2
  <1>4. tokens'[e] = new /\ \A g \in Entity \ {e} : tokens'[g] = tokens[g]
    BY <1>1 DEF TokensOK
  <1>5. tokens' = [g \in Entity |-> tokens'[g]]
    BY <1>1 DEF TokensOK
  <1> HIDE DEF T
  <1>6. ASSUME NEW f \in TokenFields(type)
        PROVE  IF d[f] # Empty
               THEN f \in DOMAIN new /\ new[f] = Tokenize(d[f])
               ELSE f \in DOMAIN tokens[e] => f \in DOMAIN new /\ new[f] = tokens[e][f]
    BY <1>3
  <1> HIDE DEF new
  <1> QED
    BY <1>4, <1>5, <1>6

LEMMA NextTInv == TInv /\ [Next]_vars => TInv'
  <1> SUFFICES ASSUME TInv, [Next]_vars PROVE TInv'
    OBVIOUS
  <1>1. MInv /\ RowsOK /\ MatchesOK /\ TokensOK
    BY DEF TInv, MInv
  <1>2. MInv'
    BY <1>1, NextMInv
  <1>3. ASSUME row' = row, tokens' = tokens, type' = type PROVE TokensOK'
    BY <1>1, <1>3 DEF TokensOK
  <1>4. ASSUME NEW x \in Extractor,
               Extract(x) \/ QueryAnchor(x) \/ QueryTokens(x) \/ QueryEmbedding(x)
                   \/ MatchFails(x) \/ GiveUp(x)
        PROVE  TokensOK'
    <2>1. UNCHANGED <<row, tokens, type>>
      BY <1>4 DEF Extract, QueryAnchor, QueryTokens, QueryEmbedding, MatchFails, GiveUp,
                  tables, const
    <2> QED
      BY <1>3, <2>1
  <1>5. ASSUME NEW x \in Extractor, ApplyCreate(x) PROVE TokensOK'
    <2> DEFINE op == WriteOp(type, data[x], "create")
               r == [st |-> "live", version |-> 0, data |-> op.data, display |-> op.display]
    <2>1. PICK g \in Entity : row' = [row EXCEPT ![g] = r] /\ UpsertTokens(g, op.tokens)
      BY <1>5 DEF ApplyCreate, WriteEntity
    <2>2. op.data = data[x] /\ op.tokens = Tokens(type, data[x]) /\ type' = type
      BY <1>5 DEF WriteOp, ApplyCreate, const
    <2>3. r.data = data[x]
      BY <2>2
    <2> HIDE DEF op, r
    <2>4. row'[g] = r /\ \A e \in Entity \ {g} : row'[e] = row[e]
      BY <1>1, <2>1 DEF RowsOK
    <2>5. UpsertTokens(g, Tokens(type, data[x]))
      BY <2>1, <2>2
    <2>6. /\ tokens' = [e \in Entity |-> tokens'[e]]
          /\ \A e \in Entity \ {g} : tokens'[e] = tokens[e]
          /\ HasTokens(tokens'[g], type, data[x])
      BY <1>1, <2>5, TokensWritten DEF HasTokens
    <2>7. \A e \in Entity : row'[e].st = "live" => HasTokens(tokens'[e], type, row'[e].data)
      BY <1>1, <2>3, <2>4, <2>6 DEF TokensOK
    <2> QED
      BY <2>2, <2>6, <2>7 DEF TokensOK
  <1>6. ASSUME NEW x \in Extractor, ApplyMerge(x) PROVE TokensOK'
    <2> DEFINE op == WriteOp(type, data[x], "merge")
               c == decision[x].matched
               g == c.id
               merged == MergeData(row[g].data, op.data)
               r == [st |-> "live", version |-> c.version + 1,
                     data |-> merged, display |-> op.display]
    <2>1. /\ row' = [row EXCEPT ![g] = r] /\ UpsertTokens(g, op.tokens)
          /\ row[g].st = "live" /\ decision[x].action = "update"
      BY <1>6 DEF ApplyMerge, WriteEntity, Current
    <2>2. op.data = data[x] /\ op.tokens = Tokens(type, data[x]) /\ type' = type
      BY <1>6 DEF WriteOp, ApplyMerge, const
    <2>3. g \in Entity
      BY <1>1, <2>1 DEF MatchesOK, MatchOK, HeldOK
    <2>4. r.data = MergeData(row[g].data, data[x])
      BY <2>2
    <2> HIDE DEF op, c, g, merged, r
    <2>5. row'[g] = r /\ \A e \in Entity \ {g} : row'[e] = row[e]
      BY <1>1, <2>1, <2>3 DEF RowsOK
    <2>6. UpsertTokens(g, Tokens(type, data[x]))
      BY <2>1, <2>2
    <2>7. HasTokens(tokens[g], type, row[g].data)
      BY <1>1, <2>1, <2>3 DEF TokensOK
    <2>8. IsMessageType(type) /\ DOMAIN row[g].data = ToSet(type.fields)
      BY <1>1, <2>1, <2>3, TypesAssumption DEF RowsOK, Fields
    <2>9. \A f \in TokenFields(type) :
              r.data[f] = IF data[x][f] = Empty THEN row[g].data[f] ELSE data[x][f]
      <3>1. TokenFields(type) \subseteq DOMAIN row[g].data
        BY <2>8, AnnotatedTokens
      <3> QED
        BY <2>4, <3>1 DEF MergeData
    <2>10. /\ tokens' = [e \in Entity |-> tokens'[e]]
           /\ \A e \in Entity \ {g} : tokens'[e] = tokens[e]
           /\ \A f \in TokenFields(type) :
                  IF data[x][f] # Empty
                  THEN f \in DOMAIN tokens'[g] /\ tokens'[g][f] = Tokenize(data[x][f])
                  ELSE f \in DOMAIN tokens[g] =>
                           f \in DOMAIN tokens'[g] /\ tokens'[g][f] = tokens[g][f]
      BY <1>1, <2>3, <2>6, TokensWritten
    <2>11. HasTokens(tokens'[g], type, r.data)
      <3> SUFFICES ASSUME NEW f \in TokenFields(type), r.data[f] # Empty
                   PROVE  f \in DOMAIN tokens'[g] /\ tokens'[g][f] = Tokenize(r.data[f])
        BY DEF HasTokens
      <3>1. CASE data[x][f] = Empty
        BY <2>7, <2>9, <2>10, <3>1 DEF HasTokens
      <3>2. CASE data[x][f] # Empty
        BY <2>9, <2>10, <3>2
      <3> QED
        BY <3>1, <3>2
    <2>12. \A e \in Entity : row'[e].st = "live" => HasTokens(tokens'[e], type, row'[e].data)
      BY <1>1, <2>5, <2>10, <2>11 DEF TokensOK
    <2> QED
      BY <2>2, <2>10, <2>12 DEF TokensOK
  <1>7. ASSUME NEW e \in Entity, DeleteEntity(e) \/ HardDeleteEntity(e) PROVE TokensOK'
    <2>1. \A g \in Entity \ {e} : row'[g] = row[g]
      BY <1>1, <1>7 DEF DeleteEntity, HardDeleteEntity, RowsOK
    <2>2. row'[e].st # "live"
      <3>1. CASE DeleteEntity(e)
        <4>1. row'[e] = [row[e] EXCEPT !.st = "deleted"]
          BY <1>1, <3>1 DEF DeleteEntity, RowsOK
        <4> QED
          BY <1>1, <4>1 DEF RowsOK
      <3>2. CASE HardDeleteEntity(e)
        BY <1>1, <3>2 DEF HardDeleteEntity, NoRow, RowsOK
      <3> QED
        BY <1>7, <3>1, <3>2
    <2>3. /\ tokens' = [g \in Entity |-> tokens'[g]]
          /\ \A g \in Entity \ {e} : tokens'[g] = tokens[g]
      BY <1>1, <1>7 DEF DeleteEntity, HardDeleteEntity, TokensOK
    <2>4. type' = type
      BY <1>7 DEF DeleteEntity, HardDeleteEntity, const
    <2> QED
      BY <1>1, <2>1, <2>2, <2>3, <2>4 DEF TokensOK
  <1>8. ASSUME UNCHANGED vars PROVE TokensOK'
    BY <1>3, <1>8 DEF vars, tables, const
  <1>9. TokensOK'
    BY <1>4, <1>5, <1>6, <1>7, <1>8 DEF Next
  <1> QED
    BY <1>2, <1>9 DEF TInv

LEMMA TInvFindsSelf == TInv => TokensFindSelf
  <1> SUFFICES ASSUME TInv, NEW e \in Live, NEW f \in ToSet(config.tokenFields),
                      Tokenize(row[e].data[f]) # {}
               PROVE  <<e, f>> \in TokenRows(Tokenize(row[e].data[f]))
    BY DEF TokensFindSelf
  <1>1. RowsOK /\ TokensOK /\ e \in Entity /\ row[e].st = "live"
    BY DEF TInv, MInv, Live
  <1>2. IsMessageType(type) /\ config = MatchConfig(type)
    BY <1>1, TypesAssumption DEF RowsOK
  <1>3. config.tokenFields = Annotated(type, TokenFields(type))
    BY <1>2 DEF MatchConfig, TokenFields
  <1>4. f \in TokenFields(type) /\ f \in FieldName
    BY <1>2, <1>3, AnnotatedTokens
  <1>5. row[e].data[f] # Empty
    <2>1. Tokenize(Empty) = {}
      <3>1. DOMAIN ToLower(Empty) = {}
        BY DEF ToLower, Empty
      <3> QED
        BY <3>1 DEF Tokenize, Runs
    <2> QED
      BY <2>1
  <1>6. f \in DOMAIN tokens[e] /\ tokens[e][f] = Tokenize(row[e].data[f])
    BY <1>1, <1>4, <1>5 DEF TokensOK, HasTokens
  <1> QED
    BY <1>4, <1>6 DEF TokenRows

(* Stored data can be found by its tokens: the token rows of a live entity *)
(* are those of its current data, although merges (WriteActionMerge) keep  *)
(* some fields and change others.                                          *)
THEOREM TokensCurrent == Spec => []TokensFindSelf
  <1>1. Init => TInv
    BY InitTInv
  <1>2. TInv /\ [Next]_vars => TInv'
    BY NextTInv
  <1>3. TInv => TokensFindSelf
    BY TInvFindsSelf
  <1> QED
    BY <1>1, <1>2, <1>3, PTL DEF Spec

-----------------------------------------------------------------------------
(* Sums of fractions.                                                      *)

(* The loop that sums satisfies its equation.                              *)
LEMMA SumsEquation ==
    ASSUME NEW T, NEW s \in Seq(T)
    PROVE  \A i \in 0 .. Len(s) :
               Sums(s)[i] =
                   IF i = 0 THEN Zero ELSE Plus(Sums(s)[i - 1], s[i])
  <1> DEFINE Step(g, i) == Plus(g[i - 1], s[i])
             Upto(g, n) == g = [i \in 0 .. n |->
                                    IF i = 0 THEN Zero ELSE Plus(g[i - 1], s[i])]
             Bad == {n \in Nat : ~\E g : Upto(g, n)}
  <1>1. ASSUME NEW n \in Nat, NEW g, Upto(g, n)
        PROVE  \E h : Upto(h, n + 1)
    <2> DEFINE last == Plus(g[n], s[n + 1])
               h == [i \in 0 .. (n + 1) |-> IF i = n + 1 THEN last ELSE g[i]]
    <2>1. \A i \in 0 .. n : h[i] = g[i] /\ g[i] = IF i = 0 THEN Zero ELSE Step(g, i)
      <3>1. \A i \in 0 .. n : h[i] = g[i]
        <4> HIDE DEF last
        <4> QED
          OBVIOUS
      <3> HIDE DEF h
      <3>2. ASSUME NEW i \in 0 .. n PROVE g[i] = IF i = 0 THEN Zero ELSE Step(g, i)
        <4> DEFINE body(j) == IF j = 0 THEN Zero ELSE Step(g, j)
        <4>1. g = [j \in 0 .. n |-> body(j)]
          BY <1>1
        <4> HIDE DEF body
        <4>2. g[i] = body(i)
          BY <4>1
        <4> QED
          BY <4>2 DEF body
      <3> QED
        BY <3>1, <3>2
    <2>2. h[n + 1] = last
      OBVIOUS
    <2>3. ASSUME NEW i \in 0 .. (n + 1)
          PROVE  h[i] = IF i = 0 THEN Zero ELSE Step(h, i)
      <3> HIDE DEF h
      <3>1. CASE i = n + 1
        <4>1. i - 1 = n /\ n \in 0 .. n
          BY <3>1
        <4> QED
          BY <2>1, <2>2, <3>1, <4>1
      <3>2. CASE i # n + 1
        <4>1. i \in 0 .. n /\ (i = 0 \/ i - 1 \in 0 .. n)
          BY <3>2
        <4> QED
          BY <2>1, <4>1
      <3> QED
        BY <3>1, <3>2
    <2>4. Upto(h, n + 1)
      BY <2>3
    <2> QED
      BY <2>4
  <1>2. \E g : Upto(g, 0)
    <2>1. Upto([i \in 0 .. 0 |-> Zero], 0)
      OBVIOUS
    <2> QED
      BY <2>1
  <1> HIDE DEF Upto
  <1>3. Bad = {}
    <2> SUFFICES ASSUME Bad # {} PROVE FALSE
      OBVIOUS
    <2>1. PICK n \in Bad : \A m \in Bad : n <= m
      BY LeastNatural
    <2>2. n \in Nat /\ n # 0
      BY <1>2
    <2>3. n - 1 \in Nat /\ n - 1 \notin Bad /\ n = (n - 1) + 1
      BY <2>1, <2>2
    <2> QED
      BY <1>1, <2>3
  <1>4. \E g : Upto(g, Len(s))
    <2>1. Len(s) \in Nat
      OBVIOUS
    <2> QED
      BY <1>3, <2>1
  <1>5. Upto(CHOOSE g : Upto(g, Len(s)), Len(s))
    BY <1>4, Zenon
  <1>6. Sums(s) = CHOOSE g : Upto(g, Len(s))
    BY Zenon DEF Sums, Upto
  <1>7. Upto(Sums(s), Len(s))
    BY <1>5, <1>6, Zenon
  <1> QED
    BY <1>7 DEF Upto

(* Sums of fractions that are equal part by part, in other denominators,   *)
(* are equal.                                                              *)
Worth(p, q) == \E w \in Nat, v \in Nat \ {0} : p = <<w * v, v>> /\ q = <<w, 1>>

LEMMA WorthSum ==
    ASSUME NEW p, NEW q, Worth(p, q), NEW x, NEW y, Worth(x, y)
    PROVE  Worth(Plus(p, x), Plus(q, y))
  <1>1. PICK c \in Nat, d \in Nat \ {0} : p = <<c * d, d>> /\ q = <<c, 1>>
    BY DEF Worth
  <1>2. PICK w \in Nat, v \in Nat \ {0} : x = <<w * v, v>> /\ y = <<w, 1>>
    BY DEF Worth
  <1>3. Plus(p, x) = <<(c * d) * v + (w * v) * d, d * v>>
    BY <1>1, <1>2 DEF Plus
  <1>4. Plus(q, y) = <<c + w, 1>>
    BY <1>1, <1>2 DEF Plus
  <1>5. (c * d) * v + (w * v) * d = (c + w) * (d * v)
    OBVIOUS
  <1>6. c + w \in Nat /\ d * v \in Nat \ {0}
    OBVIOUS
  <1> QED
    BY <1>3, <1>4, <1>5, <1>6 DEF Worth

LEMMA WorthTotal ==
    ASSUME NEW T, NEW p \in Seq(T), NEW q \in Seq(T), Len(p) = Len(q),
           \A i \in 1 .. Len(p) : Worth(p[i], q[i])
    PROVE  Worth(Total(p), Total(q))
  <1> DEFINE n == Len(p)
             A == Sums(p)
             B == Sums(q)
             P == {i \in 0 .. n : Worth(A[i], B[i])}
  <1>1. \A i \in 0 .. n : A[i] = IF i = 0 THEN Zero ELSE Plus(A[i - 1], p[i])
    BY SumsEquation
  <1>2. \A i \in 0 .. n : B[i] = IF i = 0 THEN Zero ELSE Plus(B[i - 1], q[i])
    BY SumsEquation
  <1>3. n \in Nat /\ n \in 0 .. n /\ n = Len(q)
    OBVIOUS
  <1> HIDE DEF A, B
  <1>4. 0 \in P
    <2>1. A[0] = Zero /\ B[0] = Zero
      BY <1>1, <1>2, <1>3
    <2>2. Worth(Zero, Zero)
      <3>1. Zero = <<0 * 1, 1>> /\ Zero = <<0, 1>> /\ 0 \in Nat /\ 1 \in Nat \ {0}
        BY DEF Zero
      <3> QED
        BY <3>1 DEF Worth
    <2> QED
      BY <1>3, <2>1, <2>2
  <1>5. ASSUME NEW i \in 1 .. n, i - 1 \in P PROVE i \in P
    <2>1. A[i] = Plus(A[i - 1], p[i]) /\ B[i] = Plus(B[i - 1], q[i])
      BY <1>1, <1>2
    <2>2. Worth(A[i - 1], B[i - 1]) /\ Worth(p[i], q[i])
      BY <1>5
    <2>3. Worth(Plus(A[i - 1], p[i]), Plus(B[i - 1], q[i]))
      BY <2>2, WorthSum
    <2> QED
      BY <2>1, <2>3
  <1> HIDE DEF P
  <1>6. \A i \in 1 .. n : i - 1 \in P => i \in P
    BY <1>5
  <1> HIDE DEF n
  <1>7. \A i \in 0 .. n : i \in P
    BY <1>3, <1>4, <1>6, UpTo
  <1>8. Worth(A[n], B[n])
    BY <1>3, <1>7 DEF P
  <1>9. A[n] = Total(p) /\ B[n] = Total(q)
    BY <1>3 DEF Total, A, B, n
  <1> QED
    BY <1>8, <1>9

LEMMA WorthLess ==
    ASSUME NEW p, NEW q, Worth(p, q), NEW r \in Nat
    PROVE  /\ Less(q, <<r, 1>>) <=> Less(p, <<r, 1>>)
           /\ Less(<<r, 1>>, q) <=> Less(<<r, 1>>, p)
  <1>1. PICK c \in Nat, d \in Nat \ {0} : p = <<c * d, d>> /\ q = <<c, 1>>
    BY DEF Worth
  <1>2. \A m, n \in Nat : m < n <=> m * d < n * d
    <2> SUFFICES ASSUME NEW m \in Nat, NEW n \in Nat PROVE m < n <=> m * d < n * d
      OBVIOUS
    <2>1. ASSUME m < n PROVE m * d < n * d
      <3>1. PICK k \in Nat \ {0} : n = m + k
        <4>1. n - m \in Nat \ {0} /\ n = m + (n - m)
          BY <2>1
        <4> QED
          BY <4>1
      <3>2. n * d = m * d + k * d /\ k * d \in Nat \ {0} /\ m * d \in Nat
        BY <3>1
      <3> QED
        BY <3>2
    <2>2. ASSUME n <= m PROVE n * d <= m * d
      <3>1. PICK k \in Nat : m = n + k
        <4>1. m - n \in Nat /\ m = n + (m - n)
          BY <2>2
        <4> QED
          BY <4>1
      <3>2. m * d = n * d + k * d /\ k * d \in Nat /\ n * d \in Nat
        BY <3>1
      <3> QED
        BY <3>2
    <2>3. m * d \in Nat /\ n * d \in Nat
      OBVIOUS
    <2> QED
      BY <2>1, <2>2, <2>3
  <1>3. /\ Less(q, <<r, 1>>) <=> c < r
        /\ Less(<<r, 1>>, q) <=> r < c
    BY <1>1 DEF Less
  <1>4. /\ Less(p, <<r, 1>>) <=> c * d < r * d
        /\ Less(<<r, 1>>, p) <=> r * d < c * d
    BY <1>1 DEF Less
  <1>5. (c < r <=> c * d < r * d) /\ (r < c <=> r * d < c * d)
    BY <1>2
  <1> QED
    BY <1>3, <1>4, <1>5

-----------------------------------------------------------------------------
(* How similar a text is to itself.                                        *)

(* What Min and Max of module FiniteSetsExt choose.                        *)
LEMMA MinIs ==
    ASSUME NEW S \in SUBSET Nat, S # {}
    PROVE  Min(S) \in S /\ \A x \in S : Min(S) <= x
  <1>1. \E x \in S : \A y \in S : x <= y
    BY LeastNatural
  <1> QED
    BY <1>1 DEF Min

LEMMA MinOfThree ==
    ASSUME NEW x \in Nat, NEW y \in Nat, NEW z \in Nat
    PROVE  /\ Min({x, y, z}) \in Nat
           /\ Min({x, y, z}) = x \/ Min({x, y, z}) = y \/ Min({x, y, z}) = z
           /\ Min({x, y, z}) <= x /\ Min({x, y, z}) <= y /\ Min({x, y, z}) <= z
  <1>1. {x, y, z} \in SUBSET Nat /\ {x, y, z} # {}
    OBVIOUS
  <1>2. Min({x, y, z}) \in {x, y, z} /\ \A u \in {x, y, z} : Min({x, y, z}) <= u
    BY <1>1, MinIs
  <1> QED
    BY <1>2

LEMMA MaxIs ==
    ASSUME NEW n \in Nat, NEW S \in SUBSET (0 .. n), S # {}
    PROVE  Max(S) \in S
  <1> DEFINE R == {n - x : x \in S}
  <1>1. R \in SUBSET Nat /\ R # {}
    <2>1. \A x \in S : n - x \in Nat
      <3> SUFFICES ASSUME NEW x \in S PROVE n - x \in Nat
        OBVIOUS
      <3>1. x \in 0 .. n
        OBVIOUS
      <3> QED
        BY <3>1
    <2> QED
      BY <2>1
  <1>2. PICK r \in R : \A u \in R : r <= u
    BY <1>1, LeastNatural
  <1>3. PICK x \in S : r = n - x
    BY <1>2
  <1>4. \A y \in S : x >= y
    BY <1>2, <1>3
  <1> QED
    BY <1>3, <1>4 DEF Max

LEMMA OwnPrefix ==
    ASSUME NEW T, NEW s \in Seq(T)
    PROVE  PrefixLen(s, s) \in Nat
  <1> DEFINE n == Min({4, Len(s), Len(s)})
             S == {k \in 0 .. n : SubSeq(s, 1, k) = SubSeq(s, 1, k)}
  <1>1. n \in Nat
    <2>1. 4 \in Nat /\ Len(s) \in Nat
      OBVIOUS
    <2> QED
      BY <2>1, MinOfThree
  <1>2. PrefixLen(s, s) = Max(S)
    BY DEF PrefixLen
  <1> HIDE DEF n
  <1>3. S \in SUBSET (0 .. n) /\ S # {} /\ S \subseteq Nat
    <2>1. S = 0 .. n
      OBVIOUS
    <2>2. 0 \in 0 .. n /\ 0 .. n \subseteq Nat
      BY <1>1
    <2> HIDE DEF S
    <2> QED
      BY <2>1, <2>2
  <1> HIDE DEF S
  <1>4. Max(S) \in S
    BY <1>1, <1>3, MaxIs
  <1> QED
    BY <1>2, <1>3, <1>4

(* The runs of a text are finitely many: each has a place.                 *)
LEMMA RunsFinite ==
    ASSUME NEW T, NEW s \in Seq(T), NEW Keep
    PROVE  IsFiniteSet(Runs(s, Keep))
  <1> DEFINE in(i) == i \in DOMAIN s /\ s[i] \in Keep
             S == {q \in (DOMAIN s) \X (DOMAIN s) :
                       /\ q[1] <= q[2]
                       /\ \A i \in q[1] .. q[2] : in(i)
                       /\ ~in(q[1] - 1) /\ ~in(q[2] + 1)}
             f == [r \in S |-> SubSeq(s, r[1], r[2])]
  <1>1. IsFiniteSet(S)
    <2>1. \A n \in Nat : IsFiniteSet(1 .. n)
      <3>1. \A n \in Nat : 1 \in Int /\ n \in Int
        OBVIOUS
      <3> QED
        BY <3>1, FS_Interval
    <2>2. IsFiniteSet(DOMAIN s)
      <3>1. DOMAIN s = 1 .. Len(s) /\ Len(s) \in Nat
        OBVIOUS
      <3> QED
        BY <2>1, <3>1
    <2>3. IsFiniteSet((DOMAIN s) \X (DOMAIN s))
      BY <2>2, FS_Product
    <2>4. S \subseteq (DOMAIN s) \X (DOMAIN s)
      OBVIOUS
    <2> HIDE DEF S
    <2> QED
      BY <2>3, <2>4, FS_Subset
  <1>2. Runs(s, Keep) = {f[r] : r \in S}
    <2>1. Runs(s, Keep) = {SubSeq(s, r[1], r[2]) : r \in S}
      BY DEF Runs
    <2> HIDE DEF S
    <2> QED
      BY <2>1
  <1> HIDE DEF S
  <1>3. f \in Surjection(S, {f[r] : r \in S})
    BY DEF Surjection
  <1> HIDE DEF f
  <1>4. IsFiniteSet({f[r] : r \in S})
    BY <1>1, <1>3, FS_Surjection
  <1> QED
    BY <1>2, <1>4

LEMMA LowerText ==
    ASSUME NEW s \in Seq(Char)
    PROVE  ToLower(s) \in Seq(Char)
  <1>1. DOMAIN s = 1 .. Len(s) /\ Len(s) \in Nat /\ \A i \in 1 .. Len(s) : s[i] \in Char
    OBVIOUS
  <1>2. \A c \in Char : LowerChar(c) \in Char
    BY CharAssumption DEF LowerChar, Char
  <1>3. ToLower(s) = [i \in 1 .. Len(s) |-> LowerChar(s[i])]
    BY <1>1 DEF ToLower
  <1>4. ToLower(s) \in [1 .. Len(s) -> Char]
    BY <1>1, <1>2, <1>3
  <1> QED
    BY <1>1, <1>4

(* Every similarity function that the generator knows gives a text that is *)
(* not empty the score 1 with itself, as some fraction.                    *)
SimilarityFunction == {"exact", "jaro_winkler", "levenshtein", "token_jaccard"}

LEMMA OwnSimilarity ==
    ASSUME NEW s \in Seq(Char), s # Empty, NEW fn \in SimilarityFunction
    PROVE  \E v \in Nat \ {0} : ComputeSimilarity(fn, s, s) = <<v, v>>
  <1>1. 1 \in Nat \ {0} /\ 10 \in Nat \ {0} /\ One = <<1, 1>>
    BY DEF One
  <1>2. CASE fn = "exact"
    BY <1>1, <1>2 DEF ComputeSimilarity, Exact
  <1>3. CASE fn = "jaro_winkler"
    <2> DEFINE p == PrefixLen(s, s)
    <2>1. p \in Nat
      BY OwnPrefix
    <2>2. Jaro(s, s) = <<1, 1>>
      BY <1>1 DEF Jaro
    <2>3. JaroWinkler(s, s) = <<10 * 1 + p * (1 - 1), 10 * 1>>
      BY <2>2 DEF JaroWinkler
    <2> HIDE DEF p
    <2>4. 10 * 1 + p * (1 - 1) = 10
      BY <2>1
    <2>5. ComputeSimilarity(fn, s, s) = <<10, 10>>
      BY <1>3, <2>3, <2>4 DEF ComputeSimilarity
    <2> QED
      BY <1>1, <2>5
  <1>4. CASE fn = "levenshtein"
    BY <1>1, <1>4 DEF ComputeSimilarity, NormalizedLevenshtein
  <1>5. CASE fn = "token_jaccard"
    <2> DEFINE a == TokenSet(s)
    <2>1. IsFiniteSet(a)
      BY LowerText, RunsFinite DEF TokenSet
    <2>2. ComputeSimilarity(fn, s, s) =
              IF a = {} THEN One ELSE <<Cardinality(a \cap a), Cardinality(a \cup a)>>
      BY <1>5 DEF ComputeSimilarity, TokenJaccard
    <2> HIDE DEF a
    <2>3. a \cap a = a /\ a \cup a = a
      OBVIOUS
    <2>4. Cardinality(a) \in Nat /\ (Cardinality(a) = 0 <=> a = {})
      BY <2>1, FS_CardinalityType, FS_EmptySet
    <2>5. ComputeSimilarity(fn, s, s) =
              IF a = {} THEN <<1, 1>> ELSE <<Cardinality(a), Cardinality(a)>>
      BY <1>1, <2>2, <2>3
    <2>6. a # {} => Cardinality(a) \in Nat \ {0}
      BY <2>4
    <2> QED
      BY <1>1, <2>5, <2>6
  <1> QED
    BY <1>2, <1>3, <1>4, <1>5 DEF SimilarityFunction

(* Normalizing a text gives a text.                                        *)
LEMMA TrimmedText ==
    ASSUME NEW s \in Seq(Char)
    PROVE  TrimSpace(s) \in Seq(Char)
  <1> DEFINE ink == {i \in DOMAIN s : s[i] \notin Space}
             m == CHOOSE i \in ink : \A j \in ink : i <= j
             n == CHOOSE i \in ink : \A j \in ink : i >= j
  <1>1. ink \in SUBSET (0 .. Len(s)) /\ ink \in SUBSET (1 .. Len(s)) /\ ink \in SUBSET Nat
    OBVIOUS
  <1>2. TrimSpace(s) = IF ink = {} THEN Empty ELSE SubSeq(s, m, n)
    BY DEF TrimSpace
  <1>3. ink # {} => m \in ink
    <2>1. ink # {} => \E i \in ink : \A j \in ink : i <= j
      BY <1>1, LeastNatural
    <2> HIDE DEF ink
    <2> QED
      BY <2>1
  <1>4. ink # {} => n \in ink
    <2>1. n = Max(ink)
      BY DEF Max
    <2> HIDE DEF n, ink
    <2>2. Len(s) \in Nat
      OBVIOUS
    <2> QED
      BY <1>1, <2>1, <2>2, MaxIs
  <1> HIDE DEF ink, m, n
  <1>5. CASE ink = {}
    BY <1>2, <1>5 DEF Empty
  <1>6. CASE ink # {}
    <2>1. m \in 1 .. Len(s) /\ n \in 1 .. Len(s)
      BY <1>1, <1>3, <1>4, <1>6
    <2>2. SubSeq(s, m, n) \in Seq(Char)
      BY <2>1
    <2> QED
      BY <1>2, <1>6, <2>2
  <1> QED
    BY <1>5, <1>6

LEMMA PhoneText ==
    ASSUME NEW s \in Seq(Char)
    PROVE  NormalizePhone(s) \in Seq(Char)
  <1> DEFINE t == TrimSpace(s)
  <1>1. t \in Seq(Char)
    BY TrimmedText
  <1>2. NormalizePhone(s) = IF t = Empty THEN Empty
                            ELSE IF Head(t) = "+" THEN <<"+">> \o Select(Tail(t), Digit)
                            ELSE Select(t, Digit)
    BY DEF NormalizePhone
  <1> HIDE DEF t
  <1>3. CASE t = Empty
    BY <1>1, <1>2, <1>3
  <1>4. CASE t # Empty
    <2>1. Tail(t) \in Seq(Char) /\ "+" \in Char
      BY <1>1, <1>4, CharAssumption DEF Empty, Char
    <2>2. Select(Tail(t), Digit) \in Seq(Char) /\ Select(t, Digit) \in Seq(Char)
      BY <1>1, <2>1, SelectIs
    <2>3. <<"+">> \o Select(Tail(t), Digit) \in Seq(Char)
      BY <2>1, <2>2
    <2> QED
      BY <1>2, <1>4, <2>2, <2>3
  <1> QED
    BY <1>3, <1>4

LEMMA NormalText ==
    ASSUME NEW ty, NEW f, NEW s \in Seq(Char)
    PROVE  NormalizeField(MatchConfig(ty), f, s) \in Seq(Char)
  <1> DEFINE N == MatchConfig(ty).normalizers
  <1>1. \A fn \in {"nil", "NormalizeLowercaseTrim", "NormalizePhone"} :
            Normalize(fn, s) \in Seq(Char)
    BY TrimmedText, LowerText, PhoneText DEF Normalize, NormalizeLowercaseTrim
  <1>2. f \in DOMAIN N => N[f] = normalizerIdent(ty.opts[f].normalizer)
    BY DEF MatchConfig
  <1>3. f \in DOMAIN N => N[f] \in {"nil", "NormalizeLowercaseTrim", "NormalizePhone"}
    BY <1>2 DEF normalizerIdent
  <1> HIDE DEF N
  <1> QED
    BY <1>1, <1>3 DEF NormalizeField, N

(* What the generator configures for scoring.                              *)
LEMMA WeightsAre ==
    ASSUME NEW ty, IsMessageType(ty), NEW W, W = MatchConfig(ty).weights
    PROVE  /\ W \in Seq(ToSet(W))
           /\ \A i \in DOMAIN W :
                  /\ W[i].field \in ToSet(ty.fields)
                  /\ W[i].weight \in Nat
                  /\ W[i].similarity \in SimilarityFunction
           /\ MatchConfig(ty).thresholds.review \in Nat
           /\ MatchConfig(ty).thresholds.auto \in Nat
  <1> DEFINE S == {f \in DOMAIN ty.opts : ty.opts[f].weight > 0}
             fs == Annotated(ty, S)
  <1>1. fs \in Seq(FieldName) /\ ToSet(fs) = ToSet(ty.fields) \cap S
    BY SelectIs DEF Annotated, IsMessageType
  <1>2. W = [i \in DOMAIN fs |->
                [field |-> fs[i], weight |-> ty.opts[fs[i]].weight,
                 similarity |-> similarityIdent(ty.opts[fs[i]].similarity)]]
    BY DEF MatchConfig
  <1>3. \A f \in DOMAIN ty.opts : ty.opts[f] \in FieldOptions
    BY DEF IsMessageType
  <1>4. \A f \in DOMAIN ty.opts :
            /\ ty.opts[f].weight \in Nat
            /\ similarityIdent(ty.opts[f].similarity) \in SimilarityFunction
    BY <1>3 DEF FieldOptions, similarityIdent, SimilarityFunction
  <1>5. \A i \in DOMAIN fs : fs[i] \in ToSet(ty.fields) /\ fs[i] \in DOMAIN ty.opts
    <2>1. \A i \in DOMAIN fs : fs[i] \in ToSet(fs)
      BY DEF ToSet
    <2> QED
      BY <1>1, <2>1
  <1> HIDE DEF fs
  <1>6. \A i \in DOMAIN W :
            /\ W[i].field \in ToSet(ty.fields)
            /\ W[i].weight \in Nat
            /\ W[i].similarity \in SimilarityFunction
    BY <1>2, <1>4, <1>5
  <1>7. W \in Seq(ToSet(W))
    <2>1. W = [i \in DOMAIN fs |-> W[i]]
      BY <1>2
    <2> QED
      BY <1>1, <2>1, IndexedSeq
  <1>8. MatchConfig(ty).thresholds.review \in Nat /\ MatchConfig(ty).thresholds.auto \in Nat
    <2>1. MatchConfig(ty).thresholds =
              IF ty.thresholds = NoThresholds THEN DefaultThresholds ELSE ty.thresholds
      BY DEF MatchConfig
    <2> QED
      BY <2>1 DEF IsMessageType, DefaultThresholds
  <1> QED
    BY <1>6, <1>7, <1>8

(* The score of data with itself is the weight of what can be compared.    *)
LEMMA OwnScore ==
    ASSUME IsMessageType(type), config = MatchConfig(type), NEW d \in [Fields -> Seq(Char)]
    PROVE  Worth(Score(config, d, d), ComparableWeight(d))
  <1> DEFINE W == config.weights
             part(w) == Times(w.weight, FieldScore(config, w, d, d))
             comparable(w) == IF NormalizeField(config, w.field, d[w.field]) = Empty
                              THEN Zero ELSE <<w.weight, 1>>
             p == [i \in DOMAIN W |-> part(W[i])]
             q == [i \in DOMAIN W |-> comparable(W[i])]
  <1>1. /\ W \in Seq(ToSet(W))
        /\ \A i \in DOMAIN W :
               /\ W[i].field \in ToSet(type.fields)
               /\ W[i].weight \in Nat
               /\ W[i].similarity \in SimilarityFunction
    BY WeightsAre
  <1>2. Score(config, d, d) = Total(p) /\ ComparableWeight(d) = Total(q)
    BY DEF Score, ComparableWeight
  <1> HIDE DEF W
  <1>3. ASSUME NEW i \in DOMAIN W PROVE Worth(part(W[i]), comparable(W[i]))
    <2> DEFINE w == W[i]
               n == w.weight
               text == NormalizeField(config, w.field, d[w.field])
    <2>1. n \in Nat /\ w.similarity \in SimilarityFunction /\ w.field \in Fields
      BY <1>1 DEF Fields
    <2>2. text \in Seq(Char)
      <3>1. d[w.field] \in Seq(Char)
        BY <2>1
      <3> QED
        BY <3>1, NormalText
    <2>3. FieldScore(config, w, d, d) = ComputeSimilarity(w.similarity, text, text)
      BY <2>1 DEF FieldScore, Value
    <2>4. comparable(w) = IF text = Empty THEN Zero ELSE <<n, 1>>
      OBVIOUS
    <2> HIDE DEF text, w, n
    <2>5. part(w) = Times(n, FieldScore(config, w, d, d))
      BY DEF n
    <2> HIDE DEF part, comparable
    <2>6. CASE text = Empty
      <3>1. part(w) = Times(n, <<0, 1>>)
        BY <2>3, <2>5, <2>6 DEF ComputeSimilarity, Zero
      <3>2. part(w) = <<0 * 1, 1>> /\ comparable(w) = <<0, 1>>
        BY <2>1, <2>4, <2>6, <3>1 DEF Times, Zero
      <3>3. 0 \in Nat /\ 1 \in Nat \ {0}
        OBVIOUS
      <3> QED
        BY <3>2, <3>3 DEF Worth, w
    <2>7. CASE text # Empty
      <3>1. PICK v \in Nat \ {0} : ComputeSimilarity(w.similarity, text, text) = <<v, v>>
        BY <2>1, <2>2, <2>7, OwnSimilarity
      <3>2. part(w) = <<n * v, v>> /\ comparable(w) = <<n, 1>>
        BY <2>3, <2>4, <2>5, <2>7, <3>1 DEF Times
      <3> QED
        BY <2>1, <3>2 DEF Worth, w
    <2> QED
      BY <2>6, <2>7
  <1> DEFINE T == ToSet(p) \cup ToSet(q)
  <1>4. p = [i \in DOMAIN W |-> p[i]] /\ q = [i \in DOMAIN W |-> q[i]]
    OBVIOUS
  <1>5. \A i \in DOMAIN W : Worth(p[i], q[i])
    BY <1>3
  <1> HIDE DEF part, comparable, p, q
  <1>6. p \in Seq(ToSet(p)) /\ q \in Seq(ToSet(q)) /\ DOMAIN p = DOMAIN W /\ DOMAIN q = DOMAIN W
    BY <1>1, <1>4, IndexedSeq
  <1>7. p \in Seq(T) /\ q \in Seq(T)
    BY <1>6
  <1>8. Len(p) = Len(q) /\ DOMAIN W = 1 .. Len(p)
    BY <1>6
  <1> HIDE DEF T
  <1>9. Worth(Total(p), Total(q))
    BY <1>5, <1>7, <1>8, WorthTotal
  <1> QED
    BY <1>2, <1>9

-----------------------------------------------------------------------------
(* What is extracted and stored has a text for every field.                *)

TextsOK ==
    /\ \A x \in Extractor : pc[x] # "idle" => data[x] \in [Fields -> Seq(Char)]
    /\ \A e \in Entity : row[e].st = "live" => row[e].data \in [Fields -> Seq(Char)]

SInv == MInv /\ TextsOK

LEMMA InitSInv == Init => SInv
  <1> SUFFICES ASSUME Init PROVE SInv
    OBVIOUS
  <1>1. MInv
    BY InitMInv
  <1>2. TextsOK
    BY DEF Init, TextsOK, NoRow
  <1> QED
    BY <1>1, <1>2 DEF SInv

LEMMA ExtractedTexts ==
    ASSUME IsMessageType(type), NEW d \in Documents
    PROVE  d \in [Fields -> Seq(Char)]
  <1>1. d = [f \in Fields |-> d[f]] /\ DOMAIN d = Fields /\ Extractable(d)
    BY DEF Documents, Fields
  <1>2. \A f \in Fields : d[f] \in Texts[f] \cup {Empty}
    BY <1>1, Zenon DEF Extractable
  <1>3. Fields \subseteq FieldName
    BY DEF IsMessageType, Fields, ToSet
  <1>4. Empty \in Seq(Char)
    BY DEF Empty
  <1>5. \A f \in Fields : d[f] \in Seq(Char)
    BY <1>2, <1>3, <1>4, TextsAssumption
  <1> QED
    BY <1>1, <1>5

(* A merge takes each text from one of the two.                            *)
LEMMA MergedTexts ==
    ASSUME NEW S, NEW old \in [S -> Seq(Char)], NEW new \in [S -> Seq(Char)]
    PROVE  MergeData(old, new) \in [S -> Seq(Char)]
  BY DEF MergeData

LEMMA NextSInv == SInv /\ [Next]_vars => SInv'
  <1> SUFFICES ASSUME SInv, [Next]_vars PROVE SInv'
    OBVIOUS
  <1> DEFINE text == [Fields -> Seq(Char)]
  <1>1. MInv /\ RowsOK /\ MatchesOK /\ TextsOK
    BY DEF SInv, MInv
  <1>2. MInv'
    BY <1>1, NextMInv
  <1>3. IsMessageType(type)
    BY <1>1, TypesAssumption DEF RowsOK
  <1>4. type' = type /\ Fields' = Fields
    <2>1. type' = type
      BY DEF Next, Extract, QueryAnchor, QueryTokens, QueryEmbedding, MatchFails, ApplyCreate,
             ApplyMerge, GiveUp, DeleteEntity, HardDeleteEntity, vars, const
    <2> QED
      BY <2>1 DEF Fields
  \* Only Extract makes an idle extractor busy, and only it sets the data.
  <1>5. ASSUME NEW x \in Extractor, pc'[x] # "idle" PROVE data'[x] \in text
    <2>1. ASSUME NEW y \in Extractor, Extract(y) PROVE data'[x] \in text
      <3>1. PICK d \in Documents : data' = [data EXCEPT ![y] = d]
        BY <2>1 DEF Extract
      <3>2. d \in text
        BY <1>3, ExtractedTexts
      <3>3. CASE x = y
        BY <1>1, <3>1, <3>2, <3>3 DEF MatchesOK
      <3>4. CASE x # y
        <4>1. pc'[x] = pc[x] /\ data'[x] = data[x]
          BY <1>1, <2>1, <3>1, <3>4 DEF Extract, MatchesOK
        <4> QED
          BY <1>1, <1>5, <4>1 DEF TextsOK
      <3> QED
        BY <3>3, <3>4
    <2>2. ASSUME NEW y \in Extractor, QueryAnchor(y) \/ QueryTokens(y) \/ QueryEmbedding(y)
          PROVE  data'[x] \in text
      <3>1. data' = data /\ pc[y] # "idle"
        BY <2>2 DEF QueryAnchor, QueryTokens, QueryEmbedding
      <3>2. pc'[x] = pc[x] \/ x = y
        BY <1>1, <2>2 DEF QueryAnchor, QueryTokens, QueryEmbedding, MatchesOK
      <3> QED
        BY <1>1, <1>5, <3>1, <3>2 DEF TextsOK
    <2>3. ASSUME NEW y \in Extractor,
                 MatchFails(y) \/ ApplyCreate(y) \/ ApplyMerge(y) \/ GiveUp(y)
          PROVE  data'[x] \in text
      <3>1. Forget(y)
        BY <2>3 DEF MatchFails, ApplyCreate, ApplyMerge, GiveUp
      <3>2. x # y /\ pc'[x] = pc[x] /\ data'[x] = data[x]
        BY <1>1, <1>5, <3>1 DEF Forget, MatchesOK
      <3> QED
        BY <1>1, <1>5, <3>2 DEF TextsOK
    <2>4. ASSUME UNCHANGED <<pc, data>> PROVE data'[x] \in text
      BY <1>1, <1>5, <2>4 DEF TextsOK
    <2>5. ASSUME NEW e \in Entity, DeleteEntity(e) \/ HardDeleteEntity(e)
          PROVE  UNCHANGED <<pc, data>>
      BY <2>5 DEF DeleteEntity, HardDeleteEntity, matchVars
    <2>6. UNCHANGED vars => UNCHANGED <<pc, data>>
      BY DEF vars, matchVars
    <2> HIDE DEF text
    <2> QED
      BY <2>1, <2>2, <2>3, <2>4, <2>5, <2>6 DEF Next
  \* Only a write of what was extracted changes the data of a live entity.
  <1>6. ASSUME NEW e \in Entity, row'[e].st = "live" PROVE row'[e].data \in text
    <2>1. ASSUME row' = row PROVE row'[e].data \in text
      BY <1>1, <1>6, <2>1 DEF TextsOK
    <2>2. ASSUME NEW x \in Extractor, 
                 Extract(x) \/ QueryAnchor(x) \/ QueryTokens(x) \/ QueryEmbedding(x)
                     \/ MatchFails(x) \/ GiveUp(x)
          PROVE  row' = row
      BY <2>2 DEF Extract, QueryAnchor, QueryTokens, QueryEmbedding, MatchFails, GiveUp, tables
    <2>3. ASSUME NEW x \in Extractor, ApplyCreate(x) PROVE row'[e].data \in text
      <3> DEFINE op == WriteOp(type, data[x], "create")
                 r == [st |-> "live", version |-> 0, data |-> op.data, display |-> op.display]
      <3>1. PICK g \in Entity : row' = [row EXCEPT ![g] = r]
        BY <2>3 DEF ApplyCreate, WriteEntity
      <3>2. r.data = data[x] /\ data[x] \in text
        BY <1>1, <2>3 DEF WriteOp, ApplyCreate, TextsOK
      <3> HIDE DEF op, r
      <3>3. row'[e] = r \/ row'[e] = row[e]
        BY <1>1, <3>1 DEF RowsOK
      <3> QED
        BY <1>1, <1>6, <3>2, <3>3 DEF TextsOK
    <2>4. ASSUME NEW x \in Extractor, ApplyMerge(x) PROVE row'[e].data \in text
      <3> DEFINE op == WriteOp(type, data[x], "merge")
                 c == decision[x].matched
                 g == c.id
                 merged == MergeData(row[g].data, op.data)
                 r == [st |-> "live", version |-> c.version + 1,
                       data |-> merged, display |-> op.display]
      <3>1. /\ row' = [row EXCEPT ![g] = r] /\ row[g].st = "live"
            /\ decision[x].action = "update"
        BY <2>4 DEF ApplyMerge, WriteEntity, Current
      <3>2. op.data = data[x] /\ data[x] \in text
        BY <1>1, <2>4 DEF WriteOp, ApplyMerge, TextsOK
      <3>3. g \in Entity
        BY <1>1, <3>1 DEF MatchesOK, MatchOK, HeldOK
      <3>4. r.data = MergeData(row[g].data, data[x])
        BY <3>2
      <3> HIDE DEF op, c, g, merged, r
      <3>5. row[g].data \in text
        BY <1>1, <3>1, <3>3 DEF TextsOK
      <3>6. r.data \in text
        <4> DEFINE F == Fields
        <4> HIDE DEF F
        <4>1. row[g].data \in [F -> Seq(Char)] /\ data[x] \in [F -> Seq(Char)]
          BY <3>2, <3>5 DEF F
        <4>2. MergeData(row[g].data, data[x]) \in [F -> Seq(Char)]
          BY <4>1, MergedTexts
        <4> QED
          BY <3>4, <4>2 DEF F
      <3>7. row'[e] = r \/ row'[e] = row[e]
        BY <1>1, <3>1 DEF RowsOK
      <3> QED
        BY <1>1, <1>6, <3>6, <3>7 DEF TextsOK
    <2>5. ASSUME NEW g \in Entity, DeleteEntity(g) \/ HardDeleteEntity(g)
          PROVE  row'[e].data \in text
      <3>1. e # g
        <4>1. row'[g] = [row[g] EXCEPT !.st = "deleted"] \/ row'[g] = [NoRow EXCEPT !.st = "gone"]
          BY <1>1, <2>5 DEF DeleteEntity, HardDeleteEntity, RowsOK
        <4>2. row'[g].st \in {"deleted", "gone"}
          BY <1>1, <4>1 DEF RowsOK, NoRow
        <4> QED
          BY <1>6, <4>2
      <3>2. row'[e] = row[e]
        BY <1>1, <2>5, <3>1 DEF DeleteEntity, HardDeleteEntity, RowsOK
      <3> QED
        BY <1>1, <1>6, <3>2 DEF TextsOK
    <2>6. UNCHANGED vars => row' = row
      BY DEF vars, tables
    <2> HIDE DEF text
    <2> QED
      BY <2>1, <2>2, <2>3, <2>4, <2>5, <2>6 DEF Next
  <1>7. TextsOK'
    BY <1>4, <1>5, <1>6 DEF TextsOK
  <1> QED
    BY <1>2, <1>7 DEF SInv

(* Data has no conflict with itself.                                       *)
LEMMA OwnPlan ==
    ASSUME NEW d, NEW c, c.data = d
    PROVE  UpdateOrConflict(config, d, c).action = "update"
  <1>1. \A f : MergeOp(config, f, Value(d, f), Value(d, f)) = "keep"
    BY DEF MergeOp
  <1>2. ~hasConflictOps(buildMergePlan(config, d, d))
    BY <1>1 DEF hasConflictOps, buildMergePlan
  <1> QED
    BY <1>2 DEF UpdateOrConflict, Decision

LEMMA SInvDecides == SInv => OwnDataDecided
  <1> SUFFICES ASSUME SInv, NEW e \in Live
               PROVE  FitsWeight(ScoredDecision(config, row[e].data, Candidate(e)).action,
                                 ComparableWeight(row[e].data))
    BY DEF OwnDataDecided
  <1> DEFINE d == row[e].data
             c == Candidate(e)
             review == config.thresholds.review
             auto == config.thresholds.auto
             score == Score(config, d, d)
             weight == ComparableWeight(d)
             update == UpdateOrConflict(config, d, c)
  <1>1. IsMessageType(type) /\ config = MatchConfig(type)
    BY TypesAssumption DEF SInv, MInv, RowsOK
  <1>2. d \in [Fields -> Seq(Char)]
    BY DEF SInv, TextsOK, Live
  <1>3. review \in Nat /\ auto \in Nat
    BY <1>1, WeightsAre
  <1>4. c.data = d
    BY DEF Candidate
  <1>5. ScoredDecision(config, d, c) =
            IF Less(score, <<review, 1>>) THEN Decision("create", NoCandidate, NoPlan)
            ELSE IF Less(score, <<auto, 1>>) THEN Decision("review", c, NoPlan)
            ELSE update
    BY <1>4 DEF ScoredDecision
  <1>6. update.action = "update"
    BY <1>4, OwnPlan
  <1>7. /\ Decision("create", NoCandidate, NoPlan).action = "create"
        /\ Decision("review", c, NoPlan).action = "review"
    BY DEF Decision
  <1> HIDE DEF d, c, review, auto, update
  <1>8. Worth(score, weight)
    BY <1>1, <1>2, OwnScore
  <1> HIDE DEF score, weight
  <1>9. \A t \in {review, auto} : /\ Less(weight, <<t, 1>>) <=> Less(score, <<t, 1>>)
                                  /\ Less(<<t, 1>>, weight) <=> Less(<<t, 1>>, score)
    BY <1>3, <1>8, WorthLess
  <1>10. \A t \in {review, auto} : Less(<<t, 1>>, weight) => ~Less(weight, <<t, 1>>)
    <2>1. PICK w \in Nat : weight = <<w, 1>>
      BY <1>8 DEF Worth
    <2> QED
      BY <1>3, <2>1 DEF Less
  <1> DEFINE action == ScoredDecision(config, d, c).action
  <1>11. Less(weight, <<review, 1>>) => action = "create"
    BY <1>5, <1>7, <1>9
  <1>12. Less(<<review, 1>>, weight) => ~Less(score, <<review, 1>>)
    BY <1>9, <1>10
  <1>13. Less(<<auto, 1>>, weight) => ~Less(score, <<auto, 1>>)
    BY <1>9, <1>10
  <1>14. Less(<<review, 1>>, weight) /\ Less(weight, <<auto, 1>>) => action = "review"
    BY <1>5, <1>7, <1>9, <1>12
  <1>15. Less(<<review, 1>>, weight) /\ Less(<<auto, 1>>, weight) => action = "update"
    BY <1>5, <1>6, <1>12, <1>13
  <1> QED
    BY <1>11, <1>14, <1>15 DEF FitsWeight, d, c, review, auto, weight

(* What Match does with stored data that comes again and is found by its   *)
(* tokens or its embedding, for every message type, similarity function,   *)
(* normalizer and text: the weight of the fields with a value says whether *)
(* scoreCandidate and the thresholds make a second entity of it, ask a     *)
(* human, or update the entity without a conflict in buildMergePlan.       *)
THEOREM OwnDataMatched == Spec => []OwnDataDecided
  <1>1. Init => SInv
    BY InitSInv
  <1>2. SInv /\ [Next]_vars => SInv'
    BY NextSInv
  <1>3. SInv => OwnDataDecided
    BY SInvDecides
  <1> QED
    BY <1>1, <1>2, <1>3, PTL DEF Spec

=============================================================================
