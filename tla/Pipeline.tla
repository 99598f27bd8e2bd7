------------------------------ MODULE Pipeline ------------------------------
(***************************************************************************)
(* Entity resolution from end to end: extractors take data out of          *)
(* documents, Matcher.Match looks for the entity it describes, one query   *)
(* after the other, and the caller writes the generated WriteOp according  *)
(* to the decision.  A BatchWrite is one step here: EntityWrites has its   *)
(* statements, and shows that it may be seen so.                           *)
(***************************************************************************)
EXTENDS Matching

CONSTANTS
    Extractor,
    Entity,
    Types,            \* annotated message types
    Texts,            \* per field, the values documents may contain
    TokenLimit,       \* WithTokenLimit
    TopK,             \* WithEmbeddingTopK
    WithEmbedder,     \* an embedder was passed to NewMatcher
    MaxExtractions    \* bound on the documents

ASSUME TypesAssumption == \A t \in Types : IsMessageType(t)
ASSUME TextsAssumption == \A f \in FieldName : Texts[f] \subseteq Seq(Char)
ASSUME LimitsAssumption ==
    /\ TokenLimit \in Nat /\ TopK \in Nat /\ MaxExtractions \in Nat
    /\ WithEmbedder \in BOOLEAN

VARIABLES
    type,         \* the message type of this deployment
    config,       \* the configuration NewMatcher was given for it
    row,          \* entities
    anchorOf,     \* entity_anchors: from anchors to entities
    tokens,       \* entity_tokens: per entity, from token fields to tokens
    embedded,     \* entities with an embedding
    pc,           \* per extractor: idle, anchors, tokens, embedding, decided
    data,         \* per extractor: the extracted data
    queries,      \* per extractor: anchor queries still to be made
    found,        \* per extractor: candidates
    decision,     \* per extractor: the MatchDecision
    extractions,  \* documents so far
    overlapped    \* history: two matches were in progress at the same time

tables == <<row, anchorOf, tokens, embedded>>
matchVars == <<pc, data, queries, found, decision>>
const == <<type, config>>
vars == <<const, tables, matchVars, extractions, overlapped>>

NoRow == [st |-> "none", version |-> 0, data |-> <<>>, display |-> Empty]
Undecided == Decision("none", NoCandidate, NoPlan)

Live == {e \in Entity : row[e].st = "live"}

\* What a query returns of an entity.
Candidate(e) == [id |-> e, version |-> row[e].version, data |-> row[e].data]

\* addUnique: the first row of an entity is kept.
AddUnique(cands, ids) ==
    cands \cup {Candidate(e) : e \in {i \in ids : \A c \in cands : c.id # i}}

Min2(m, n) == IF m <= n THEN m ELSE n

Init ==
    /\ type \in Types
    /\ config = MatchConfig(type)
    /\ row = [e \in Entity |-> NoRow]
    /\ anchorOf = [a \in {} |-> a]
    /\ tokens = [e \in Entity |-> [f \in {} |-> {}]]
    /\ embedded = {}
    /\ pc = [x \in Extractor |-> "idle"]
    /\ data = [x \in Extractor |-> <<>>]
    /\ queries = [x \in Extractor |-> <<>>]
    /\ found = [x \in Extractor |-> {}]
    /\ decision = [x \in Extractor |-> Undecided]
    /\ extractions = 0
    /\ overlapped = FALSE

-----------------------------------------------------------------------------
\* The queries.

\* FindByAnchors for one anchor: the live entity it points to.
FindByAnchor(a) == {e \in Live : a \in DOMAIN anchorOf /\ anchorOf[a] = e}

\* FindByAnchors, one query further: entities found before are not repeated.
FindByAnchors(cands, a) == AddUnique(cands, FindByAnchor(a))

\* FindByTokenOverlap: rows of entity_tokens, of which an entity has one per
\* field, those with more tokens in common first.
TokenRows(query) ==
    {r \in Live \X FieldName :
        r[2] \in DOMAIN tokens[r[1]] /\ tokens[r[1]][r[2]] \cap query # {}}

Overlap(r, query) == Cardinality(tokens[r[1]][r[2]] \cap query)

FindByTokens(query) ==
    {page \in SUBSET TokenRows(query) :
        /\ Cardinality(page) = Min2(TokenLimit, Cardinality(TokenRows(query)))
        /\ \A r \in page, s \in TokenRows(query) \ page :
               Overlap(r, query) >= Overlap(s, query)}

\* FindByEmbedding: the distances are the embedder's; any TopK may be nearest.
FindByEmbedding ==
    LET all == embedded \cap Live
    IN  {near \in SUBSET all : Cardinality(near) = Min2(TopK, Cardinality(all))}

-----------------------------------------------------------------------------
\* Match.

\* The document leaves fields out that are not in the extraction schema.
Extractable(d) ==
    LET asked == {e.name : e \in ToSet(ExtractionSchema(type))}
    IN  /\ \A f \in DOMAIN d : d[f] \in (IF f \in asked THEN Texts[f] \cup {Empty} ELSE {Empty})
        /\ \E f \in DOMAIN d : d[f] # Empty

Documents ==
    LET fs == ToSet(type.fields)
    IN  {d \in [fs -> UNION {Texts[f] \cup {Empty} : f \in fs}] : Extractable(d)}

Extract(x) ==
    /\ pc[x] = "idle"
    /\ extractions < MaxExtractions
    /\ extractions' = extractions + 1
    /\ \E d \in Documents :
           /\ data' = [data EXCEPT ![x] = d]
           /\ queries' = [queries EXCEPT ![x] = buildAnchors(config, d)]
    /\ pc' = [pc EXCEPT ![x] = IF queries'[x] = <<>> THEN "tokens" ELSE "anchors"]
    /\ overlapped' = (overlapped \/ \E y \in Extractor \ {x} : pc[y] # "idle")
    /\ UNCHANGED <<const, tables, found, decision>>

\* One query of FindByAnchors; after the last one, the short-circuit.
QueryAnchor(x) ==
    /\ pc[x] = "anchors"
    /\ found' = [found EXCEPT ![x] = FindByAnchors(@, Head(queries[x]))]
    /\ queries' = [queries EXCEPT ![x] = Tail(@)]
    /\ IF queries'[x] # <<>> THEN UNCHANGED <<pc, decision>>
       ELSE IF found'[x] = {}
       THEN pc' = [pc EXCEPT ![x] = "tokens"] /\ UNCHANGED decision
       ELSE /\ pc' = [pc EXCEPT ![x] = "decided"]
            /\ decision' = [decision EXCEPT ![x] = AnchorDecision(config, data[x], found'[x])]
    /\ UNCHANGED <<const, tables, data, extractions, overlapped>>

\* retrieveFuzzyCandidates, by tokens.
QueryTokens(x) ==
    /\ pc[x] = "tokens"
    /\ LET query == flattenTokens(buildTokens(config, data[x]))
       IN  IF query = {} THEN UNCHANGED found
           ELSE \E page \in FindByTokens(query) :
                    found' = [found EXCEPT ![x] = AddUnique(@, {r[1] : r \in page})]
    /\ pc' = [pc EXCEPT ![x] = "embedding"]
    /\ UNCHANGED <<const, tables, data, queries, decision, extractions, overlapped>>

\* retrieveFuzzyCandidates, by embedding; scores, thresholds, decision.
QueryEmbedding(x) ==
    /\ pc[x] = "embedding"
    /\ IF ComputeEmbedding(config, data[x], WithEmbedder)
       THEN \E near \in FindByEmbedding :
                found' = [found EXCEPT ![x] = AddUnique(@, near)]
       ELSE UNCHANGED found
    /\ \E dec \in FuzzyDecisions(config, data[x], found'[x]) :
           decision' = [decision EXCEPT ![x] = dec]
    /\ pc' = [pc EXCEPT ![x] = "decided"]
    /\ UNCHANGED <<const, tables, data, queries, extractions, overlapped>>

\* The extractor is done with its document.
Forget(x) ==
    /\ pc' = [pc EXCEPT ![x] = "idle"]
    /\ data' = [data EXCEPT ![x] = <<>>]
    /\ queries' = [queries EXCEPT ![x] = <<>>]
    /\ found' = [found EXCEPT ![x] = {}]
    /\ decision' = [decision EXCEPT ![x] = Undecided]

\* A query or the embedder returns an error, and so does Match.
MatchFails(x) ==
    /\ pc[x] \in {"anchors", "tokens", "embedding"}
    /\ Forget(x)
    /\ UNCHANGED <<const, tables, extractions, overlapped>>

-----------------------------------------------------------------------------
\* The caller applies the decision.

\* upsertAnchors: every anchor of the operation points to e from now on.
UpsertAnchors(e, A) ==
    anchorOf' = [a \in DOMAIN anchorOf \cup A |-> IF a \in A THEN e ELSE anchorOf[a]]

\* Mutant of UpsertTokens: tokens are stored once.
UpsertTokensOnce(e, T) ==
    tokens' = [tokens EXCEPT ![e] = [f \in DOMAIN @ \cup DOMAIN T |->
                                        IF f \in DOMAIN @ THEN @[f] ELSE T[f]]]

UpsertTokens(e, T) ==
    tokens' = [tokens EXCEPT ![e] = [f \in DOMAIN @ \cup DOMAIN T |->
                                        IF f \in DOMAIN T THEN T[f] ELSE @[f]]]

\* updateEmbedding, when the caller passes one: of the generated EmbedText.
UpdateEmbedding(e, msg) ==
    embedded' = IF WithEmbedder /\ EmbedText(type, msg) # Empty
                THEN embedded \cup {e} ELSE embedded

\* entity_tokens.tokens is NOT NULL, and a nil slice is sent as NULL: a token
\* list with nothing in it makes UpsertTokens, and so the BatchWrite, fail.
Storable(op) == \A f \in DOMAIN op.tokens : op.tokens[f] # {}

WriteEntity(e, r, op) ==
    /\ Storable(op)
    /\ row' = [row EXCEPT ![e] = r]
    /\ UpsertAnchors(e, op.anchors)
    /\ UpsertTokens(e, op.tokens)
    /\ UpdateEmbedding(e, op.data)

ApplyCreate(x) ==
    LET op == WriteOp(type, data[x], "create")
    IN  /\ pc[x] = "decided" /\ decision[x].action = "create"
        /\ \E e \in Entity :
               /\ row[e].st = "none"
               /\ WriteEntity(e, [st |-> "live", version |-> 0, data |-> op.data,
                                  display |-> op.display], op)
        /\ Forget(x)
        /\ UNCHANGED <<const, extractions, overlapped>>

\* Mutant of Current: whatever the version, as long as the entity is live.
CurrentAnyVersion(candidate) == row[candidate.id].st = "live"

\* WHERE version = expected AND deleted_at IS NULL, the version being that of
\* the candidate the merge plan was made for.
Current(candidate) ==
    row[candidate.id].st = "live" /\ row[candidate.id].version = candidate.version

\* data || new: protojson leaves empty fields out.
MergeData(old, new) == [f \in DOMAIN old |-> IF new[f] = Empty THEN old[f] ELSE new[f]]

\* WriteActionMerge.
ApplyMerge(x) ==
    LET op == WriteOp(type, data[x], "merge")
        c == decision[x].matched
    IN  /\ pc[x] = "decided" /\ decision[x].action = "update"
        /\ Current(c)
        /\ WriteEntity(c.id, [st |-> "live", version |-> c.version + 1,
                              data |-> MergeData(row[c.id].data, op.data),
                              display |-> op.display], op)
        /\ Forget(x)
        /\ UNCHANGED <<const, extractions, overlapped>>

\* ErrConflict, a row that cannot be stored, or a decision that is left to a
\* human: nothing is written.
GiveUp(x) ==
    /\ pc[x] = "decided"
    /\ \/ decision[x].action \in {"conflict", "review"}
       \/ decision[x].action = "update" /\ ~Current(decision[x].matched)
       \/ /\ decision[x].action \in {"create", "update"}
          /\ ~Storable(WriteOp(type, data[x], "merge"))
    /\ Forget(x)
    /\ UNCHANGED <<const, tables, extractions, overlapped>>

DeleteEntity(e) ==
    /\ row[e].st = "live"
    /\ row' = [row EXCEPT ![e].st = "deleted"]
    /\ UNCHANGED <<const, anchorOf, tokens, embedded, matchVars, extractions, overlapped>>

\* The cascade reaches anchors and tokens; the embedding is in the row.
HardDeleteEntity(e) ==
    /\ row[e].st \in {"live", "deleted"}
    /\ row' = [row EXCEPT ![e] = [NoRow EXCEPT !.st = "gone"]]
    /\ anchorOf' = [a \in {b \in DOMAIN anchorOf : anchorOf[b] # e} |-> anchorOf[a]]
    /\ tokens' = [tokens EXCEPT ![e] = [f \in {} |-> {}]]
    /\ embedded' = embedded \ {e}
    /\ UNCHANGED <<const, matchVars, extractions, overlapped>>

Next ==
    \/ \E x \in Extractor :
          \/ Extract(x) \/ QueryAnchor(x) \/ QueryTokens(x) \/ QueryEmbedding(x) \/ MatchFails(x)
          \/ ApplyCreate(x) \/ ApplyMerge(x) \/ GiveUp(x)
    \/ \E e \in Entity : DeleteEntity(e) \/ HardDeleteEntity(e)

Spec == Init /\ [][Next]_vars

-----------------------------------------------------------------------------
\* Properties.

\* An anchor identifies: as long as matches do not overlap, looking up any
\* single anchor of what is stored about a live entity finds that entity and
\* no other, whatever was created, merged, renamed or deleted before.
AnchorsFindSelf ==
    ~overlapped =>
        \A e \in Live : \A q \in ToSet(SingleQueries(config, row[e].data)) :
            FindByAnchor(q) = {e}

\* Stored data can be found by its tokens: the token rows of a live entity
\* are those of its current data, although merges keep some fields and change
\* others.
TokensFindSelf ==
    \A e \in Live : \A f \in ToSet(config.tokenFields) :
        LET query == Tokenize(row[e].data[f])
        IN  query # {} => <<e, f>> \in TokenRows(query)

\* The weight of the fields that have something to compare.
ComparableWeight(d) ==
    LET part(w) == IF NormalizeField(config, w.field, d[w.field]) = Empty THEN Zero
                   ELSE <<w.weight, 1>>
    IN  Total([i \in DOMAIN config.weights |-> part(config.weights[i])])

\* What the thresholds are to make of data of this weight.
FitsWeight(action, weight) ==
    LET review == <<config.thresholds.review, 1>>
        auto == <<config.thresholds.auto, 1>>
    IN  /\ Less(weight, review) => action = "create"
        /\ Less(review, weight) /\ Less(weight, auto) => action = "review"
        /\ Less(review, weight) /\ Less(auto, weight) => action = "update"

\* What becomes of data that is stored already and comes again, if its tokens
\* or its embedding find it.  The weight of the fields that have a value
\* decides, however merges put them together: a second entity is created, a
\* human is asked, or the entity is updated, and then without a conflict.
\* Nothing is said of a weight that is exactly a threshold, where the rounding
\* of float64 decides.
OwnDataDecided ==
    \A e \in Live :
        FitsWeight(ScoredDecision(config, row[e].data, Candidate(e)).action,
                   ComparableWeight(row[e].data))

\* Fields that a human or a confidence has to decide about.
Guarded == {f \in DOMAIN config.strategies : config.strategies[f] # "latest_wins"}

\* No automatic step replaces the value of such a field by a different one,
\* although other extractors write between the query that found the entity
\* and the merge.
NoGuardedOverwrite ==
    [][\A e \in Entity : \A f \in Guarded :
           row[e].st = "live" /\ row'[e].st = "live" /\ row[e].data[f] # Empty
           => NormalizeField(config, f, row'[e].data[f])
                = NormalizeField(config, f, row[e].data[f])]_vars

\* "the composite anchor fires" for the data of a live entity.
CompositeAnchorFires ==
    ~overlapped =>
        \A e \in Live : \A q \in ToSet(CompositeQueries(config, row[e].data)) :
            FindByAnchor(q) = {e}

=============================================================================
