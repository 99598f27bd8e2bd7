------------------------------ MODULE Matching ------------------------------
(***************************************************************************)
(* The pure part of the matching engine: what Matcher (src/matching/       *)
(* matcher.go, resolve.go, embedding.go) computes from extracted data and  *)
(* from the candidates the store returns.  Data is a function from fields  *)
(* to texts; a field that the JSON object does not have is Empty, which    *)
(* the code treats alike.  cfg is a MatchConfig of module Codegen.         *)
(***************************************************************************)
EXTENDS Codegen, Similarity

\* fieldValue.
Value(d, f) == IF f \in DOMAIN d THEN d[f] ELSE Empty

NormalizeField(cfg, f, s) ==
    IF f \in DOMAIN cfg.normalizers THEN Normalize(cfg.normalizers[f], s) ELSE s

-----------------------------------------------------------------------------
\* buildAnchors: the queries, in this order.

SingleQueries(cfg, d) ==
    LET query(a) == Anchor(<<a.field>>, "", Normalize(a.normalizer, Value(d, a.field)))
        usable == {a \in ToSet(cfg.singles) :
                      Value(d, a.field) # Empty /\ query(a).value # Empty}
        fs == Select(cfg.singles, usable)
    IN  [i \in DOMAIN fs |-> query(fs[i])]

\* All fields must have a value; what is left of it once normalized may be
\* empty.
CompositeQueries(cfg, d) ==
    LET names(c) == [i \in DOMAIN c |-> c[i].field]
        norm(c, i) == Normalize(c[i].normalizer, Value(d, c[i].field))
        complete == {c \in ToSet(cfg.composites) :
                        c # <<>> /\ \A i \in DOMAIN c : Value(d, c[i].field) # Empty}
        cs == Select(cfg.composites, complete)
    IN  [k \in DOMAIN cs |->
            Anchor(names(cs[k]), "|",
                   Join([i \in DOMAIN cs[k] |-> norm(cs[k], i)], <<"|">>))]

buildAnchors(cfg, d) == SingleQueries(cfg, d) \o CompositeQueries(cfg, d)

buildTokens(cfg, d) ==
    [f \in {g \in ToSet(cfg.tokenFields) : Tokenize(Value(d, g)) # {}} |->
        Tokenize(Value(d, f))]

flattenTokens(tokens) == UNION {tokens[f] : f \in DOMAIN tokens}

\* TextToEmbed: trimmed values; Empty means that there is nothing to embed.
TextToEmbed(cfg, d) ==
    LET fs == Select(cfg.embedFields, {f \in DOMAIN d : TrimSpace(d[f]) # Empty})
    IN  Join([i \in DOMAIN fs |-> TrimSpace(Value(d, fs[i]))], <<" ">>)

\* ComputeEmbedding: no vector without an embedder or without text; what it
\* contains is the embedder's business.
ComputeEmbedding(cfg, d, embedder) == embedder /\ TextToEmbed(cfg, d) # Empty

-----------------------------------------------------------------------------
\* The loop of scoreCandidate: the sum of the parts, after every round.
Sums(parts) ==
    LET sum[i \in 0 .. Len(parts)] ==
            IF i = 0 THEN Zero ELSE Plus(sum[i - 1], parts[i])
    IN  sum

Total(parts) == Sums(parts)[Len(parts)]

\* How much alike the two are in the field of the weight w.
FieldScore(cfg, w, d, candidate) ==
    ComputeSimilarity(w.similarity,
                      NormalizeField(cfg, w.field, Value(d, w.field)),
                      NormalizeField(cfg, w.field, Value(candidate, w.field)))

\* Mutant of Score: the similarities are not weighted.
ScoreUnweighted(cfg, d, candidate) ==
    Total([i \in DOMAIN cfg.weights |-> FieldScore(cfg, cfg.weights[i], d, candidate)])

\* scoreCandidate, as a percentage, exactly.  The code adds up float64, which
\* may miss the exact sum in its last digits (0.7 + 0.1 < 0.8): a score that is
\* exactly a threshold, or two that are exactly equal, may compare otherwise
\* there.
Score(cfg, d, candidate) ==
    LET part(w) == Times(w.weight, FieldScore(cfg, w, d, candidate))
    IN  Total([i \in DOMAIN cfg.weights |-> part(cfg.weights[i])])

-----------------------------------------------------------------------------
\* buildMergePlan.

PlanFields(cfg) == {w.field : w \in ToSet(cfg.weights)} \cup DOMAIN cfg.strategies

\* The operation on one field.  Without a strategy the new value is written.
MergeOp(cfg, f, extracted, existing) ==
    LET same == NormalizeField(cfg, f, extracted) = NormalizeField(cfg, f, existing)
    IN  IF extracted = Empty \/ same THEN "keep"
        ELSE IF /\ existing # Empty
                /\ f \in DOMAIN cfg.strategies /\ cfg.strategies[f] # "latest_wins"
        THEN "conflict" ELSE "write"

buildMergePlan(cfg, d, existing) ==
    [f \in PlanFields(cfg) |-> MergeOp(cfg, f, Value(d, f), Value(existing, f))]

hasConflictOps(plan) == \E f \in DOMAIN plan : plan[f] = "conflict"

-----------------------------------------------------------------------------
\* Decisions.  A candidate is what the store returned: id, version and data.

Decision(action, matched, plan) == [action |-> action, matched |-> matched, plan |-> plan]

NoCandidate == [id |-> "none"]
NoPlan == [f \in {} |-> "keep"]

UpdateOrConflict(cfg, d, candidate) ==
    LET plan == buildMergePlan(cfg, d, candidate.data)
    IN  Decision(IF hasConflictOps(plan) THEN "conflict" ELSE "update", candidate, plan)

\* The anchor short-circuit, for a non-empty set of matches.
AnchorDecision(cfg, d, found) ==
    IF Cardinality(found) = 1
    THEN UpdateOrConflict(cfg, d, CHOOSE c \in found : TRUE)
    ELSE Decision("conflict", NoCandidate, NoPlan)

\* The candidates that sort.Slice may put first.
Best(cfg, d, found) ==
    {c \in found : \A e \in found :
        ~Less(Score(cfg, d, c.data), Score(cfg, d, e.data))}

\* Thresholds, for the best candidate.
ScoredDecision(cfg, d, best) ==
    LET score == Score(cfg, d, best.data)
    IN  IF Less(score, <<cfg.thresholds.review, 1>>)
        THEN Decision("create", NoCandidate, NoPlan)
        ELSE IF Less(score, <<cfg.thresholds.auto, 1>>) THEN Decision("review", best, NoPlan)
        ELSE UpdateOrConflict(cfg, d, best)

\* Match, after the queries.
FuzzyDecisions(cfg, d, found) ==
    IF found = {} THEN {Decision("create", NoCandidate, NoPlan)}
    ELSE {ScoredDecision(cfg, d, best) : best \in Best(cfg, d, found)}

=============================================================================
