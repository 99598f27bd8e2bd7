# entitystore in TLA+

Specifications of entitystore, a Go library that keeps entities, anchors, tags,
relations and an event log in PostgreSQL, and that finds out whether a document
speaks of an entity it knows already. The modules
are translated from the Go code and the SQL of the repository; `PROJECT.json`
maps every definition to the lines it models.

## 1. The system

entitystore has no server of its own. Any number of processes link the library
and share one database, so every interesting interaction happens between
statements of concurrent transactions, or between a statement and the user's
callback.

| Component | State | Operations | Interacts with |
|---|---|---|---|
| Entity writes (`store/store_write.go`, `store/stats.go`) | `entities`, `entity_anchors`, tokens, embeddings, tags | `BatchWrite` (create, update, merge, relation upsert), `DeleteEntity`, `HardDeleteEntity`, tag updates | appends to the event log in the same transaction |
| Preconditions (`evaluatePreConditions`) | none | queries inside the batch's transaction, before each operation | reads anchors and entities |
| `TxStore`, `WithTx` (`store/tx.go`) | a pgx transaction | the same operations in a caller's transaction, `Commit`, `Rollback` | entity writes |
| Event log (`store/events.go`, `entity_events`) | append-only rows ordered by `(occurred_at, id)` | insert with a write; read by id, entity or position | consumers, NOTIFY |
| Named consumer (`store/consumer.go`) | a row of `entity_event_consumers` (cursor, lock, lease, failure columns); in memory the failure counter and the backoff | `Run`, `RunRealtime`, `poll`, dead-lettering, shutdown | event log, `ConsumerFunc`, dead letters |
| Dead letters (`store/consumer.go`) | `entity_event_dead_letters` | insert by consumers, `ReplayDeadLetters`, `PurgeDeadLetters` | `ConsumerFunc` |
| Relations | `entity_relations` | upsert, delete by key, update data | foreign keys to entities |
| Scoped store (`scoped.go`) | a fixed tag scope, and slices shared with the caller | every read and write, filtered and tagged | store |
| Queries, pagination, traversal (`store/store.go`, `store/traverse.go`) | none | listings with a time as their cursor, a recursive graph query, search by name | entities, relations, events |
| Matching (`matching/`) | configuration | candidate retrieval, scoring, decision, merge plan | store, similarity functions, embedder |
| String similarity (`matching/similarity.go`, `normalize.go`) | none | four similarity functions, normalizers, tokens | matching, generated code |
| Code generator (`cmd/protoc-gen-entitystore`) | none | prints the `MatchConfig`, the extraction schema and the functions that turn a message into a write | matching and the store meet in what it prints |
| Health, statistics (`store/health.go`, `store/stats.go`) | none | the state of consumers, counts | consumer rows, dead letters |
| Extraction registry, explorer, UI, migrations, options, validation | registries, pages, files | | store |

What is hard, and what makes each part correct:

* **Consumer.** One poll is up to six separate statements with a callback of
  unknown length in the middle. Leases run out while the callback works, answers
  to commits get lost, processes die between the callback and the cursor update,
  the failure counter lives in memory while the failure columns live in the
  database. Correct means: no event is skipped, delivery follows the log, the
  cursor only moves forwards, one instance at a time works, poison batches are
  given up after `MaxRetries` failures and then unblock the consumer.
* **Event log.** `occurred_at` is fixed when a transaction starts, the UUIDv7
  when the row is inserted, and the row is visible at commit. Readers order by
  the first two and see only the third.
* **Entity writes.** READ COMMITTED transactions, with optimistic versions on
  updates, check-then-write preconditions, cascading deletes, and clients that
  retry after a lost answer. Correct means: no update overwrites data its client
  has not read, the events tell exactly what was committed, a batch takes effect
  all at once.
* **Dead letters.** Replays list a page, then work through the list while other
  replays and purges change the table. Correct means: no letter is lost.
* **Relations, scopes, traversal.** Foreign keys against concurrent hard deletes;
  a scope that a caller's filter must not widen; limits that count paths instead
  of entities. Correct means: no relation dangles, a read through a scope returns
  what the scope admits, a traversal returns the nearest entities.
* **Pagination.** Pages are cut by a timestamp alone, timestamps are those of the
  start of a transaction, rows move while they are listed. Correct means: a row
  nobody touches is listed once; a caller that follows an entity by the time of
  the last event it saw sees the next one.
* **Matching.** Four pieces of code have to agree on how a value is spelled: the
  generated `Anchors` and `Tokens` at the write, `buildAnchors` and `buildTokens`
  at the match. A match is several queries followed by a write, and the version
  in the decision is all that keeps them together. Correct means: what was stored
  is found again, and nothing a person has to decide is overwritten by itself.
* **Similarity.** Loops with two rows of state, windows and early returns.
  Correct means: edit distance is the least number of edits, Jaro's greedy pass
  finds as many matches as there are, scores are symmetric and within [0, 1].

## 2. Modules

```
LogOrder ── EventLog ── Consumer ── ConsumerTries ── ConsumerProofs
    │                      │  └──── MCConsumer
    └────── Delivery <─────┘  (refinement: Promise)

EntityRows ── EntityWrites ── MCEntityWrites, EntityWritesProofs
    └──── EntityRegister <┘   (refinement: Register)

DeadLetters ── DeadLettersProofs

Filters ─┬─ Graph ── MCGraph, GraphProofs
         ├─ Scoped ── MCScoped, ScopedProofs
         └─ Pages ── MCPages, PagesProofs

Text ─┬─ Codegen ────┬─ Matching ── Pipeline ── MCPipeline, PipelineProofs
      └─ Similarity ─┘
             └─ MCSimilarity ── SimilarityProofs
```

* **LogOrder**: positions of the log and the order `(occurred_at, id)`.
* **EventLog**: writers' transactions on `entity_events`. `late` is a history
  variable: the rows committed when a later row was already visible.
* **Delivery**: abstract specification of a named consumer. A set of events is
  handled only if no in-order event before it is left out; the cursor moves only
  forwards and only over handled events. No instances, leases, batches or errors.
* **Consumer**: the composition of EventLog with any number of instances that
  run one consumer name. Each value of `pc` is a point between two database
  calls of `poll`:

  | `pc` | Next in the code |
  |---|---|
  | `idle` | the ticker or a notification calls `poll`; `RenewConsumerLock` |
  | `acquire` | `TryAcquireConsumerLock` |
  | `cursor`, `events` | the two reads of `processBatch` |
  | `process` | `ConsumerFunc` |
  | `advance` | `AdvanceConsumerCursor` |
  | `failed` | the failure path of `poll` |
  | `dlCursor`, `dlEvents`, `dlCommit` | `deadLetterCurrentBatch` |
  | `reset` | clearing the failure state |
  | `down` | the process has stopped |

  Faults are actions of their own: a failed call (`LockError`, `ReadError`,
  `AdvanceError`, `DeadLetterError`), where a failed write may have happened all
  the same because only its answer was lost; `Shutdown`; `Crash`. Durations are
  abstracted: a lease is live or expired, a backoff pending or over, and either
  may lapse between any two steps.
* **ConsumerTries**: Consumer with a history of failed attempts per event and of
  past leaders, and what `Health` derives from the consumer's row and its dead
  letters.
* **DeadLetters**: replays, purges and inserts.
* **EntityRows**: the rows of `entities` and what a client keeps of one.
* **EntityRegister**: abstract specification of the write path: an atomic
  compare-and-swap register per entity.
* **EntityWrites**: transactions statement by statement. A row is a committed
  version, a draft and the session that holds its lock, which is what READ
  COMMITTED and row locks amount to for these statements. A session passes to an
  update the version its client has read; between the read and the update other
  sessions may do anything. Preconditions are evaluated one query at a time.
* **Filters**: tag filters as SQL evaluates them (`Matches`) and as Go does
  (`EntityVisible`), and `mergeFilter`.
* **Graph**: `entity_relations` under upserts, deletes and cascades, and the
  queries that follow relations. `TraverseRows` builds the rows of the recursive
  query, one per path; `TraversePages` has the pages that its order and limit
  allow, several if rows tie, since `created_at` is the start of the transaction
  that created an entity and shared by what it created; `Results` removes repeated
  entities. The reference is breadth-first reachability. `ConnectedEntities`,
  `FindConnectedByType` and `FindEntitiesByRelation` are the three queries over
  one hop. Each has a limit, and so is a set of possible answers.
* **Scoped**: goroutines with scopes of their own that read with one shared
  filter. `array` is the spare capacity of the caller's `Tags` and `UnlessTags`
  slices, which `append` writes at `Merge` and the query reads at `Query`.
  `overlapped` is a history: the waiting goroutines for whom another one has
  overwritten an element of such an array with a different one. `Search` is its
  query by display name, which has a filter of its own, and the fallback to
  tokens, either with the limit of the caller.
* **Pages**: transactions of writers on entities, relations and events, each row
  stamped with the start of its transaction, and one caller that asks for page
  after page. A transaction may write several events of one entity, which share
  its time. What a page holds is relational: rows with equal times may come in
  any order. `steady`, `alone` and `owed` are histories that say which rows the
  caller has a right to.
* **Text**: characters, `Join`, the two normalizers and `Tokenize`. A text is a
  short sequence over a small alphabet with upper and lower case letters, digits,
  space and punctuation, since the properties are about spelling.
* **Similarity**: exact equality, Levenshtein with its two rows, Jaro-Winkler with
  its window and greedy pass, token Jaccard. Scores are exact fractions. A loop
  is a recursive function from the number of rounds to the value after them.
* **Codegen**: what the generated functions return, as functions of a message
  type's annotations: `MatchConfig`, extraction schema, `Tokens`, `EmbedText`,
  `Anchors`, `DisplayName`, `WriteOp`.
* **Matching**: the pure part of `Matcher`: queries, scores, thresholds, merge
  plans, decisions.
* **Pipeline**: the composition of generated code, matcher and store. An
  extractor takes data out of a document, `Match` runs its queries one step at a
  time, and the caller writes the generated `WriteOp` according to the decision.
  A `BatchWrite` is one step: `EntityWrites` and its refinement of
  `EntityRegister` are the reason why it may be. It fails as a whole if a list of
  tokens is empty (`Storable`): the column does not take the NULL that a nil slice
  becomes. The embedder is external: a
  nearest-neighbour query may return any `TopK` embedded entities.
* **MCConsumer, MCEntityWrites, MCGraph, MCScoped, MCPages, MCSimilarity,
  MCPipeline**: operations, constants and symmetry for TLC.
* **ConsumerProofs, EntityWritesProofs, GraphProofs, PagesProofs, ScopedProofs,
  DeadLettersProofs, PipelineProofs, SimilarityProofs**: the theorems of section
  5. Each has the facts about numbers, finite sets and loops that it needs.

Definitions whose comment starts with "Mutant" are deliberately wrong variants
of the definition that follows them. No specification uses them; each one,
put in place of its original, violates the property it is listed with in
`PROJECT.json`.

## 3. Runs

| Run | Configuration | Shows |
|---|---|---|
| `consumer_faults` | 2 writers, 2 events, 2 instances, batches of 1, 2 retries, 1 fault, backoff, leases that run out at any moment | `TypeOK`, `NoInOrderEventSkipped`, `InOrderDelivery`, `CursorMonotonic`, `RefinesDelivery` |
| `consumer_live` | 1 writer, 2 events, 2 instances, batches of 2, 2 retries, 1 fault, backoff, no poll outlasts its lease, fairness | `SingleLeader`, `DeadLettersBehindCursor`, `OldestRetried`, `HealthReflectsLeader`, `EventuallyHandled`, `FailureStateRecovers` |
| `dead_letter_replay` | 2 replayers, 2 letters, 2 consumers, 2 event types, 1 failed DELETE or crash | `NoLetterLost` |
| `entity_writes` | 2 clients, one of them with transactions of 2 operations, 2 entities, 1 anchor, 1 tag, 2 versions, every kind of operation | `TypeOK` (an anchor always resolves), `NoLostUpdate`, `VersionCountsEvents`, `RefinesRegister` |
| `graph_traversal` | 4 entities created at 2 times, 3 relation rows, depth 2, every limit 2, 1 delete or tag update | `TypeOK` (no relation dangles), `NearestEntitiesFirst`, `OneHopAgrees` |
| `scoped_reads` | 4 goroutines with different scopes, 2 entities, 3 tags, room for 2 tags and 1 exemption in the shared slices, searches with a limit of 1 | `ScopedReadsExact`, `SearchSound` |
| `listing_pages` | 2 writers, 3 entities, 3 clock values, 3 writes, pages of 1 or 2 rows, every listing | `ListedOnce`, `FollowSkipsNothing` |
| `similarity` | all pairs of texts of up to 3 of 6 characters, and of up to 4 over letters and space | `EditDistanceExact`, `JaroMatchesMaximum`, `ScoresAreSimilarities`, `NormalizersStable` |
| `matching_pipeline` | 2 extractors, 2 entities, 3 documents, two message types | `AnchorsFindSelf`, `TokensFindSelf`, `OwnDataDecided`, `NoGuardedOverwrite` |

Three runs end in a counterexample, where the code does something else than a
document says:

| Run | Property | What happens |
|---|---|---|
| `commit_order` | `NoEventSkipped` | Of two transactions the one with the earlier event in the log, by `occurred_at` or, as in the trace, by id alone, commits last: the event lies behind the cursor and is never delivered. |
| `precondition_race` | `MustNotExistIsUnique` | Two batches evaluate the same MustNotExist before either commits, and both succeed. |
| `composite_anchors` | `CompositeAnchorFires` | Generated code stores a composite anchor under its field names joined with `+`, the matcher asks for them joined with `\|`: it is never found. |

### Bounds, and why they are enough

* Two instances are the least that can take over from each other, and the row
  has one holder, so a third could only repeat what the second does. Two events
  with batches of one let the cursor be at, behind or ahead of what an instance
  has read; batches of two in `consumer_live` let a batch grow between attempts.
* Two writers with one clock value already produce late commits, since ids
  decide between equal timestamps, and that is the shortest trace of
  `commit_order`. With its two clock values the same happens through
  `occurred_at`.
* `MaxFaults` bounds errors, lost answers, crashes and shutdowns together. One
  fault can hit any step, and each weakness the runs show needs at most one. The
  theorems have no such bound.
* `FailureBound` bounds the consecutive errors of `ConsumerFunc`. It is at least
  `MaxRetries`, so that giving up is reached, also as often as one likes: the
  counter starts again at zero.
* In `entity_writes`, two operations per transaction give a client that updates
  what it has just created or merged; with a second client every overlap with
  another transaction occurs. Two entities exchange one anchor. `MaxVersion`
  stops updates, not conflicts.
* `ReuseIds = FALSE` states that clients do not create an entity under the id
  of a hard-deleted one. It is an assumption, not a fact of the code: with TRUE,
  `NoLostUpdate` fails, since the versions of the new entity start at 0 again.
  `VersionCountsEvents` counts from the last `EntityCreated` event on and holds
  either way.
* Three relation rows make parallel rows, a cycle, a self-loop and a path longer
  than `MaxDepth = 2`; with `MaxResults = 2`, two rows of one entity can use up
  the limit, and two neighbours of which one is hidden fill a page of one hop.
  Two clock values for four entities let some tie and others not. One delete or
  tag update puts a deleted or hidden entity anywhere in such a graph.
* In `scoped_reads` one goroutine appends a beginning of what another appends,
  one disagrees with both, one appends the tags of another but other exemptions,
  and the exemptions of one do not fit, so that it gets an array of its own. Two
  entities and searches for one of them let an entity outside the scope use up
  the limit. The theorems have no such bounds.
* In `listing_pages` three rows and pages of one or two put a page boundary
  before, between and after rows with equal times. Three clock values let a
  transaction start before, and commit after, one that a page has already shown;
  two writes per transaction make rows that share their time, two events of the
  followed entity among them. The VIEW of the run leaves out what the listing at
  hand neither filters nor sorts by: tags or `updated_at` of entities.
* In `similarity` three characters give every relation between two texts that the
  functions tell apart (transpositions, matches outside the window, a prefix,
  words in another order); four over a smaller alphabet give Jaro a window of one
  position to either side, where the greedy choice matters, and make
  Levenshtein's alignments ambiguous. Wider windows are left to the theorem.
* In `matching_pipeline` documents spell one value in two ways and another value
  differently, and a third becomes empty when it is normalized, or is a name
  without tokens, which cannot be stored. `Person` scores candidates and embeds
  them, with weights and thresholds that make every difference: its e-mail alone
  is worth a review, its name alone a merge; `Contact` has two anchors that can point at two
  entities, and a field that is never extracted. Two extractors overlap; a third
  document comes after they have written.
* Symmetry is used only where no liveness property is checked.

### Fairness

`Consumer!Fairness` is weak fairness per instance for its next step (the ticker
of `Run` calls `poll` for as long as the context lives, and every call to the
database and to `ConsumerFunc` ends), for the end of a backoff (a deadline on
the clock), for the restart of a stopped instance (processes are supervised),
and for the expiry of a lease that nobody renews. Faults, and the steps of
writers, are not fair: they need never happen.

`LeaseCoversPoll` is the assumption that no poll outlasts `LockTTL`, which
nothing in the code enforces. Only the run `consumer_live` makes it.

Two of its properties say when they apply. `OldestRetried` and
`HealthReflectsLeader` speak of a healthy database (`faults = 0`), the former of
an instance that has been the only leader, since the counter is the instance's
and not the batch's. `FailureStateRecovers` speaks of a consumer with events left
to read, since only a poll that handled a batch clears the failure columns.

## 4. What the runs say about the code

* The cursor update is fenced by `holder_id` alone: neither the lease nor the
  position that was read is examined. That is enough. Whoever holds the lock
  when it writes has read the current cursor, because every change of holder
  goes through an acquisition by a new poll, and only the holder moves it.
* At-least-once delivery holds for every event whose commit respected the log's
  order, and for no other.
* The optimistic version, together with `deleted_at IS NULL`, is enough against
  lost updates even across lost answers and retries.
* A hard delete leaves no dangling anchor behind, although another transaction
  may be re-pointing the anchor at the time.
* The limit of `Traverse` counts paths and cuts before repeated entities are
  dropped. The order by depth makes up for it: what is cut is never nearer than
  what is returned, and as far only if it is not older; depths are distances. A
  page can still hold fewer than `MaxResults` entities when more are reachable.
* A listing shows a row that is not written meanwhile at most once, and exactly
  once if no other row has its time: the strict comparison with the cursor loses
  the rest of a group of equal times at a page boundary, and never repeats one.
* Normalizers are idempotent and the generator and the matcher use the same ones,
  so single anchors and tokens find what was stored under them, whichever
  spelling the next document has. Composite anchors do not.
* Between `Match` and the write anything may happen to the entity. The version in
  the decision makes the write fail then, so that a field with a conflict that
  must be reviewed is never overwritten by itself.

Disagreements with the documentation that were met and are not a run:

* `src/store/consumer.go:40` says `MaxRetries` is the number of consecutive
  times a batch can fail. The counter belongs to the instance: failures from
  before another leader's turn are added to those of a later batch, and with two
  instances `OldestRetried` fails.
* `src/scoped.go:39` says all read queries are filtered by the scope. Two scopes
  that disagree and share a filter with room in its slices overwrite what the
  other has appended, tags at line 70 and exemptions at line 73: the one that
  merged first then sends the tags of the other and reads entities outside its
  scope. `ScopedReadsExact` excepts exactly these reads (`overlapped`), and TLC
  finds one in three steps without the exception. Besides, a caller's `UnlessTags` are added to those of the scope
  and exempt more than the scope does (`CallerNarrows`); relations, anchors,
  counts and `GetAllEvents` pass through unfiltered.
* `src/store/stats.go:143` speaks of `GetEntityIncludingDeleted`; the code calls
  `GetEntity`, so the event of a hard delete has no entity type when the entity
  was soft-deleted before.
* `ConnectedEntities` answers for a soft-deleted entity, `Traverse` does not.
* `README.md:592` promises a single leader; a `ConsumerFunc` that works longer
  than `LockTTL` has company.
* `docs/specs/003-consumer-resilience.md:154` says the dead-lettered events are
  the "same events that keep failing"; the batch is read again, so events that
  arrived meanwhile, or whose reads failed, are dead-lettered untried.
* `docs/specs/003-consumer-resilience.md:283` says failed replays keep an
  updated `retry_count`, and line 287 that a replay reads all letters; the code
  updates nothing and reads a page of the newest rows.
* `README.md:559` says the order of ids is the order of `occurred_at`; ids are
  taken at the insert, `occurred_at` at the start of the transaction.
* Tag updates and `UpdateRelationData` emit no events, and two overlapping
  `DeleteEntity` calls emit two `EntityDeleted` events for one delete.
* `docs/specs/003-consumer-resilience.md:306` says the cursor advances past
  dead-lettered events. `src/store/consumer.go:404` ignores that the update may
  match no row: an instance whose lease ran out commits dead letters, and the new
  leader delivers the same events (`DeadLettersBehindCursor` fails when a poll may
  outlast its lease).
* `docs/specs/003-consumer-resilience.md:233` says healthy means 0 failures.
  `src/store/consumer.go:209` clears the columns only if this instance counted
  failures itself, so after a takeover an idle consumer stays degraded.
* `src/store/events.go:98` says `GetAllEvents` returns all events. Events of one
  transaction share `occurred_at`, and those beyond a page boundary are dropped.
  Likewise `GetEventsForEntity`: a full page drops the older of the new events.
* The cursor of `FindConnectedByType` is the relation's `created_at`, which the
  entities it returns do not carry.
* `src/scoped.go:119` says `Search` has the scope filters applied; the query by
  display name knows only `Tags`, and entities that the scope excludes use up its
  limit, so that a match inside the scope may be missing (`SearchSound` states
  what is left).
* `ConnectedEntities` of a scoped store filters a page of at most 1000 rows: it
  can come back empty although the entity has a neighbour in the scope.
* A field for tokens that has no letters and digits makes the whole `BatchWrite`
  fail: `Tokenize` gives nil, and `entity_tokens.tokens` is `NOT NULL`.
* Scores are sums of float64. Where the weights of the fields of an entity add up
  to a threshold exactly, rounding decides: 0.7 and 0.1 give 0.7999999999999999,
  which is less than 0.8, and the entity is created a second time.
* `ScopedStore.GetEventsForEntity` tests that the entity is visible and reads its
  events in another query; the entity may be retagged in between.
* Anchors of values that an entity no longer has are never deleted. Composite
  anchors of merged data are not written. Values with `|` in them are not escaped
  when they are joined.
* A merge replaces the display name even by an empty one.
* `TextToEmbed` trims the values, the generated `EmbedText` does not, so stored
  and queried texts may differ.
* The limit of `FindByTokens` counts rows of tokens before entities are grouped.

## 5. Proofs

`ConsumerProofs` holds for every set of writers, instances and event ids, every
batch size, retry limit and bound on faults. The assumptions are those named in
`LogOrder` and `Consumer`: ids and times are positive naturals, `NoHolder` is no
instance, `BatchSize` is positive, bounds are naturals.

`NoInOrderEventSkipped` is not inductive: that a cursor update skips nothing
depends on what the updating instance has in its memory. The invariant is

    IInv == TypeOK /\ LogFinite /\ Handled \subseteq log
            /\ PositionsOK /\ Fenced /\ BatchesOK /\ InOrderDelivery

* `PositionsOK`: the cursor and every position an instance has read are
  committed rows (or the start), and everything up to them has been handled,
  late events aside.
* `Fenced`: an instance that is past its read of the cursor and still holds the
  lock has read the current cursor.
* `BatchesOK`: a batch lies after the position that was read, and an in-order
  event between that position and an event of the batch is in the batch; before
  the cursor is advanced, the batch has been accepted. Its base is the lemma
  `BatchClosed`: the first `BatchSize` rows after a position have no hole,
  because fewer rows precede an earlier row.
* `LogFinite` is needed for that counting argument only.

From `IInv`:

| Theorem | Statement |
|---|---|
| `TypeCorrect` | `Spec => []TypeOK` |
| `Invariance` | `Spec => []IInv` |
| `AtLeastOnce` | `Spec => []NoInOrderEventSkipped` |
| `DeliveryInOrder` | `Spec => []InOrderDelivery` |
| `CursorNeverRegresses` | `Spec => CursorMonotonic` |
| `ConsumerImplementsDelivery` | `Spec => RefinesDelivery` |
| `LeaderExclusive` | `LeaseCoversPoll => (Spec => []SingleLeader)` |
| `DeadLetteringUnblocks` | `LeaseCoversPoll => (Spec => []DeadLettersBehindCursor)` |
| `HealthIsTrue` | `TriesSpec => []HealthReflectsLeader` |
| `PoisonRetried` | `TriesSpec => []OldestRetried` |

`LeaderExclusive` and `DeadLetteringUnblocks` use a second invariant,
`LeaseHeld`: an instance inside a poll holds the lock under a live lease.

`HealthIsTrue` uses `HealthOK`: without faults an instance asks for the lock only
when it does not have it, and comes to rest with the lock only after it has
written its own count, which the fence keeps from everybody else. Neither the
lease nor `LeaseCoversPoll` matters.

`PoisonRetried` uses `TriesOK`. Under the conditions of `OldestRetried` (one
leader so far, no fault, no late commit) every other instance has never come
further than asking for the lock, the leader has read the current cursor, its
batch has the first row after the cursor, and that row has failed as often as the
leader has counted. That there is such a row is `BatchHasFirst`: of the rows
after the cursor one has the fewest before it, and that is none. The history
variables of `ConsumerTries` constrain nothing (`TriesStepIsStep`), so `IInv` holds
of it too.

### Entity writes

`EntityWritesProofs` holds for every set of sessions, entities and anchors, every
limit on versions and every length of a transaction.

| Theorem | Statement |
|---|---|
| `WritesType` | `Spec => []TypeOK` |
| `WritesVersionCountsEvents` | `Spec => []VersionCountsEvents` |
| `WritesNoLostUpdate` | `~ReuseIds => (Spec => []NoLostUpdate)` |
| `WritesRefinesRegister` | `~ReuseIds => (Spec => RefinesRegister)` |

None of these is inductive: each speaks of committed rows, and what the next
commit makes of them lies in drafts, in the outbox and in what a client has read.

    IInv == TypeOK /\ OutboxOK /\ LabelsOK /\ DraftsOK /\ AnchorsOK
            /\ EventsOK /\ VersionCountsEvents
    RInv == SwapsOK /\ SeenOK /\ BasisOK

* `AnchorsOK`: an anchor that is being moved points to a row of the same
  transaction, and a transaction that has removed a row has the locks of all
  anchors that point to it. That is why a commit leaves no anchor dangling.
* `EventsOK`: the version of a draft is the committed version plus the update and
  merge events in the outbox, or their number alone after an `EntityCreated`; the
  event of an operation in progress is yet to come. `OutboxOK` keeps events
  numbered by operation, which makes the counting possible.
* `SwapsOK`: a draft with a higher version was made from exactly the row its
  client has seen; one with the same version has the same data.
* `SeenOK`: a client has seen an earlier version of the row, or the current one;
  equal versions mean equal data. This is what fails when an id is used again,
  and why the last two theorems exclude it.
* `BasisOK`: a client that updates has read or written the entity.

The refinement maps a commit to the atomic compare-and-swap of everything the
transaction wrote, a read to a read and every other statement to a stutter.

### Relations and traversal

`GraphProofs` holds for every number of entities and relations, every set of
relation types, scope, depth, limit and page size, and every order in which the
queries return rows that tie.

| Theorem | Statement |
|---|---|
| `GraphType` | `Spec => []TypeOK` (no relation dangles) |
| `GraphNearest` | `Spec => []NearestEntitiesFirst` |
| `GraphOneHop` | `Spec => []OneHopAgrees` |

The invariant is `GInv`, `TypeOK` with a finite set of relations. The two queries
are then facts about one state. For `Traverse`:

* `LevelsEquation` and `WithinEquation`: the recursive functions of the query and
  of the reference satisfy their equations. The prover knows such a function only
  as "some function that does"; that one exists is shown by continuing it round
  by round.
* `RoundStep`, `RoundsOK`: round `d` of the query and round `d` of the
  breadth-first search, side by side. A row has gone only through entities within
  `d` hops (`RowsOK`), so that an entity that is new in the next round is in no
  `visited` array, and gets a row (`Covered`). This is why dropping paths by
  `visited` loses no entity and no distance.
* `NearestFirst`: of the rows that a page leaves out, none sorts before one that
  it has. So the first row of an entity on the page has its distance, and what the
  limit takes away is not nearer than what it leaves, nor as far and older.
* `LimitedFacts`, `TwoPages`: a page that is smaller than its limit has every row,
  and a page with no row comes from no rows, which is all that the answers of the
  queries over one hop have in common.

The inductions over rounds are arguments by a least counterexample
(`LeastNatural`), since the library's induction theorems take the statement as a
parameter.

### Listings

`PagesProofs` holds for every set of writers, entities and clock values, and
every page size.

| Theorem | Statement |
|---|---|
| `PagesListOnce` | `Spec => []ListedOnce` |
| `PagesFollow` | `Spec => []FollowSkipsNothing` |

    PInv == TablesOK /\ CallerOK /\ PagingOK /\ FollowOK

* `PagingOK`: a row that was listed and has not been written since lies at or
  after the cursor, so that no later page has it; one with a time of its own
  that has not been listed lies before the cursor, so that a later page will.
* `FollowOK`: an event that has been seen is not after `Since`, one that is owed
  is.
* `TablesOK`: times are positive (a cursor is never mistaken for the absent one),
  events are numbered without gaps, a pair of entities has one relation.

### Matching and writing

`PipelineProofs` holds for every set of extractors and entities, every annotated
message type, every alphabet and every set of texts documents may contain.

| Theorem | Statement |
|---|---|
| `GuardedFieldsKept` | `Spec => NoGuardedOverwrite` (an action property) |
| `AnchorsIdentify` | `Spec => []AnchorsFindSelf` |
| `TokensCurrent` | `Spec => []TokensFindSelf` |
| `OwnDataMatched` | `Spec => []OwnDataDecided` |

    MInv == RowsOK /\ MatchesOK
    AInv == MInv /\ StagesOK /\ overlapped \in BOOLEAN /\ AloneOK
    TInv == MInv /\ TokensOK
    SInv == MInv /\ TextsOK

* `MatchesOK`: a candidate an extractor holds may be out of date, but as long as
  its version is the one in the table so is its data (`HeldOK`); a decision to
  update was made from a plan without conflicts, for the data the extractor still
  holds (`PlanOK`). With `Current` in the guard of the merge, the plan is about
  the data that is overwritten (`MergedData`).
* `AloneOK` adds, as long as matches do not overlap, what a match knows of the
  owner of an anchor of its data (`Settled`): it will ask for it, or it is among
  those found; when there is nothing left to ask, it is the entity to be updated.
  That is why a write takes no anchor away from another live entity
  (`OwnersWritten`), and a create takes none at all.
* `TokensOK`: what `TokensFindSelf` says, for all fields with a value.
* `TextsOK`: what was extracted and what is stored is a text for every field of
  the type. That is all `OwnDataDecided` needs of the state; the rest is
  arithmetic. Every similarity function gives a text that is not empty a fraction
  `<<v, v>>` with itself (`OwnSimilarity`), normalized texts are texts
  (`NormalText`), and the loop of `scoreCandidate` adds such fractions up to
  exactly the weight of what can be compared (`WorthTotal`, `OwnScore`), of
  which a threshold is a comparison of naturals (`WorthLess`). Data that meets
  itself has no conflict to review (`OwnPlan`).

The agreement of the generator with the matcher is two lemmas: `SingleQueriesAre`
(what the generated configuration makes `buildAnchors` ask for) and `StoredKeys`
(what the generated `Anchors` stores). A composite anchor of a single field is
stored under the bare name of the field; `CompositeOfOne` shows that it then has
the value of the single anchor. `SelectIs` is about the loop that both filter
their fields with. `Select` stands for `SelectSeq`, which the prover cannot
unfold. For the first three theorems the normalizers are not unfolded, and
`Tokenize` only as far as it makes nothing of an empty text: these hold whatever
they compute, as long as both sides call the same one. What they compute is a
matter of `NormalizersStable`.

### String algorithms

`SimilarityProofs` holds for every alphabet whose characters are letters, digits,
space or anything else, every `unicode.ToLower` that is idempotent on letters,
and every bound on the length of strings: `Strings`, that both variables are
strings over the alphabet, is the whole invariant, and each theorem is a fact
about all pairs of strings.

| Theorem | Statement |
|---|---|
| `JaroOptimal` | `Spec => []JaroMatchesMaximum` |
| `LevenshteinExact` | `Spec => []EditDistanceExact` |
| `Similarities` | `Spec => []ScoresAreSimilarities` |
| `NormalizedOnce` | `Spec => []NormalizersStable` |

* The loops are recursive functions on `0 .. n`, of which the prover knows only
  that they are some function that satisfies its equation, if there is one.
  `Rounds` shows that there is one for any loop of `n` rounds; `UpTo` is induction
  over the rounds, for a set instead of a predicate.
* `JaroRoundsOK`: after `i` rounds the pairs are equal characters within the
  window, no position is used twice, and of two positions that could have been
  paired, but were not, one has an earlier partner (`Settled`).
* `JaroMaximum`: no other choice of pairs has more. Any choice is turned, round by
  round, into the greedy one: `Exchange` makes it agree with the next round
  without losing a pair. If both characters of the greedy pair have other
  partners, these two are no further apart than the window and take each other.
* `LevenshteinTable`, `EveryCell`: a cell of the table is the least cost of an
  alignment of two beginnings. `AlignLast` takes the last pair off an alignment,
  `LeastCostStep` puts one on, and `DistanceIsLeast` reads the last cell.
* `Similarities` goes function by function. `EveryCellOK` bounds the edit distance by
  the longer string, and gives 0 to equal strings alone. That Jaro is symmetric is
  `JaroFlip`: the greedy pass over `t` makes the same pairs, since `Settled` does
  not tell the strings apart and only one choice has it (`JaroUnique`: two would
  differ in a pair of least positions). Its transpositions are counted
  by rank (`TranspositionsAre`), of which a string has one per matched
  position (`RankApart`). `WinklerFraction` is the arithmetic of the prefix bonus.
* `NormalizedOnce` needs that lowercasing makes no character a space
  (`LowerCharIs`), that `NormalizePhone` gives digits with at most one `+` before them
  (`PhoneIs`), and that the runs of a trimmed text are those of the text
  (`PartRuns`).

### Scopes and dead letters

`ScopedProofs` proves `ScopedReads`: for every set of goroutines, scopes, tags
and entities and any room in the shared slices, `CallerNarrows` implies
`Spec => []ScopedReadsExact`. Its invariant, `ArrayOK`, says that what a waiting
goroutine has appended to either slice is still there, unless the goroutine is in
`overlapped`; `ScopedReadsExact` itself does not speak of the arrays of a
goroutine that has yet to merge, and is not inductive. The lemma
`MergedFilterIsScope` is the agreement of the condition in SQL on a merged filter
with the condition in Go.

`ScopedSearch` is the same for `SearchSound`, for every limit and every finite set
of entities: what a waiting goroutine has appended decides what the query by
display name may return, and a page that is not full has all of it.

`DeadLettersProofs` proves `LettersKept`, `Spec => []NoLetterLost`, for every
number of replays, consumers, letters, purges and faults. A replay deletes a row
by an id it keeps in memory while others change the table; `NoLetterLost` says
nothing of that id, so the invariant `LInv` adds that it belongs to an accepted
event.

### Only model-checked

* `EventuallyHandled` and `FailureStateRecovers`: liveness under fairness is
  outside what the prover handles.
* The three properties that end in a counterexample.

Every invariant and every action property of the passing runs is a theorem.

## 6. Not modelled

* Durations: the size of a backoff, jitter, `PollInterval`. LISTEN/NOTIFY only
  decides when a poll happens, and a poll may happen at any time.
* The contents and the decoding of events; `GetEventByID`.
* Default `Version` 0 in an update of an entity nobody has read: clients of the
  model update what they have read.
* The user's `ConsumerFunc`, beyond returning nil or an error after any time;
  callbacks for dead letters; logging.
* Callers of `TxStore` who commit after a failed operation.
* `UpdateRelationData`, which changes nothing another operation looks at, and the
  counts of `Stats`.
* Vectors and their distances. The rounding of scores: `OwnDataDecided` says
  nothing of a weight that is exactly a threshold, where rounding can decide, and
  `ScoresAreSimilarities` is about exact fractions.
* The text of generated Go code, imports, descriptions and prompts: `Codegen` has
  what the code returns.
* Templates of the explorer and the UI (about 4000 lines, nearly all of them
  generated), the Go code protoc generates (about 1600), the example programs,
  the facade that forwards calls one by one, registries, options, validation and
  migrations: no state that other parts depend on. They are more than half of
  the repository's lines.

## 7. Plan

1. Done: `LogOrder`, `EventLog`, `Consumer`, `Delivery`, `ConsumerTries`,
   `DeadLetters`; `EntityRows`, `EntityWrites`, `EntityRegister`; `Filters`,
   `Graph`, `Scoped`, `Pages`; `Text`, `Similarity`, `Codegen`, `Matching`,
   `Pipeline`; the proofs of `Consumer`, `ConsumerTries`, `EntityWrites`, `Graph`,
   `Pages`, `Scoped`, `DeadLetters`, `Pipeline` and `Similarity`.
2. Relation upserts as operations of the transactions of `EntityWrites`: an
   upsert against a concurrent hard delete of one of its ends.
3. `EntityWrites` composed with `EventLog`: the log as a consumer sees it
   replays to the rows of the table.
4. Reads of a scoped store that test visibility before a further query.
