# TLA+ models of Imprint

Imprint is a local memory service for AI agents. Raw messages enter a **hot** table, move to
**cooldown** after a TTL, are clustered by topic and extracted by an LLM into **facts** (the cold
phase); transcripts of whole sessions are extracted by a batch adapter; a hybrid query reads all
phases at once; a scheduler and several commands consolidate facts, tune the prompt and review the
type taxonomy. Everything lives in one SQLite database (WAL mode) and an in-memory vector index
with a cache file. This directory models the parts of the program whose steps interleave or fail,
checks them with TLC on small instances and proves, with TLAPS for all instances, the main
properties of all ten parts.

Contents: [inventory](#inventory) - [modules](#modules) - [runs](#runs-and-what-they-show) -
[bounds](#bounds) - [fairness](#fairness) - [proofs](#proofs) -
[divergences](#where-the-code-and-its-documentation-disagree) - [limits](#what-is-not-modelled) -
[plan](#plan).

## Inventory

| Component (source) | State | Operations | Hard part | What makes it correct |
|---|---|---|---|---|
| Hot phase (`api/api.go` `handleHotIngest`, `db.InsertHotMessage`, `db.MoveHotToCooldown`, `main.go` `startHotTTLGoroutine`) | `hot_messages`, `cooldown_messages`, two FTS tables, vector keys `hot:`/`cool:` | accept a message; move a batch of expired messages; re-prefix their keys | tables change in transactions, the index after the commit, key by key; handlers and the TTL goroutine interleave; errors of the index are dropped | a message is in one tier and never lost; FTS tables match; a missing key is explained by a known window; expired messages move |
| Vector index (`vecindex/vecindex.go`, `db/sqlite.go`) | in-memory map of keys, one cache file and its `.tmp` | load or rebuild, add, remove, search with prefix, reload, save on close | the file is loaded without a look at the database; every process has its own copy and all save to one file | an embedding is found unless one of a few known steps lost it, and a rebuild alone repairs that; a torn file takes two saves |
| Query and context (`query/query.go`, `context/builder.go`, `query/reranker*`) | none of its own, `query_log`, citations | concurrent layers, rank fusion, rerank, LLM answer; the context section | the layers have no common snapshot; each may fail alone; a row may go between its key and its read | what a layer found reaches the prompt once, in an order the layers agree on |
| Cool worker (`cooldown/worker.go`, `segment/hybrid_union.go`) | `cluster_id`, `processed_at` of cooldown rows | segment a session's rows; list triggered clusters; claim, extract, roll back | a second process on the same database; a crash between claim and rollback; stale lists | clusters stay in a session and fixed; a claim is exclusive; extracted once; a triggered cluster is handled |
| Batch adapter and watcher (`ingest/batch.go`, `watcher/watcher.go`) | `ingested_files`, `transcripts`, `transcript_chunks`, marks of cooldown rows, debounce timer | extract a changed file chunk by chunk; link and mark a session's rows; replace realtime facts | no transaction over the attempt; watcher and commands overlap; the file changes meanwhile | a recorded file is extracted whole; its rows match; a change is looked at |
| Ingest engine and fact store (`imprint/*.go`, facts in `db/sqlite.go`) | `facts` with `superseded_by`, vector keys `fact:` | near-duplicate skip, supersede or merge; store; contradiction review by an LLM; retire | concurrent calls, each reading candidates long before it acts on them; clients edit and delete meanwhile | retirement is final, guarded by confidence, and leaves chains unbroken |
| Clients (`api/api.go`, `mcp/server.go`), `imprint gc` | facts | replace, patch, delete by source, collect expired | foreign keys; edits between a check and its use | chains are not broken |
| Entity graph (`imprint.go`, `sqlite.go`) | `entities`, `relationships` | get or create by name, alias merge, deduplication, reset, graph and path queries | no UNIQUE constraint; deduplication and reset are not transactions | doubles come only from overlaps; knowledge stays; answers are connected |
| Providers (`provider/*.go`) | `provider_ops`, `provider_health`, model catalog | calls with status per provider; giving up; model check at startup and by ticker | status is read before the call and written after it; several endpoints share a name | one failure counts once; giving up is final; the check's verdict does not depend on order |
| Consolidation, optimizer, eval runs (`consolidation`, `quality/optimizer.go`, `main.go`) | `consolidations`, `fact_connections`, prompt file, `optimization_log`, `eval_runs` | ticker with quota; optimize; record and compare runs | long LLM calls between check and use; two processes; a torn file | a fact is consolidated once; the backlog is worked off; the baseline is the best seen; each kept prompt improves on the one kept before |
| Taxonomy (`taxonomy/*.go`) | `taxonomy_signals`, `taxonomy_proposals` | collect, propose, validate, apply, effective types | statement by statement beside ingests; order of the merge | a validated change has its ground; a decision stays; effective types follow the applied proposals |
| Quality collector, eval scoring, config, CLI, lint, update check, integrations | - | reports, formulas, parsing, wiring | - | - |

How they interact: handlers, the TTL goroutine, the cool worker, the consolidation scheduler, the
health ticker and the watcher are goroutines of `imprint serve` or `imprint watch`; they share
nothing but the database and the index. `serve` takes the next port when its own is taken
(`listenWithFallback`), so two processes can run their goroutines on one database, and every CLI
command is one more process. The cool worker and the batch adapter both call `Engine.Ingest`; the
query reads what all of them write. SQLite serializes statements and transactions, so one statement
or one transaction is one atomic step of the models, and everything between two of them (LLM and
embedding calls above all) is where the other actors run.

The hazards of this code - the places where a test would hardly reach - are listed at their lines
in `PROJECT.json`, each with the properties that cover it.

## Modules

Every definition that models code is listed with its lines in the `map` of `PROJECT.json`.

### CoolPipeline and ClusterQueue (`cooldown/worker.go`, `segment`, `ingest/batch.go`)

State: the cooldown rows (`cool`, `cluster`, `linked`, `processed`: the columns `cluster_id`,
`transcript_file`, `processed_at`), one program counter and the local variables per worker (`todo`
sessions, `plan` segments, `ready` clusters, the cluster it `held` and its `text`), the batch
adapter's file in hand, the transcripts on disk and what `ingested_files` records of them. History
variables say what was extracted, what was marked by the batch adapter, and which claims were
`abandoned` by a crash or by a failed rollback.

| Actions | Code |
|---|---|
| `BeginTick`, `Segment`, `Assign`, `ListReady` | `Worker.tick` and `ClusterUnclustered`: list sessions, load and segment one, write its segments one transaction each, list the triggered clusters |
| `LoadCluster`, `SkipClaimed`, `ClaimCluster`, `IngestSucceeds`, `IngestFails`, `Rollback` | `Worker.processCluster` in its order: load, claim, extract, roll back |
| `...Fails` | each statement may fail; the worker logs and goes on as the code does |
| `Crash` | the process ends anywhere |
| `MoveHotToCooldown`, `WriteTranscript` | the hot phase and the exporting hooks, as inputs |
| `BeginFile`, `IngestFile`, `LinkCooldown`, `MarkCooldown`, `...Fails` | `processFile` and `linkCooldownForSession` |

`HybridUnion(S)` is every division of the rows into contiguous segments (all singletons when there
are at most `TreeK` of them, as `treeSeg` does): what the algorithm chooses depends on texts and
embeddings, which no property distinguishes. The cluster ids are numbers in the order of issue.

`ClusterQueue` is the abstract specification of what marking rows promises the workers: a queue of
clusters, of which one worker at a time takes one and finishes it for good, gives it back or loses
it; what is lost is never taken again. `CoolPipeline` implements it under the mapping of `Queue`
(`taken[w]` is the cluster `w` holds between claim and end, `done` is `extracted`, `lost` is
`abandoned`; property `ImplementsQueue`). Everything else - rows, lists that may be stale, the batch
adapter's marks - is hidden by the mapping.

### HotTier and MessageStore (`api.go`, `db/sqlite.go`, `vecindex.go`, `query.go`)

State: a program counter per message for its handler; the two tables and the two FTS tables as sets
of ids; the index as a set of `<<prefix, id>>` keys and its file `cache`; the TTL goroutine's rows
still to re-prefix (`pending`) and the one between `Remove` and `Add` (`carrying`); one query with
the layers it has not read yet and the vector hits it has not looked up. `outOfSync` records the
keys an error or a stale file lost: the code drops those errors on purpose.

`MessageStore` is the abstract specification: a message is accepted, goes from hot to cooldown once,
and stays. `HotTier` implements it under the mapping `tier`
(`Store == INSTANCE MessageStore WITH Messages <- Messages, tier <- tier`, property
`ImplementsStore`).

The four statements of a move select their batch each for itself, but inside one transaction and in
the order of the timestamps: what is still in `hot_messages` is selected again as it was, so
`Deleted` is the first selection, and `FtsCopied` what of it has an FTS row. `ToReprefix` is the
query after the commit. `SearchText` is one SQL statement, `SearchVector` a search of
the index followed by one `LookUpHit` per hit. Which hits are near enough is not modelled: a layer
returns all keys of its prefix.

### FactStore (`imprint/*.go`, facts of `db/sqlite.go`)

State: the rows by number in order of storage with confidence, `superseded_by`, whether they were
`batch-replaced`, and whether they have a key; per call of `Engine.Ingest` the fact in hand, what it
may retire, its candidates, the groups for the review and the decisions still to be applied.
Similarity, and every answer of an LLM, is any choice; a failing call decides nothing. The steps are
the statements in the order of the code: duplicate search, classification, candidate search (before
the row is stored; after it for a merged fact), `CreateFact`, `UpdateFactEmbedding`, the guarded
retirement, then the review and, per decision, the read of both facts and the retirement. Clients
replace (`SupersedeWithContent`), patch, delete any set that no foreign key forbids, and the batch
adapter replaces realtime facts. A call may stop anywhere, as when its process ends.

A fact's candidates are everything searchable except the call's own facts; pairs the score or the
subject filter would drop are pairs that the review decides nothing about.

### Transcripts (`ingest/batch.go`, `watcher/watcher.go`)

One file on disk; the watcher with its event queue, debounce timer and own call of `ProcessDir`; the
adapters of other processes. An attempt is `SkipIngested` or `CheckTranscript` (read, hash,
compare), `CreateTranscript`, `DeleteTranscriptChunks`, `CreateTranscriptChunk` per chunk, `Ingest`
per chunk, `UpsertIngestedFile`; it may fail at each (`AttemptFails`), and the watcher's process may
end and start again. The watcher processes the directory inside its event loop, so `FileEvent` and
`TimerFires` wait for it. A started watcher does not look at what changed while it was down, and a
failed file is tried again only at its next event. The FTS rows of replaced chunks stay (`fts`).

### EntityGraph (`imprint.go`, entities and relationships of `db/sqlite.go`)

Entities have an id and aliases, relationships two entity ids. `Lookup` and `CreateEntity` or
`UpdateEntityAliases` are two statements per extracted name; a lookup that fails is taken for "not
found" (`LookupFails`). `FindDuplicates`, `ListGroup`, `RepointFrom`, `RepointTo`, `DeleteEntity`
are the statements of `DeduplicateEntities`, which keeps the oldest of a group (`Oldest`: by
`created_at`, and of one ingest's entities the one stored first); `DropRelationships`,
`DropEntities`, `ResetEnds` and `Open` those of `Reset` and of the migration any process runs when
it opens the database next. `AskGraph` with `ReadEntities`, `ReadRelationships`, and `AskPath` with
`ReconstructPath`, are the readers. (`FindPath` has no caller but tests and the store interface.)

`AnswersConnected` says what an answer given by unchanged tables is. A graph: whatever set of its
entities has the center but not all, some relationship of the answer leaves the set
(`GraphConnected`). A path: it runs along relationships, and no shorter traversal reaches its end; no
path: no traversal of `MaxPath` steps does (`PathShortest`). The module shares no table with
`FactStore`, the other half of `Engine.Ingest`, whose calls fail here wherever they like.

### Providers (`provider/resolved.go`, `errors.go`, `health.go`)

`Begin` reads the row and checks it, `Succeeds` and `Fails` write what follows from the row that was
read; `WriteProviderFact` is the notice of a provider given up on. `StartCheck`, `ListerAnswers`,
`ListerFails`, `Rate` and `CheckDone` are `HealthChecker.CheckAll`. Time is in hours. The Resolved
types are constructed only by tests so far; the health check runs in `serve`.

### VectorCache (`vecindex.go`, `db/sqlite.go`)

Several processes, each with its own copy of the keys, and the file system: the cache file and the
shared `.tmp` name as names of inodes, so that a rename moves what another process is still
writing. `Open` loads the file or starts a rebuild (`CollectEmbeddingsForVectorIndex`,
`ResetFromEmbeddings`), `UpdateRow` stores an embedding and `AddKey` puts it in the process's own
copy, `DeleteRow` and `BackfillGone` are rows that go, `Close` and `Reload` save (`OpenTmp`,
`WriteTmp`, `Rename`, each of which may fail), `Exit` is a kill or the end. `RebuildFails` is an error
of the collection or, after the `Clear`, at any key of the import: a process that opens ends with it,
one that reloads goes on with what was imported so far.

`FoundUnlessLost` names the steps that lose an embedding, one by one, in the history variable `lost`:
an update while a second process is up, an `Add` that fails, a second process that opens a file while
the first has unsaved changes, a kill or a failure before a save, and a rebuild that read the row
before it was embedded (`late`) or that broke off. A row comes back with a new embedding or with a
rebuild by a process alone. Of every row that is not lost the property says that each open index
finds it, and that it is in the file or among the `changed` rows of a process that is up. `lost`,
`late` and `changed` are set by what the steps do, never by looking at an index, so that a step which
dropped more would violate the property.

### Upkeep (`consolidation`, `quality/optimizer.go`, `main.go`)

A worker is a scheduler's ticker or a command or watcher (`Others`, each with the plans in
`Starts`); its `plan` is the list of phases it goes through (consolidate, optimize, the
evaluations). `Consolidate` lists a window of unconsolidated facts and clusters it
(`clusterFacts`), `consolidateCluster` and `CreateFactConnection` store one group's result;
`CreateEvalRun`, `GetBaselineEvalRun`, `SetBaseline`, `SaveBaseline` are the baseline's
statements; `ShouldNotOptimize`, `readCurrentPrompt`, `Keep`, `Discard`, `WriteFile` one attempt of
the optimizer. An attempt is `overtaken` if another wrote after it read, or was writing when it
read. The optimizer asks an LLM for the scores of the current prompt and of its candidate anew in
every attempt, so a prompt has no score of its own: any attempt may keep or discard, and a prompt
that was kept may score worse the next time. What can be said is what a candidate was compared with.
Candidates are numbered as they are kept; `kept` holds for each the prompt it was judged against,
`spoiled` those of overtaken attempts and broken writes. `KeptImprovesOnLast`: every other one was
judged against the one before it, and the last one is in use. `Unknown` as best score means that
updates of that baseline raced, broke off or were made by hand, after which nothing is claimed.

### Retrieval (`query/query.go`, `context/builder.go`, rerankers, `db/sqlite.go` searches)

One request beside a changing store. A layer is a search that yields keys (`Search`, `ListFacts`)
and one `ReadRow` per key; the graph layer looks up one word at a time. `Merge` is RRF or
set-union, `RerankAndBuildPrompt` the rerank and the sections of the prompt, `Answer` the LLM's
answer, its citations and the log; `FormatContext` the section of `Builder.Build`, `Retrieve` the
endpoint without an LLM. The store's changes are those of the other components: a fact is stored,
expires or is deleted, a message moves and is re-prefixed, chunks are replaced. RRF points are
integers (`Scale`), exact for the ranks of the run, so ties and the sort's freedom among them are
kept. Loops over lists are `Kept` (what stands at some places), `FirstAt` (the same with a `seen`
map), `FoundIn` (one layer after another) and `Total`.

### Taxonomy (`taxonomy/*.go`, its tables)

`Collect` writes the signals of `CollectAll` kind by kind, `BeginReview` and `ReviewTaxonomy` are the
request to the LLM and what it proposes, `ValidateProposals`, `NextProposal`, the checks per action
(`validateAdd`, `validateRemove` with its two counts, `validateMerge`, `validateRename`, `Confirm`)
and `UpdateTaxonomyProposalStatus` the validation, `Apply` and `EffectiveTypesWithProposals` what a
caller does with the result. The package has no caller outside tests (`README.md:146` and `:469` call
it autonomous), so its functions come in any order, one at a time; `ShouldReview`, which a caller may
ask first or not, restricts nothing. An answer of the LLM is taken as it comes: its action may be
unknown, in which case `NextProposal` passes over it and it stays proposed, and its type may be the
empty name (`None`), for which `ListFacts` filters nothing, so that a renaming of it is confirmed
with facts of other types.

### MC modules

The `MC...` modules name the model values and give the functions that a configuration cannot write
(the session and time of a message, what a relation's ends are, symmetry sets).

## Runs and what they show

| Run | Shows |
|---|---|
| `CoolWorkers` | Two serve processes on the rows of two sessions, with failed statements, failed extractions and a crash: `ClusterWithinSession`, `ClusterMembershipFixed`, `ClaimExclusive`, `ExtractedAtMostOnce`, and the refinement `ImplementsQueue` |
| `CoolBatch` | One worker and the batch adapter on one session: what is marked is accounted for (`UnlinkedProcessedWasExtracted`), and under fairness `RowEventuallyClustered` and `ReadyClusterHandled` |
| `HotTier` | Handlers, the TTL goroutine, a query and a restart: `TiersAgree`, `IndexComplete`, `QueryComplete`, the refinement `ImplementsStore`, and under fairness `ExpiredMoves` |
| `FactStore` | Two ingests with merging beside clients: `ChainsKept`, `NewerUnlessMerged`, `GuardRespected`, `RetirementFinal` |
| `FactCycle` | Expected violation of `KnowledgeKept`: a merged fact and a later fact retire each other |
| `Transcripts` | A watcher and a command on a changing file, failures everywhere, restarts: `RecordedIsExtracted`, `RowsMatchRecord`, and under fairness `ChangesAreSeen` |
| `EntityGraph` | Two ingests, two deduplications, a reset and readers: `OneEntityPerName`, `KnowledgeStays`, `AnswersConnected` |
| `Providers` | Two senders and an embedder on one provider, a restart, a check over two endpoints of one name: `FailuresEarned`, `TerminalIsFinal`, `HealthSettled` |
| `VectorCache` | Two processes that load, rebuild, change, save, fail and are killed: `FoundUnlessLost`, `TornOnlyByOverlap` |
| `Upkeep` | The scheduler beside two commands that consolidate, evaluate or optimize, with errors: `ConsolidatedOnce`, `BaselineIsBest`, `KeptImprovesOnLast`, and under fairness `BacklogConsolidated` |
| `Retrieval` | One query, retrieve or context request beside a changing store: `FindsReachPrompt`, `MergeRespectsLayers` |
| `Taxonomy` | A collection and two reviews beside facts that come and go: `ValidatedOnEvidence`, `DecisionsStay`, `TypesFollowProposals` |

The runs of `EntityGraph` and `Retrieval` also check their type invariants (`GraphTypeOK`,
`RetrievalTypeOK`); elsewhere `TypeOK` is a theorem and not repeated in a run. It also says how
variables belong together (a key's prefix and its message's tier, a program counter and the locals it
needs). Several properties except a documented kind of disturbance: overlapping passes in `ConsolidatedOnce`,
overlapping or broken-off attempts in `RowsMatchRecord`, overtaken attempts in `KeptImprovesOnLast`,
racing updates in `BaselineIsBest`, a late answer in `FailuresEarned`, overlapping ingests in
`OneEntityPerName`. There the code makes no promise, and the exception is as narrow as TLC
accepts: history variables (`disturbed`, `overlapped`, `tainted`, `raced`, `lost`, `spoiled`) record
that the disturbance really happened, to these very rows. A hazard that is just such a race is not
covered by the property that leaves it out; `PROJECT.json` says so in its `note`, and names the
property that limits what the race can do where there is one.

Every property of a passing run is shown to depend on the code by a mutant in `PROJECT.json`: a
definition with a plausible defect (`...Unguarded`, `...DropsOne` and the like, with a `Defect:`
comment, next to the definition it stands for; no specification uses it), under which the run
fails. `CHECK_DEADLOCK FALSE` is set everywhere because the bounded clock, crashes, edits, calls
and rows end behaviours.

## Bounds

The constants named `Max...` and commented `bound:` are guards of the steps they count; nothing
else is cut off. (`MaxClusterSize`, `MaxGroup`, `MaxRetries` and `MaxPath` are limits of the code;
`MaxRank` of `Retrieval` is where its whole points stop telling ranks apart.)

* `CoolWorkers`: three messages in two sessions, two workers, one crash, `MaxClusterSize = 1`. Two
  rows of one session above `TreeK = 1` give all segmentations (together, apart); a row of another
  session shows mixing; two workers are what a claim can be contested by.
* `CoolBatch`: two messages in a session with a transcript and one in none, one worker,
  `MaxClusterSize = 2` and `SilenceHours = 1`, so that a size trigger (both in one cluster), a
  silence trigger and no trigger all occur. The clock reaches 2: a row can be written, silent, and
  transcribed again after a change.
* `HotTier`: two messages, one long enough to be embedded, batches of one, TTL 0, two clock steps,
  one restart, one query: each message can be in any tier and any window while the four layers run,
  two expired messages compete for a batch, and a batch is interrupted between its keys. The
  theorems about this module have no bounds.
* `FactStore`: two calls of two and one facts, four rows in all, one client edit, merging on;
  `FactCycle` one existing fact and one new fact per call.
* `Transcripts`: two contents of one and two chunks, three writes and three attempts: an attempt
  that fails, one that overlaps it and one that repairs.
* `EntityGraph`: names `Go`, `go` and `sql`, one entity doubled by spelling or by a race; two
  ingests, two requests (deduplications, a reset, queries), one failed statement, depth 1.
* `Providers`: four calls with `MaxRetries = 2`: give up, and one call more than that; two hours,
  so that a wait can end and be renewed; one check over two endpoints of the one name.
* `VectorCache`: two processes, one row embedded up to twice: an old and a new vector, and no more
  than one process is needed to overtake another. Rows do not interact except through the file. The
  processes are interchangeable (symmetry), and the `VIEW` leaves out what no step reads and no
  property asks for: the keys of deleted rows and the history of rows without an embedding.

* `Upkeep`: two facts, one of which expires, `MinFacts = 2` and `MaxGroup = 2`, so a window can be
  too small, be stale, or overlap another; the scheduler and two commands, both of which can
  optimize, so that either can be overtaken; two scores, so that better, equal and worse occur; two
  candidates kept (`MaxKept`), one of which builds on the other or replaces it; one error.

* `Retrieval`: three facts, one message, one chunk, at most two layers that answer (any two of all;
  the others failed or were skipped), two changes of the store, one clock step. Two layers are what
  a merge needs; more multiply the states without a new case for the properties.
* `Taxonomy`: a custom and a configured type with a fact each, one possible proposal of each kind,
  and two that make no sense (an unknown action, a renaming of the empty name), one proposal per
  answer, one collection, two reviews, so that proposals of two reviews meet.

## Fairness

* `CoolPipeline.FairSpec`: `Worker.Run` is a ticker loop and every call in it returns, so a worker
  that can take a step takes one (weak fairness of `WorkerStep`). A statement that is tried again
  on every tick does not fail each time, and neither does an extraction that is retried forever
  (strong fairness of the individual successful steps). Nothing is assumed of the batch adapter,
  the hooks, the clock, failures or crashes. `ReadyClusterHandled` excludes what the fairness
  cannot give: a claim abandoned by a crash or failed rollback, and a cluster some row of which was
  batch-marked.
* `HotTier.FairSpec`: the TTL goroutine keeps ticking and its calls return (weak fairness of
  `Mover`, which includes its failures); the process may end and need not be restarted, which the
  properties allow for.
* `Transcripts`: the watcher's loop reads events, its timer fires, and an attempt it began goes on
  or fails (weak fairness of each). Nothing is assumed of other adapters, of writes or of success.
* `Upkeep.FairSpec`: a scheduler's ticker ticks (weak fairness of `Tick`) and what a tick began goes
  on, its calls having timeouts (weak fairness of its `PassStep` or `EvalStep`). Nothing is assumed of
  watchers and commands, which may hang in the middle of a pass, nor of errors, which `MaxErrors`
  bounds.
* The other modules state no liveness: calls may stop anywhere and nothing is retried by itself.

## Proofs

`<module>Proofs` extends `<module>`, for six modules; `IngestProofs` extends `FactStore` and
`EntityGraph`, the two halves of `Engine.Ingest`, and `SearchProofs` extends `VectorCache` and
`Retrieval`, the index and the questions asked of it. They prove for all values of the constants
that satisfy the assumptions named in the modules (finite sets, natural thresholds, names that are
not numbers) that the specification keeps its invariants. Each has a `TypeCorrect`, which proves
`TypeOK` (`GraphTypeCorrect` for `EntityGraph`, `RequestTypeCorrect` for `Retrieval`). The other
theorems rest on inductive invariants, of which those called `...Inv` below are definitions of the
proof modules:

* **CoolPipeline**: type correctness; `ClusterWithinSession` needs that a worker's plan holds rows
  of one session each and that ids are not reused; `ClaimExclusive` rests on the fact that a held
  cluster's rows are all marked and that clusters do not change, so that a second claim finds no
  unprocessed row; `ExtractedAtMostOnce` adds that an extracted cluster stays marked, as only its
  holder could clear it. The strengthening says which rows each worker's local variables may
  contain. `ProcessedIsAccountedFor` and `MembershipFixed` use the same invariant. The refinement
  `QueueImplemented` needs one fact more, `AbandonedIsClosed`: the rows of a lost cluster stay
  marked, because the only statement that clears marks is the rollback of a worker that holds the
  cluster. Then each step of a worker is a step of `ClusterQueue` or leaves its variables alone.
* **HotTier**: type correctness, `TiersAgree`, then `IndexComplete` (inductive together with where
  `carrying` and `pending` point), `QueryComplete` (with what each unread layer can still return),
  and the refinement: every step is a step of `MessageStore` or a stutter.
* **FactStore**: the inductive invariant `IInv` says of the pairs in every call's hands (candidates,
  groups, decisions, the pair about to be retired) that the new one is later than the old one unless
  it was merged, and that what passed the confidence guard still satisfies it unless a client
  patched it; with the invariants of the rows this gives `NewerUnlessMerged`, `ChainsKept` and
  `GuardRespected`, and from them `RetirementFinal`. `NoCycles` proves that without
  `merge_on_dedup` every chain of superseded facts ends in an unsuperseded one, by well-founded
  induction on row numbers: the cycle in the run `FactCycle` needs the merge.
* **EntityGraph**: `GraphInv` is a conjunction. `CallInv`: a running ingest has a number of its own,
  which is in the id of whatever it creates. `TableInv`: relationships refer to stored entities, and
  any two entities have an order. `DedupInv`: what a deduplication is to remove has the name of what
  it keeps and comes after it. `KeptInv`: as long as it has not been removed, what is kept instead is
  there, or an older entity of that name is, which a second deduplication prefers; only with this can
  `KnowledgeStays` do without a condition on overlaps. `RacedInv`: a call about to create an entity
  has raced with whoever created one of its name, since its lookup found none; and a deduplication
  that runs alone has all doubled names in its hands. `OneEntityPerName` follows. `AskInv` says that
  what a request has read is what the tables still hold, unless they changed. `AnswersConnected`
  follows from it by lemmas about traversals of any depth: what depth n reaches grows with n, an
  entity is related to one that is reached a step earlier, and so a cut that separates part of an
  answer from its center has a relationship across it, and the trail that `ReconstructPath` follows
  backwards has the length of the traversal that found it.
* **Taxonomy**: type correctness says that what is being validated is still a proposal; `DecisionsStay`
  follows, although the statement that writes a verdict looks at no status. `ValidatedOnEvidence`
  needs what the pending check has established so far: once the count of a removal was zero, no
  fact counted then is left, since facts of a type come but never come back. Of the LLM's answers
  nothing is assumed but that they are finitely many. `TypesFollowProposals` is about the loop of
  `EffectiveTypesWithProposals`: `OneProposal` says what one round does to the names of a category,
  with lemmas on `filter` and `rename`; `FollowsOnceMore` that a proposal that touches no name of
  those before it does the same after them as it would at first; `MergeFollows` joins the rounds. It
  needs `ValidatedOnEvidence`: an applied renaming has a new name.
* **Transcripts**: `ExtractedInv` says of an attempt that the chunks it has passed, of the content it
  read, were extracted by it or another; so whatever attempt writes the hash, `RecordedIsExtracted`
  holds, with no condition on overlaps. `RowsInv` holds while nothing disturbed the rows: one attempt
  at a time touches them, it has replaced exactly the chunks it is past, and when none is under way
  the rows are those of some attempt at the recorded content. `RowCount` counts them for
  `RowsMatchRecord`.
* **Providers**: `OpsInv` relates rows, snapshots and program counters: a snapshot in a call was not
  given up on, since `checkStatus` refuses the others; with it `TerminalIsFinal` is a case split.
  `EarnedInv` bounds the count in a snapshot by the failures so far, unless a success came after it
  was read. `HealthInv` says what each name's endpoints still to be asked leave open, and so that
  after the last one the verdict is settled whatever the order was.
* **VectorCache**: `TypeInv` and `VersionInv` (no key anywhere has a vector that its row never had).
  `SaveInv`: as long as no two saves overlapped, at most one process saves, the `.tmp` name is its
  own, and the file is whole; that a free inode always exists is counted in `FreeInode`. `LostInv`
  strengthens `FoundUnlessLost`: a row that is not lost and among a process's changes has that
  process up alone, and what stands under the `.tmp` name during a save has the row too, or its key is
  still in the hands of the one that saves (`RowKept`). `ReadInv`: what a rebuild has read will be found,
  unless it is `late`, and a row whose key is in hand is among the changes; `HandInv`: one version at
  most of a row is in hand.
* **Upkeep**: `ControlInv` ties a worker's stage to its phase, `RestInv` its plan to the plans there
  are. `CitedInv`: the windows of two passes share only `overlapped` facts, groups of one pass share
  none (`ClustersApart`, about `clusterFacts`), and a fact still to be sent is cited already only if
  it is `overlapped`. `EvalInv`: the best score is the baseline or still being compared. `PromptInv`:
  an attempt that judges and was not overtaken has read the candidate kept last, and no one writes
  meanwhile; until the last candidate is spoiled, at most one worker writes, and it writes that one.
* **Retrieval**, for every store, every order of the two indexes without repetitions, and all limits.
  `RequestInv` says that every layer but the graph layer holds each key once, in what it has read
  and what is left to read together, and that a layer not asked or not begun holds nothing.
  `ExpiredStay`: a fact that had expired before the question is expired in every copy a layer read
  of it, whenever it read it, unless its expiry was put off meanwhile. `ResultInv` says of the
  merged list, the prompt and a context section what they contain; each entry of the list comes from
  a copy that had not expired. `FindsReachPrompt` follows. For the order in `MergeRespectsLayers`,
  set-union needs that the place where a key first comes in the concatenated layers is in the first
  layer that found it, where the leading key is ahead of it; RRF, that the leading key has at least
  the points of the other in every layer and more in one. Points fall strictly up to rank `MaxRank`,
  and every layer but the graph layer holds a key once, so the property asks for as much of the
  graph layer.

The proof attempts changed the model where it claimed too little or too much. In `VectorCache` they
showed which `AddKey` steps lose nothing: only one that fails does. In `Upkeep` an optimizer that
reads the prompt file while another writes it judges against a broken text, as `os.WriteFile`
truncates before it writes; such an attempt counts as overtaken, and the run has two optimizers. In
`Taxonomy` the property was false
for a configuration that lists a type twice, of which a renaming changes the first entry only
(`evolution.go:483`); it now says so, and the LIMIT of the applied proposals is modelled. In
`EntityGraph` two entities of one ingest could not be told apart by age; their ids now hold the
position.

In `Retrieval` the selections and sums had library operators that the provers cannot expand; they are
now the loops that the code has.

Inductions over a depth, a length or the rounds of a loop are made by hand: what fails for some
number fails for a least one (`LeastNumber`, from the well-foundedness of the naturals), and that it
does not fail there follows from the number before. For this the loops are recursive functions
(`Reachable`, `filter`, `MergeAll`, `Kept`, `FoundIn`, `Total`), for each of which a lemma shows
that it exists for every number of rounds.

Only model-checked:

* the liveness properties (`ReadyClusterHandled`, `RowEventuallyClustered`, `ExpiredMoves`,
  `ChangesAreSeen`, `BacklogConsolidated`): they need fairness and ENABLED;
* `MergeRespectsLayers` beyond `MaxRank` = 3000 hits in a layer, where two ranks of the model have the
  same number of whole points. The code's points differ there; its searches are limited to far fewer
  hits, the graph layer is not.

## Where the code and its documentation disagree

One disagreement is a run: `FactCycle`. `README.md:31` says knowledge never disappears; a merged fact
and a later fact can retire each other (`imprint.go:269`), and then neither is active.

The modules define the following documented promises too. None is part of a run; each fails when it
is added to the named configuration as an invariant (or property), and the counterexample is the
case in the last column.

| Definition | Document | Configuration | What the code does |
|---|---|---|---|
| `CoolPipeline!MarkedOnlyOnSuccess` | `spec/HOT-PHASE-SPEC.md:1420`: a cluster is marked on success, a failed one is retried | `CoolWorkers` | the mark is the claim, set before the extraction (`worker.go:111`); a process that ends during it, or a failed rollback, leaves a cluster that is never extracted |
| `CoolPipeline!BatchMarkPreventsExtraction` | `spec/ARCHITECTURE.md:138`: marking linked rows prevents duplicate extraction | `CoolBatch` | a cluster is loaded with its processed rows (`sqlite.go:3265`), so a marked row is extracted with an unmarked one of its cluster |
| `HotTier!QueryFindsEveryMessage` | `spec/HOT-PHASE-SPEC.md:3`: messages never disappear from query results | `HotTier` | the layers read without a common snapshot; a message that moves between them is in neither |
| `HotTier!RestartKeepsVectors` (a property) | `spec/HOT-PHASE-SPEC.md:117`: shutdown saves the index | `HotTier` | the signal handler calls `os.Exit` (`main.go:1200`) before the deferred close, and the next start trusts the older file |
| `FactStore!ContradictionsMeet` | `spec/ARCHITECTURE.md:72`: candidates are collected after the new row is indexed | `FactStore` | they are collected before it is stored (`imprint.go:301`); two concurrent calls miss each other |
| `Upkeep!ClustersAreSimilar` | `README.md:149`: facts are clustered by embedding similarity | `Upkeep` | `ListUnconsolidatedFacts` loads no embedding, so groups are by subject and what is left over |
| `VectorCache!ReloadKeepsFound` (a property) | `sqlite.go:218`: `ReloadVectorIndex` rebuilds the index from SQLite | `VectorCache`, also with one process | it collects the embeddings (`sqlite.go:223`) and only then locks the index and resets it (`:227`): a key that a handler of the same process adds in between is dropped, though its row has an embedding |
| `Upkeep!ImprovesOnReplaced` | `README.md:147`: the optimizer keeps improvements and discards regressions | `Upkeep` | an optimize command and a watcher both read the same prompt, find their candidate better and write it (`optimizer.go:163`; the mutex is that of an object made anew for each attempt): the second replaces one it was never compared with |
| `Retrieval!GraphFindsSources` | `spec/ARCHITECTURE.md:179`: the graph layer collects source facts | `Retrieval` | `extraction.go:253` builds relationships without a source fact, so the layer finds facts of the eval corpus only |
| `Taxonomy!RenamedTypeHadFacts` | `spec/ARCHITECTURE.md:309`: a renaming is confirmed with sample facts of the type | `Taxonomy` | the LLM's answer may name the empty type, for which `ListFacts` has no filter (`sqlite.go:385`): the samples are of other types |
| `Taxonomy!MergedTypeDisappears` | `spec/ARCHITECTURE.md:319`: the merged-from type disappears | `Taxonomy`, with the merge in `MCAnswers` being of `habit` into `event` | proposals are merged newest first (`sqlite.go`, `ORDER BY created_at DESC`): an older addition of the type puts it back |

Other disagreements met while modelling, which the models follow the code in:

* The cosine reranker never reorders, because no search loads `Fact.Embedding` (`scanFact`).
* A fact that the graph layer finds by two relationships counts twice in RRF; if nothing is ranked,
  the chunk contexts are lost (`query.go`, about line 820); facts that gc deleted keep their FTS
  rows and vector keys, which take places below the LIMIT.
* The optimizer's rate limit never limits: `main.go` makes a new `LoopOptimizer` for each attempt. A
  prompt that was kept is used after the next start only.
* gc is one DELETE, which fails as a whole if another row refers to one of its facts.
* Nothing sets `taxonomy_signals.resolved_by`: a signal counts in every later review.
* Realtime facts that a running ingest stores after `SupersedeRealtimeBySession` stay active, and
  two ingests of one text both store it.
* The optimizer's two scores come from an LLM and are not repeated: a candidate can be kept for
  chance, and the models let either verdict follow.
* `MaxGroup = 1` makes consolidation list the same window for ever, since no group is big enough.

## What is not modelled

* Contents: texts, embeddings, distances, prompts, formats; what is near or alike is any choice (an
  order of keys in `Retrieval`).
* `moved_from_hot` has a resolution of one second, so a move may re-prefix rows of an earlier move
  of the same second again; that changes nothing and is left out.
* Two serve processes are modelled for the cool worker, the cache file, transcripts and upkeep; the
  hot phase is that of one process. `CoolPipeline`, `FactStore`, `EntityGraph` and `Transcripts` are
  not composed into one specification: the parts of `Engine.Ingest` and of `processFile` that they
  hold write different tables, and a call's failure in one part is a choice in the others.
* The quality collector (aggregates for display), evaluation scoring (formulas), the fallback loop
  of `provider.Chain` and the HTTP clients (I/O), configuration, CLI parsing, lint, update check,
  logging, integrations (they appear as external actions that write messages and transcripts).
* The arithmetic of `HybridUnion`, `chunkText` and distances: the contracts that `CoolPipeline` and
  `Transcripts` use are taken from the code, not derived.
* Two calls of `ValidateProposals` at once: nothing in `Evolver` locks the second out, but nothing
  calls it either.
* Watcher: an overflow of the kernel's event queue. Taxonomy: a reset of its tables, centroids of
  different dimensions. Functions without a caller (`DeleteExpiredHot`, `SupersedeFact`).

## Plan

Done: `CoolPipeline`, `HotTier` with `MessageStore`, `FactStore`, `Transcripts`, `EntityGraph`,
`Providers`, `VectorCache`, `Upkeep`, `Retrieval`, `Taxonomy`; proofs of the safety properties of
all of them; the refinements of `MessageStore` and `ClusterQueue`. Next:

1. An abstract specification for `Transcripts` (a recorded content is extracted whole) with the
   refinement, and for `VectorCache` (the set of stored embeddings) for one process.
2. Pure functions - `chunkText`, `HybridUnion` against the contract that `CoolPipeline` assumes -
   checked against reference definitions over bounded inputs.
