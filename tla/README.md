# mcp-threat-analysis in TLA+

A verification project for `mcp_threat_analysis`, the program that scans MCP
servers (their source packages, their tool descriptions, their live endpoints),
stores findings in PostgreSQL, scores servers and opens alerts for analysts.
The specifications model its stateful core: what concurrent scans, pollers,
commands, analysts and LLM calls do to shared state, with the failures the code
handles and some that it does not. Paths below leave out the leading
`src/src/mcp_threat_analysis/`; `docs/L6` is
`docs/L6-风险聚合评分层-系统设计.md`, `docs/L3` and `docs/L2` the design documents
of the semantic and the static layer.

Contents: 1 the system, 2 modules, 3 runs, 4 fairness, 5 proofs, 6 where code
and documents part, 7 what is left out, 8 plan.

## 1. The system

| Component | State | Operations | Talks to |
|---|---|---|---|
| Findings store: `common/persistence.py`, `risk_scoring/lifecycle.py`, `sql/001_schema.sql` | table `findings`, partial unique index `findings_dedupe_idx` over the active rows of a key | `upsert_findings` (UPDATE supersedes, INSERT adds), `suppress`, `confirm`, `mark_false_positive`, `reactivate` | called by all scans inside their transaction, by the API for verdicts |
| Risk pipeline: `risk_scoring/ingestor.py`, `aggregator.py`, `triage_router.py` | `servers.risk_score`, `risk_priority`, `triage_queue`; in the process, the cursor `last_seen` | `tick`, `_poll_dirty`, `Aggregator.run`, `TriageRouter.route` | polls `findings.updated_at`; the command `mta-risk aggregate` does one server |
| Scoring: `aggregator.py`, `weights.py`, `cross_validator.py`, `popularity.py`, `triage_router.py` | none | score, boosts, popularity, priority, the router's second priority | inside a tick |
| LLM client: `semantic_analysis/llm/client.py`, `budget.py`, `cache.py` | cache, semaphore, budget of a day, table `llm_calls` | `call`, attempts with back-off, `add` to the budget, audit rows | called concurrently by the semantic detectors |
| Batch runner: `semantic_analysis/llm/batch_runner.py` | a queue of jobs, the task `_run`, a semaphore | `start`, `stop`, `submit`, `flush`, `_dispatch` | LLM client, the callbacks of its jobs; nothing in the repository uses it yet |
| Semantic scan: `semantic_analysis/orchestrator.py`, `persistence.py`, `detectors/`, `alignment/`, `embeddings/` | one session: `tools.description_emb`, `tool_capabilities`, findings, links to `llm_calls` | `run`: link handlers, shadowing, two verdicts per tool, toxic flows | LLM client, an embedding model, findings store; reads what static and remote scans left |
| Remote scan: `remote_analysis/` | `servers`, `remote_observations`, `tools`, a stub `static_summaries` row, findings | probe (TLS, initialize, tools/list), detectors, `persist_scan` | the live server; findings store; the semantic layer reads what it leaves |
| Static scan: `static_analysis/orchestrator.py`, `target_loader.py`, `persistence.py`, `analyzers/` | a workdir, codeql's database directory, `static_summaries`, findings | `prepare`, extractors, seven analyzers and the tools they start, persist, cleanup | external scanners through `common/subprocess_runner.py`, findings store |

Components interact only through the database, and through the LLM client
within a process. The documents describe layers; there is no message bus and no
lock of the program's own. What keeps concurrent work apart is what PostgreSQL
does at READ COMMITTED (`common/db.py` leaves the isolation level alone): row
locks held to the end of a transaction, the re-evaluation of an UPDATE's
condition on a row it waited for, a unique index that makes an INSERT wait, and
deadlock detection.

What is hard here:

- *Interleaving*: scans of one server have no common lock before
  `upsert_findings`; analysts judge rows in between; two ingestors and the
  aggregate command score the same server.
- *Atomicity*: the router's check and its INSERT are separate statements on a
  table without a unique constraint.
- *Ordering*: `updated_at` is the start of the writing transaction, not its
  commit; the poller orders by it.
- *Partial failure*: exceptions swallowed inside an open transaction, scanners
  that are missing, fail or time out, analyzers that raise, ticks that fail at
  one of several servers, commits that fail, callbacks that raise.
- *Stale state*: capabilities collected by name over rows of several
  observations, embeddings that another run has not committed yet.
- *Bounds*: permits, retries, the daily budget; a digest cut to five findings.
- *Deadlocks*: rows locked in the order of a detector's output.

What makes each component correct: a finding is active once and evidence is not
lost (store); every change gets scored, an alert is open once and debounced
(pipeline); more findings never make a server look better, and the alert agrees
with the stored priority (scoring); permits, budget, cache and audit rows stay
consistent (LLM client); a job taken off the queue is answered and stop and
flush come back (batch runner); a scan is persisted whole or not at all, whatever part
of it fails, and it ends (the three scans). `PROJECT.json` lists the hazards at
their lines, with the properties that watch them.

## 2. Modules

| Module | Models | Actions and the code they stand for |
|---|---|---|
| `FindingStore` | what readers of `findings` may rely on | `Publish`: a scan's findings appear at once, the newest of each key active; `Judge`: one row changes status at a time, back to active only if no other is |
| `Findings` | scans and verdicts, statement by statement | UPDATE in two parts (it selects the active rows, then writes them, waiting for the row's owner), INSERT (waits for, or fails on, another active row), commit, roll-back, the deadlock's victim; `lifecycle`'s changes; the lock of a `static_summaries` row for scans that upsert one first |
| `RiskPipeline` | ingestors, the aggregate command, writers, the alert queue | poll, begin an aggregation, UPDATE of the server (takes its row lock), `_already_open`, `_recently_resolved`, INSERT, commit, failures, a commit whose connection is lost; an analyst resolves alerts, the day passes |
| `Weights`, `Scoring` | the weight tables, what YAML does to them, and the boost rules; score, priority, digest and route as functions; findings come and go | `Aggregate(D)` is one aggregation and routing with a digest D, any choice among findings of equal weight |
| `LLMClient` | concurrent calls of one process, and of the one that follows it | cache hit, acquire of a permit, the response or its failure, back-off, the audit row, the parse with the budget, midnight, a restart |
| `BatchRunner` | a runner and its callers | `submit`, `start`, `stop`, `flush` with and without a time-out; `_run`: get, its time-out, create a task; `_dispatch`: permit, call, callback and the callback with None; the end of the event loop |
| `SemanticScan` | runs of `SemanticAnalysisOrchestrator.run` for some servers | load in any order, the encoder, embeddings and the two searches, verdicts on description and alignment in any order, look-up and store of capabilities, toxic flows by name, save, link, commit - and a call or a statement that fails at each |
| `RemoteScan` | overlapping `scan`s of one endpoint | TLS pass, initialize, tools/list and their failures, then each statement of the transaction; the server changes meanwhile |
| `StaticAnalyzers` | the analyzers, as operators | which tools each starts given the binaries on PATH, the manifests and the language; which of them raise, what failing ones still report, whose keys hold a path, deduplication |
| `StaticScan` | overlapping `run`s on one version | download or copy, unpack, each tool of each analyzer, its failure or the analyzer's crash, cancellation while a scanner is awaited, the transaction, clean-up |
| `FindingsProofs`, `RiskPipelineProofs`, `ScoringProofs`, `LLMClientProofs`, `BatchRunnerProofs`, `SemanticScanProofs`, `RemoteScanProofs`, `StaticScanProofs` | theorems (section 5) | |
| `MCFindings` ... `MCStaticScan` | instances for TLC, one per model | |

How they are connected. `Findings` instantiates `FindingStore` (`ImplementsStore`):
the key of a row is empty until its scan inserts it, the status is the
committed one, so that a whole scan maps to one `Publish` at its commit.
`MCScoring` instantiates `Weights` for the default tables and rules.
`StaticScan` extends `StaticAnalyzers`. `BatchRunner` has `LLMClient`'s `call` as one
step that answers or raises, as `SemanticScan` has it. `RiskPipeline` takes
a finding's contribution as a *level* and `Scoring` says what levels stand for:
when things happen and what they compute are separate questions. The three scan
modules end in a transaction whose effect on findings is that of
`upsert_findings` for scans that hold a common row lock by then (the `servers`
row in `RemoteScan`, the `static_summaries` row in `StaticScan`); the mixed run
of `Findings` covers this situation statement by statement, and its other runs
what happens without such a lock.

State and code. A variable stands for a column, a field or a program counter.
Where a row has uncommitted changes the model keeps its committed value next to
the transaction's (`status`, `dirty` and `owner` in `Findings`). `pc[t]` names the
statement a transaction executes next, and every place where the code awaits is
a value of `pc`. `PROJECT.json` ("map") has the source lines of each definition.

Abstractions worth knowing:

- `Findings`: a finding is its key `(server_id, detector, artifact_ref,
  evidence_key)`; severity, title and evidence are left out. Row `<<t, i>>` is
  the one scan t inserts for its i-th finding. A roll-back returns a row to
  "none". `Next` has all of `lifecycle.py`; `ApiNext` only what the HTTP API
  calls, which has no `reactivate`.
- `RiskPipeline`: the clock ticks with each writing transaction that starts, so
  stamps are distinct (`now()` has microseconds). The level of a server is the
  highest of its active findings. `server_risk_history`, append-only and never
  read here, and the popularity SELECT are left out.
- `Scoring`: exact integers, weights in tenths and confidences in hundredths;
  what floating point rounds is left out.
- `LLMClient`: a step runs from one await that may suspend to the next, as
  asyncio schedules. A response costs one unit; an attempt that fails bills
  nothing. A key is detector, model, prompt and payload together. `spent` is the
  budget's counter of today, which ends with the process (`budget.py:13-19`); `fresh` is a
  history of all that was admitted, with process and day, and nothing erases it. A
  detector may have no limit (`NoLimit`): the proofs cover it, the run's
  detector has one.
- `BatchRunner`: a step runs from one await that may suspend to the next. When
  `asyncio.run` ends it cancels what is left; `CancelledError` is not an
  `Exception`, so no callback is told.
- `SemanticScan`: a row of `tools` has a server, a name and, through `Alike`, rows
  of like descriptions; `search_by_name` finds the same name only (it allows an
  edit distance of 2). What the model answers for a tool is given, whether a
  call succeeds is not. Findings are what their `evidence_key` tells apart. asyncpg
  runs one statement of a connection at a time. A statement that fails aborts
  the transaction: its locks go, later statements fail, COMMIT rolls back.
- `RemoteScan`: an https endpoint that is not loopback, scanned without
  credentials; the lists of resources and prompts are left out. A certificate
  is one of four cases: verified or not, expiring or not. A tool listed without
  a name (`NoName`) counts for the detectors and gets no row (`Synced`).
- `StaticScan`: what each tool finds in the artifact is given (`HitsOf`), and so
  are the installed binaries; a tool is an external scanner, a phase of codeql
  or an analyzer that works in the process. The size and count limits are one
  failure. A killed process leaves its workdir behind. `Cancel` is Ctrl-C or a caller
  that cancels: the exception passes `except Exception` and only the finally
  clauses run. The scanner that was awaited is not killed then, as it is on a
  time-out (`common/subprocess_runner.py:35-45`); what it still writes to a directory
  that is gone is left out.

## 3. Runs

Every passing run checks deadlock too: a scan that waits for ever would be one.
Bounds are constants named in the `.cfg`.

| Run | Instance | Shows |
|---|---|---|
| `findings_race` | 2 scans, 2 keys, lists of up to 2 findings with repeats and opposite orders, all lifecycle changes | `OneActivePerKey`: no evidence is active, and so scored, twice. `EvidenceSurvives`: a key once written keeps a row that tells of it, whoever aborts. `VerdictsStand`: no scan overwrites a verdict given between its SELECT and its write. `ImplementsStore`: each scan looks atomic |
| `findings_mixed` | 2 scans that lock one summary row first, and 1 that does not and may take their keys in the opposite order | `SerializedScansComplete`: scans that share keys only with holders of the same lock never meet the unique index nor a deadlock. `ScansEnd`: every scan ends, deadlocks included. Three scans, so that one can wait for the lock whose holder is in a circle with the third |
| `pipeline_triage` | 2 ingestors, 1 command, 1 long writer, 1 server, failing ticks, a lost commit | `NoDuplicateAlert`, `Debounced`: check and INSERT are apart, yet the row lock on `servers` makes them safe. One server suffices: locks and alerts are per server |
| `pipeline_prompt` | 2 ingestors, 2 servers, 2 failing ticks | `SettledScoresCurrent`: when all have caught up, scores are those of the findings - with writers that commit before a later one starts. `EventuallyScored`: every change is scored in the end; the cursor never skips one, also when a tick fails half-way or two ingestors deadlock. Two servers for circular waiting |
| `pipeline_long` (violation) | 1 ingestor, 1 long writer | `SettledScoresCurrent` fails, see section 6 |
| `scoring` | 7 findings of 6 detectors, default tables and rules, unpopular or popular | `RouterWithinPriority`: the router's second decision is above the stored one only as P1 for a score from 30. `SmallServersAgree`: with at most five findings and a score from 1 to 30 it raises exactly the stored P0 and P1. `ScoreMonotone`, `PriorityMonotone`: more findings never help a server. Seven findings: two more than the digest holds, and every branch of `_priority` |
| `llm_client` | 2 calls of one key, 1 permit, limit 1, 3 attempts, 1 midnight, 1 restart, 1 lost audit row | `SlotsConserved`: free and held permits add up. `AnswersWithinLimit`: the answers one process admits in a day stay within the limit; after the restart the same day, or the next, a new count begins. `ServedWasAdmitted`: the cache serves only what was parsed and within budget. `AuditTrail`: one row per call, whatever the attempts. `EveryCallEnds` |
| `batch_runner` | 2 jobs, 1 permit, 1 flush that waits and 1 with a time-out, 2 calls or callbacks that raise | `FlushDrains`: what was queued when a flush began has been taken off when it returns. `TakenAnswered`: a job taken off is called back, whatever raises while it waits for its permit, unless the program ends. `WaitsEnd`: stop returns, flush too while the runner runs. Two jobs so that one holds the permit the other waits for |
| `semantic_scan` | 2 runs on a server of 2 tools, a twin of one tool on another server, code analyzed for one of the runs, 1 failure of any kind | `PersistedWhole`: a run persists all its findings, and only if it returns. `AnswersReported`: a failing call costs its tool's verdict of one detector only. `CapabilitiesUncontended`: capabilities, stored in the order of answers, never block, as the embedding's row lock comes first. `RunsEnd`. One failure: an aborted transaction is already the worst a second one could do to a run, and the other run is not touched |
| `remote_scan` | 2 scans, a server that changes certificate, version and tool description once and then lists a tool without a name too, 2 failing calls, 1 failing statement or kill | `CitationsResolve`: findings and tools point at an observation that shows them. `NothingObservedLost`: each committed observation's named tools and its findings are there or replaced by later ones. `ScansEnd` |
| `static_scan` | 2 scans, 7 analyzers with 8 hits in 7 tools, 3 packagings, 3 sets of installed scanners, 2 failures of any kind, cancellation among them; scans are symmetric | `WorkdirsRemoved`: workdirs, and codeql's directory, go on every path and not before. `CrashesContained`: a tool or an analyzer that fails costs its own findings only. `SummaryMatchesFindings`: summary and findings are one scan's, though two statements apart |
| `static_rescan` (violation) | 2 scans of a directory, all scanners | `EvidenceActiveOnce` fails, see section 6 |

Why the bounds are enough: each hazard needs at most two actors of a kind, a
key or tool in common and one that differs, and one failure at any step; the
instances have that and, where a second failure reaches further (a tick that
fails twice, a probe that fails on two calls), two. Safety does not rest on the
bounds: every invariant and action property that a passing run checks is proved
for all values of the constants, `ImplementsStore` included (section 5 names the
hypotheses where a theorem has some). Only liveness does.

Each property of a passing run has a mutant in `PROJECT.json`: a plausible bug
of the code (the commit before the clean-up, a permit not returned, a cursor
moved too early, a check dropped) under which the run finds it violated.

## 4. Fairness

- `Findings!ApiSpec`: weak fairness of each scan's statements. PostgreSQL
  executes what it is sent, a waiting statement is woken when the lock goes, and
  its deadlock detector ends a circle of waits. Scans are not obliged to start
  and analysts not to act.
- `RiskPipeline!FairSpec`: weak fairness of each ingestor's steps: `run_forever`
  loops over `tick`, sleeps and swallows exceptions. Writers, failures, analysts
  and the command get none. For two ingestors that is not enough: both may
  become dirty for the same two servers, take their locks in opposite orders
  and be each other's victim for ever. So the `UPDATE` of the last server of a
  tick is strongly fair (`LastUpdate`): a victim sleeps `poll_interval_s` before
  its next tick, and the lock it frees goes to the one that waits for it, which
  then gets through its list. This is the one assumption that rests on timing;
  nothing in the code enforces it.
- `LLMClient!FairSpec`: weak fairness of a call's steps (the event loop runs
  ready tasks; the SDK's time-out bounds a request) and strong fairness of
  `Acquire`: asyncio's semaphore queues waiters first come, first served, while
  the action is enabled only when a permit is free.
- `BatchRunner!FairSpec`: weak fairness of the runner, of each dispatched job, of
  `stop` and of `flush`'s polling: the event loop runs what is ready, and
  calls and callbacks end. Strong fairness of `Get`: a get that finds a job takes
  it at once, its time-out of a second comes only when there was none. Callers
  need not call, and the program need not end.
- `SemanticScan`, `RemoteScan`: weak fairness of each scan's steps: calls have
  time-outs, waiting statements are woken or cancelled by deadlock detection.
  Failures and changes of the server are never obliged to happen.
- `Scoring`, `StaticScan`: none; their properties are safety.

## 5. Proofs

All theorems hold for every value of the constants; bounds such as
`MaxRestarts` are any natural number. Assumptions on constants are named
(`RowAssumption`, `NamesAssumption`, ...) in the module that declares them and
say that sets are finite where cardinalities are taken, that special values
differ from members of sets, and the types of functions.

**`FindingsProofs`** (any scans, keys, batches). `TypeCorrect`, `Invariant`,
`NeverScoredTwice`, `EvidenceNeverLost`, `VerdictsNotOverwritten`,
`ScansAreAtomic`. "At most one active row per key" is not inductive: a
committed superseded row may become active again by a roll-back. `IInv` adds
that owners of rows run (`OwnersRun`), that a scan's rows exist in the order of
its list (`RowsInOrder`), that what the UPDATE has selected belongs to the
statement at hand (`StatementsOnList`), that among the rows that are or may
become active - committed or in some transaction's view - a key has at most one
outside the transaction that replaces it (`OneCandidatePerKey`), and that a row
superseded but not committed has its replacement in the same transaction or
about to be inserted (`SupersededReplaced`). One lemma per action preserves it.
`ScansAreAtomic` follows: commit is a `Publish` of the scan's rows, a verdict
is one row's change, everything else stutters. `GuardedScansComplete`: a scan
that shares keys only with holders of its guard, the summary's row lock, neither
meets the unique index nor is in a circle of waits. `SerialInv` says that such
scans run one at a time (`GuardsExclude`) and that the UPDATE of one has
selected every active row of the key it is at and leaves its INSERT none
(`WayCleared`). Owning a row of a key needs the key, and nobody else has it; a scan
that waits for the guard owns nothing yet. The theorem is about `ApiSpec`:
`reactivate`, which the HTTP API does not call, may make a row active between
that UPDATE and the INSERT, and then `SerialInv` does not hold.

**`RiskPipelineProofs`** (any servers, ingestors, commands, writers).
`AlertInvariant`, `OneOpenAlert`, `ResolvedNotRaised`. `AlertInv` says: control
and lock agree (`ControlOK`, `LocksHeld`: from the UPDATE on, a process holds
the row lock of the server it routes), and while it is between its checks and its INSERT
no alert of that server that would clash is open or, past the second
check, recently resolved (`AlertsClear`) - nobody else can insert one without
the lock, and an analyst can only close those that are open.
`TypeCorrect` has the same case analysis. `ScoresSettle` is
`SettledScoresCurrent` for any servers, rows and ingestors, under three
hypotheses: no command, no long writer, no commit that is lost. They are those of
the run `pipeline_prompt`, and each is needed: `pipeline_long`,
`MCPipelineCli.cfg` and `MCPipelineLostCommit.cfg` refute the property where one
of them fails. `SettleInv` relates what each ingestor has yet to do to the scores:
cursors and stamps are of the past (`SeenPast`), the cursor moves when a tick's
servers are done (`CursorLast`), a level that is out of date when it is written
was changed after the tick's poll (`StaleLater`), a tick passes over no change that
it does not write (`SeenTaken`), and a score that is out of date is still to be
seen by some ingestor, or about to be committed by it (`Pursued`). A tick
that fails or is the deadlock's victim keeps its cursor, and with it `Pursued`.

**`ScoringProofs`** (any findings, weights, rules). `ScoringInvariant`: stored
priority and routing come from one set of findings, the routing through one of
its digests. `TriageNotMoreUrgent`: a digest is a subset, and priority grows with
the set. `TriageAgrees`: up to five findings the digest is the whole set.
`PriorityNeverDrops` is an action property from the same invariant. None of
these depends on what `Score` computes.

`TypeCorrect` (a score is between 0 and 100) and `ScoreNeverDrops` do, under
`NonNegative`: weights, boosts, confidences and popularity are not negative.
TLC checks it of the default tables and rules (`DefaultsNonNegative` in
`MCScoring`), and `popularity.py` clamps. The code does not check it of
everything: the YAML file may hold a negative weight, and
`semantic_analysis/detectors/tpa_llm.py:71` takes the model's confidence as it is,
where `response_validator.py:38` clamps; a score may then drop when a finding is
added. `Score` sums over sets by a fold. Induction over finite sets, as the
library states it, is out of the prover's reach, so each fact about sums is proved
from a smallest counterexample (`SmallestSet`): a set for which the sum is not
what it should be, and no strict subset of which is such. `SumsUnique` and
`SumsExist` say that the fold is the one function with the sum's equations,
`TotalSteps` that each element adds its own part, `TotalGrows` that a larger set
has a larger sum, `ScoreGrows` what follows for scores.

**`LLMClientProofs`** (any calls, keys, detectors, limits, permits).
`ClientInvariant`, `TypeCorrect`, `PermitsConserved`, `BudgetKept`, `CacheSound`,
`AuditComplete`. `IInv` adds to the checked invariants that attempts are left
while a call is still to try (`TriesLeft`), that the units the running process has spent today are
exactly the answers the history has of it and of today (`SpentIsFresh`, `FreshAnswered`),
that every cache
entry was admitted (`CacheAdmitted`) and that each control point has the number
of audit rows it should (`RowsOnce`). `BudgetKept` is about each process and each
day that ever was: the history has nothing of a process or a day to come
(`NothingAhead`), so that a new count begins at nothing, and one that is over stays
what it was. For a day as a whole it does not hold (`MCLLMRestart.cfg`).

**`BatchRunnerProofs`** (any jobs, flushes, permits). `RunnerInvariant`,
`TypeCorrect`, `FlushesDrain`. The permits left are `MaxInflight` less the jobs in
the client; a job waits in one place, on the queue once or held by `_run`
(`QueuedOnce`), is told what came of it only after its call
(`ToldAfterCall`), and a flush covers jobs that were submitted before it
(`CoveredSubmitted`). When the queue is found empty, what a flush covers has left it,
and no step puts it back.

**`SemanticScanProofs`** (any runs, servers, tools, answers, failures).
`TypeCorrect`, `RunInvariant`, `UncontendedCapabilities`, `FindingsWhole`,
`AnswersKept`. A run whose transaction is open keeps the rows of the tools it has
embedded (`EmbeddedFirst`) and stores capabilities of its own tools only
(`StoredOwn`): whoever holds a row of capabilities holds the tool's row, or the
encoder failed before it and the tool is still among those to embed.
`SavedWhole` has all of a run's rows of findings or none.

**`RemoteScanProofs`** (any scans, endpoint states, failures). `ScanInvariant`,
`TypeCorrect`, `OneTransaction`, `CitationsHold`, `ObservedKept`. From
`ensure_server` to the commit a scan holds the server's row (`LockHeld`), so
that one scan at a time is there and what it reads stays; what it has written is
what its probe calls for (`WritesDue`), and a scan that has committed is over
(`CommittedOver`), so that later ones alone can replace what it left.

**`StaticScanProofs`** (any scans, packagings, installed scanners, failures, hits;
the analyzers and their tools are the code's).
`TypeCorrect`, `ScanInvariant`, `WorkdirsGone`, `FailuresContained`,
`SummaryAgrees`. `IInv` says what the workdir holds at each step (`WorkdirHolds`),
that codeql alone has a directory, while it runs or when it was killed
(`ScratchOfPhased`), that the running analyzer holds what its tools have found
(`HitsKept`) and the result what those before it did (`ResultKept`), and that
it is complete and written whole before it is committed (`ResultWritten`). An
analyzer that raises loses its hits and nobody else's: the exception is caught
around each analyzer.

The inductive invariants (`IInv`, `AlertInv`, `SettleInv`, `SerialInv`) are not
in the runs' configurations: they follow from the proofs, and a run checks what
they imply.

Only model-checked: liveness (`ScansEnd` of two modules, `EventuallyScored`,
`EveryCallEnds`, `TakenAnswered`, `WaitsEnd`, `RunsEnd`), which the prover does not
reach: it depends on fairness, and so on ENABLED.

## 6. Where code and documents part

Two runs show a contradiction of a document:

- `pipeline_long`: a transaction that starts, waits and commits after a younger
  one was polled carries an `updated_at` behind the cursor
  (`risk_scoring/ingestor.py:77`, rows with `updated_at > last_seen`) and is never
  seen. docs/L6:295: "任一 finding 写入 / lifecycle 变更".
- `static_rescan`: the evidence keys of semgrep, trufflehog and gitleaks contain
  the path below the random workdir
  (`static_analysis/analyzers/semgrep_analyzer.py:124`), so a rescan supersedes
  nothing. `docs/数据库表结构说明.md:73-74`: "保证同一证据点不重复 active".

Further counterexamples, each a configuration of its own that TLC refutes; they
are kept out of the list of runs because the code's behaviour may be intended
or needs rare conditions:

| Configuration | Property | What happens | Document |
|---|---|---|---|
| `MCPipelineLostCommit.cfg` | `SettledScoresCurrent` | the cursor moves inside the block whose commit then fails (`ingestor.py:66`): the changes are not polled again | docs/L6:305 |
| `MCPipelineCli.cfg` | `SettledScoresCurrent` | the aggregate command selects findings, waits for the row lock and overwrites a newer score (`aggregator.py:101`) | docs/L6:295 |
| `MCFindingsFp.cfg` | `FalsePositivesStayOut` | the next scan inserts what was judged a false positive as active again (`common/persistence.py:98`) | docs/L6:203, 206 |
| `MCScoringDigest.cfg` | `AlertsReachTriage` | a server stored as P0 or P1 whose digest is filled by five others is not raised (`triage_router.py:90-105`) | README.md:155, 235 |
| `MCSemanticShadow.cfg` | `ShadowFailureSkipped` | a failing embedding statement is swallowed, but the transaction is aborted and the run raises (`shadowing.py:30`, `orchestrator.py:85`) | docs/L3:370; the design of 2026-04-30, lines 254-256 |
| `MCSemanticEncoder.cfg` | `CapabilitiesNeverContended` | the embedding model fails half-way (`shadowing.py:27`, outside the try): the run goes on with tools whose rows it has not locked, and their capabilities are upserted without that protection | docs/L3:370 |
| `MCSemanticNames.cfg` | `FlowsReported` | `tools` has a row per observation, capabilities are collected by name (`toxic_flow.py:62`): a later row without the capability hides a flow | none: `remote_analysis/persistence.py:74` adds the rows |
| `MCSemanticClones.cfg` | `ClonesReported` | two servers with one tool are scanned at the same time: each searches among committed embeddings (`shadowing_index.py:39`), neither reports the clone | docs/L3:162-175 |
| `MCStaticOsv.cfg` | `VulnerabilitiesReported` | `_osv` refers to `context`, which is not defined there (`sca_analyzer.py:89`): with a vulnerability to report the analyzer raises, and what npm audit or pip-audit would have found is lost too | docs/L2:268 |
| `MCBatchFlush.cfg` | `FlushSynchronous` | `flush` returns when the queue is empty, with jobs still held by the runner or in flight | `batch_runner.py:3` |
| `MCLLMRestart.cfg` | `DailyLimitKept` | the budget is counted in the process (`budget.py:13-19`): a second command on the same day counts from nothing and admits answers up to the limit again | docs/L3:160; `budget.py:14` says it is in-process |
| `MCLLMSpend.cfg` | `SpendCapped` | the limit is asked after the response (`client.py:201`): requests go on, only their answers are refused | docs/L3:160 |

Seen while modelling, in the models as the code has it and without a property:
`ProbeResult.ok` is True when tools/list failed (`remote_analysis/models.py:36`,
`transport/streamable_http.py:188`); a null result raises out of `scan`, whose
docstring says otherwise (`remote_analysis/orchestrator.py:31-33`); `sync_tools`
speaks of ON CONFLICT where no unique constraint exists, so every scan adds
rows (`remote_analysis/persistence.py:74`); a connection error on the verifying
pass is reported as a self-signed certificate (`streamable_http.py:202`); an
artifact that is one source file is deleted before the analyzers run
(`target_loader.py:78`; the comment at 148 counts on it); `superseded_by` is
never set; `search_by_name` promises a fall-back to an exact match
(`shadowing_index.py:70`), but a missing `levenshtein` fails the statement and
aborts the transaction; the reputation analyzer never has a dependency to look
up, as only `_osv` would add one. The keys of osv-scanner, npm audit and
pip-audit have a prefix each, so one advisory that two of them report is two
findings (`sca_analyzer.py:83, 124, 165`; docs/L2:270 wants one per package,
version and advisory).

## 7. Not modelled

- What the scanners and the in-process analyzers look for, the extractors'
  parsing, rule-based detectors, the vectors of the embedding model, prompt
  building: pure functions or external programs; their outcomes, failures and
  keys are inputs. `reputation`'s registry look-ups: never reached.
- `server_risk_history` in `RiskPipeline`: appended under the lock of the servers
  row, read by the read API only. Its rows are ordered by `scored_at`, the start
  of the transaction, so that the newest one need not be the last that was
  written; and the popularity, which is read before that lock is taken.
- The read API, the HTML prototype, settings, logging, seeds: no state of
  interest. The API's three status changes are in `Findings`.
- Example MCP servers: test data.

## 8. Plan

Order of work so far: findings store, risk pipeline, scoring, LLM client,
semantic scan, remote scan, static scan, proofs for the first four; the
batch runner, the static scan at the grain of tools, names, clones and a second
verdict in the semantic scan, and liveness of two ingestors; then proofs of all
safety properties that remained.

Left to model: verdicts of the API as the triggers of a score, beside the
ingestors. Left to prove: an abstract alert queue ("at most one open alert of a
server and tier, none within the days after one was resolved") that
`RiskPipeline` implements, and an abstract scan ("a transaction's effect at
once, at its commit") that the three scan modules implement, as `Findings` does
`FindingStore`; and `ScoresSettle` with commands, for servers no command aggregates.
