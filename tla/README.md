# Bonito in TLA+

Bonito watches PostgreSQL servers: a *collector* takes snapshots of their
statistics, a *store* keeps them in SQLite with baselines and an anomaly
engine, an *API* and an *MCP server* answer questions about them. This
directory holds TLA+ models of the parts where order, concurrency or failure
decide whether the answers are right, TLC configurations that check them on
small instances, and TLAPS proofs for every instance. Source paths below are
relative to the repository; `store.py` is
`bonito-store/src/bonito_store/store.py`.

## 1. The system

| Component | State it keeps | Operations | What makes it correct |
|---|---|---|---|
| **Store: ingest and retention** (`store.py`, `schema.py`, `api.py`, `cli.py`) | the SQLite file (seven tables), `_last_prune` in each process | `POST /events`, `POST /plans`, the API's `POST /ingest`; the throttled prune that follows each ingest; `bonito-store prune` | snapshots are all or nothing; what was answered is stored; each fingerprint has one identity, announced once, for ever; no row goes before its time; nobody waits for ever |
| **Store: baselines, anomalies, `/metrics`** (`store.py`, `api.py`) | Prometheus gauges in the process | `baselines`, `anomaly`, `anomalies`, `GET /metrics` | a regression is reported, and only a regression; the arithmetic means what its names say |
| **Collector** (`src/bonito_collector/`) | Prometheus gauges and the error counter in the process | `run_instance` for each instance, sleep, again | gauges show the last complete snapshot; no instance is forgotten; an outage is counted and survived |
| **Spans** (`traces.py`) | a tracer | `emit_query_span`, `emit_lock_span` | a missing tracer breaks nothing |
| **Normalization** (`normalize.py`) | none | `fingerprint_of` | equal queries have equal keys |
| **API reads** (`bonito-api`) | none (opens the file read-only) | `/queries/top`, `/locks/active`, `/waits`, `/plans`, `/health`, `/baseline` | answers are those of one committed state |
| **MCP server** (`bonito-mcp`) | an HTTP client | eight tools; `build_blocking_tree` | the tree has every blocking pair of its input once |
| **Deployment** (`deploy`, `examples`) | – | – | configuration of other programs |

**How they interact.** The collector's single thread calls PostgreSQL (one
read-only connection per query, 5 s `statement_timeout`), sets its gauges and
posts the snapshot to the store with a 5 s timeout, ignoring the result. The
store's and the API's request handlers are plain `def`s, which FastAPI runs on
a pool of threads; all of them, in both processes and in the prune command,
share one SQLite file and meet only at its write lock. Prometheus reads the
gauges of the collector and of the store at any time.

**What is hard.** (a) Python's `sqlite3` opens a transaction only before the
first INSERT, UPDATE or DELETE, so the SELECT of `_upsert_query` that looks for
a fingerprint may run before the write lock is held. (b) A snapshot is many
statements and any can fail; a process can die between two. (c) The prune
throttle is unsynchronized state of each process; the cutoff is computed before
the lock is waited for. (d) `anomaly()` reads a baseline and an average by two
connections. (e) The gauges are only ever set, never removed. (f) One failing
instance ends the collector's round. (g) A push that timed out may still be
stored, after later ones. (h) Lock events of all instances are answered
together, by a window of dates that others have set. The full list, each hazard at its line
with the properties that watch it, is under `hazards` in `PROJECT.json`.

## 2. The modules

| Module | Models |
|---|---|
| `BonitoLedger` | what the store promises to its readers: no threads, no locks, no failures |
| `BonitoStore` | ingest, its transaction, retention, crashes; implements `BonitoLedger` |
| `BonitoPipeline` | the collector's pushes composed with the whole of `BonitoStore` |
| `BonitoReads` | from a blocked session to the blocking tree an agent sees |
| `BonitoAnomaly` | baselines, verdicts, the `/metrics` scrape, the regression of `/baseline` |
| `BonitoCollector` | the collector's scrape loop, its gauges and spans |
| `BonitoStore_proofs`, `BonitoTransaction_proofs`, `BonitoLedger_proofs`, `BonitoPipeline_proofs`, `BonitoReads_proofs`, `BonitoAnomaly_proofs`, `BonitoCollector_proofs` | TLAPS proofs about them (section 4) |
| `NaturalLemmas` | the least-number principle and what follows from it, for those proofs |
| `MCBonitoStore`, `MCBonitoPipeline`, `MCBonitoReads`, `MCBonitoAnomaly`, `MCBonitoCollector` | small instances for TLC |

### BonitoLedger and the refinement

The ledger has the time, what is known of each query, the rows kept once per key
and date, and the event rows. `TakeOver(s, ts)` is a whole snapshot in one step:
of two rows with one key the last counts, and a query that is known keeps the date
it was first seen. `Drop(cutoff)` is a whole prune in one step, never of a row
younger than the retention. `Pass` is time.

`BonitoStore!Ledger` is the refinement mapping: the ledger's tables are the
*committed* tables, with the rowids of the event rows forgotten, and the snapshots'
rows are `Batch` with each row's key computed. So `Commit` must be exactly one
`TakeOver` of the request's snapshot, though its rows were written one by one after
SELECTs that ran before the transaction; `PruneCommit` exactly one `Drop`; every
other step, with every rollback, busy timeout, crash and restart, a stutter.
`ImplementsLedger` needs a retention of the API that is at least the configured
one: `store_api_retention` shows what happens otherwise.

### BonitoStore

`db` is the committed file, `tx` what the connection with the write lock sees,
`writer` who has it. A worker is a request thread of a server, or the prune
command's only thread; `ServerOf` says which process it lives in, and so which
throttle (`last_prune`) and which retention it uses (`RetentionOf`: the API
builds its `BonitoStore` with the default). `job[w]` is its program counter and
its locals.

A snapshot is flattened by `Batch`, in the order of `ingest`'s five loops, each
list cut at `BATCH_LIMIT`. One row is one or two steps: `Select` (for a query,
outside of any transaction unless an earlier row opened one) and `Write`, which
takes the lock if the thread does not have it and performs all statements of
the row. Merging the statements of a row is exact: from the first of them on,
the thread holds the lock and nobody sees the others before the commit.
`Conflict` is the primary key's IntegrityError; `StatementFails` any other
exception of a statement or of the commit; `BusyTimeout` sqlite3's 5 s timeout;
each rolls back and answers 500. `Commit` ends the `with` block; then
`MaybePrune` reads the throttle and computes the cutoff, `PruneDelete` performs
the five DELETEs and the audit entry, `PruneCommit` commits, `Stamp` sets
`_last_prune`. `Restart` kills a process at any point: SQLite drops its
transaction, its throttle restarts at 0.

*Data kept:* of a row its type, its key or the text the key is computed from,
and `mean_ms`, which ingest writes to two tables. Timestamps are ticks; the
ISO strings are compared as text, in UTC with equal formats, so as instants.
`change_history` is a count per fingerprint and the list of prunes.

### BonitoPipeline

`pushed` is what the loop knows of each snapshot: not yet collected, being pushed,
`push_events` returned True, or False. `wire` holds the requests that no thread has
taken up. `Push` posts a snapshot, one at a time; `GiveUp` is any exception of
`httpx.post`, the 5 s timeout among them, after which the request may be lost, may
still wait, or may be running in a thread; `Accept` and `Reply` are `Receive` and
`Respond` of `BonitoStore` seen from the wire; `Crash` restarts the server and loses
what waited for it. All other actions are `BonitoStore`'s own.

### BonitoReads

`CollectLocks` reads the blocking pairs of one instance: any set, since sessions
block and release each other between two snapshots. `Push` dates the snapshot later,
when the sessions and tables are collected too, and puts it on the wire, from where
`Ingest` takes it at any time, in any order, or never. A row of `lock_events` is its
date and the pair; the instance it came from, and when it was read, are history that
the table does not record. `Webhook` is a payload of another client without a
`collected_at`: `DateOf` dates it as it arrives, and nobody knows when its locks were read. `Ask` is the tool's request: the handler computes the
start of the window. `Tell` is its one SELECT, newest first, with rows of one date in
any order and the LIMIT, and `Done` the end of the call. The tree is
`build_blocking_tree`, row after row, as a recursive function. Pids are numbers that two servers
share; a row that came by the webhook may have none. `blocked_pids` is NULL or a list
of one pid, as `_insert_lock` writes it; that `build_blocking_tree` would also take longer
lists, and skip one that is not JSON, is left out.

### BonitoAnomaly

`samples` are the `mean_ms` of a query in the baseline's window, `avg_ms` the
one in `query_texts`. `Ingest` and `AgeOut` change them. A scrape of `/metrics`
takes the steps of the code: `baselines(None)` lists the fingerprints
(`ScrapeStart`), `anomaly` reads a baseline (`ReadBaseline`, or `NoBaseline` if
it is gone) and then, by another connection, the average (`ReadCurrent`);
`SetGauge` sets one gauge a turn. Durations are whole numbers of a unit of which
`Hundredth` make 0.01 ms: the collector rounds to 0.01 ms, but `POST /events` and the
API's `POST /ingest` take what a client sends, and the tables keep it. `baselines` rounds
the mean and the p95 to hundredths (`Means`, `P95s`); the current average they are
compared with is not rounded. The arithmetic is exact, with divisions multiplied out;
where `round` meets a tie, both neighbours are possible (`Rounded`), since the quotient
is a binary float.

### BonitoCollector

`pc` walks through `run_instance`: extension, queries, locks, sessions, tables,
the gauges one at a time, the spans, the push. `up` says which servers answer,
changed at any moment by `Change`; what a query returns is chosen when it is asked.
Four gauges stand for the ways in which `export_prometheus` sets one: always
(`active`, `idle`), for labels that occur (`by_state`, as the wait events), and
unless the value is NULL (`hit`, as the other gauges of queries and tables). `QueryFails` is an exception at any query; `Failed` the
handler in `main`, which counts it and goes to sleep, so that the rest of the
round is skipped. `last` is a history variable: the last snapshot that was
exported completely. `errors` counts modulo 2: the property
needs only that it changes.

## 3. The runs

Twelve runs, all with two workers of TLC on a laptop: the five passing ones take
about a minute each or less, the others seconds.

| Run | Instance | Shows |
|---|---|---|
| `store_ingest` | one thread of the store, one of the API, same retention, and the prune command; two payloads: a query and a lock with an early date; undated, the same query listed twice, a query without a fingerprint and one row over the limit. 530 000 states, with the two servers symmetric | type invariant; every sample has an identity; one audit entry per fingerprint; `Isolation`; a snapshot is stored whole or not at all; what was answered is stored; the average that anomalies use is that of a sample; identities are kept for ever; no row goes before its time; the store implements the ledger |
| `pipeline` | two threads of the store, which also prune; three snapshots: one of a query with a lock, one of the same query with a table a tick later, one of a session dated as the second | type invariant; no event is stored more often than its snapshot has it; what `push_events` calls taken over is in the file; every request ends, or dies with its process, and gives the write lock back |
| `reads` | two instances with overlapping pids, three pairs, two snapshots or undated payloads, a window of one tick, a limit of 3 rows. 530 000 states | type invariant, nothing dated after the present; the tree is the relation that the rows report; the limit cuts off the oldest rows only; no lock of a dated snapshot was read earlier than `Lag` before the window began (one released within the window is still shown) |
| `anomaly` | two concurrent scrapes of one query, 4 ingests, a window of up to 3 samples out of 0, 0.006, 59.01 and 120 ms | type invariant; the 95th percentile is one; a gross regression is always flagged; so is a query more than twice as slow as ever and 2 ms more, even when its mean is rounded to 0 and the z-score alone can tell; the regression the API computes never contradicts the store's verdict; a lasting regression is exported and stays so |
| `collector` | two instances, sessions in two states, a ratio that may be NULL | type invariant; gauges and spans are the last complete snapshot's, while the next is exported each gauge is of one of the two; all are collected while all answer; a lasting outage goes on being counted |

Seven runs show where the code does not do what its documents say. Each checks
one property, which TLC finds violated:

| Run | What the trace shows |
|---|---|
| `reads_other_instance` | The agent asks for `app2` and gets a tree with the pids of `app`: the row does not record its instance and the query does not ask for it. |
| `store_first_seen_race` | Two threads find the same fingerprint missing. The second INSERT fails, its whole snapshot is rolled back, the request answers 500, and the collector never sends it again. |
| `store_api_retention` | Retention is configured above the default. An ingest by the API's webhook prunes with the default: rows go too early. |
| `anomaly_faster_flagged` | Samples 59.01, 120 and 0: p95 lies below the mean, the spread is negative, and a query that is *faster* than its baseline is a "regression". |
| `anomaly_stale_gauge` | A flagged query is not seen any more, its samples leave the window, its gauge stays 1: the alert never resolves. |
| `collector_starvation` | The first instance is down for good: the second, which answers, is never collected. |
| `collector_stale_state` | The last session in a state ends: its gauge keeps the last count, and the states add up to more than the active sessions. |

Other differences met while modelling, not checked by a run:
snapshots that a client delivers twice leave their lock events, sessions and plans
twice, while `docs/store.md` (lines 74-75) calls redelivery idempotent, which is true of
samples only (the collector sends no snapshot twice, so nothing in `pipeline` is delivered
twice: `StoredOnce` is about pushes that time out and are served later);
`get_slow_queries` promises the slowest queries "in a period", which `/queries/top`
does not look at; `/health` counts a session once for every snapshot in the window;
two threads of a process can both find a prune due, and an hour can see two;
a snapshot stored late puts `query_texts` back to its older average, although
the schema table says "latest"; a verdict of `anomaly` may combine a baseline
and an average of two moments; every type is collected at the shortest
interval, although `docs/configuration.md` says each has its own schedule;
`docs/api.md` lists `GET /anomalies`, which `bonito-api` does not have, and
`compare_to_baseline` promises a verdict that `/baseline` does not return.

**Bounds.** `MaxTime`, `MaxSends`, `MaxPrunes` stop the clock, the clients and
the prune command of `BonitoStore`; `MaxSamples` and `MaxIngests` those of
`BonitoAnomaly`; `MaxTime` and `MaxTaken` those of `BonitoReads`, whose `Lag` bounds
how long one snapshot takes; at most one session per state in `BonitoCollector`.
Behaviours of `BonitoStore`, `BonitoPipeline` and `BonitoReads` end at these bounds,
which is why they do not check deadlock; the others do (`anomaly_faster_flagged`,
without a scraper, excepted). The clock of `store_ingest` starts at
tick 2 with a payload of tick 1, an undated one and a retention of 1, so that rows reach the
cutoff exactly, pass it, and are stored after their time. Two threads suffice for
every race in the list: the hazards are all pairs (a read and a write, a check and a
set), and in `store_ingest` the prune command joins them as a third. In `pipeline` the
threads prune by themselves, as the command would: three snapshots for two threads
say more of requests that wait than a prune by a third process.
Two values of `mean_ms` and two client keys plus a digest distinguish replacing from
keeping. In `pipeline` a retention of 0 lets a prune take a snapshot whose push is
still under way. In `reads` four ticks and a window of one let a snapshot arrive two
windows late, and two snapshots of two rows each exceed the limit of 3. In
`anomaly` 2 samples already tell a percentile from a maximum, 0 and an outlier
give both signs of `p95 - mean`, and 0 with two samples of 0.006 ms a mean of 0.00 beside
a p95 of 0.01 ms.

**Fairness.** `BonitoPipeline`: weak fairness of each thread's own steps, the answer
among them (threads are scheduled; the busy timeout does run out); none for failures,
restarts, requests, the collector or the clock. `BonitoStore` by itself and
`BonitoReads` are checked for safety only. `BonitoAnomaly`: weak fairness of each scrape's steps and
of its start (Prometheus scrapes for ever); none for ingests. `BonitoCollector`:
weak fairness of the loop, whose every query returns, fails or times out in 5 s;
none for the servers.

**Mutants.** Every checked property comes with a mutated definition, in the
module just before the original, as a plausible mistake in that code: PRIMARY
KEY without the timestamp, INSERT OR IGNORE, DELETE with `<=`, autocommit,
`read_uncommitted`, a connection left open in its transaction, a push that is retried,
lock events dated on arrival, an ascending ORDER BY, a percentile from `len`, a verdict
that ends at a mean of 0. TLC finds the property violated with it.

## 4. The proofs

Every safety property that a passing run checks is a theorem, for any sets of
processes, threads, keys, texts, payloads, instances, locks, durations and
scrapers and any values of the bounds, from the modules' named ASSUMEs; three rest
on a further hypothesis, given with them below. The seven proof modules follow the components;
`BonitoTransaction_proofs` extends `BonitoStore_proofs`, and `BonitoLedger_proofs`
and `BonitoPipeline_proofs` extend it in turn.

| Theorem | States |
|---|---|
| `BonitoStore_proofs` | |
| `Inductive` | `Spec => []IInv` |
| `TypeCorrect` | `Spec => []TypeOK` |
| `Isolated` | `Spec => []Isolation` |
| `SamplesIdentified` | `Spec => []SampleHasIdentity` |
| `AuditedOnce` | `Spec => []OneAuditEntryPerFingerprint` |
| `TextsMatched` | `Spec => []TextsMatchSamples` |
| `IdentitiesKept` | `Spec => IdentityKept` |
| `BonitoTransaction_proofs` | |
| `Transactional` | `Spec => []TInv` |
| `RetentionIsHonoured` | `Spec => RetentionHonoured`, if `RetentionCovers` |
| `SnapshotsAtomic` | `Spec => []SnapshotAtomic` |
| `AcknowledgedStored` | `Spec => []AckedIsStored` |
| `BonitoLedger_proofs` | |
| `LedgerImplemented` | `Spec => ImplementsLedger`, if `RetentionCovers` |
| `BonitoPipeline_proofs` | |
| `PipelineIsStore` | `PSpec => Spec` |
| `PipelineTypes` | `PSpec => []PTypeOK` |
| `TrueStored` | `PSpec => []TrueIsStored` |
| `NothingTwice` | `PSpec => []StoredOnce`, if `Snapshot \subseteq Distinct` |
| `BonitoCollector_proofs` | |
| `CollectorTypes` | `Spec => []TypeOK` |
| `GaugesShown` | `Spec => []GaugesOfLastSnapshot` |
| `BonitoReads_proofs` | |
| `ReadsTypes` | `Spec => []TypeOK` |
| `ReleasedAreForgotten` | `Spec => []ReleasedForgotten` |
| `NewestAreShown` | `Spec => NewestShown` |
| `TreeShowsRelation` | `Spec => []TreeIsRelation` |
| `BonitoAnomaly_proofs` | |
| `EngineTypes` | `Spec => []TypeOK` |
| `Percentile` | `Spec => []P95IsPercentile` |
| `GrossRegression` | `Spec => []GrossRegressionFlagged` |
| `Slowdown` | `Spec => []SlowdownNoticed` |
| `BaselineAndVerdict` | `Spec => []BaselineAgrees` |

**Isolation.** `SampleHasIdentity` and `OneAuditEntryPerFingerprint` speak of
the committed tables, and a commit replaces those by `tx`; so `tx` must satisfy
them too. A write into `tx` keeps them only if the thread's `known`, set by an
earlier SELECT, is still right when it writes: a known fingerprint must still be
there (an UPDATE of nothing would leave the sample without identity), an unknown
one must be caught by the primary key (`Duplicate`) if another thread committed
it meanwhile. The first holds because no committed fingerprint ever disappears,
neither from `db` nor in a transaction on it (`KeepsTexts`), and because what a
thread reads as it takes the lock is `db`. `Isolation` collects exactly that:
`LockDiscipline` (without a writer, nothing is uncommitted; only the writer
commits a prune), `TablesSound`, `ThreadsInStep`. `IInv` is `TypeOK` and
`Isolation`, which TLC checks in `store_ingest`. `TextsMatched` rests on it and
on `Matched`, the property itself of both `db` and `tx`: between the UPDATE of a
text and the INSERT of its sample it does not hold, so the lemmas treat the two
statements together, and a prune that takes the sample leaves its cutoff in the
audit log.

**Transactions.** What a commit does to the file was decided many steps before it.
`TInv` therefore describes the uncommitted tables exactly: while the thread with
the lock is at row *n* of its batch, `tx` is `db` with the first *n - 1* rows
written (`BatchWritten`: the last row of each key stands, the first date of each
text is kept, an event for each event row with a fresh id); before the commit of
a prune it is `db` without what is older than the cutoff (`PruneWritten`). Since
only the thread with the lock commits, `db` does not change under it. That every
row of a list has a latest one with its key would need an induction over the
list; instead `BatchWritten` carries it (`Covered`), and the threads, which write row
after row, establish it. `CommittedStep` is what follows and all the rest is built
on: a step leaves the committed tables alone, or commits a whole batch, or retires
what a cutoff allows.

From it, `SnapshotsAtomic` (the rows of a batch come together; no other batch, no
prune separates rows of one date), `AcknowledgedStored` (a row that was
acknowledged goes only by a prune whose cutoff is in the audit log), and
`RetentionIsHonoured`. *Hypothesis `RetentionCovers`:* no process is given a
retention shorter than the configured one. The code does not ensure it: the API's
store has the default retention, and `store_api_retention` is the counterexample. The instance of
`store_ingest` satisfies it, as does every deployment that configures the default or less.

**Refinement.** Under the mapping `BonitoStore!Ledger`, `LedgerImplemented` shows
`Init => Ledger!Init` and each step of `CommittedStep`'s three kinds to be `TakeOver`,
`Drop`, or `Pass` or a stutter. `TakeOver` is stated with the snapshot's rows at
once, so that `BatchWritten` at the last row has to be the same tables: the lemmas
compare texts, keyed rows and events one by one.

**Pipeline.** `PipelineIsStore` makes every theorem about the store one about the
pipeline. `NothingTwice` follows a snapshot: it is with the collector, then on the
wire, then with one thread, and never comes back (`OnItsWay`); nothing of it is
stored before that thread commits, which it does once. *Hypothesis
`Snapshot \subseteq Distinct`:* no two snapshots have a date and a row in common;
`collected_at` is taken to the microsecond (`_now`, `cli.py`) and one snapshot is
complete before the next is begun. It holds in the instance of `pipeline`.

**Collector.** `Exported` says of each gauge whether it already shows the snapshot
that is being exported: those that come first in `export_prometheus` do, the others
show `last`. An exception at any point leaves the gauges where they are, and the
next round collects before it exports.

**Reads.** `TypeOK` is proved in two parts: `Kinds`, what the variables are, and `Dates`,
that on the way from the instance to the agent nothing is dated after the present or
read after its date. `Fresh` follows the age of a lock from the instance through the wire and
the table to the answer. `LeftOut`: a row that an answer does not have is older
than all of its LIMIT rows, which together with it are more than LIMIT rows of the
table. `TreeOf` describes the tree after the first *n* rows; the rows come newest
first, so the first row of a blocker, whose lock_mode its node keeps, is a newest.

**Arithmetic.** `Total` and `BuildBlockingTree` are recursive functions. What they
are for a list of any length is proved without an induction theorem: of the
numbers at which a claim fails there is a least one (`LeastNumber`, from the
well-foundedness of the naturals), and `UpTo` packs that into a step from *k* to
*k + 1* over a set. So a sum lies between as many times its bounds (`TotalBounds`),
and an element at a position of the sorted list always exists (`SortedAtIs`), the largest
sample that at most 95% are below at the position `baselines` takes (`P95IsLargest`).
A rounded mean or p95 need not lie between the samples, if these are finer than a
hundredth, but is at most half a hundredth above one of them (`BaselineOf`); both verdict
theorems rest on that alone. `Slowdown` goes by the sign of `p95 - mean`: above 0 the z-score
decides, at 0 the spread of 1.0 ms, below 0 the mean is not 0 and the percentage decides. `TypeOK` of the engine is strengthened by
`Judging`: a thread that reads an average knows of which query.

*Assumptions on the constants* beyond the kinds of the values: `PRUNE_EVERY` is
less than the time since the epoch; sets of locks and of session states are
finite; a hundredth of a millisecond is a whole number of units; instances are listed once; every pushed snapshot is dated.

*Only model-checked:* liveness, which needs fairness and ENABLED and is beyond
this prover: `RequestAnswered`, `EveryInstanceCollected`, `OutageCounted`,
`RegressionReported`.

## 5. Not modelled

A scrape of `/metrics` that fails on a locked database (it reads, and a reader meets a lock
only for the moment of a commit); the content of texts, plans and messages; normalization itself (the digest is a
constant function); `collect_plan`, which nothing calls; `--once`; the parsing of the
environment; authentication; the clock skew between hosts; `/queries/top`, `/waits`,
`/plans` and `/health`, each one or two SELECTs over committed tables, and the MCP
tools that forward to them: they keep no state, and what could be said of them
restates their SQL; the remediation texts; dashboards, alert rules and the demo.

## 6. What is left

The operations that decide whether answers are right are modelled, and the safety
of each is proved. Open are the hazards listed without a property (each says why),
and the safety facts under the liveness properties: that a thread with the write lock
always has a step to take, and that a failed round counts one error.
