---------------------------- MODULE BonitoStore ----------------------------
(***************************************************************************)
(* bonito-store: snapshots of a monitored database are written to one      *)
(* SQLite file by the request threads of every process that holds a        *)
(* BonitoStore object on it (the store's own server, the API server, whose *)
(* POST /ingest is the same code, and the prune command).  The module      *)
(* models ingest, its transaction, the throttled retention prune that      *)
(* follows it, and the crash of a process, at the grain at which SQLite    *)
(* lets two connections interleave: a SELECT outside a transaction, the    *)
(* statement that takes the write lock, the commit.                        *)
(***************************************************************************)
EXTENDS Integers, Sequences

CONSTANTS
  StoreServer,            \* processes running `bonito-store serve`
  ApiServer,              \* processes running `bonito-api serve`
  CliProcess,             \* processes running `bonito-store prune`
  Worker,                 \* threads: the servers' request threads, the command's main thread
  ServerOf,               \* the process each worker belongs to
  BONITO_RETENTION_DAYS,  \* the configured retention, in ticks of the clock
  DEFAULT_RETENTION,      \* the retention_days default of BonitoStore.__init__
  PRUNE_EVERY,            \* least time between two automatic prunes of a process
  BATCH_LIMIT,            \* rows of each type that one ingest stores
  Id,                     \* queryids, blocking pairs, pids, table names
  Text,                   \* query texts
  Digest,                 \* the sha256 of each minified query text
  Mean,                   \* values of mean_ms
  Snapshot,               \* the payloads that clients send
  BootTime,               \* the clock when the behaviour starts
  MaxTime,                \* bound: last tick of the clock
  MaxSends,               \* bound: deliveries of one payload
  MaxPrunes,              \* bound: prunes, so that the prune command cannot run for ever
  NoId, NoTime, NoRow, NoWorker, NoRequest   \* the absent value of each kind

Process == StoreServer \cup ApiServer \cup CliProcess
Time    == 0 .. MaxTime
Key     == Id \cup {Digest[t] : t \in Text}

(***************************************************************************)
(* A payload has a list of rows per type.  A row is cut down to the value  *)
(* its table is keyed by, if the client sent it, the text the key is       *)
(* otherwise computed from, and the one measure that ingest writes twice.  *)
(***************************************************************************)
EventKind == {"locks", "sessions", "plans"}   \* tables with an AUTOINCREMENT id
KeyedKind == {"top_queries", "tables"}        \* tables with PRIMARY KEY (fingerprint, ts)
Kind      == EventKind \cup KeyedKind

RowOf(k) == [kind : {k}, id : Id \cup {NoId}, text : Text, mean_ms : Mean]
Row      == [kind : Kind, id : Id \cup {NoId}, text : Text, mean_ms : Mean]
Payload  == [collected_at : Time \cup {NoTime},
             top_queries  : Seq(RowOf("top_queries")), locks : Seq(RowOf("locks")),
             sessions     : Seq(RowOf("sessions")),    tables : Seq(RowOf("tables")),
             plans        : Seq(RowOf("plans"))]

ASSUME ProcessAssumption == /\ ServerOf \in [Worker -> Process]
                            /\ NoWorker \notin Worker
ASSUME TimeAssumption == /\ BONITO_RETENTION_DAYS \in Nat /\ DEFAULT_RETENTION \in Nat
                         /\ PRUNE_EVERY \in Nat /\ BATCH_LIMIT \in Nat
                         /\ MaxTime \in Nat /\ BootTime \in Time
                         /\ MaxSends \in Nat /\ MaxPrunes \in Nat
                         /\ BootTime > PRUNE_EVERY  \* the epoch is long ago
                         /\ NoTime \notin Time
ASSUME PayloadAssumption == /\ Snapshot \subseteq Payload
                            /\ NoRequest \notin Snapshot
                            /\ NoId \notin Id

VARIABLES
  clock,       \* wall-clock time
  db,          \* the committed content of the SQLite file
  tx,          \* what the connection that holds the write lock sees
  writer,      \* the worker whose connection holds the write lock
  last_prune,  \* BonitoStore._last_prune, per process
  job,         \* what each worker is doing
  sent         \* how often each payload was delivered

vars == <<clock, db, tx, writer, last_prune, job, sent>>

(***************************************************************************)
(* The tables.  query_texts is a function with NoRow for a fingerprint     *)
(* never seen.  change_history is split by change_type: `audit' counts the *)
(* fingerprint_new entries, `prunes' lists the retention_prune ones.       *)
(***************************************************************************)
TextRow  == [first_seen : Time, last_seen : Time, avg_ms : Mean]
KeyedRow == [kind : KeyedKind, key : Key, ts : Time, mean_ms : Mean]
EventRow == [kind : EventKind, key : Key, ts : Time, rowid : Nat]
Database == [texts   : [Key -> TextRow \cup {NoRow}],
             keyed   : SUBSET KeyedRow,
             events  : SUBSET EventRow,
             next_id : [EventKind -> Nat],
             audit   : [Key -> Nat],
             prunes  : Seq([at : Time, cutoff : Int])]

ASSUME RowAssumption == NoRow \notin TextRow

EmptyDatabase == [texts   |-> [k \in Key |-> NoRow],
                  keyed   |-> {},
                  events  |-> {},
                  next_id |-> [k \in EventKind |-> 0],
                  audit   |-> [k \in Key |-> 0],
                  prunes  |-> << >>]

\* The workers' program counters: positions in ingest and prune, and the four outcomes.
Answer   == {"ok", "conflict", "busy", "error"}
PC       == {"idle", "row", "write", "maybe_prune", "prune", "prune_commit", "stamp"} \cup Answer
Job      == [pc : PC, req : Snapshot \cup {NoRequest}, ts : Time, pos : Nat \ {0},
             known : BOOLEAN, cutoff : Int]
Idle     == [pc |-> "idle", req |-> NoRequest, ts |-> 0, pos |-> 1, known |-> FALSE, cutoff |-> 0]

\* One type invariant: every variable holds a value of the program's kind.
TypeOK ==
  /\ clock \in Time
  /\ db \in Database
  /\ tx \in Database
  /\ writer \in Worker \cup {NoWorker}
  /\ last_prune \in [Process -> Time]
  /\ job \in [Worker -> Job]
  /\ sent \in [Snapshot -> Nat]

-----------------------------------------------------------------------------
(* What the SQL statements do to the tables.                               *)

\* The collector's fingerprint takes precedence over the digest of the text.
KeyOf(r) == IF r.id = NoId THEN Digest[r.text] ELSE r.id

Capped(rows) == SubSeq(rows, 1, IF Len(rows) < BATCH_LIMIT THEN Len(rows) ELSE BATCH_LIMIT)

Batch(s) == Capped(s.top_queries) \o Capped(s.locks) \o Capped(s.sessions)
              \o Capped(s.tables) \o Capped(s.plans)

\* Mutants of NewText: the row keyed by the text's digest, whatever fingerprint was sent;
\* last_seen left for the first update to set.
NewText_ByDigest(d, r, ts) ==
  [d EXCEPT !.texts[Digest[r.text]] = [first_seen |-> ts, last_seen |-> ts, avg_ms |-> r.mean_ms],
            !.audit[Digest[r.text]] = @ + 1]
NewText_NoLastSeen(d, r, ts) ==
  [d EXCEPT !.texts[KeyOf(r)] = [first_seen |-> ts, last_seen |-> NoTime, avg_ms |-> r.mean_ms],
            !.audit[KeyOf(r)] = @ + 1]

\* INSERT INTO query_texts, and the fingerprint_new entry of the audit log.
NewText(d, r, ts) ==
  [d EXCEPT !.texts[KeyOf(r)] = [first_seen |-> ts, last_seen |-> ts, avg_ms |-> r.mean_ms],
            !.audit[KeyOf(r)] = @ + 1]

\* Mutants of UpdatedText: the whole row is replaced, first_seen with it; last_seen does not
\* go back.
UpdatedText_FirstSeen(d, r, ts) ==
  [d EXCEPT !.texts[KeyOf(r)] = [first_seen |-> ts, last_seen |-> ts, avg_ms |-> r.mean_ms]]
UpdatedText_Max(d, r, ts) ==
  [d EXCEPT !.texts[KeyOf(r)] =
     [@ EXCEPT !.last_seen = IF ts > @ THEN ts ELSE @, !.avg_ms = r.mean_ms]]

\* UPDATE query_texts: last_seen and the statistics become this snapshot's.
UpdatedText(d, r, ts) ==
  [d EXCEPT !.texts[KeyOf(r)] = [@ EXCEPT !.last_seen = ts, !.avg_ms = r.mean_ms]]

\* Mutants of Replaced: PRIMARY KEY (fingerprint), without the timestamp; and, below,
Replaced_ByFingerprint(d, r, ts) ==
  [d EXCEPT !.keyed = {p \in @ : ~ (p.kind = r.kind /\ p.key = KeyOf(r))}
                        \cup {[kind |-> r.kind, key |-> KeyOf(r), ts |-> ts, mean_ms |-> r.mean_ms]}]

\* INSERT OR IGNORE, with which the first row of a key and date is kept.
Replaced_Ignored(d, r, ts) ==
  [d EXCEPT !.keyed = @ \cup
     IF \E p \in @ : p.kind = r.kind /\ p.key = KeyOf(r) /\ p.ts = ts THEN {}
     ELSE {[kind |-> r.kind, key |-> KeyOf(r), ts |-> ts, mean_ms |-> r.mean_ms]}]

\* INSERT OR REPLACE into query_samples or table_stats.
Replaced(d, r, ts) ==
  [d EXCEPT !.keyed = {p \in @ : ~ (p.kind = r.kind /\ p.key = KeyOf(r) /\ p.ts = ts)}
                        \cup {[kind |-> r.kind, key |-> KeyOf(r), ts |-> ts, mean_ms |-> r.mean_ms]}]

\* INSERT into lock_events, session_snapshots or execution_plans.
Appended(d, r, ts) ==
  [d EXCEPT !.events = @ \cup {[kind |-> r.kind, key |-> KeyOf(r), ts |-> ts,
                                rowid |-> d.next_id[r.kind]]},
            !.next_id[r.kind] = @ + 1]

\* The writes for one row, given what the SELECT before them found.
Written(d, r, ts, known) ==
  CASE r.kind = "top_queries" /\ known   -> Replaced(UpdatedText(d, r, ts), r, ts)
    [] r.kind = "top_queries" /\ ~ known -> Replaced(NewText(d, r, ts), r, ts)
    [] r.kind = "tables"                 -> Replaced(d, r, ts)
    [] OTHER                             -> Appended(d, r, ts)

\* Mutant of Pruned: DELETE ... WHERE ts <= cutoff.
Pruned_AtCutoff(d, cutoff) ==
  [d EXCEPT !.keyed  = {p \in @ : p.ts > cutoff},
            !.events = {e \in @ : e.ts > cutoff},
            !.prunes = Append(@, [at |-> clock, cutoff |-> cutoff])]

\* DELETE FROM each of the five sample tables WHERE ts < cutoff, and the audit entry.
Pruned(d, cutoff) ==
  [d EXCEPT !.keyed  = {p \in @ : p.ts >= cutoff},
            !.events = {e \in @ : e.ts >= cutoff},
            !.prunes = Append(@, [at |-> clock, cutoff |-> cutoff])]

-----------------------------------------------------------------------------
(* The request threads.                                                    *)

\* Python's sqlite3 opens a transaction before the first INSERT, UPDATE or DELETE: until
\* then a SELECT reads the committed state.
View(w) == IF writer = w THEN tx ELSE db

Request(w) == Batch(job[w].req)
RowAt(w)   == Request(w)[job[w].pos]

LockFree(w) == writer \in {NoWorker, w}

\* The row's write statements come next: at once, or after the SELECT for a query.
AtWrite(w) ==
  \/ job[w].pc = "write"
  \/ job[w].pc = "row" /\ job[w].pos <= Len(Request(w)) /\ RowAt(w).kind # "top_queries"

\* Mutant of Rollback: the connection stays open in its transaction after an exception.
Rollback_Leaks(w) == UNCHANGED <<writer, tx>>

\* Leaving `with conn' by an exception rolls back and frees the lock.
Rollback(w) ==
  /\ writer' = IF writer = w THEN NoWorker ELSE writer
  /\ tx' = IF writer = w THEN db ELSE tx

\* POST /events, /plans or /ingest: a payload reaches a free worker of a server.
Receive(w, s) ==
  /\ job[w].pc = "idle"
  /\ ServerOf[w] \notin CliProcess
  /\ sent[s] < MaxSends
  /\ sent' = [sent EXCEPT ![s] = @ + 1]
  /\ job' = [job EXCEPT ![w] = [Idle EXCEPT !.pc = "row", !.req = s,
                !.ts = IF s.collected_at = NoTime THEN clock ELSE s.collected_at]]
  /\ UNCHANGED <<clock, db, tx, writer, last_prune>>

\* Mutant of Select: with PRAGMA read_uncommitted it sees what others have not committed yet.
Select_Dirty(w) ==
  /\ job[w].pc = "row" /\ job[w].pos <= Len(Request(w)) /\ RowAt(w).kind = "top_queries"
  /\ job' = [job EXCEPT ![w].pc = "write", ![w].known = tx.texts[KeyOf(RowAt(w))] # NoRow]
  /\ UNCHANGED <<clock, db, tx, writer, last_prune, sent>>

\* SELECT 1 FROM query_texts: a step of its own, because it takes no write lock.
Select(w) ==
  /\ job[w].pc = "row"
  /\ job[w].pos <= Len(Request(w))
  /\ RowAt(w).kind = "top_queries"
  /\ job' = [job EXCEPT ![w].pc = "write",
                        ![w].known = View(w).texts[KeyOf(RowAt(w))] # NoRow]
  /\ UNCHANGED <<clock, db, tx, writer, last_prune, sent>>

\* Mutant of Duplicate: INSERT OR REPLACE INTO query_texts.
Duplicate_Replaced(w) == FALSE

\* An INSERT of a fingerprint that is in query_texts already violates the primary key.
Duplicate(w) ==
  /\ RowAt(w).kind = "top_queries"
  /\ ~ job[w].known
  /\ View(w).texts[KeyOf(RowAt(w))] # NoRow

\* Mutant of Write: isolation_level None, every statement commits by itself.
Write_Autocommit(w) ==
  /\ AtWrite(w) /\ LockFree(w) /\ ~ Duplicate(w)
  /\ tx' = Written(View(w), RowAt(w), job[w].ts, job[w].known)
  /\ db' = tx'
  /\ job' = [job EXCEPT ![w].pc = "row", ![w].pos = @ + 1, ![w].known = FALSE]
  /\ UNCHANGED <<clock, writer, last_prune, sent>>

\* The statements that store a row, in the transaction the first of them opens.
Write(w) ==
  /\ AtWrite(w)
  /\ LockFree(w)
  /\ ~ Duplicate(w)
  /\ writer' = w
  /\ tx' = Written(View(w), RowAt(w), job[w].ts, job[w].known)
  /\ job' = [job EXCEPT ![w].pc = "row", ![w].pos = @ + 1, ![w].known = FALSE]
  /\ UNCHANGED <<clock, db, last_prune, sent>>

\* sqlite3.IntegrityError: the batch is rolled back and the request fails.
Conflict(w) ==
  /\ AtWrite(w)
  /\ LockFree(w)
  /\ Duplicate(w)
  /\ Rollback(w)
  /\ job' = [job EXCEPT ![w].pc = "conflict"]
  /\ UNCHANGED <<clock, db, last_prune, sent>>

\* The end of the batch commits it; a batch without rows opened no transaction.
Commit(w) ==
  /\ job[w].pc = "row"
  /\ job[w].pos > Len(Request(w))
  /\ IF writer = w THEN db' = tx /\ writer' = NoWorker /\ tx' = tx
                   ELSE UNCHANGED <<db, writer, tx>>
  /\ job' = [job EXCEPT ![w].pc = "maybe_prune"]
  /\ UNCHANGED <<clock, last_prune, sent>>

-----------------------------------------------------------------------------
(* Retention.                                                              *)

\* The API builds its BonitoStore without a retention argument.
RetentionOf(p) == IF p \in ApiServer THEN DEFAULT_RETENTION ELSE BONITO_RETENTION_DAYS

PruneDue(p) == clock - last_prune[p] > PRUNE_EVERY

\* _maybe_prune: the throttle is read, and the cutoff computed, before any lock is held.
MaybePrune(w) ==
  /\ job[w].pc = "maybe_prune"
  /\ job' = IF PruneDue(ServerOf[w])
            THEN [job EXCEPT ![w].pc = "prune", ![w].cutoff = clock - RetentionOf(ServerOf[w])]
            ELSE [job EXCEPT ![w].pc = "ok"]
  /\ UNCHANGED <<clock, db, tx, writer, last_prune, sent>>

\* `bonito-store prune': the same prune, whatever the throttle says.
PruneCommand(w) ==
  /\ job[w].pc = "idle"
  /\ ServerOf[w] \in CliProcess
  /\ Len(db.prunes) < MaxPrunes
  /\ job' = [job EXCEPT ![w] = [Idle EXCEPT !.pc = "prune",
                                            !.cutoff = clock - RetentionOf(ServerOf[w])]]
  /\ UNCHANGED <<clock, db, tx, writer, last_prune, sent>>

PruneDelete(w) ==
  /\ job[w].pc = "prune"
  /\ LockFree(w)
  /\ writer' = w
  /\ tx' = Pruned(View(w), job[w].cutoff)
  /\ job' = [job EXCEPT ![w].pc = "prune_commit"]
  /\ UNCHANGED <<clock, db, last_prune, sent>>

PruneCommit(w) ==
  /\ job[w].pc = "prune_commit"
  /\ db' = tx
  /\ writer' = NoWorker
  /\ job' = [job EXCEPT ![w].pc = "stamp"]
  /\ UNCHANGED <<clock, tx, last_prune, sent>>

\* _last_prune is set only after the commit, so another thread may still find it due.
Stamp(w) ==
  /\ job[w].pc = "stamp"
  /\ last_prune' = [last_prune EXCEPT ![ServerOf[w]] = clock]
  /\ job' = [job EXCEPT ![w].pc = "ok"]
  /\ UNCHANGED <<clock, db, tx, writer, sent>>

-----------------------------------------------------------------------------
(* Failures, answers, the environment.                                     *)

\* sqlite3's timeout (5 s) runs out while another connection holds the write lock.
BusyTimeout(w) ==
  /\ AtWrite(w) \/ job[w].pc = "prune"
  /\ ~ LockFree(w)
  /\ job' = [job EXCEPT ![w].pc = "busy"]
  /\ UNCHANGED <<clock, db, tx, writer, last_prune, sent>>

\* A statement or the commit raises: a value SQLite cannot bind, a full disk, a busy commit.
StatementFails(w) ==
  /\ job[w].pc \in {"row", "write", "prune", "prune_commit"}
  /\ Rollback(w)
  /\ job' = [job EXCEPT ![w].pc = "error"]
  /\ UNCHANGED <<clock, db, last_prune, sent>>

\* The response: 200 with the summary, or 500 after an exception.
Respond(w) ==
  /\ job[w].pc \in Answer
  /\ job' = [job EXCEPT ![w] = Idle]
  /\ UNCHANGED <<clock, db, tx, writer, last_prune, sent>>

\* A process dies and is started again: SQLite drops its transaction, its throttle restarts at 0.
Restart(p) ==
  /\ \E w \in Worker : ServerOf[w] = p /\ job[w].pc # "idle"
  /\ job' = [w \in Worker |-> IF ServerOf[w] = p THEN Idle ELSE job[w]]
  /\ last_prune' = [last_prune EXCEPT ![p] = 0]
  /\ IF writer # NoWorker /\ ServerOf[writer] = p
     THEN writer' = NoWorker /\ tx' = db
     ELSE UNCHANGED <<writer, tx>>
  /\ UNCHANGED <<clock, db, sent>>

Tick ==
  /\ clock < MaxTime
  /\ clock' = clock + 1
  /\ UNCHANGED <<db, tx, writer, last_prune, job, sent>>

Init ==
  /\ clock = BootTime
  /\ db = EmptyDatabase
  /\ tx = EmptyDatabase
  /\ writer = NoWorker
  /\ last_prune = [p \in Process |-> 0]
  /\ job = [w \in Worker |-> Idle]
  /\ sent = [s \in Snapshot |-> 0]

\* What a worker does by itself once it has a request.
Step(w) ==
  \/ Select(w) \/ Write(w) \/ Conflict(w) \/ Commit(w)
  \/ MaybePrune(w) \/ PruneDelete(w) \/ PruneCommit(w) \/ Stamp(w)
  \/ BusyTimeout(w) \/ Respond(w)

Next ==
  \/ \E w \in Worker : Step(w) \/ StatementFails(w)
  \/ \E w \in Worker, s \in Snapshot : Receive(w, s)
  \/ \E w \in Worker : PruneCommand(w)
  \/ \E p \in Process : Restart(p)
  \/ Tick

Spec == Init /\ [][Next]_vars

-----------------------------------------------------------------------------
(* What must hold.                                                         *)

Stored(d, r, ts) ==
  IF r.kind \in KeyedKind
  THEN \E p \in d.keyed  : p.kind = r.kind /\ p.key = KeyOf(r) /\ p.ts = ts
  ELSE \E e \in d.events : e.kind = r.kind /\ e.key = KeyOf(r) /\ e.ts = ts

\* A prune has taken what was stored for that date.
PrunedSince(d, ts) == \E j \in 1 .. Len(d.prunes) : ts < d.prunes[j].cutoff

RowsOf == [s \in Snapshot |-> {Batch(s)[i] : i \in 1 .. Len(Batch(s))}]

\* The dates a payload can be stored under: an undated one takes that of its ingest.
DatesOf(s) == IF s.collected_at = NoTime THEN BootTime .. MaxTime ELSE {s.collected_at}

\* Payloads whose rows cannot be mistaken for those of another.
Distinct ==
  {s \in Snapshot : /\ s.collected_at # NoTime
                    /\ \A u \in Snapshot \ {s} :
                         \/ s.collected_at \notin DatesOf(u)
                         \/ \A r \in RowsOf[s], q \in RowsOf[u] :
                              <<r.kind, KeyOf(r)>> # <<q.kind, KeyOf(q)>>}

\* Every query sample belongs to a fingerprint whose text is known, so that the API and the
\* MCP tools can name the query behind a sample, a baseline or an anomaly (docs/store.md,
\* Retention), whatever was pruned, rolled back or lost in a crash.
SampleHasIdentity ==
  \A p \in db.keyed : p.kind = "top_queries" => db.texts[p.key] # NoRow

\* The audit log announces a fingerprint as new exactly once, and only with its row: threads
\* that both found it missing must not both record it (_upsert_query).
OneAuditEntryPerFingerprint ==
  \A k \in Key : db.audit[k] = IF db.texts[k] = NoRow THEN 0 ELSE 1

\* What makes the two invariants above hold, step by step.  Between transactions nothing is
\* uncommitted; the uncommitted tables keep both invariants too, and every committed
\* fingerprint with its first_seen; a thread that saw a fingerprint will still find it when
\* it updates it, in the transaction it then writes in; and only the holder of the write
\* lock is about to commit a prune.
Sound(d) ==
  /\ \A p \in d.keyed : p.kind = "top_queries" => d.texts[p.key] # NoRow
  /\ \A k \in Key : d.audit[k] = IF d.texts[k] = NoRow THEN 0 ELSE 1

KeepsTexts(d, e) ==
  \A k \in Key : d.texts[k] # NoRow =>
    e.texts[k] # NoRow /\ e.texts[k].first_seen = d.texts[k].first_seen

AtIdentity(w) ==
  /\ job[w].pos <= Len(Request(w))
  /\ RowAt(w).kind = "top_queries"
  /\ job[w].known => View(w).texts[KeyOf(RowAt(w))] # NoRow

LockDiscipline ==
  /\ writer = NoWorker => tx = db
  /\ \A w \in Worker : job[w].pc = "prune_commit" => writer = w

TablesSound == Sound(db) /\ Sound(tx) /\ KeepsTexts(db, tx)

ThreadsInStep ==
  \A w \in Worker : /\ job[w].pc \in {"row", "write"} => job[w].req \in Snapshot
                    /\ job[w].pc = "write" => AtIdentity(w)

Isolation == LockDiscipline /\ TablesSound /\ ThreadsInStep

\* A snapshot is stored as a whole or not at all: neither an exception in the middle of a
\* batch, nor a crash, nor a prune leaves a part of it (the `with conn' block of ingest).
SnapshotAtomic ==
  \A s \in Distinct :
    \/ \A r \in RowsOf[s] : Stored(db, r, s.collected_at)
    \/ \A r \in RowsOf[s] : ~ Stored(db, r, s.collected_at)

\* When the 200 leaves, every row of the batch is committed, unless a prune has already
\* found it too old: no answer runs ahead of the commit, no later batch replaces the rows.
AckedIsStored ==
  \A w \in Worker : job[w].pc = "ok" /\ job[w].req # NoRequest =>
    \A i \in 1 .. Len(Request(w)) :
      \/ Stored(db, Request(w)[i], job[w].ts)
      \/ PrunedSince(db, job[w].ts)

SampleOf(d, k) ==
  \E p \in d.keyed : /\ p.kind = "top_queries" /\ p.key = k
                     /\ p.ts = d.texts[k].last_seen /\ p.mean_ms = d.texts[k].avg_ms

TextsMatch(d) ==
  \A k \in Key : d.texts[k] # NoRow => SampleOf(d, k) \/ PrunedSince(d, d.texts[k].last_seen)

\* The average that anomalies are judged by is that of a sample, the one at last_seen, until
\* retention takes the sample away: a snapshot that arrives late, or is stored again, changes
\* both tables or neither (_upsert_query, anomaly).
TextsMatchSamples == TextsMatch(db)

\* A fingerprint, once committed, is never forgotten, and keeps the date it was first seen:
\* pruning leaves query_texts alone and an upsert never starts the row afresh.
IdentityKept ==
  [][KeepsTexts(db, db')]_vars

\* No committed row disappears before it is older than BONITO_RETENTION_DAYS, whichever
\* process prunes and however long its cutoff waited for the write lock (prune, ingest).
RetentionHonoured ==
  [][/\ \A p \in db.keyed : p.ts >= clock - BONITO_RETENTION_DAYS =>
          \E q \in db'.keyed : q.kind = p.kind /\ q.key = p.key /\ q.ts = p.ts
     /\ \A e \in db.events : e.ts >= clock - BONITO_RETENTION_DAYS => e \in db'.events]_vars

\* Every request is answered, or dies with its process, and gives the write lock back: no
\* thread waits for ever, whoever else fails, prunes or crashes meanwhile.
RequestAnswered ==
  \A w \in Worker : job[w].pc # "idle" ~> job[w].pc = "idle" /\ writer # w

\* What each payload stores, and when it was collected, as the ledger wants them.
Entries == [s \in Snapshot |->
  [i \in DOMAIN Batch(s) |->
     [kind |-> Batch(s)[i].kind, key |-> KeyOf(Batch(s)[i]), mean_ms |-> Batch(s)[i].mean_ms]]]
CollectedAt == [s \in Snapshot |-> s.collected_at]

\* Readers see the committed tables, and no rowid.
Ledger == INSTANCE BonitoLedger WITH
  Rows      <- Entries,
  Keyed     <- KeyedKind,
  Retention <- BONITO_RETENTION_DAYS,
  Start     <- BootTime,
  now       <- clock,
  texts     <- db.texts,
  samples   <- db.keyed,
  events    <- {[kind |-> e.kind, key |-> e.key, ts |-> e.ts] : e \in db.events}

\* The store implements the ledger.  To those who read the file a snapshot happens in one
\* step, the commit of ingest, with the effect that its rows have together (the last of two
\* rows with one key counts, the first date of a query stays); a prune drops only what is too
\* old; and no lost race, failing statement, busy timeout or crash can be told from a request
\* that was never made.
ImplementsLedger == Ledger!Spec

-----------------------------------------------------------------------------
(* What the documents say, and the code does not do.                       *)

\* docs/store.md: "The same query updates stats instead of creating a new row."  Two threads
\* that see a new fingerprint at once both try to create it, and one of them loses its batch.
SameQueryUpdates == \A w \in Worker : job[w].pc # "conflict"

=============================================================================
