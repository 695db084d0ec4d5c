------------------------- MODULE BonitoLedger_proofs -------------------------
(***************************************************************************)
(* The store implements the ledger: the commit of ingest is the ledger's   *)
(* TakeOver, the commit of a prune its Drop, the clock's tick its Pass,    *)
(* and every other step of a thread, a failure or a crash is no step of    *)
(* the ledger.                                                             *)
(***************************************************************************)
EXTENDS BonitoTransaction_proofs

-----------------------------------------------------------------------------
(* What the ledger takes of a payload.                                     *)

Entry(r) == [kind |-> r.kind, key |-> KeyOf(r), mean_ms |-> r.mean_ms]

LEMMA EntriesOfBatch ==
  ASSUME NEW s \in Snapshot
  PROVE  /\ Batch(s) \in Seq(Row)
         /\ Len(Batch(s)) \in Nat
         /\ \A i \in 1 .. Len(Batch(s)) : Batch(s)[i] \in Row
         /\ DOMAIN Entries[s] = 1 .. Len(Batch(s))
         /\ \A i \in 1 .. Len(Batch(s)) : Entries[s][i] = Entry(Batch(s)[i])
<1>1. Batch(s) \in Seq(Row)
  BY BatchType
<1>2. DOMAIN Batch(s) = 1 .. Len(Batch(s)) /\ Len(Batch(s)) \in Nat
  BY <1>1
<1>3. \A i \in 1 .. Len(Batch(s)) : Batch(s)[i] \in Row
  BY <1>1, ElementOfSeq
<1>4. Entries[s] = [i \in DOMAIN Batch(s) |-> Entry(Batch(s)[i])]
  BY DEF Entries, Entry
<1> QED BY <1>1, <1>2, <1>3, <1>4

LEMMA EntryFields ==
  ASSUME NEW r, NEW q
  PROVE  /\ Entry(r).kind = r.kind /\ Entry(r).key = KeyOf(r) /\ Entry(r).mean_ms = r.mean_ms
         /\ Same(r, q) <=> <<Entry(r).kind, Entry(r).key>> = <<Entry(q).kind, Entry(q).key>>
BY DEF Entry, Same

\* The rows that count are those no later row has replaced.
LEMMA LastRows ==
  ASSUME NEW s \in Snapshot
  PROVE  Ledger!LastOfKey(Entries[s]) = Latest(Batch(s), Len(Batch(s)))
<1> DEFINE b == Batch(s)
           n == Len(b)
<1>1. /\ DOMAIN Entries[s] = 1 .. n
      /\ \A i \in 1 .. n : Entries[s][i] = Entry(b[i])
  BY EntriesOfBatch
<1>2. \A i, j \in 1 .. n :
        <<Entries[s][j].kind, Entries[s][j].key>> # <<Entries[s][i].kind, Entries[s][i].key>>
          <=> ~ Same(b[i], b[j])
  BY <1>1, EntryFields
<1> HIDE DEF b, n
<1>3. ASSUME NEW i
      PROVE  i \in Ledger!LastOfKey(Entries[s]) <=> i \in Latest(b, n)
  BY <1>1, <1>2 DEF Ledger!LastOfKey, Latest
<1> QED BY <1>3 DEF b, n

LEMMA QueriesOfBatch ==
  ASSUME NEW s \in Snapshot
  PROVE  /\ Ledger!Queries[s] = {Entry(Batch(s)[i]) : i \in
              {j \in Latest(Batch(s), Len(Batch(s))) : Batch(s)[j].kind = "top_queries"}}
         /\ Ledger!Measures[s] =
              {Entry(Batch(s)[i]) : i \in Measured(Batch(s), Len(Batch(s)))}
         /\ Ledger!Events[s] =
              {Entry(Batch(s)[i]) : i \in Reported(Batch(s), Len(Batch(s)))}
<1> DEFINE b == Batch(s)
           n == Len(b)
           L == Latest(b, n)
<1>1. /\ DOMAIN Entries[s] = 1 .. n
      /\ \A i \in 1 .. n : Entries[s][i] = Entry(b[i])
      /\ \A i \in 1 .. n : b[i] \in Row
  BY EntriesOfBatch
<1>2. Ledger!LastOfKey(Entries[s]) = L
  BY LastRows
<1>3. \A i \in L : i \in 1 .. n
  BY DEF Latest
<1> HIDE DEF b, n, L
<1>4. /\ \A i \in 1 .. n : Entries[s][i].kind = b[i].kind
      /\ \A i \in 1 .. n : b[i].kind \notin KeyedKind <=> b[i].kind \in EventKind
  <2>1. \A i \in 1 .. n : b[i].kind \in Kind
    BY <1>1 DEF Row
  <2>2. \A k \in Kind : k \notin KeyedKind <=> k \in EventKind
    BY DEF Kind, KeyedKind, EventKind
  <2> QED BY <1>1, <2>1, <2>2, EntryFields
<1>5. /\ {j \in L : Entries[s][j].kind = "top_queries"} = {j \in L : b[j].kind = "top_queries"}
      /\ {j \in L : Entries[s][j].kind \in KeyedKind} = Measured(b, n)
      /\ {j \in 1 .. n : Entries[s][j].kind \notin KeyedKind} = Reported(b, n)
  BY <1>3, <1>4 DEF Measured, Reported, L
<1>6. /\ Ledger!Queries[s] = {Entries[s][i] : i \in {j \in L : b[j].kind = "top_queries"}}
      /\ Ledger!Measures[s] = {Entries[s][i] : i \in Measured(b, n)}
      /\ Ledger!Events[s] = {Entries[s][i] : i \in Reported(b, n)}
  BY <1>1, <1>2, <1>5 DEF Ledger!Queries, Ledger!Measures, Ledger!Events
<1>7. /\ \A i \in Measured(b, n) : i \in 1 .. n
      /\ \A i \in Reported(b, n) : i \in 1 .. n
  BY <1>3 DEF Measured, Reported, L
<1> QED BY <1>1, <1>3, <1>6, <1>7 DEF b, n, L

-----------------------------------------------------------------------------
(* A commit of ingest is the ledger's step.                                *)

\* Of two rows with one key only the last counts.
LEMMA LatestUnique ==
  ASSUME NEW b, NEW n \in Nat, NEW i \in Latest(b, n), NEW j \in Latest(b, n), Same(b[i], b[j])
  PROVE  i = j
<1>1. i \in 1 .. n /\ j \in 1 .. n /\ Same(b[j], b[i])
  BY DEF Latest, Same
<1>2. ~ j > i /\ ~ i > j
  BY <1>1 DEF Latest
<1> QED BY <1>1, <1>2

LEMMA TextsTakenOver ==
  ASSUME TInv, NEW s \in Snapshot, NEW ts \in Time, NEW e \in Database,
         BatchWritten(db, e, Batch(s), ts, Len(Batch(s)))
  PROVE  e.texts = Ledger!Known(s, ts)
<1> DEFINE b == Batch(s)
           n == Len(b)
           L == Latest(b, n)
           Q == Ledger!Queries[s]
<1>0. n \in Nat /\ TextsWritten(db, e, b, ts, n) /\ Covered(b, n)
  BY EntriesOfBatch DEF BatchWritten
<1>1. Q = {Entry(b[i]) : i \in {j \in L : b[j].kind = "top_queries"}}
  BY QueriesOfBatch
<1>2. \A i \in L : i \in 1 .. n
  BY DEF Latest
<1> HIDE DEF b, n, L, Q
<1>3. ASSUME NEW k \in Key, \E r \in Q : r.key = k
      PROVE  e.texts[k] =
               [first_seen |-> IF db.texts[k] = NoRow THEN ts ELSE db.texts[k].first_seen,
                last_seen  |-> ts,
                avg_ms     |-> (CHOOSE r \in Q : r.key = k).mean_ms]
  <2>1. PICK i \in L : b[i].kind = "top_queries" /\ Entry(b[i]).key = k
    BY <1>1, <1>3
  <2>2. Names(b[i], k)
    BY <2>1, EntryFields DEF Names
  <2>3. ASSUME NEW r \in Q, r.key = k PROVE r = Entry(b[i])
    <3>1. PICK j \in L : b[j].kind = "top_queries" /\ r = Entry(b[j])
      BY <1>1, <2>3
    <3>2. Same(b[i], b[j])
      BY <2>1, <2>3, <3>1, EntryFields DEF Same
    <3> QED BY <1>0, <3>1, <3>2, LatestUnique DEF L
  <2>4. Entry(b[i]) \in Q
    BY <1>1, <2>1
  <2>5. (CHOOSE r \in Q : r.key = k) = Entry(b[i])
    BY <2>1, <2>3, <2>4
  <2>6. (CHOOSE r \in Q : r.key = k).mean_ms = b[i].mean_ms
    BY <2>5, EntryFields
  <2>7. e.texts[k] = TextFrom(db, k, b[i], ts)
    BY <1>0, <2>2 DEF TextsWritten, L
  <2> QED BY <2>6, <2>7 DEF TextFrom
<1>4. ASSUME NEW k \in Key, ~ \E r \in Q : r.key = k
      PROVE  e.texts[k] = db.texts[k]
  <2>1. ASSUME NEW i \in 1 .. n, Names(b[i], k) PROVE FALSE
    <3>1. PICK j \in L : Same(b[i], b[j])
      BY <1>0, <2>1 DEF Covered, L
    <3>2. b[j].kind = "top_queries" /\ Entry(b[j]).key = k
      BY <2>1, <3>1, EntryFields DEF Same, Names
    <3> QED BY <1>1, <1>4, <3>2
  <2> QED BY <1>0, <2>1 DEF TextsWritten
<1>5. e.texts \in [Key -> TextRow \cup {NoRow}]
  BY DEF Database
<1> QED BY <1>3, <1>4, <1>5 DEF Ledger!Known, Q

LEMMA SamplesTakenOver ==
  ASSUME TInv, NEW s \in Snapshot, NEW ts \in Time, NEW e \in Database,
         BatchWritten(db, e, Batch(s), ts, Len(Batch(s)))
  PROVE  e.keyed = {p \in db.keyed : p.ts = ts => \A r \in Ledger!Measures[s] :
                                       <<r.kind, r.key>> # <<p.kind, p.key>>}
                     \cup {[kind |-> r.kind, key |-> r.key, ts |-> ts, mean_ms |-> r.mean_ms] :
                             r \in Ledger!Measures[s]}
<1> DEFINE b == Batch(s)
           n == Len(b)
           M == Ledger!Measures[s]
<1>0. n \in Nat /\ KeyedWritten(db, e, b, ts, n) /\ Covered(b, n) /\ db \in Database
  BY EntriesOfBatch DEF BatchWritten, TInv, IInv, TypeOK
<1>1. M = {Entry(b[i]) : i \in Measured(b, n)}
  BY QueriesOfBatch
<1>2. \A i \in Measured(b, n) : i \in 1 .. n
  BY DEF Measured, Latest
<1> HIDE DEF b, n, M
<1>3. ASSUME NEW p \in db.keyed
      PROVE  Overwritten(p, b, ts, n) <=>
               p.ts = ts /\ \E r \in M : <<r.kind, r.key>> = <<p.kind, p.key>>
  <2>1. p.kind \in KeyedKind
    BY <1>0 DEF Database, KeyedRow
  <2>2. ASSUME NEW i \in 1 .. n, b[i].kind = p.kind, KeyOf(b[i]) = p.key
        PROVE  \E r \in M : <<r.kind, r.key>> = <<p.kind, p.key>>
    <3>1. PICK j \in Latest(b, n) : Same(b[i], b[j])
      BY <1>0, <2>2 DEF Covered
    <3>2. j \in Measured(b, n)
      BY <2>1, <2>2, <3>1 DEF Measured, Same
    <3>3. Entry(b[j]) \in M /\ <<Entry(b[j]).kind, Entry(b[j]).key>> = <<p.kind, p.key>>
      BY <1>1, <2>2, <3>1, <3>2, EntryFields DEF Same
    <3> QED BY <3>3
  <2>3. ASSUME NEW r \in M, <<r.kind, r.key>> = <<p.kind, p.key>>
        PROVE  \E i \in 1 .. n : b[i].kind = p.kind /\ KeyOf(b[i]) = p.key
    <3>1. PICK i \in Measured(b, n) : r = Entry(b[i])
      BY <1>1
    <3>2. b[i].kind = p.kind /\ KeyOf(b[i]) = p.key
      BY <2>3, <3>1, EntryFields
    <3> QED BY <1>2, <3>1, <3>2
  <2> QED BY <2>2, <2>3 DEF Overwritten
<1>4. {p \in db.keyed : ~ Overwritten(p, b, ts, n)}
        = {p \in db.keyed : p.ts = ts => \A r \in M : <<r.kind, r.key>> # <<p.kind, p.key>>}
  BY <1>3
<1>5. \A i : KeyedOf(b[i], ts) = [kind |-> Entry(b[i]).kind, key |-> Entry(b[i]).key, ts |-> ts,
                                  mean_ms |-> Entry(b[i]).mean_ms]
  BY EntryFields DEF KeyedOf
<1>6. {KeyedOf(b[i], ts) : i \in Measured(b, n)}
        = {[kind |-> r.kind, key |-> r.key, ts |-> ts, mean_ms |-> r.mean_ms] : r \in M}
  BY <1>1, <1>5
<1> QED BY <1>0, <1>4, <1>6 DEF KeyedWritten, M

LEMMA EventsTakenOver ==
  ASSUME NEW s \in Snapshot, NEW ts \in Time, NEW e,
         BatchWritten(db, e, Batch(s), ts, Len(Batch(s)))
  PROVE  Seen(e) = Seen(db) \cup {[kind |-> r.kind, key |-> r.key, ts |-> ts] :
                                     r \in Ledger!Events[s]}
<1> DEFINE b == Batch(s)
           n == Len(b)
           E == Ledger!Events[s]
<1>1. E = {Entry(b[i]) : i \in Reported(b, n)}
  BY QueriesOfBatch
<1>2. \A i : EventOf(b[i], ts) = [kind |-> Entry(b[i]).kind, key |-> Entry(b[i]).key, ts |-> ts]
  BY EntryFields DEF EventOf
<1>3. Seen(e) = Seen(db) \cup {EventOf(b[i], ts) : i \in Reported(b, n)}
  BY DEF BatchWritten, EventsWritten
<1> HIDE DEF b, n, E
<1>4. {EventOf(b[i], ts) : i \in Reported(b, n)}
        = {[kind |-> r.kind, key |-> r.key, ts |-> ts] : r \in E}
  BY <1>1, <1>2
<1> QED BY <1>3, <1>4 DEF E

-----------------------------------------------------------------------------
(* Every step of the store is a step of the ledger or none.                *)

LEMMA IngestIsTakeOver ==
  ASSUME TInv, TInv', clock' = clock, NEW w \in Worker, Ingested(db, db', w)
  PROVE  \E s \in Snapshot : \E ts \in Ledger!Dates(s) : Ledger!TakeOver(s, ts)
<1>0. /\ job[w].req \in Snapshot /\ job[w].ts \in Time /\ db \in Database /\ db' \in Database
      /\ clock \in Nat
  BY DEF Ingested, TInv, IInv, TypeOK, Job, Time
<1>a. PICK s \in Snapshot, ts \in Time : s = job[w].req /\ ts = job[w].ts
  BY <1>0
<1>1. /\ s \in Snapshot /\ ts \in Time /\ db \in Database /\ db' \in Database
      /\ clock \in Nat
  BY <1>0
<1>2. BatchWritten(db, db', Batch(s), ts, Len(Batch(s)))
  BY <1>a DEF Ingested, Request
<1>3. ts \in Ledger!Dates(s)
  <2>1. Dated(w) /\ CollectedAt[s] = s.collected_at
    BY <1>1, <1>a DEF Ingested, CollectedAt
  <2>2. ts \in Nat
    BY <1>1 DEF Time
  <2>3. CASE s.collected_at = NoTime
    BY <1>1, <1>a, <2>1, <2>2, <2>3 DEF Dated, Ledger!Dates
  <2>4. CASE s.collected_at # NoTime
    BY <1>a, <2>1, <2>4 DEF Dated, DatesOf, Ledger!Dates
  <2> QED BY <2>3, <2>4
<1>4. db'.texts = Ledger!Known(s, ts)
  BY <1>1, <1>2, TextsTakenOver
<1>5. db'.keyed = {p \in db.keyed : p.ts = ts => \A r \in Ledger!Measures[s] :
                                     <<r.kind, r.key>> # <<p.kind, p.key>>}
                    \cup {[kind |-> r.kind, key |-> r.key, ts |-> ts, mean_ms |-> r.mean_ms] :
                            r \in Ledger!Measures[s]}
  BY <1>1, <1>2, SamplesTakenOver
<1>6. Seen(db') = Seen(db) \cup {[kind |-> r.kind, key |-> r.key, ts |-> ts] :
                                    r \in Ledger!Events[s]}
  BY <1>1, <1>2, EventsTakenOver
<1>7. Ledger!TakeOver(s, ts)
  BY <1>4, <1>5, <1>6 DEF Ledger!TakeOver, Seen
<1> QED BY <1>3, <1>7

\* A cutoff from before the epoch drops nothing.
LEMMA RetireIsDrop ==
  ASSUME TInv, RetentionCovers, clock' = clock, NEW w \in Worker, Retired(db, db', w)
  PROVE  (\E cutoff \in 0 .. clock : Ledger!Drop(cutoff)) \/ UNCHANGED Ledger!vars
<1>0. job[w].cutoff \in Int
  BY DEF TInv, IInv, TypeOK, Job
<1>a. PICK cutoff \in Int : cutoff = job[w].cutoff
  BY <1>0
<1>1. cutoff \in Int /\ clock \in Int /\ BONITO_RETENTION_DAYS \in Nat /\ db \in Database
  BY TimeAssumption DEF TInv, IInv, TypeOK, Job, Time
<1>2. RetentionOf(ServerOf[w]) \in Int /\ RetentionOf(ServerOf[w]) >= BONITO_RETENTION_DAYS
  BY RetentionType, ProcessAssumption DEF RetentionCovers
<1>3. cutoff <= clock - BONITO_RETENTION_DAYS /\ cutoff <= clock
  BY <1>1, <1>2, <1>a DEF Retired
<1>4. /\ db'.texts = db.texts
      /\ db'.keyed = {p \in db.keyed : p.ts >= cutoff}
      /\ db'.events = {p \in db.events : p.ts >= cutoff}
  BY <1>a DEF Retired, PruneWritten
<1>5. Seen(db') = {e \in Seen(db) : e.ts >= cutoff}
  BY <1>4 DEF Seen
<1>6. CASE cutoff >= 0
  <2>1. cutoff \in 0 .. clock
    BY <1>1, <1>3, <1>6
  <2>2. Ledger!Drop(cutoff)
    BY <1>3, <1>4, <1>5 DEF Ledger!Drop, Seen
  <2> QED BY <2>1, <2>2
<1>7. CASE cutoff < 0
  <2>1. \A t \in Time : t >= cutoff
    BY <1>1, <1>7 DEF Time
  <2>2. /\ \A p \in db.keyed : p.ts \in Time
        /\ \A p \in db.events : p.ts \in Time
    BY <1>1 DEF Database, KeyedRow, EventRow
  <2>3. db'.keyed = db.keyed /\ db'.events = db.events
    BY <1>4, <2>1, <2>2
  <2> QED BY <1>4, <2>3 DEF Ledger!vars
<1> QED BY <1>1, <1>6, <1>7

LEMMA LedgerStep ==
  ASSUME TInv, TInv', RetentionCovers, [Next]_vars
  PROVE  [Ledger!Next]_(Ledger!vars)
<1>1. CASE db' = db
  <2>1. clock' = clock \/ clock' = clock + 1
    BY ClockStep
  <2>2. CASE clock' = clock
    BY <1>1, <2>2 DEF Ledger!vars
  <2>3. CASE clock' = clock + 1
    BY <1>1, <2>3 DEF Ledger!Next, Ledger!Pass
  <2> QED BY <2>1, <2>2, <2>3
<1>2. ASSUME clock' = clock, NEW w \in Worker, Ingested(db, db', w)
      PROVE  [Ledger!Next]_(Ledger!vars)
  <2>1. \E s \in Snapshot : \E ts \in Ledger!Dates(s) : Ledger!TakeOver(s, ts)
    BY <1>2, IngestIsTakeOver
  <2> QED BY <2>1 DEF Ledger!Next
<1>3. ASSUME clock' = clock, NEW w \in Worker, Retired(db, db', w)
      PROVE  [Ledger!Next]_(Ledger!vars)
  <2>1. (\E cutoff \in 0 .. clock : Ledger!Drop(cutoff)) \/ UNCHANGED Ledger!vars
    BY <1>3, RetireIsDrop
  <2> QED BY <2>1 DEF Ledger!Next
<1> QED BY <1>1, <1>2, <1>3, CommittedStep

\* The store implements the ledger, if no process keeps rows for a shorter time than the
\* configured one: whatever threads race, statements fail and processes crash, the file's
\* readers see whole snapshots being taken over and what is too old being dropped (ingest,
\* prune).
THEOREM LedgerImplemented ==
  ASSUME RetentionCovers
  PROVE  Spec => ImplementsLedger
<1>1. Init => Ledger!Init
  BY DEF Init, Ledger!Init, EmptyDatabase
<1>2. TInv /\ TInv' /\ [Next]_vars => [Ledger!Next]_(Ledger!vars)
  BY LedgerStep
<1> QED BY <1>1, <1>2, Transactional, PTL DEF Spec, ImplementsLedger, Ledger!Spec

=============================================================================
