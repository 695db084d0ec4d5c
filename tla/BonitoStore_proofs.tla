------------------------ MODULE BonitoStore_proofs ------------------------
(***************************************************************************)
(* Proofs about BonitoStore, for any number of processes, threads, queries *)
(* and payloads: the types, the invariants of the tables, and what no step *)
(* takes away.                                                             *)
(***************************************************************************)
EXTENDS BonitoStore, SequenceTheorems, TLAPS

-----------------------------------------------------------------------------
(* The rows of a payload.                                                  *)

\* A list cut at BATCH_LIMIT is a list of the same rows.
LEMMA CappedType ==
  ASSUME NEW S, NEW rows \in Seq(S)
  PROVE  Capped(rows) \in Seq(S)
<1>1. Len(rows) \in Nat /\ BATCH_LIMIT \in Nat
  BY TimeAssumption
<1>2. PICK n \in Nat : n <= Len(rows) /\ Capped(rows) = SubSeq(rows, 1, n)
  BY <1>1 DEF Capped
<1>3. \A i \in 1 .. n : rows[i] \in S
  BY <1>1, <1>2, ElementOfSeq
<1> QED BY <1>2, <1>3, SubSeqProperties

\* What ingest stores for a payload is a list of rows.
LEMMA BatchType ==
  ASSUME NEW s \in Snapshot
  PROVE  Batch(s) \in Seq(Row)
<1>1. s \in Payload
  BY PayloadAssumption
<1>2. \A k \in Kind : RowOf(k) \subseteq Row
  BY DEF RowOf, Row
<1>3. \A k \in Kind : Seq(RowOf(k)) \subseteq Seq(Row)
  BY <1>2, SeqMonotonic
<1>4. /\ s.top_queries \in Seq(Row) /\ s.locks \in Seq(Row) /\ s.sessions \in Seq(Row)
      /\ s.tables \in Seq(Row) /\ s.plans \in Seq(Row)
  BY <1>1, <1>3 DEF Payload, Kind, EventKind, KeyedKind
<1>5. /\ Capped(s.top_queries) \in Seq(Row) /\ Capped(s.locks) \in Seq(Row)
      /\ Capped(s.sessions) \in Seq(Row) /\ Capped(s.tables) \in Seq(Row)
      /\ Capped(s.plans) \in Seq(Row)
  BY <1>4, CappedType
<1> QED BY <1>5, ConcatProperties DEF Batch

\* Every row has a key: the fingerprint it came with, or the digest of its text.
LEMMA KeyType ==
  ASSUME NEW r \in Row
  PROVE  KeyOf(r) \in Key
BY PayloadAssumption DEF KeyOf, Key, Row

-----------------------------------------------------------------------------
(* The tables.                                                             *)

LEMMA EmptyDatabaseType == EmptyDatabase \in Database
<1>1. << >> \in Seq([at : Time, cutoff : Int])
  OBVIOUS
<1> QED BY <1>1 DEF EmptyDatabase, Database

LEMMA NewTextType ==
  ASSUME NEW d \in Database, NEW r \in Row, NEW ts \in Time
  PROVE  NewText(d, r, ts) \in Database
<1>1. KeyOf(r) \in Key /\ r.mean_ms \in Mean
  BY KeyType DEF Row
<1>2. [first_seen |-> ts, last_seen |-> ts, avg_ms |-> r.mean_ms] \in TextRow
  BY <1>1 DEF TextRow
<1> DEFINE t == [d.texts EXCEPT ![KeyOf(r)] = [first_seen |-> ts, last_seen |-> ts,
                                                avg_ms |-> r.mean_ms]]
           a == [d.audit EXCEPT ![KeyOf(r)] = @ + 1]
<1>3. t \in [Key -> TextRow \cup {NoRow}] /\ a \in [Key -> Nat]
  BY <1>1, <1>2 DEF Database
<1>4. NewText(d, r, ts) = [d EXCEPT !.texts = t, !.audit = a]
  BY DEF NewText
<1> HIDE DEF t, a
<1> QED BY <1>3, <1>4 DEF Database

LEMMA UpdatedTextType ==
  ASSUME NEW d \in Database, NEW r \in Row, NEW ts \in Time, d.texts[KeyOf(r)] # NoRow
  PROVE  UpdatedText(d, r, ts) \in Database
<1>1. KeyOf(r) \in Key /\ r.mean_ms \in Mean
  BY KeyType DEF Row
<1>2. d.texts[KeyOf(r)] \in TextRow
  BY <1>1 DEF Database
<1>3. [d.texts[KeyOf(r)] EXCEPT !.last_seen = ts, !.avg_ms = r.mean_ms] \in TextRow
  BY <1>1, <1>2 DEF TextRow
<1> QED BY <1>1, <1>3 DEF UpdatedText, Database

LEMMA ReplacedType ==
  ASSUME NEW d \in Database, NEW r \in Row, NEW ts \in Time, r.kind \in KeyedKind
  PROVE  Replaced(d, r, ts) \in Database
<1>1. KeyOf(r) \in Key /\ r.mean_ms \in Mean
  BY KeyType DEF Row
<1>2. [kind |-> r.kind, key |-> KeyOf(r), ts |-> ts, mean_ms |-> r.mean_ms] \in KeyedRow
  BY <1>1 DEF KeyedRow
<1> QED BY <1>2 DEF Replaced, Database

LEMMA AppendedType ==
  ASSUME NEW d \in Database, NEW r \in Row, NEW ts \in Time, r.kind \in EventKind
  PROVE  Appended(d, r, ts) \in Database
<1>1. KeyOf(r) \in Key /\ d.next_id[r.kind] \in Nat
  BY KeyType DEF Database
<1>2. [kind |-> r.kind, key |-> KeyOf(r), ts |-> ts, rowid |-> d.next_id[r.kind]] \in EventRow
  BY <1>1 DEF EventRow
<1> DEFINE e == d.events \cup {[kind |-> r.kind, key |-> KeyOf(r), ts |-> ts,
                                rowid |-> d.next_id[r.kind]]}
           n == [d.next_id EXCEPT ![r.kind] = @ + 1]
<1>3. e \in SUBSET EventRow /\ n \in [EventKind -> Nat]
  BY <1>1, <1>2 DEF Database
<1>4. Appended(d, r, ts) = [d EXCEPT !.events = e, !.next_id = n]
  BY DEF Appended
<1> HIDE DEF e, n
<1> QED BY <1>3, <1>4 DEF Database

\* The writes for a row leave tables of the schema, if a fingerprint believed known is there.
LEMMA WrittenType ==
  ASSUME NEW d \in Database, NEW r \in Row, NEW ts \in Time, NEW known \in BOOLEAN,
         r.kind = "top_queries" /\ known => d.texts[KeyOf(r)] # NoRow
  PROVE  Written(d, r, ts, known) \in Database
<1>1. CASE r.kind = "top_queries" /\ known
  <2>1. UpdatedText(d, r, ts) \in Database
    BY <1>1, UpdatedTextType
  <2> QED BY <1>1, <2>1, ReplacedType DEF Written, KeyedKind
<1>2. CASE r.kind = "top_queries" /\ ~ known
  BY <1>2, NewTextType, ReplacedType DEF Written, KeyedKind
<1>3. CASE r.kind = "tables"
  BY <1>3, ReplacedType DEF Written, KeyedKind
<1>4. CASE r.kind \notin {"top_queries", "tables"}
  <2>1. r.kind \in EventKind
    BY <1>4 DEF Row, Kind, KeyedKind
  <2> QED BY <1>4, <2>1, AppendedType DEF Written
<1> QED BY <1>1, <1>2, <1>3, <1>4

LEMMA PrunedType ==
  ASSUME NEW d \in Database, NEW cutoff \in Int, clock \in Time
  PROVE  Pruned(d, cutoff) \in Database
<1>1. [at |-> clock, cutoff |-> cutoff] \in [at : Time, cutoff : Int]
  OBVIOUS
<1>2. Append(d.prunes, [at |-> clock, cutoff |-> cutoff]) \in Seq([at : Time, cutoff : Int])
  BY <1>1, AppendProperties DEF Database
<1> QED BY <1>2 DEF Pruned, Database

-----------------------------------------------------------------------------
(* What the writes keep.                                                   *)

\* A sample can be stored for a fingerprint that has its text.
LEMMA ReplacedSound ==
  ASSUME NEW d \in Database, NEW r \in Row, NEW ts \in Time, Sound(d),
         r.kind = "top_queries" => d.texts[KeyOf(r)] # NoRow
  PROVE  Sound(Replaced(d, r, ts)) /\ KeepsTexts(d, Replaced(d, r, ts))
<1> DEFINE e == Replaced(d, r, ts)
<1>1. e.texts = d.texts /\ e.audit = d.audit
  BY DEF Replaced, Database
<1>2. \A p \in e.keyed : p \in d.keyed \/ (p.kind = r.kind /\ p.key = KeyOf(r))
  BY DEF Replaced, Database
<1> QED BY <1>1, <1>2 DEF Sound, KeepsTexts

LEMMA AppendedSound ==
  ASSUME NEW d \in Database, NEW r \in Row, NEW ts \in Time, Sound(d)
  PROVE  Sound(Appended(d, r, ts)) /\ KeepsTexts(d, Appended(d, r, ts))
<1>1. /\ Appended(d, r, ts).texts = d.texts /\ Appended(d, r, ts).audit = d.audit
      /\ Appended(d, r, ts).keyed = d.keyed
  BY DEF Appended, Database
<1> QED BY <1>1 DEF Sound, KeepsTexts

LEMMA UpdatedTextSound ==
  ASSUME NEW d \in Database, NEW r \in Row, NEW ts \in Time, Sound(d),
         d.texts[KeyOf(r)] # NoRow
  PROVE  /\ Sound(UpdatedText(d, r, ts)) /\ KeepsTexts(d, UpdatedText(d, r, ts))
         /\ UpdatedText(d, r, ts).texts[KeyOf(r)] # NoRow
<1> DEFINE e == UpdatedText(d, r, ts)
           row == [d.texts[KeyOf(r)] EXCEPT !.last_seen = ts, !.avg_ms = r.mean_ms]
<1>1. KeyOf(r) \in Key /\ r.mean_ms \in Mean
  BY KeyType DEF Row
<1>2. d.texts[KeyOf(r)] \in TextRow
  BY <1>1 DEF Database
<1>3. row \in TextRow /\ row.first_seen = d.texts[KeyOf(r)].first_seen
  BY <1>1, <1>2 DEF TextRow
<1>4. row # NoRow
  BY <1>3, RowAssumption
<1>5. e.texts = [d.texts EXCEPT ![KeyOf(r)] = row] /\ e.audit = d.audit /\ e.keyed = d.keyed
  BY DEF UpdatedText, Database
<1>6. \A k \in Key : e.texts[k] = IF k = KeyOf(r) THEN row ELSE d.texts[k]
  BY <1>1, <1>5 DEF Database
<1>7. KeepsTexts(d, e)
  BY <1>3, <1>4, <1>6 DEF KeepsTexts
<1>8. \A p \in d.keyed : p.key \in Key
  BY DEF Database, KeyedRow
<1>9. Sound(e)
  BY <1>1, <1>4, <1>5, <1>6, <1>8 DEF Sound
<1> QED BY <1>1, <1>4, <1>6, <1>7, <1>9

LEMMA NewTextSound ==
  ASSUME NEW d \in Database, NEW r \in Row, NEW ts \in Time, Sound(d),
         d.texts[KeyOf(r)] = NoRow
  PROVE  /\ Sound(NewText(d, r, ts)) /\ KeepsTexts(d, NewText(d, r, ts))
         /\ NewText(d, r, ts).texts[KeyOf(r)] # NoRow
<1> DEFINE e == NewText(d, r, ts)
           row == [first_seen |-> ts, last_seen |-> ts, avg_ms |-> r.mean_ms]
<1>1. KeyOf(r) \in Key /\ r.mean_ms \in Mean
  BY KeyType DEF Row
<1>2. row \in TextRow
  BY <1>1 DEF TextRow
<1>3. row # NoRow
  BY <1>2, RowAssumption
<1>4. /\ e.texts = [d.texts EXCEPT ![KeyOf(r)] = row]
      /\ e.audit = [d.audit EXCEPT ![KeyOf(r)] = d.audit[KeyOf(r)] + 1]
      /\ e.keyed = d.keyed
  BY DEF NewText, Database
<1>5. \A k \in Key : /\ e.texts[k] = IF k = KeyOf(r) THEN row ELSE d.texts[k]
                     /\ e.audit[k] = IF k = KeyOf(r) THEN d.audit[KeyOf(r)] + 1 ELSE d.audit[k]
  BY <1>1, <1>4 DEF Database
<1>6. d.audit[KeyOf(r)] = 0
  BY <1>1 DEF Sound
<1>7. \A p \in d.keyed : p.key \in Key
  BY DEF Database, KeyedRow
<1>8. \A k \in Key : e.audit[k] = IF e.texts[k] = NoRow THEN 0 ELSE 1
  BY <1>3, <1>5, <1>6 DEF Sound
<1>9. \A p \in e.keyed : p.kind = "top_queries" => e.texts[p.key] # NoRow
  BY <1>3, <1>4, <1>5, <1>7 DEF Sound
<1>10. KeepsTexts(d, e)
  BY <1>5 DEF KeepsTexts
<1> QED BY <1>1, <1>3, <1>5, <1>8, <1>9, <1>10 DEF Sound

LEMMA KeepsTextsTransitive ==
  ASSUME NEW c, NEW d, NEW e, KeepsTexts(c, d), KeepsTexts(d, e)
  PROVE  KeepsTexts(c, e)
BY DEF KeepsTexts

\* The writes for a row keep the tables sound, provided that the earlier SELECT still tells
\* the truth about the fingerprint, and no fingerprint is lost or renewed.
LEMMA WrittenSound ==
  ASSUME NEW d \in Database, NEW r \in Row, NEW ts \in Time, NEW known \in BOOLEAN, Sound(d),
         r.kind = "top_queries" => (known <=> d.texts[KeyOf(r)] # NoRow)
  PROVE  Sound(Written(d, r, ts, known)) /\ KeepsTexts(d, Written(d, r, ts, known))
<1>1. CASE r.kind = "top_queries" /\ known
  <2> DEFINE e == UpdatedText(d, r, ts)
  <2>1. e \in Database
    BY <1>1, UpdatedTextType
  <2>2. Sound(e) /\ KeepsTexts(d, e) /\ e.texts[KeyOf(r)] # NoRow
    BY <1>1, UpdatedTextSound
  <2>3. Written(d, r, ts, known) = Replaced(e, r, ts)
    BY <1>1 DEF Written
  <2> HIDE DEF e
  <2> QED BY <2>1, <2>2, <2>3, ReplacedSound, KeepsTextsTransitive
<1>2. CASE r.kind = "top_queries" /\ ~ known
  <2> DEFINE e == NewText(d, r, ts)
  <2>1. e \in Database
    BY NewTextType
  <2>2. Sound(e) /\ KeepsTexts(d, e) /\ e.texts[KeyOf(r)] # NoRow
    BY <1>2, NewTextSound
  <2>3. Written(d, r, ts, known) = Replaced(e, r, ts)
    BY <1>2 DEF Written
  <2> HIDE DEF e
  <2> QED BY <2>1, <2>2, <2>3, ReplacedSound, KeepsTextsTransitive
<1>3. CASE r.kind = "tables"
  BY <1>3, ReplacedSound DEF Written
<1>4. CASE r.kind \notin {"top_queries", "tables"}
  BY <1>4, AppendedSound DEF Written
<1> QED BY <1>1, <1>2, <1>3, <1>4

\* Retention takes samples and events away, never an identity.
LEMMA PrunedSound ==
  ASSUME NEW d \in Database, NEW cutoff \in Int, Sound(d)
  PROVE  Sound(Pruned(d, cutoff)) /\ KeepsTexts(d, Pruned(d, cutoff))
<1>1. /\ Pruned(d, cutoff).texts = d.texts /\ Pruned(d, cutoff).audit = d.audit
      /\ Pruned(d, cutoff).keyed \subseteq d.keyed
  BY DEF Pruned, Database
<1> QED BY <1>1 DEF Sound, KeepsTexts

-----------------------------------------------------------------------------
(* What an average has to do with the samples.                             *)

\* A query whose text was just written gets its sample; the other queries keep theirs.
LEMMA ReplacedMatch ==
  ASSUME NEW d \in Database, NEW e \in Database, NEW r \in Row, NEW ts \in Time,
         TextsMatch(d), e.keyed = d.keyed, e.prunes = d.prunes,
         \A k \in Key \ {KeyOf(r)} : e.texts[k] = d.texts[k],
         r.kind = "top_queries",
         e.texts[KeyOf(r)].last_seen = ts, e.texts[KeyOf(r)].avg_ms = r.mean_ms
  PROVE  TextsMatch(Replaced(e, r, ts))
<1> DEFINE f == Replaced(e, r, ts)
           n == [kind |-> r.kind, key |-> KeyOf(r), ts |-> ts, mean_ms |-> r.mean_ms]
<1>1. f.texts = e.texts /\ f.prunes = d.prunes
  BY DEF Replaced, Database
<1>2. f.keyed = {p \in d.keyed : ~ (p.kind = r.kind /\ p.key = KeyOf(r) /\ p.ts = ts)} \cup {n}
  BY DEF Replaced, Database
<1> HIDE DEF f
<1>3. SampleOf(f, KeyOf(r))
  <2>1. n \in f.keyed
    BY <1>2
  <2>2. n.kind = "top_queries" /\ n.key = KeyOf(r) /\ n.ts = ts /\ n.mean_ms = r.mean_ms
    OBVIOUS
  <2>3. n.ts = f.texts[KeyOf(r)].last_seen /\ n.mean_ms = f.texts[KeyOf(r)].avg_ms
    BY <1>1, <2>2
  <2> HIDE DEF n
  <2> QED BY <2>1, <2>2, <2>3 DEF SampleOf
<1>4. ASSUME NEW k \in Key \ {KeyOf(r)}, SampleOf(d, k) PROVE SampleOf(f, k)
  BY <1>1, <1>2, <1>4 DEF SampleOf
<1>5. ASSUME NEW k \in Key \ {KeyOf(r)}, PrunedSince(d, d.texts[k].last_seen)
      PROVE  PrunedSince(f, f.texts[k].last_seen)
  BY <1>1, <1>5 DEF PrunedSince
<1>6. ASSUME NEW k \in Key, f.texts[k] # NoRow
      PROVE  SampleOf(f, k) \/ PrunedSince(f, f.texts[k].last_seen)
  <2>1. CASE k = KeyOf(r)
    BY <1>3, <2>1
  <2>2. CASE k # KeyOf(r)
    BY <1>1, <1>4, <1>5, <1>6, <2>2 DEF TextsMatch
  <2> QED BY <2>1, <2>2
<1> QED BY <1>6 DEF TextsMatch, f

\* Rows of other kinds touch neither the texts nor the queries' samples.
LEMMA OtherRowsMatch ==
  ASSUME NEW d \in Database, NEW r \in Row, NEW ts \in Time, TextsMatch(d)
  PROVE  /\ r.kind # "top_queries" => TextsMatch(Replaced(d, r, ts))
         /\ TextsMatch(Appended(d, r, ts))
<1> DEFINE Q(d1) == {p \in d1.keyed : p.kind = "top_queries"}
<1>1. ASSUME NEW e, e.texts = d.texts, e.prunes = d.prunes, Q(d) \subseteq Q(e)
      PROVE  TextsMatch(e)
  BY <1>1 DEF TextsMatch, SampleOf, PrunedSince
<1>2. ASSUME r.kind # "top_queries" PROVE TextsMatch(Replaced(d, r, ts))
  <2>1. Replaced(d, r, ts).texts = d.texts /\ Replaced(d, r, ts).prunes = d.prunes
    BY DEF Replaced, Database
  <2>2. Q(d) \subseteq Q(Replaced(d, r, ts))
    BY <1>2 DEF Replaced, Database
  <2> QED BY <1>1, <2>1, <2>2
<1>3. TextsMatch(Appended(d, r, ts))
  <2>1. /\ Appended(d, r, ts).texts = d.texts /\ Appended(d, r, ts).prunes = d.prunes
        /\ Appended(d, r, ts).keyed = d.keyed
    BY DEF Appended, Database
  <2> QED BY <1>1, <2>1
<1> QED BY <1>2, <1>3

\* The writes for a row change a query's average and its sample together.
LEMMA WrittenMatch ==
  ASSUME NEW d \in Database, NEW r \in Row, NEW ts \in Time, NEW known \in BOOLEAN,
         TextsMatch(d), r.kind = "top_queries" /\ known => d.texts[KeyOf(r)] # NoRow
  PROVE  TextsMatch(Written(d, r, ts, known))
<1>0. KeyOf(r) \in Key /\ r.mean_ms \in Mean
  BY KeyType DEF Row
<1>1. CASE r.kind = "top_queries" /\ known
  <2> DEFINE e == UpdatedText(d, r, ts)
             row == [d.texts[KeyOf(r)] EXCEPT !.last_seen = ts, !.avg_ms = r.mean_ms]
  <2>1. e \in Database
    BY <1>1, UpdatedTextType
  <2>2. d.texts[KeyOf(r)] \in TextRow
    BY <1>0, <1>1 DEF Database
  <2>3. row.last_seen = ts /\ row.avg_ms = r.mean_ms
    BY <2>2 DEF TextRow
  <2>4. /\ e.texts = [d.texts EXCEPT ![KeyOf(r)] = row]
        /\ e.keyed = d.keyed /\ e.prunes = d.prunes
    BY DEF UpdatedText, Database
  <2>5. \A k \in Key : e.texts[k] = IF k = KeyOf(r) THEN row ELSE d.texts[k]
    BY <1>0, <2>4 DEF Database
  <2>6. Written(d, r, ts, known) = Replaced(e, r, ts)
    BY <1>1 DEF Written
  <2> HIDE DEF e, row
  <2>7. /\ \A k \in Key \ {KeyOf(r)} : e.texts[k] = d.texts[k]
        /\ e.texts[KeyOf(r)].last_seen = ts /\ e.texts[KeyOf(r)].avg_ms = r.mean_ms
    BY <1>0, <2>3, <2>5
  <2>8. TextsMatch(Replaced(e, r, ts))
    BY <1>1, <2>1, <2>4, <2>7, ReplacedMatch
  <2> QED BY <2>6, <2>8
<1>2. CASE r.kind = "top_queries" /\ ~ known
  <2> DEFINE e == NewText(d, r, ts)
             row == [first_seen |-> ts, last_seen |-> ts, avg_ms |-> r.mean_ms]
  <2>1. e \in Database
    BY NewTextType
  <2>2. row.last_seen = ts /\ row.avg_ms = r.mean_ms
    OBVIOUS
  <2>3. /\ e.texts = [d.texts EXCEPT ![KeyOf(r)] = row]
        /\ e.keyed = d.keyed /\ e.prunes = d.prunes
    BY DEF NewText, Database
  <2>4. \A k \in Key : e.texts[k] = IF k = KeyOf(r) THEN row ELSE d.texts[k]
    BY <1>0, <2>3 DEF Database
  <2>5. Written(d, r, ts, known) = Replaced(e, r, ts)
    BY <1>2 DEF Written
  <2> HIDE DEF e, row
  <2>6. /\ \A k \in Key \ {KeyOf(r)} : e.texts[k] = d.texts[k]
        /\ e.texts[KeyOf(r)].last_seen = ts /\ e.texts[KeyOf(r)].avg_ms = r.mean_ms
    BY <1>0, <2>2, <2>4
  <2>7. TextsMatch(Replaced(e, r, ts))
    BY <1>2, <2>1, <2>3, <2>6, ReplacedMatch
  <2> QED BY <2>5, <2>7
<1>3. CASE r.kind = "tables"
  BY <1>3, OtherRowsMatch DEF Written
<1>4. CASE r.kind \notin {"top_queries", "tables"}
  BY <1>4, OtherRowsMatch DEF Written
<1> QED BY <1>1, <1>2, <1>3, <1>4

\* A sample that retention takes away is older than the cutoff that the audit entry has.
LEMMA PrunedMatch ==
  ASSUME NEW d \in Database, NEW cutoff \in Int, clock \in Time, TextsMatch(d)
  PROVE  TextsMatch(Pruned(d, cutoff))
<1> DEFINE e == Pruned(d, cutoff)
           entry == [at |-> clock, cutoff |-> cutoff]
<1>0. d.prunes \in Seq([at : Time, cutoff : Int]) /\ entry \in [at : Time, cutoff : Int]
  BY DEF Database
<1>1. /\ e.texts = d.texts /\ e.keyed = {p \in d.keyed : p.ts >= cutoff}
      /\ e.prunes = Append(d.prunes, entry)
  BY DEF Pruned, Database
<1>2. /\ Len(d.prunes) \in Nat /\ Len(e.prunes) = Len(d.prunes) + 1
      /\ \A j \in 1 .. Len(d.prunes) : e.prunes[j] = d.prunes[j]
      /\ e.prunes[Len(d.prunes) + 1] = entry
  BY <1>0, <1>1, AppendProperties
<1> HIDE DEF e
<1>3. ASSUME NEW ts, PrunedSince(d, ts) PROVE PrunedSince(e, ts)
  BY <1>2, <1>3 DEF PrunedSince
<1>4. ASSUME NEW ts \in Time, ts < cutoff PROVE PrunedSince(e, ts)
  BY <1>2, <1>4 DEF PrunedSince
<1>5. ASSUME NEW k \in Key, SampleOf(d, k)
      PROVE  SampleOf(e, k) \/ PrunedSince(e, e.texts[k].last_seen)
  <2>1. PICK p \in d.keyed : /\ p.kind = "top_queries" /\ p.key = k
                             /\ p.ts = d.texts[k].last_seen /\ p.mean_ms = d.texts[k].avg_ms
    BY <1>5 DEF SampleOf
  <2>2. p.ts \in Time /\ p.ts \in Int
    BY DEF Database, KeyedRow, Time
  <2>3. CASE p.ts >= cutoff
    BY <1>1, <2>1, <2>3 DEF SampleOf
  <2>4. CASE p.ts < cutoff
    BY <1>1, <1>4, <2>1, <2>2, <2>4
  <2> QED BY <2>2, <2>3, <2>4
<1> QED BY <1>1, <1>3, <1>5 DEF TextsMatch, e

-----------------------------------------------------------------------------
(* One step of a thread, of a process or of the clock.                     *)

IInv == TypeOK /\ Isolation

LEMMA InitInv == Init => IInv
<1> SUFFICES ASSUME Init PROVE IInv
  OBVIOUS
<1>1. Idle \in Job /\ Idle.pc = "idle"
  BY TimeAssumption DEF Idle, Job, PC, Answer, Time
<1>2. TypeOK
  BY <1>1, EmptyDatabaseType, TimeAssumption DEF Init, TypeOK, Time
<1>3. Sound(EmptyDatabase) /\ KeepsTexts(EmptyDatabase, EmptyDatabase)
  BY DEF Sound, KeepsTexts, EmptyDatabase
<1>4. Isolation
  BY <1>1, <1>3 DEF Init, Isolation, LockDiscipline, TablesSound, ThreadsInStep
<1> QED BY <1>2, <1>4 DEF IInv

\* The row a thread is at is a row of its payload.
LEMMA RowAtType ==
  ASSUME TypeOK, NEW w \in Worker, job[w].req \in Snapshot, job[w].pos <= Len(Request(w))
  PROVE  RowAt(w) \in Row
<1>1. Request(w) \in Seq(Row)
  BY BatchType DEF Request
<1>2. job[w].pos \in 1 .. Len(Request(w))
  BY <1>1 DEF TypeOK, Job
<1> QED BY <1>1, <1>2, ElementOfSeq DEF RowAt

LEMMA KeepsTextsReflexive ==
  ASSUME NEW d
  PROVE  KeepsTexts(d, d)
BY DEF KeepsTexts

\* Whatever a thread sees is of the schema, sound, and ahead of the committed tables.
LEMMA ViewSound ==
  ASSUME IInv, NEW w \in Worker
  PROVE  View(w) \in Database /\ Sound(View(w)) /\ KeepsTexts(db, View(w))
BY KeepsTextsReflexive DEF IInv, TypeOK, Isolation, TablesSound, View

\* The statements for a row leave uncommitted tables that are sound and ahead of the
\* committed ones.
LEMMA WriteEffect ==
  ASSUME IInv, NEW w \in Worker, Write(w)
  PROVE  tx' \in Database /\ Sound(tx') /\ KeepsTexts(db, tx')
<1>1. View(w) \in Database /\ Sound(View(w)) /\ KeepsTexts(db, View(w))
  BY ViewSound
<1>2. /\ job[w].req \in Snapshot
      /\ job[w].pos <= Len(Request(w))
      /\ RowAt(w).kind = "top_queries" => job[w].pc = "write"
  BY DEF Write, AtWrite, IInv, Isolation, ThreadsInStep, AtIdentity
<1>3. RowAt(w) \in Row
  BY <1>2, RowAtType DEF IInv
<1>4. RowAt(w).kind = "top_queries" =>
        (job[w].known <=> View(w).texts[KeyOf(RowAt(w))] # NoRow)
  BY <1>2 DEF Write, Duplicate, IInv, Isolation, ThreadsInStep, AtIdentity
<1>5. job[w].ts \in Time /\ job[w].known \in BOOLEAN
  BY DEF IInv, TypeOK, Job
<1>6. tx' = Written(View(w), RowAt(w), job[w].ts, job[w].known)
  BY DEF Write
<1>7. tx' \in Database
  BY <1>1, <1>3, <1>4, <1>5, <1>6, WrittenType
<1>8. Sound(tx') /\ KeepsTexts(View(w), tx')
  BY <1>1, <1>3, <1>4, <1>5, <1>6, WrittenSound
<1> QED BY <1>1, <1>7, <1>8, KeepsTextsTransitive

LEMMA PruneEffect ==
  ASSUME IInv, NEW w \in Worker, PruneDelete(w)
  PROVE  tx' \in Database /\ Sound(tx') /\ KeepsTexts(db, tx')
<1>1. View(w) \in Database /\ Sound(View(w)) /\ KeepsTexts(db, View(w))
  BY ViewSound
<1>2. job[w].cutoff \in Int /\ clock \in Time
  BY DEF IInv, TypeOK, Job
<1>3. tx' = Pruned(View(w), job[w].cutoff)
  BY DEF PruneDelete
<1>4. tx' \in Database
  BY <1>1, <1>2, <1>3, PrunedType
<1>5. Sound(tx') /\ KeepsTexts(View(w), tx')
  BY <1>1, <1>2, <1>3, PrunedSound
<1> QED BY <1>1, <1>4, <1>5, KeepsTextsTransitive

\* A thread that is about to write keeps its place while others work: what it saw stays.
LEMMA AtIdentityKept ==
  ASSUME TypeOK, NEW w \in Worker, AtIdentity(w), job[w].req \in Snapshot,
         job'[w] = job[w], KeepsTexts(View(w), View(w)')
  PROVE  AtIdentity(w)'
<1>1. Request(w)' = Request(w) /\ RowAt(w)' = RowAt(w)
  BY DEF Request, RowAt
<1>2. RowAt(w) \in Row
  BY RowAtType DEF AtIdentity
<1>3. KeyOf(RowAt(w)) \in Key
  BY <1>2, KeyType
<1> QED BY <1>1, <1>3 DEF AtIdentity, KeepsTexts

-----------------------------------------------------------------------------
(* Every step keeps the types.                                             *)

LEMMA IdleType == Idle \in Job /\ Idle.pc = "idle" /\ Idle.req = NoRequest
BY TimeAssumption DEF Idle, Job, PC, Answer, Time

LEMMA RetentionType ==
  ASSUME NEW p \in Process
  PROVE  RetentionOf(p) \in Nat
BY TimeAssumption DEF RetentionOf

LEMMA TypeStep ==
  ASSUME IInv, [Next]_vars
  PROVE  TypeOK'
<1> USE DEF IInv
<1>1. ASSUME NEW w \in Worker, Select(w) PROVE TypeOK'
  <2> DEFINE k == View(w).texts[KeyOf(RowAt(w))] # NoRow
  <2>1. k \in BOOLEAN
    OBVIOUS
  <2>2. job' = [job EXCEPT ![w] = [job[w] EXCEPT !.pc = "write", !.known = k]]
    BY <1>1 DEF Select
  <2> HIDE DEF k
  <2>3. [job[w] EXCEPT !.pc = "write", !.known = k] \in Job
    BY <2>1 DEF TypeOK, Job, PC
  <2> QED BY <1>1, <2>2, <2>3 DEF Select, TypeOK
<1>2. ASSUME NEW w \in Worker, Write(w) PROVE TypeOK'
  <2>1. tx' \in Database
    BY <1>2, WriteEffect
  <2> QED BY <1>2, <2>1 DEF Write, TypeOK, Job, PC
<1>3. ASSUME NEW w \in Worker, Conflict(w) PROVE TypeOK'
  BY <1>3 DEF Conflict, Rollback, TypeOK, Job, PC, Answer
<1>4. ASSUME NEW w \in Worker, Commit(w) PROVE TypeOK'
  BY <1>4 DEF Commit, TypeOK, Job, PC
<1>5. ASSUME NEW w \in Worker, MaybePrune(w) PROVE TypeOK'
  <2>1. ServerOf[w] \in Process
    BY ProcessAssumption
  <2>2. clock - RetentionOf(ServerOf[w]) \in Int
    BY <2>1, RetentionType, TimeAssumption DEF TypeOK, Time
  <2>3. /\ [job[w] EXCEPT !.pc = "prune", !.cutoff = clock - RetentionOf(ServerOf[w])] \in Job
        /\ [job[w] EXCEPT !.pc = "ok"] \in Job
    BY <2>2 DEF TypeOK, Job, PC, Answer
  <2>4. job' \in [Worker -> Job]
    BY <1>5, <2>3 DEF MaybePrune, TypeOK
  <2> QED BY <1>5, <2>4 DEF MaybePrune, TypeOK
<1>6. ASSUME NEW w \in Worker, PruneCommand(w) PROVE TypeOK'
  <2>1. ServerOf[w] \in Process
    BY ProcessAssumption
  <2>2. clock - RetentionOf(ServerOf[w]) \in Int
    BY <2>1, RetentionType, TimeAssumption DEF TypeOK, Time
  <2>3. [Idle EXCEPT !.pc = "prune", !.cutoff = clock - RetentionOf(ServerOf[w])] \in Job
    BY <2>2, IdleType DEF Job, PC
  <2> QED BY <1>6, <2>3 DEF PruneCommand, TypeOK
<1>7. ASSUME NEW w \in Worker, PruneDelete(w) PROVE TypeOK'
  <2>1. tx' \in Database
    BY <1>7, PruneEffect
  <2> QED BY <1>7, <2>1 DEF PruneDelete, TypeOK, Job, PC
<1>8. ASSUME NEW w \in Worker, PruneCommit(w) PROVE TypeOK'
  BY <1>8 DEF PruneCommit, TypeOK, Job, PC
<1>9. ASSUME NEW w \in Worker, Stamp(w) PROVE TypeOK'
  BY <1>9 DEF Stamp, TypeOK, Job, PC, Answer
<1>10. ASSUME NEW w \in Worker, BusyTimeout(w) PROVE TypeOK'
  BY <1>10 DEF BusyTimeout, TypeOK, Job, PC, Answer
<1>11. ASSUME NEW w \in Worker, Respond(w) PROVE TypeOK'
  BY <1>11, IdleType DEF Respond, TypeOK
<1>12. ASSUME NEW w \in Worker, StatementFails(w) PROVE TypeOK'
  BY <1>12 DEF StatementFails, Rollback, TypeOK, Job, PC, Answer
<1>13. ASSUME NEW w \in Worker, NEW s \in Snapshot, Receive(w, s) PROVE TypeOK'
  <2> DEFINE ts == IF s.collected_at = NoTime THEN clock ELSE s.collected_at
  <2>1. ts \in Time
    BY PayloadAssumption DEF Payload, TypeOK
  <2>2. [Idle EXCEPT !.pc = "row", !.req = s, !.ts = ts] \in Job
    BY <2>1, IdleType DEF Job, PC
  <2> HIDE DEF ts
  <2>3. job' = [job EXCEPT ![w] = [Idle EXCEPT !.pc = "row", !.req = s, !.ts = ts]]
    BY <1>13 DEF Receive, ts
  <2> QED BY <1>13, <2>2, <2>3 DEF Receive, TypeOK
<1>14. ASSUME NEW p \in Process, Restart(p) PROVE TypeOK'
  BY <1>14, IdleType, TimeAssumption DEF Restart, TypeOK, Time
<1>15. ASSUME Tick PROVE TypeOK'
  BY <1>15, TimeAssumption DEF Tick, TypeOK, Time
<1>16. ASSUME UNCHANGED vars PROVE TypeOK'
  BY <1>16 DEF vars, TypeOK
<1> QED BY <1>1, <1>2, <1>3, <1>4, <1>5, <1>6, <1>7, <1>8, <1>9, <1>10, <1>11, <1>12,
           <1>13, <1>14, <1>15, <1>16 DEF Next, Step

-----------------------------------------------------------------------------
(* Every step keeps the lock discipline, the tables and the threads.       *)

LEMMA LockStep ==
  ASSUME IInv, [Next]_vars
  PROVE  LockDiscipline'
<1> USE DEF IInv, Isolation, LockDiscipline
<1>0. job \in [Worker -> Job] /\ NoWorker \notin Worker
  BY ProcessAssumption DEF TypeOK
<1>1. ASSUME NEW w \in Worker, Select(w) \/ BusyTimeout(w) \/ Respond(w) \/ Stamp(w)
                                 \/ MaybePrune(w) \/ PruneCommand(w)
      PROVE  LockDiscipline'
  <2>1. UNCHANGED <<db, tx, writer>> /\ \A v \in Worker : v # w => job'[v] = job[v]
    BY <1>0, <1>1 DEF Select, BusyTimeout, Respond, Stamp, MaybePrune, PruneCommand
  <2>2. job'[w].pc # "prune_commit"
    <3>1. CASE Select(w)
      BY <1>0, <3>1 DEF Select, Job
    <3>2. CASE BusyTimeout(w) \/ Stamp(w)
      BY <1>0, <3>2 DEF BusyTimeout, Stamp, Job
    <3>3. CASE MaybePrune(w)
      BY <1>0, <3>3 DEF MaybePrune, Job
    <3>4. CASE Respond(w) \/ PruneCommand(w)
      BY <1>0, <3>4, IdleType DEF Respond, PruneCommand, Job
    <3> QED BY <1>1, <3>1, <3>2, <3>3, <3>4
  <2> QED BY <2>1, <2>2
<1>2. ASSUME NEW w \in Worker, Write(w) PROVE LockDiscipline'
  <2>1. \A v \in Worker : job'[v].pc = "prune_commit" => v # w /\ job[v].pc = "prune_commit"
    BY <1>0, <1>2 DEF Write, Job
  <2> QED BY <1>0, <1>2, <2>1 DEF Write, LockFree
<1>3. ASSUME NEW w \in Worker, Conflict(w) \/ StatementFails(w) PROVE LockDiscipline'
  <2>1. \A v \in Worker : job'[v].pc = "prune_commit" => v # w /\ job[v].pc = "prune_commit"
    BY <1>0, <1>3 DEF Conflict, StatementFails, Job
  <2> QED BY <1>3, <2>1 DEF Conflict, StatementFails, Rollback
<1>4. ASSUME NEW w \in Worker, Commit(w) PROVE LockDiscipline'
  <2>1. \A v \in Worker : job'[v].pc = "prune_commit" => v # w /\ job[v].pc = "prune_commit"
    BY <1>0, <1>4 DEF Commit, Job
  <2> QED BY <1>4, <2>1 DEF Commit
<1>5. ASSUME NEW w \in Worker, PruneDelete(w) PROVE LockDiscipline'
  <2>1. \A v \in Worker : job'[v].pc = "prune_commit" => v = w \/ job[v].pc = "prune_commit"
    BY <1>0, <1>5 DEF PruneDelete, Job
  <2> QED BY <1>0, <1>5, <2>1 DEF PruneDelete, LockFree
<1>6. ASSUME NEW w \in Worker, PruneCommit(w) PROVE LockDiscipline'
  <2>1. \A v \in Worker : job'[v].pc = "prune_commit" => v # w /\ job[v].pc = "prune_commit"
    BY <1>0, <1>6 DEF PruneCommit, Job
  <2> QED BY <1>6, <2>1 DEF PruneCommit
<1>7. ASSUME NEW w \in Worker, NEW s \in Snapshot, Receive(w, s) PROVE LockDiscipline'
  <2>1. \A v \in Worker : job'[v].pc = "prune_commit" => job[v].pc = "prune_commit"
    BY <1>0, <1>7, IdleType DEF Receive, Job
  <2> QED BY <1>7, <2>1 DEF Receive
<1>8. ASSUME NEW p \in Process, Restart(p) PROVE LockDiscipline'
  <2>1. \A v \in Worker : job'[v].pc = "prune_commit" =>
                            ServerOf[v] # p /\ job[v].pc = "prune_commit"
    BY <1>8, IdleType DEF Restart
  <2> QED BY <1>0, <1>8, <2>1 DEF Restart
<1>9. ASSUME Tick \/ UNCHANGED vars PROVE LockDiscipline'
  BY <1>9 DEF Tick, vars
<1> QED BY <1>1, <1>2, <1>3, <1>4, <1>5, <1>6, <1>7, <1>8, <1>9 DEF Next, Step

LEMMA TablesStep ==
  ASSUME IInv, [Next]_vars
  PROVE  TablesSound' /\ KeepsTexts(db, db')
<1>1. Sound(db) /\ Sound(tx) /\ KeepsTexts(db, tx) /\ KeepsTexts(db, db)
  BY KeepsTextsReflexive DEF IInv, Isolation, TablesSound
<1>2. ASSUME db' = db, tx' \in {db, tx} PROVE TablesSound' /\ KeepsTexts(db, db')
  BY <1>1, <1>2 DEF TablesSound
<1>3. ASSUME db' = tx, tx' = tx PROVE TablesSound' /\ KeepsTexts(db, db')
  BY <1>1, <1>3, KeepsTextsReflexive DEF TablesSound
<1>4. ASSUME NEW w \in Worker, Write(w) \/ PruneDelete(w)
      PROVE  TablesSound' /\ KeepsTexts(db, db')
  <2>1. db' = db /\ Sound(tx') /\ KeepsTexts(db, tx')
    BY <1>4, WriteEffect, PruneEffect DEF Write, PruneDelete
  <2> QED BY <1>1, <2>1 DEF TablesSound
<1>5. ASSUME NEW w \in Worker, Commit(w) \/ PruneCommit(w)
      PROVE  tx' = tx /\ db' \in {db, tx}
  BY <1>5 DEF Commit, PruneCommit
<1>6. ASSUME NEW w \in Worker, Conflict(w) \/ StatementFails(w)
      PROVE  db' = db /\ tx' \in {db, tx}
  BY <1>6 DEF Conflict, StatementFails, Rollback
<1>7. ASSUME NEW w \in Worker, Select(w) \/ BusyTimeout(w) \/ Respond(w) \/ Stamp(w)
                                 \/ MaybePrune(w) \/ PruneCommand(w)
      PROVE  db' = db /\ tx' = tx
  BY <1>7 DEF Select, BusyTimeout, Respond, Stamp, MaybePrune, PruneCommand
<1>8. ASSUME NEW w \in Worker, NEW s \in Snapshot, Receive(w, s) PROVE db' = db /\ tx' = tx
  BY <1>8 DEF Receive
<1>9. ASSUME NEW p \in Process, Restart(p) PROVE db' = db /\ tx' \in {db, tx}
  BY <1>9 DEF Restart
<1>10. ASSUME Tick \/ UNCHANGED vars PROVE db' = db /\ tx' = tx
  BY <1>10 DEF Tick, vars
<1> QED BY <1>2, <1>3, <1>4, <1>5, <1>6, <1>7, <1>8, <1>9, <1>10 DEF Next, Step

\* While a thread works, what any other thread sees loses no fingerprint: it may be committed
\* to under it, but only by the holder of the lock, and only the tables that are ahead.
LEMMA OthersView ==
  ASSUME IInv, [Next]_vars, NEW v \in Worker, job'[v] = job[v], job[v].pc = "write"
  PROVE  KeepsTexts(View(v), View(v)')
<1> USE DEF IInv, Isolation
<1>0. job \in [Worker -> Job] /\ NoWorker \notin Worker /\ NoRequest \notin Snapshot
  BY ProcessAssumption, PayloadAssumption DEF TypeOK
<1>1. KeepsTexts(db, db) /\ KeepsTexts(tx, tx) /\ KeepsTexts(db, tx)
  BY KeepsTextsReflexive DEF TablesSound
<1>2. ASSUME UNCHANGED <<db, tx, writer>> PROVE KeepsTexts(View(v), View(v)')
  BY <1>1, <1>2 DEF View
<1>3. ASSUME NEW w \in Worker, w # v, Write(w) \/ PruneDelete(w)
      PROVE  KeepsTexts(View(v), View(v)')
  BY <1>0, <1>1, <1>3 DEF Write, PruneDelete, LockFree, View
<1>4. ASSUME NEW w \in Worker, w # v, Commit(w) PROVE KeepsTexts(View(v), View(v)')
  BY <1>0, <1>1, <1>4 DEF Commit, View
<1>5. ASSUME NEW w \in Worker, w # v, PruneCommit(w) PROVE KeepsTexts(View(v), View(v)')
  BY <1>0, <1>1, <1>5 DEF PruneCommit, LockDiscipline, View
<1>6. ASSUME NEW w \in Worker, w # v, Conflict(w) \/ StatementFails(w)
      PROVE  KeepsTexts(View(v), View(v)')
  BY <1>0, <1>1, <1>6 DEF Conflict, StatementFails, Rollback, View
<1>7. ASSUME NEW p \in Process, Restart(p) PROVE KeepsTexts(View(v), View(v)')
  <2>1. ServerOf[v] # p
    BY <1>7, IdleType DEF Restart
  <2> QED BY <1>0, <1>1, <1>7, <2>1 DEF Restart, View
<1>8. ASSUME NEW w \in Worker, Select(w) \/ BusyTimeout(w) \/ Respond(w) \/ Stamp(w)
                                 \/ MaybePrune(w) \/ PruneCommand(w)
      PROVE  UNCHANGED <<db, tx, writer>>
  BY <1>8 DEF Select, BusyTimeout, Respond, Stamp, MaybePrune, PruneCommand
<1>9. ASSUME NEW w \in Worker, NEW s \in Snapshot, Receive(w, s)
      PROVE  UNCHANGED <<db, tx, writer>>
  BY <1>9 DEF Receive
<1>10. ASSUME Tick \/ UNCHANGED vars PROVE UNCHANGED <<db, tx, writer>>
  BY <1>10 DEF Tick, vars
<1>11. ~ (Write(v) \/ PruneDelete(v) \/ Commit(v) \/ PruneCommit(v) \/ Conflict(v) \/ StatementFails(v))
  BY <1>0 DEF Write, PruneDelete, Commit, PruneCommit, Conflict, StatementFails, Job
<1> QED BY <1>2, <1>3, <1>4, <1>5, <1>6, <1>7, <1>8, <1>9, <1>10, <1>11 DEF Next, Step

LEMMA ThreadsStep ==
  ASSUME IInv, [Next]_vars
  PROVE  ThreadsInStep'
<1> USE DEF IInv, Isolation
<1> DEFINE InStep(v) == /\ job[v].pc \in {"row", "write"} => job[v].req \in Snapshot
                        /\ job[v].pc = "write" => AtIdentity(v)
<1>0. job \in [Worker -> Job]
  BY DEF TypeOK
<1>1. ASSUME NEW v \in Worker, job'[v] = job[v] PROVE InStep(v)'
  BY <1>1, OthersView, AtIdentityKept DEF ThreadsInStep
<1>2. ASSUME NEW w \in Worker, NEW v \in Worker, v # w, Step(w) \/ StatementFails(w)
      PROVE  job'[v] = job[v]
  BY <1>0, <1>2 DEF Step, Select, Write, Conflict, Commit, MaybePrune, PruneDelete,
     PruneCommit, Stamp, BusyTimeout, StatementFails, Respond
<1>3. ASSUME NEW w \in Worker, job'[w].pc \notin {"row", "write"} PROVE InStep(w)'
  BY <1>3
<1>4. ASSUME NEW w \in Worker, Select(w) PROVE InStep(w)'
  <2>1. /\ job'[w].req = job[w].req /\ job'[w].pos = job[w].pos /\ job[w].pc = "row"
        /\ job'[w].known = (View(w).texts[KeyOf(RowAt(w))] # NoRow)
    BY <1>0, <1>4 DEF Select, Job
  <2>2. Request(w)' = Request(w) /\ RowAt(w)' = RowAt(w) /\ View(w)' = View(w)
    BY <1>4, <2>1 DEF Select, Request, RowAt, View
  <2>3. AtIdentity(w)'
    BY <1>4, <2>1, <2>2 DEF Select, AtIdentity
  <2> QED BY <2>1, <2>3 DEF ThreadsInStep
<1>5. ASSUME NEW w \in Worker, Write(w) PROVE InStep(w)'
  BY <1>0, <1>5 DEF Write, AtWrite, Job, ThreadsInStep
<1>6. ASSUME NEW w \in Worker, Conflict(w) \/ Commit(w) \/ MaybePrune(w) \/ PruneDelete(w)
                \/ PruneCommit(w) \/ Stamp(w) \/ BusyTimeout(w) \/ StatementFails(w)
      PROVE  job'[w].pc \notin {"row", "write"}
  BY <1>0, <1>6 DEF Conflict, Commit, MaybePrune, PruneDelete, PruneCommit, Stamp,
     BusyTimeout, StatementFails, Job
<1>7. ASSUME NEW w \in Worker, Respond(w) PROVE InStep(w)'
  BY <1>0, <1>7, IdleType DEF Respond
<1>8. ASSUME NEW w \in Worker, Step(w) \/ StatementFails(w) PROVE ThreadsInStep'
  BY <1>1, <1>2, <1>3, <1>4, <1>5, <1>6, <1>7, <1>8 DEF Step, ThreadsInStep
<1>9. ASSUME NEW w \in Worker, NEW s \in Snapshot, Receive(w, s) PROVE ThreadsInStep'
  <2>1. job'[w].pc = "row" /\ job'[w].req = s
    BY <1>0, <1>9, IdleType DEF Receive, Job
  <2>2. \A v \in Worker \ {w} : job'[v] = job[v]
    BY <1>0, <1>9 DEF Receive
  <2> QED BY <1>1, <2>1, <2>2 DEF ThreadsInStep
<1>10. ASSUME NEW w \in Worker, PruneCommand(w) PROVE ThreadsInStep'
  <2>1. job'[w].pc = "prune" /\ \A v \in Worker \ {w} : job'[v] = job[v]
    BY <1>0, <1>10, IdleType DEF PruneCommand, Job
  <2> QED BY <1>1, <1>3, <2>1 DEF ThreadsInStep
<1>11. ASSUME NEW p \in Process, Restart(p) PROVE ThreadsInStep'
  <2>1. \A v \in Worker : job'[v] = job[v] \/ job'[v].pc = "idle"
    BY <1>11, IdleType DEF Restart
  <2> QED BY <1>1, <1>3, <2>1 DEF ThreadsInStep
<1>12. ASSUME Tick \/ UNCHANGED vars PROVE ThreadsInStep'
  <2>1. \A v \in Worker : job'[v] = job[v]
    BY <1>12 DEF Tick, vars
  <2> QED BY <1>1, <2>1 DEF ThreadsInStep
<1> QED BY <1>8, <1>9, <1>10, <1>11, <1>12 DEF Next

-----------------------------------------------------------------------------
(* Every step keeps averages and samples together.                         *)

Matched == TextsMatch(db) /\ TextsMatch(tx)

LEMMA InitMatched == Init => Matched
BY DEF Init, Matched, TextsMatch, EmptyDatabase

LEMMA MatchedStep ==
  ASSUME IInv, Matched, [Next]_vars
  PROVE  Matched'
<1> USE DEF Matched
<1>1. ASSUME NEW w \in Worker, Write(w) PROVE Matched'
  <2>1. View(w) \in Database /\ TextsMatch(View(w))
    BY ViewSound DEF View
  <2>2. /\ job[w].req \in Snapshot
        /\ job[w].pos <= Len(Request(w))
        /\ RowAt(w).kind = "top_queries" /\ job[w].known => View(w).texts[KeyOf(RowAt(w))] # NoRow
    BY <1>1 DEF Write, AtWrite, IInv, Isolation, ThreadsInStep, AtIdentity
  <2>3. RowAt(w) \in Row /\ job[w].ts \in Time /\ job[w].known \in BOOLEAN
    BY <2>2, RowAtType DEF IInv, TypeOK, Job
  <2>4. db' = db /\ tx' = Written(View(w), RowAt(w), job[w].ts, job[w].known)
    BY <1>1 DEF Write
  <2> QED BY <2>1, <2>2, <2>3, <2>4, WrittenMatch
<1>2. ASSUME NEW w \in Worker, PruneDelete(w) PROVE Matched'
  <2>1. View(w) \in Database /\ TextsMatch(View(w))
    BY ViewSound DEF View
  <2>2. job[w].cutoff \in Int /\ clock \in Time
    BY DEF IInv, TypeOK, Job
  <2>3. db' = db /\ tx' = Pruned(View(w), job[w].cutoff)
    BY <1>2 DEF PruneDelete
  <2> QED BY <2>1, <2>2, <2>3, PrunedMatch
<1>3. ASSUME NEW w \in Worker, Commit(w) \/ PruneCommit(w) \/ Conflict(w) \/ StatementFails(w)
      PROVE  Matched'
  BY <1>3 DEF Commit, PruneCommit, Conflict, StatementFails, Rollback
<1>4. ASSUME NEW w \in Worker, Select(w) \/ BusyTimeout(w) \/ Respond(w) \/ Stamp(w)
                                 \/ MaybePrune(w) \/ PruneCommand(w)
      PROVE  Matched'
  BY <1>4 DEF Select, BusyTimeout, Respond, Stamp, MaybePrune, PruneCommand
<1>5. ASSUME NEW w \in Worker, NEW s \in Snapshot, Receive(w, s) PROVE Matched'
  BY <1>5 DEF Receive
<1>6. ASSUME NEW p \in Process, Restart(p) PROVE Matched'
  BY <1>6 DEF Restart
<1>7. ASSUME Tick \/ UNCHANGED vars PROVE Matched'
  BY <1>7 DEF Tick, vars
<1> QED BY <1>1, <1>2, <1>3, <1>4, <1>5, <1>6, <1>7 DEF Next, Step

-----------------------------------------------------------------------------
(* The theorems.                                                           *)

LEMMA StepInv ==
  ASSUME IInv, [Next]_vars
  PROVE  IInv'
BY TypeStep, LockStep, TablesStep, ThreadsStep DEF IInv, Isolation

\* The types and the isolation of the transactions are an inductive invariant of the store:
\* they hold whatever requests arrive and whatever fails (class BonitoStore).
THEOREM Inductive == Spec => []IInv
BY InitInv, StepInv, PTL DEF Spec

\* Every variable always holds a value of the program's kind: in particular every row a
\* batch writes fits the schema, and an UPDATE of query_texts never misses its row.
THEOREM TypeCorrect == Spec => []TypeOK
<1>1. IInv => TypeOK
  BY DEF IInv
<1> QED BY <1>1, Inductive, PTL

\* Between transactions nothing is uncommitted, and what is uncommitted is sound.
THEOREM Isolated == Spec => []Isolation
<1>1. IInv => Isolation
  BY DEF IInv
<1> QED BY <1>1, Inductive, PTL

\* No query sample is ever committed for a fingerprint without a query_texts row
\* (_upsert_query, prune).
THEOREM SamplesIdentified == Spec => []SampleHasIdentity
<1>1. IInv => SampleHasIdentity
  BY DEF IInv, Isolation, TablesSound, Sound, SampleHasIdentity
<1> QED BY <1>1, Inductive, PTL

\* The audit log announces each fingerprint once, however many threads saw it as new.
THEOREM AuditedOnce == Spec => []OneAuditEntryPerFingerprint
<1>1. IInv => OneAuditEntryPerFingerprint
  BY DEF IInv, Isolation, TablesSound, Sound, OneAuditEntryPerFingerprint
<1> QED BY <1>1, Inductive, PTL

\* The average that a query is judged by is always that of one of its samples, or retention
\* has taken the sample (_upsert_query, prune).
THEOREM TextsMatched == Spec => []TextsMatchSamples
<1>1. IInv /\ Matched /\ [Next]_vars => Matched'
  BY MatchedStep
<1>2. Matched => TextsMatchSamples
  BY DEF Matched, TextsMatchSamples
<1> QED BY <1>1, <1>2, InitMatched, Inductive, PTL DEF Spec

\* No step forgets a committed fingerprint or changes when it was first seen.
THEOREM IdentitiesKept == Spec => IdentityKept
<1>1. IInv /\ [Next]_vars => [KeepsTexts(db, db')]_vars
  BY TablesStep
<1> QED BY <1>1, Inductive, PTL DEF Spec, IdentityKept
=============================================================================
