---------------------- MODULE BonitoTransaction_proofs ----------------------
(***************************************************************************)
(* Proofs about BonitoStore: what a transaction does to the committed      *)
(* tables.  The uncommitted tables are described, at every row of a batch  *)
(* and in a prune, by the committed ones and the rows written so far.  It  *)
(* follows what a commit changes, and from that the promises that relate   *)
(* whole snapshots to the tables.                                          *)
(***************************************************************************)
EXTENDS BonitoStore_proofs

-----------------------------------------------------------------------------
(* The tables after the first n rows of a batch.                           *)

Same(r, q) == r.kind = q.kind /\ KeyOf(r) = KeyOf(q)

\* The rows among the first n that no later one of them has replaced.
Latest(b, n) == {i \in 1 .. n : \A j \in 1 .. n : j > i => ~ Same(b[i], b[j])}

\* Every row has the latest one of its key to stand for it.  By itself this is a fact about
\* lists that needs an induction; the threads, which write row after row, provide it.
Covered(b, n) == \A i \in 1 .. n : \E j \in Latest(b, n) : Same(b[i], b[j])

Measured(b, n) == {i \in Latest(b, n) : b[i].kind \in KeyedKind}
Reported(b, n) == {i \in 1 .. n : b[i].kind \in EventKind}

KeyedOf(r, ts) == [kind |-> r.kind, key |-> KeyOf(r), ts |-> ts, mean_ms |-> r.mean_ms]

\* An event as readers see it, without its rowid.
EventOf(r, ts) == [kind |-> r.kind, key |-> KeyOf(r), ts |-> ts]
Seen(d) == {[kind |-> e.kind, key |-> e.key, ts |-> e.ts] : e \in d.events}

Names(r, k) == r.kind = "top_queries" /\ KeyOf(r) = k

TextFrom(d, k, r, ts) ==
  [first_seen |-> IF d.texts[k] = NoRow THEN ts ELSE d.texts[k].first_seen,
   last_seen  |-> ts,
   avg_ms     |-> r.mean_ms]

\* e is d with the first n rows of b written.
TextsWritten(d, e, b, ts, n) ==
  \A k \in Key :
    /\ (\A i \in 1 .. n : ~ Names(b[i], k)) => e.texts[k] = d.texts[k]
    /\ \A i \in Latest(b, n) : Names(b[i], k) => e.texts[k] = TextFrom(d, k, b[i], ts)

Overwritten(p, b, ts, n) ==
  p.ts = ts /\ \E i \in 1 .. n : b[i].kind = p.kind /\ KeyOf(b[i]) = p.key

KeyedWritten(d, e, b, ts, n) ==
  e.keyed = {p \in d.keyed : ~ Overwritten(p, b, ts, n)}
              \cup {KeyedOf(b[i], ts) : i \in Measured(b, n)}

\* One event for every row that reports one; readers cannot tell two equal ones apart.
OnePerRow(d, e, b, ts, n) ==
  \E row : /\ e.events = d.events \cup {row[i] : i \in Reported(b, n)}
           /\ \A i \in Reported(b, n) : /\ row[i].kind = b[i].kind /\ row[i].key = KeyOf(b[i])
                                        /\ row[i].ts = ts

EventsWritten(d, e, b, ts, n) ==
  /\ d.events \subseteq e.events
  /\ Seen(e) = Seen(d) \cup {EventOf(b[i], ts) : i \in Reported(b, n)}
  /\ OnePerRow(d, e, b, ts, n)

BatchWritten(d, e, b, ts, n) ==
  /\ TextsWritten(d, e, b, ts, n)
  /\ KeyedWritten(d, e, b, ts, n)
  /\ EventsWritten(d, e, b, ts, n)
  /\ e.prunes = d.prunes
  /\ Covered(b, n)

\* e is d after the DELETEs of a prune and its entry in the audit log.
PruneWritten(d, e, cutoff) ==
  /\ e.texts = d.texts
  /\ e.keyed = {p \in d.keyed : p.ts >= cutoff}
  /\ e.events = {p \in d.events : p.ts >= cutoff}
  /\ \E at \in Time : e.prunes = Append(d.prunes, [at |-> at, cutoff |-> cutoff])

LEMMA NothingWritten ==
  ASSUME NEW d \in Database, NEW b, NEW ts
  PROVE  BatchWritten(d, d, b, ts, 0)
<1>1. 1 .. 0 = {}
  OBVIOUS
<1>2. Latest(b, 0) = {} /\ Measured(b, 0) = {} /\ Reported(b, 0) = {}
  BY <1>1 DEF Latest, Measured, Reported
<1> QED BY <1>1, <1>2 DEF BatchWritten, TextsWritten, KeyedWritten, EventsWritten, Overwritten,
             Covered, OnePerRow

\* One row more: it takes the place of an earlier one with its key.
LEMMA LatestStep ==
  ASSUME NEW b \in Seq(Row), NEW n \in Nat, n < Len(b)
  PROVE  Latest(b, n + 1) = {i \in Latest(b, n) : ~ Same(b[i], b[n + 1])} \cup {n + 1}
<1>1. \A i : i \in 1 .. (n + 1) <=> i \in 1 .. n \/ i = n + 1
  OBVIOUS
<1>2. \A i \in 1 .. n : n + 1 > i
  OBVIOUS
<1>3. \A i \in 1 .. n : i \in Latest(b, n + 1) <=> i \in Latest(b, n) /\ ~ Same(b[i], b[n + 1])
  BY <1>1, <1>2 DEF Latest
<1>4. n + 1 \in Latest(b, n + 1)
  BY <1>1 DEF Latest
<1> QED BY <1>1, <1>3, <1>4 DEF Latest

LEMMA CoveredStep ==
  ASSUME NEW b \in Seq(Row), NEW n \in Nat, n < Len(b), Covered(b, n)
  PROVE  Covered(b, n + 1)
<1>1. \A i : i \in 1 .. (n + 1) <=> i \in 1 .. n \/ i = n + 1
  OBVIOUS
<1>2. Latest(b, n + 1) = {i \in Latest(b, n) : ~ Same(b[i], b[n + 1])} \cup {n + 1}
  BY LatestStep
<1> QED BY <1>1, <1>2 DEF Covered, Same

\* INSERT OR REPLACE continues the description of the keyed tables, whatever the texts are.
LEMMA ReplacedWritten ==
  ASSUME NEW d \in Database, NEW e \in Database, NEW f \in Database,
         NEW b \in Seq(Row), NEW ts \in Time,
         NEW n \in Nat, n < Len(b), b[n + 1].kind \in KeyedKind,
         KeyedWritten(d, e, b, ts, n), f.keyed = e.keyed
  PROVE  KeyedWritten(d, Replaced(f, b[n + 1], ts), b, ts, n + 1)
<1> DEFINE r == b[n + 1]
           new == KeyedOf(r, ts)
           g == Replaced(f, r, ts)
<1>1. g.keyed = {p \in e.keyed : ~ (p.kind = r.kind /\ p.key = KeyOf(r) /\ p.ts = ts)} \cup {new}
  BY DEF Replaced, Database, KeyedOf
<1>2. \A i : i \in 1 .. (n + 1) <=> i \in 1 .. n \/ i = n + 1
  OBVIOUS
<1>3. \A p : Overwritten(p, b, ts, n + 1) <=>
               Overwritten(p, b, ts, n) \/ (p.kind = r.kind /\ p.key = KeyOf(r) /\ p.ts = ts)
  BY <1>2 DEF Overwritten
<1>4. Measured(b, n + 1) = {i \in Measured(b, n) : ~ Same(b[i], r)} \cup {n + 1}
  BY LatestStep DEF Measured
<1>5. \A i : /\ KeyedOf(b[i], ts).kind = b[i].kind /\ KeyedOf(b[i], ts).key = KeyOf(b[i])
             /\ KeyedOf(b[i], ts).ts = ts
  BY DEF KeyedOf
<1> HIDE DEF r, new
<1>6. ASSUME NEW p PROVE p \in {KeyedOf(b[i], ts) : i \in Measured(b, n + 1)} <=>
         \/ p = new
         \/ p \in {KeyedOf(b[i], ts) : i \in Measured(b, n)}
              /\ ~ (p.kind = r.kind /\ p.key = KeyOf(r) /\ p.ts = ts)
  BY <1>4, <1>5 DEF Same, new, r
<1> QED BY <1>1, <1>3, <1>6 DEF KeyedWritten, g, r

\* A row that is no query leaves the description of the texts as it is.
LEMMA OtherTexts ==
  ASSUME NEW d \in Database, NEW e \in Database, NEW f,
         NEW b \in Seq(Row), NEW ts \in Time,
         NEW n \in Nat, n < Len(b), b[n + 1].kind # "top_queries",
         TextsWritten(d, e, b, ts, n), f.texts = e.texts
  PROVE  TextsWritten(d, f, b, ts, n + 1)
<1>1. \A i : i \in 1 .. (n + 1) <=> i \in 1 .. n \/ i = n + 1
  OBVIOUS
<1>2. \A k : ~ Names(b[n + 1], k)
  BY DEF Names
<1>3. \A i \in Latest(b, n + 1) : i = n + 1 \/ i \in Latest(b, n)
  BY LatestStep
<1> QED BY <1>1, <1>2, <1>3 DEF TextsWritten

\* A query's row becomes the last word on its text.
LEMMA QueryTexts ==
  ASSUME NEW d \in Database, NEW e \in Database, NEW f,
         NEW b \in Seq(Row), NEW ts \in Time,
         NEW n \in Nat, n < Len(b), b[n + 1].kind = "top_queries",
         TextsWritten(d, e, b, ts, n),
         \A k \in Key \ {KeyOf(b[n + 1])} : f.texts[k] = e.texts[k],
         f.texts[KeyOf(b[n + 1])] = TextFrom(d, KeyOf(b[n + 1]), b[n + 1], ts)
  PROVE  TextsWritten(d, f, b, ts, n + 1)
<1> DEFINE r == b[n + 1]
<1>1. \A i : i \in 1 .. (n + 1) <=> i \in 1 .. n \/ i = n + 1
  OBVIOUS
<1>2. Latest(b, n + 1) = {i \in Latest(b, n) : ~ Same(b[i], r)} \cup {n + 1}
  BY LatestStep
<1>3. Names(r, KeyOf(r))
  BY DEF Names
<1>4. ASSUME NEW k \in Key, \A i \in 1 .. (n + 1) : ~ Names(b[i], k)
      PROVE  f.texts[k] = d.texts[k]
  BY <1>1, <1>3, <1>4 DEF TextsWritten
<1>5. ASSUME NEW k \in Key, NEW i \in Latest(b, n + 1), Names(b[i], k)
      PROVE  f.texts[k] = TextFrom(d, k, b[i], ts)
  <2>1. CASE i = n + 1
    BY <1>5, <2>1 DEF Names
  <2>2. CASE i # n + 1
    <3>1. i \in Latest(b, n) /\ ~ Same(b[i], r)
      BY <1>2, <2>2
    <3>2. k # KeyOf(r)
      BY <1>5, <3>1 DEF Names, Same
    <3> QED BY <1>5, <3>1, <3>2 DEF TextsWritten
  <2> QED BY <2>1, <2>2
<1> QED BY <1>4, <1>5 DEF TextsWritten

\* Whatever the batch has done to a query so far, its text has the date it has in d, or has
\* been created with the batch's date; and it exists if and only if one of these is the case.
LEMMA FirstSeen ==
  ASSUME NEW d \in Database, NEW e \in Database, NEW b \in Seq(Row), NEW ts \in Time,
         NEW n \in Nat, n < Len(b), TextsWritten(d, e, b, ts, n), NEW k \in Key,
         Covered(b, n)
  PROVE  /\ e.texts[k] = NoRow => d.texts[k] = NoRow
         /\ e.texts[k] # NoRow =>
              e.texts[k].first_seen = IF d.texts[k] = NoRow THEN ts ELSE d.texts[k].first_seen
<1>1. CASE \A i \in 1 .. n : ~ Names(b[i], k)
  BY <1>1 DEF TextsWritten
<1>2. CASE \E i \in Latest(b, n) : Names(b[i], k)
  <2>1. PICK i \in Latest(b, n) : Names(b[i], k)
    BY <1>2
  <2>2. e.texts[k] = TextFrom(d, k, b[i], ts)
    BY <2>1 DEF TextsWritten
  <2>3. b[i] \in Row
    BY ElementOfSeq DEF Latest
  <2>4. d.texts[k] \in TextRow \cup {NoRow}
    BY DEF Database
  <2>5. TextFrom(d, k, b[i], ts) \in TextRow
    BY <2>3, <2>4 DEF TextFrom, TextRow, Row
  <2>6. TextFrom(d, k, b[i], ts).first_seen = IF d.texts[k] = NoRow THEN ts ELSE d.texts[k].first_seen
    BY DEF TextFrom
  <2> QED BY <2>2, <2>5, <2>6, RowAssumption
<1>3. ASSUME NEW i \in 1 .. n, Names(b[i], k) PROVE \E j \in Latest(b, n) : Names(b[j], k)
  BY <1>3 DEF Covered, Same, Names
<1> QED BY <1>1, <1>2, <1>3

\* A row that is stored in a keyed table reports no event, and the other way round.
LEMMA EventsUntouched ==
  ASSUME NEW d, NEW e, NEW f, NEW b \in Seq(Row), NEW ts \in Time,
         NEW n \in Nat, n < Len(b), b[n + 1].kind \in KeyedKind,
         EventsWritten(d, e, b, ts, n), f.events = e.events
  PROVE  EventsWritten(d, f, b, ts, n + 1)
<1>1. Reported(b, n + 1) = Reported(b, n)
  BY DEF Reported, KeyedKind, EventKind
<1> QED BY <1>1 DEF EventsWritten, Seen, OnePerRow

LEMMA KeyedUntouched ==
  ASSUME NEW d \in Database, NEW e, NEW f, NEW b \in Seq(Row), NEW ts \in Time,
         NEW n \in Nat, n < Len(b), b[n + 1].kind \in EventKind,
         KeyedWritten(d, e, b, ts, n), f.keyed = e.keyed
  PROVE  KeyedWritten(d, f, b, ts, n + 1)
<1>1. \A i : i \in 1 .. (n + 1) <=> i \in 1 .. n \/ i = n + 1
  OBVIOUS
<1>2. Measured(b, n + 1) = Measured(b, n)
  <2>1. \A i \in 1 .. n : b[i].kind \in KeyedKind => ~ Same(b[i], b[n + 1])
    BY DEF Same, KeyedKind, EventKind
  <2>2. \A i \in Latest(b, n) : i \in 1 .. n
    BY DEF Latest
  <2>3. b[n + 1].kind \notin KeyedKind
    BY DEF KeyedKind, EventKind
  <2> QED BY <2>1, <2>2, <2>3, LatestStep DEF Measured
<1>3. \A p \in d.keyed : Overwritten(p, b, ts, n + 1) <=> Overwritten(p, b, ts, n)
  <2>1. \A p \in d.keyed : p.kind \in KeyedKind
    BY DEF Database, KeyedRow
  <2> QED BY <1>1, <2>1 DEF Overwritten, KeyedKind, EventKind
<1> QED BY <1>2, <1>3 DEF KeyedWritten

\* An INSERT into a table of events adds one that readers see.
LEMMA AppendedEvents ==
  ASSUME NEW d, NEW e \in Database, NEW b \in Seq(Row), NEW ts \in Time,
         NEW n \in Nat, n < Len(b), b[n + 1].kind \in EventKind,
         EventsWritten(d, e, b, ts, n)
  PROVE  EventsWritten(d, Appended(e, b[n + 1], ts), b, ts, n + 1)
<1> DEFINE r == b[n + 1]
           new == [kind |-> r.kind, key |-> KeyOf(r), ts |-> ts, rowid |-> e.next_id[r.kind]]
           f == Appended(e, r, ts)
<1>1. f.events = e.events \cup {new}
  BY DEF Appended, Database
<1>2. Reported(b, n + 1) = Reported(b, n) \cup {n + 1}
  BY DEF Reported
<1>3. [kind |-> new.kind, key |-> new.key, ts |-> new.ts] = EventOf(r, ts)
  BY DEF EventOf
<1> HIDE DEF new, f, r
<1>4. Seen(f) = Seen(e) \cup {EventOf(r, ts)}
  BY <1>1, <1>3 DEF Seen
<1>5. {EventOf(b[i], ts) : i \in Reported(b, n + 1)}
        = {EventOf(b[i], ts) : i \in Reported(b, n)} \cup {EventOf(r, ts)}
  BY <1>2 DEF r
<1>6. OnePerRow(d, f, b, ts, n + 1)
  <2>1. PICK row : /\ e.events = d.events \cup {row[i] : i \in Reported(b, n)}
                   /\ \A i \in Reported(b, n) : /\ row[i].kind = b[i].kind
                                                /\ row[i].key = KeyOf(b[i]) /\ row[i].ts = ts
    BY DEF EventsWritten, OnePerRow
  <2> DEFINE more == [i \in Reported(b, n + 1) |-> IF i = n + 1 THEN new ELSE row[i]]
  <2>2. \A i \in Reported(b, n) : i # n + 1
    BY DEF Reported
  <2>3. more[n + 1] = new /\ \A i \in Reported(b, n) : more[i] = row[i]
    BY <1>2, <2>2
  <2>4. new.kind = b[n + 1].kind /\ new.key = KeyOf(b[n + 1]) /\ new.ts = ts
    BY DEF new, r
  <2> HIDE DEF more
  <2>5. f.events = d.events \cup {more[i] : i \in Reported(b, n + 1)}
    BY <1>1, <1>2, <2>1, <2>3
  <2>6. \A i \in Reported(b, n + 1) : /\ more[i].kind = b[i].kind /\ more[i].key = KeyOf(b[i])
                                      /\ more[i].ts = ts
    BY <1>2, <2>1, <2>3, <2>4
  <2> QED BY <2>5, <2>6 DEF OnePerRow
<1> QED BY <1>1, <1>4, <1>5, <1>6 DEF EventsWritten, f, r

\* What UPDATE query_texts makes of a row.
LEMMA UpdatedRow ==
  ASSUME NEW x \in TextRow, NEW ts \in Time, NEW ms \in Mean
  PROVE  [x EXCEPT !.last_seen = ts, !.avg_ms = ms]
           = [first_seen |-> x.first_seen, last_seen |-> ts, avg_ms |-> ms]
<1> DEFINE y == [x EXCEPT !.last_seen = ts]
<1>1. y \in TextRow /\ y.first_seen = x.first_seen /\ y.last_seen = ts
  BY DEF TextRow
<1>2. [y EXCEPT !.avg_ms = ms] = [first_seen |-> y.first_seen, last_seen |-> y.last_seen, avg_ms |-> ms]
  <2> HIDE DEF y
  <2> QED BY <1>1 DEF TextRow
<1> QED BY <1>1, <1>2

\* The statements for the next row continue the description of the batch.
LEMMA WrittenStep ==
  ASSUME NEW d \in Database, NEW e \in Database, NEW b \in Seq(Row), NEW ts \in Time,
         NEW n \in Nat, n < Len(b), NEW known \in BOOLEAN,
         b[n + 1].kind = "top_queries" => (known <=> e.texts[KeyOf(b[n + 1])] # NoRow),
         BatchWritten(d, e, b, ts, n)
  PROVE  BatchWritten(d, Written(e, b[n + 1], ts, known), b, ts, n + 1)
<1> DEFINE r == b[n + 1]
           k0 == KeyOf(r)
           f == Written(e, r, ts, known)
<1>a. r \in Row /\ k0 \in Key
  BY ElementOfSeq, KeyType
<1>b. /\ TextsWritten(d, e, b, ts, n) /\ KeyedWritten(d, e, b, ts, n)
      /\ EventsWritten(d, e, b, ts, n) /\ e.prunes = d.prunes /\ Covered(b, n)
  BY DEF BatchWritten
<1>0. /\ r \in Row /\ k0 \in Key /\ r.mean_ms \in Mean
      /\ TextsWritten(d, e, b, ts, n) /\ KeyedWritten(d, e, b, ts, n)
      /\ EventsWritten(d, e, b, ts, n) /\ e.prunes = d.prunes /\ Covered(b, n)
  BY <1>a, <1>b DEF Row
<1>1. Covered(b, n + 1)
  BY <1>0, CoveredStep
<1>2. ASSUME NEW g \in Database, r.kind \in KeyedKind, f = Replaced(g, r, ts),
             g.keyed = e.keyed, g.events = e.events, g.prunes = e.prunes,
             TextsWritten(d, g, b, ts, n + 1)
      PROVE  BatchWritten(d, f, b, ts, n + 1)
  <2>1. f.texts = g.texts /\ f.events = g.events /\ f.prunes = g.prunes
    BY <1>2 DEF Replaced, Database
  <2>2. KeyedWritten(d, f, b, ts, n + 1)
    BY <1>0, <1>2, ReplacedWritten
  <2>3. EventsWritten(d, f, b, ts, n + 1)
    BY <1>0, <1>2, <2>1, EventsUntouched
  <2>4. TextsWritten(d, f, b, ts, n + 1)
    BY <1>2, <2>1 DEF TextsWritten
  <2> QED BY <1>0, <1>1, <1>2, <2>1, <2>2, <2>3, <2>4 DEF BatchWritten
<1>3. CASE r.kind = "top_queries" /\ known
  <2> DEFINE g == UpdatedText(e, r, ts)
             row == [e.texts[k0] EXCEPT !.last_seen = ts, !.avg_ms = r.mean_ms]
  <2>1. g \in Database /\ f = Replaced(g, r, ts)
    BY <1>0, <1>3, UpdatedTextType DEF Written
  <2>2. /\ g.texts = [e.texts EXCEPT ![k0] = row]
        /\ g.keyed = e.keyed /\ g.events = e.events /\ g.prunes = e.prunes
    BY DEF UpdatedText, Database
  <2>3. e.texts[k0] \in TextRow
    BY <1>0, <1>3 DEF Database
  <2>4. e.texts[k0].first_seen = IF d.texts[k0] = NoRow THEN ts ELSE d.texts[k0].first_seen
    BY <1>0, <1>3, FirstSeen
  <2>5. row = TextFrom(d, k0, r, ts)
    <3>1. row = [first_seen |-> e.texts[k0].first_seen, last_seen |-> ts, avg_ms |-> r.mean_ms]
      BY <1>0, <2>3, UpdatedRow
    <3> QED BY <2>4, <3>1 DEF TextFrom
  <2>6. \A k \in Key : g.texts[k] = IF k = k0 THEN row ELSE e.texts[k]
    BY <1>0, <2>2 DEF Database
  <2> HIDE DEF row, g, f
  <2>7. TextsWritten(d, g, b, ts, n + 1)
    BY <1>0, <1>3, <2>5, <2>6, QueryTexts
  <2> QED BY <1>2, <1>3, <2>1, <2>2, <2>7 DEF KeyedKind, f
<1>4. CASE r.kind = "top_queries" /\ ~ known
  <2> DEFINE g == NewText(e, r, ts)
             row == [first_seen |-> ts, last_seen |-> ts, avg_ms |-> r.mean_ms]
  <2>1. g \in Database /\ f = Replaced(g, r, ts)
    BY <1>0, <1>4, NewTextType DEF Written
  <2>2. /\ g.texts = [e.texts EXCEPT ![k0] = row]
        /\ g.keyed = e.keyed /\ g.events = e.events /\ g.prunes = e.prunes
    BY DEF NewText, Database
  <2>3. d.texts[k0] = NoRow
    BY <1>0, <1>4, FirstSeen
  <2>4. row = TextFrom(d, k0, r, ts)
    BY <2>3 DEF TextFrom
  <2>5. \A k \in Key : g.texts[k] = IF k = k0 THEN row ELSE e.texts[k]
    BY <1>0, <2>2 DEF Database
  <2> HIDE DEF row, g, f
  <2>6. TextsWritten(d, g, b, ts, n + 1)
    BY <1>0, <1>4, <2>4, <2>5, QueryTexts
  <2> QED BY <1>2, <1>4, <2>1, <2>2, <2>6 DEF KeyedKind, f
<1>5. CASE r.kind = "tables"
  <2>1. f = Replaced(e, r, ts)
    BY <1>5 DEF Written
  <2>2. TextsWritten(d, e, b, ts, n + 1)
    BY <1>0, <1>5, OtherTexts
  <2> QED BY <1>2, <1>5, <2>1, <2>2 DEF KeyedKind
<1>6. CASE r.kind \in EventKind
  <2>1. f = Appended(e, r, ts)
    BY <1>6 DEF Written, EventKind
  <2>2. f.texts = e.texts /\ f.keyed = e.keyed /\ f.prunes = e.prunes
    BY <2>1 DEF Appended, Database
  <2>3. r.kind # "top_queries"
    BY <1>6 DEF EventKind
  <2>4. TextsWritten(d, f, b, ts, n + 1)
    BY <1>0, <2>2, <2>3, OtherTexts
  <2>5. KeyedWritten(d, f, b, ts, n + 1)
    BY <1>0, <1>6, <2>2, KeyedUntouched
  <2>6. EventsWritten(d, f, b, ts, n + 1)
    BY <1>0, <1>6, <2>1, AppendedEvents
  <2> QED BY <1>0, <1>1, <2>2, <2>4, <2>5, <2>6 DEF BatchWritten
<1>7. r.kind \in EventKind \/ r.kind = "top_queries" \/ r.kind = "tables"
  BY <1>0 DEF Row, Kind, KeyedKind
<1> QED BY <1>3, <1>4, <1>5, <1>6, <1>7

-----------------------------------------------------------------------------
(* What the threads hold.                                                  *)

\* The date under which a thread stores its payload.
Dated(w) ==
  /\ job[w].ts \in DatesOf(job[w].req)
  /\ job[w].req.collected_at = NoTime => job[w].ts <= clock

\* A thread that holds the lock has written the rows before its place; one that waits for it
\* has written none.
InBatch(w) ==
  /\ job[w].pos <= Len(Request(w)) + 1
  /\ Dated(w)
  /\ writer # w => job[w].pos = 1
  /\ writer = w => BatchWritten(db, tx, Request(w), job[w].ts, job[w].pos - 1)

Transaction(w) ==
  /\ writer = w => job[w].pc \in {"row", "write", "prune_commit"}
  /\ job[w].pc \in {"row", "write"} => InBatch(w)
  /\ job[w].pc = "prune_commit" => PruneWritten(db, tx, job[w].cutoff)
  /\ job[w].pc \in {"prune", "prune_commit"} =>
       job[w].cutoff <= clock - RetentionOf(ServerOf[w])

Transactions == clock >= BootTime /\ \A w \in Worker : Transaction(w)

TInv == IInv /\ Transactions

LEMMA InitTransactions == Init => Transactions
<1> SUFFICES ASSUME Init, NEW w \in Worker PROVE Transaction(w) /\ clock >= BootTime
  BY TimeAssumption DEF Transactions, Init, Time
<1>1. job[w].pc = "idle" /\ writer # w
  BY IdleType, ProcessAssumption DEF Init
<1> QED BY <1>1, TimeAssumption DEF Init, Transaction, Time

\* What others do does not disturb a thread: only the holder of the lock changes the tables.
LEMMA OthersTransaction ==
  ASSUME TInv, NEW v \in Worker, job'[v] = job[v], clock' \in Int, clock' >= clock,
         writer' = v <=> writer = v, writer = v => UNCHANGED <<db, tx>>
  PROVE  Transaction(v)'
<1>1. clock \in Int /\ job[v].cutoff \in Int /\ job[v].ts \in Int
  BY DEF TInv, IInv, TypeOK, Job, Time
<1>2. RetentionOf(ServerOf[v]) \in Int /\ RetentionOf(ServerOf[v])' = RetentionOf(ServerOf[v])
  BY RetentionType, ProcessAssumption DEF RetentionOf
<1>3. Transaction(v)
  BY DEF TInv, Transactions
<1>4. job[v].pc = "prune_commit" => writer = v
  BY DEF TInv, IInv, Isolation, LockDiscipline
<1>5. Request(v)' = Request(v)
  BY DEF Request
<1>6. ASSUME InBatch(v) PROVE InBatch(v)'
  <2>1. Dated(v)'
    BY <1>1, <1>6 DEF InBatch, Dated
  <2> QED BY <1>5, <1>6, <2>1 DEF InBatch
<1>7. ASSUME job[v].cutoff <= clock - RetentionOf(ServerOf[v])
      PROVE  job'[v].cutoff <= clock' - RetentionOf(ServerOf[v])'
  BY <1>1, <1>2, <1>7
<1> QED BY <1>3, <1>4, <1>6, <1>7 DEF Transaction

\* The row just written belongs to the batch.
LEMMA WriteTransaction ==
  ASSUME TInv, NEW w \in Worker, Write(w)
  PROVE  Transaction(w)'
<1> DEFINE b == Request(w)
           n == job[w].pos - 1
           ts == job[w].ts
<1>0. job \in [Worker -> Job] /\ db \in Database
  BY DEF TInv, IInv, TypeOK
<1>1. /\ job[w].req \in Snapshot
      /\ job[w].pc \in {"row", "write"}
      /\ job[w].pos <= Len(b)
      /\ RowAt(w).kind = "top_queries" => job[w].pc = "write"
  BY DEF Write, AtWrite, TInv, IInv, Isolation, ThreadsInStep, AtIdentity
<1>2. b \in Seq(Row) /\ Len(b) \in Nat
  BY <1>1, BatchType DEF Request
<1>3. n \in Nat /\ n < Len(b) /\ n + 1 = job[w].pos /\ ts \in Time /\ job[w].known \in BOOLEAN
  BY <1>0, <1>1, <1>2 DEF Job
<1>4. View(w) \in Database
  BY ViewSound DEF TInv
<1>5. InBatch(w)
  BY <1>1 DEF TInv, Transactions, Transaction
<1>6. BatchWritten(db, View(w), b, ts, n)
  <2>1. CASE writer = w
    BY <1>5, <2>1 DEF InBatch, View
  <2>2. CASE writer # w
    <3>1. n = 0
      BY <1>5, <2>2 DEF InBatch
    <3> QED BY <1>0, <2>2, <3>1, NothingWritten DEF View
  <2> QED BY <2>1, <2>2
<1>7. b[n + 1].kind = "top_queries" => (job[w].known <=> View(w).texts[KeyOf(b[n + 1])] # NoRow)
  BY <1>1, <1>3 DEF Write, Duplicate, TInv, IInv, Isolation, ThreadsInStep, AtIdentity, RowAt
<1>8. BatchWritten(db, Written(View(w), b[n + 1], ts, job[w].known), b, ts, n + 1)
  <2> HIDE DEF b, n, ts
  <2> QED BY <1>0, <1>2, <1>3, <1>4, <1>6, <1>7, WrittenStep
<1>9. db' = db /\ tx' = Written(View(w), b[n + 1], ts, job[w].known)
  BY <1>3 DEF Write, RowAt
<1>10. /\ job'[w].pc = "row" /\ job'[w].pos = job[w].pos + 1 /\ job'[w].req = job[w].req
       /\ job'[w].ts = job[w].ts /\ writer' = w /\ clock' = clock
  BY <1>0 DEF Write, Job
<1>11. Request(w)' = b
  BY <1>10 DEF Request
<1>12. Dated(w)'
  BY <1>5, <1>10 DEF InBatch, Dated
<1>13. job'[w].pos - 1 = n + 1 /\ job'[w].pos <= Len(b) + 1
  BY <1>2, <1>3, <1>10
<1>14. InBatch(w)'
  <2> HIDE DEF b, n, ts
  <2>1. BatchWritten(db', tx', b, ts, job'[w].pos - 1)
    BY <1>8, <1>9, <1>13
  <2> QED BY <1>10, <1>11, <1>12, <1>13, <2>1 DEF InBatch, ts
<1> QED BY <1>10, <1>14 DEF Transaction

LEMMA ReceiveTransaction ==
  ASSUME TInv, NEW w \in Worker, NEW s \in Snapshot, Receive(w, s)
  PROVE  Transaction(w)'
<1> DEFINE ts == IF s.collected_at = NoTime THEN clock ELSE s.collected_at
<1>0. job \in [Worker -> Job] /\ clock \in Time /\ clock >= BootTime
  BY DEF TInv, Transactions, IInv, TypeOK
<1>1. job'[w] = [Idle EXCEPT !.pc = "row", !.req = s, !.ts = ts]
  BY <1>0 DEF Receive
<1> HIDE DEF ts
<1>2. job'[w].pc = "row" /\ job'[w].req = s /\ job'[w].pos = 1 /\ job'[w].ts = ts
  BY <1>1 DEF Idle
<1>3. writer' = writer /\ writer # w /\ clock' = clock
  BY DEF Receive, TInv, Transactions, Transaction
<1>4. ts \in DatesOf(s) /\ (s.collected_at = NoTime => ts <= clock)
  BY <1>0, TimeAssumption DEF ts, DatesOf, Time
<1>5. Dated(w)'
  BY <1>2, <1>3, <1>4 DEF Dated
<1>6. Len(Batch(s)) \in Nat
  BY BatchType
<1>7. Request(w)' = Batch(s)
  BY <1>2 DEF Request
<1>8. InBatch(w)'
  BY <1>2, <1>3, <1>5, <1>6, <1>7 DEF InBatch
<1> QED BY <1>2, <1>3, <1>8 DEF Transaction

\* A thread begins to prune with the cutoff of that moment, and with nothing uncommitted.
LEMMA PruneTransaction ==
  ASSUME TInv, NEW w \in Worker, MaybePrune(w) \/ PruneCommand(w) \/ PruneDelete(w)
  PROVE  Transaction(w)'
<1>0. job \in [Worker -> Job] /\ clock \in Time
  BY DEF TInv, IInv, TypeOK
<1>1. RetentionOf(ServerOf[w])' = RetentionOf(ServerOf[w])
  BY DEF RetentionOf
<1>2. writer # w /\ clock' = clock
  BY DEF TInv, Transactions, Transaction, MaybePrune, PruneCommand, PruneDelete
<1>3. RetentionOf(ServerOf[w]) \in Int /\ clock \in Int
  BY <1>0, RetentionType, ProcessAssumption DEF Time
<1>4. CASE MaybePrune(w)
  <2>1. writer' = writer
    BY <1>4 DEF MaybePrune
  <2>2. \/ job'[w].pc = "prune" /\ job'[w].cutoff = clock - RetentionOf(ServerOf[w])
        \/ job'[w].pc = "ok"
    BY <1>0, <1>4 DEF MaybePrune, Job
  <2> QED BY <1>1, <1>2, <1>3, <2>1, <2>2 DEF Transaction
<1>5. CASE PruneCommand(w)
  <2>1. writer' = writer
    BY <1>5 DEF PruneCommand
  <2>2. job'[w].pc = "prune" /\ job'[w].cutoff = clock - RetentionOf(ServerOf[w])
    BY <1>0, <1>5 DEF PruneCommand, Idle
  <2> QED BY <1>1, <1>2, <1>3, <2>1, <2>2 DEF Transaction
<1>6. CASE PruneDelete(w)
  <2>1. /\ job'[w].pc = "prune_commit" /\ job'[w].cutoff = job[w].cutoff
        /\ job[w].pc = "prune" /\ db' = db
    BY <1>0, <1>6 DEF PruneDelete, Job
  <2>2. tx' = Pruned(db, job[w].cutoff)
    BY <1>2, <1>6 DEF PruneDelete, View
  <2>3. db \in Database
    BY DEF TInv, IInv, TypeOK
  <2>4. PruneWritten(db, tx', job[w].cutoff)
    BY <1>0, <2>2, <2>3 DEF PruneWritten, Pruned, Database
  <2>5. PruneWritten(db, tx, job[w].cutoff)'
    BY <2>1, <2>4 DEF PruneWritten
  <2>6. job[w].cutoff <= clock - RetentionOf(ServerOf[w])
    BY <2>1 DEF TInv, Transactions, Transaction
  <2> QED BY <1>1, <1>2, <2>1, <2>5, <2>6 DEF Transaction
<1> QED BY <1>4, <1>5, <1>6

\* SELECT takes no lock and does not move the thread; the other steps end its transaction.
LEMMA OtherTransaction ==
  ASSUME TInv, NEW w \in Worker,
         \/ Select(w) \/ Conflict(w) \/ Commit(w) \/ PruneCommit(w) \/ Stamp(w)
         \/ BusyTimeout(w) \/ StatementFails(w) \/ Respond(w)
  PROVE  Transaction(w)'
<1>0. job \in [Worker -> Job] /\ NoWorker \notin Worker
  BY ProcessAssumption DEF TInv, IInv, TypeOK
<1>1. CASE Select(w)
  <2>1. /\ job[w].pc = "row" /\ job'[w].pc = "write" /\ job'[w].req = job[w].req
        /\ job'[w].pos = job[w].pos /\ job'[w].ts = job[w].ts
        /\ writer' = writer /\ db' = db /\ tx' = tx /\ clock' = clock
    BY <1>0, <1>1 DEF Select, Job
  <2>2. InBatch(w)
    BY <2>1 DEF TInv, Transactions, Transaction
  <2>3. Request(w)' = Request(w)
    BY <2>1 DEF Request
  <2>4. InBatch(w)'
    BY <2>1, <2>2, <2>3 DEF InBatch, Dated
  <2> QED BY <2>1, <2>4 DEF Transaction
<1>2. ASSUME job'[w].pc \in {"idle", "maybe_prune", "stamp"} \cup Answer, writer' # w
      PROVE  Transaction(w)'
  BY <1>2 DEF Transaction, Answer
<1>3. CASE Conflict(w) \/ StatementFails(w)
  BY <1>0, <1>2, <1>3 DEF Conflict, StatementFails, Rollback, Job, Answer
<1>4. CASE Commit(w) \/ PruneCommit(w)
  BY <1>0, <1>2, <1>4 DEF Commit, PruneCommit, Job
<1>5. CASE Stamp(w)
  <2>1. writer # w
    BY <1>5 DEF Stamp, TInv, Transactions, Transaction
  <2> QED BY <1>0, <1>2, <1>5, <2>1 DEF Stamp, Job, Answer
<1>6. CASE BusyTimeout(w)
  BY <1>0, <1>2, <1>6 DEF BusyTimeout, LockFree, Job, Answer
<1>7. CASE Respond(w)
  <2>1. writer # w
    BY <1>7 DEF Respond, Answer, TInv, Transactions, Transaction
  <2> QED BY <1>0, <1>2, <1>7, <2>1, IdleType DEF Respond
<1> QED BY <1>1, <1>3, <1>4, <1>5, <1>6, <1>7

LEMMA ClockStep ==
  ASSUME [Next]_vars
  PROVE  clock' = clock \/ clock' = clock + 1
<1>1. ASSUME NEW w \in Worker, Step(w) PROVE clock' = clock
  <2>1. CASE Select(w) \/ Write(w) \/ Conflict(w) \/ Commit(w) \/ MaybePrune(w)
    BY <2>1 DEF Select, Write, Conflict, Commit, MaybePrune
  <2>2. CASE PruneDelete(w) \/ PruneCommit(w) \/ Stamp(w) \/ BusyTimeout(w) \/ Respond(w)
    BY <2>2 DEF PruneDelete, PruneCommit, Stamp, BusyTimeout, Respond
  <2> QED BY <1>1, <2>1, <2>2 DEF Step
<1>2. ASSUME NEW w \in Worker, StatementFails(w) \/ PruneCommand(w) PROVE clock' = clock
  BY <1>2 DEF StatementFails, PruneCommand
<1>3. ASSUME NEW w \in Worker, NEW s \in Snapshot, Receive(w, s) PROVE clock' = clock
  BY <1>3 DEF Receive
<1>4. ASSUME (\E p \in Process : Restart(p)) \/ Tick \/ UNCHANGED vars
      PROVE  clock' = clock \/ clock' = clock + 1
  BY <1>4 DEF Restart, Tick, vars
<1> QED BY <1>1, <1>2, <1>3, <1>4 DEF Next

LEMMA TransactionsStep ==
  ASSUME TInv, [Next]_vars
  PROVE  Transactions'
<1>0. /\ job \in [Worker -> Job] /\ NoWorker \notin Worker /\ clock \in Int /\ clock >= BootTime
      /\ BootTime \in Int
  BY ProcessAssumption, TimeAssumption DEF TInv, Transactions, IInv, TypeOK, Time
<1>1. clock' \in Int /\ clock' >= clock
  <2>1. clock' = clock \/ clock' = clock + 1
    BY ClockStep
  <2> QED BY <1>0, <2>1
<1>2. ASSUME NEW w \in Worker, NEW v \in Worker, v # w,
             \/ Step(w) \/ StatementFails(w) \/ PruneCommand(w)
             \/ \E s \in Snapshot : Receive(w, s)
      PROVE  Transaction(v)'
  <2>1. job'[v] = job[v]
    BY <1>0, <1>2 DEF Step, Select, Write, Conflict, Commit, MaybePrune, PruneDelete, PruneCommit,
       Stamp, BusyTimeout, StatementFails, Respond, PruneCommand, Receive
  <2>2. \/ writer' = writer /\ UNCHANGED <<db, tx>>
        \/ writer' # v /\ writer # v
    <3>1. CASE Write(w) \/ PruneDelete(w)
      BY <1>0, <1>2, <3>1 DEF Write, PruneDelete, LockFree
    <3>2. CASE Conflict(w) \/ StatementFails(w) \/ Commit(w)
      <4>1. db' = db \/ writer = w
        BY <3>2 DEF Conflict, StatementFails, Commit
      <4>2. \/ writer = w /\ writer' = NoWorker
            \/ writer # w /\ writer' = writer /\ tx' = tx
        BY <3>2 DEF Conflict, StatementFails, Rollback, Commit
      <4> QED BY <1>0, <1>2, <4>1, <4>2
    <3>3. CASE PruneCommit(w)
      BY <1>0, <1>2, <3>3 DEF PruneCommit, TInv, IInv, Isolation, LockDiscipline
    <3>4. CASE \/ Select(w) \/ MaybePrune(w) \/ Stamp(w) \/ BusyTimeout(w) \/ Respond(w)
               \/ PruneCommand(w) \/ \E s \in Snapshot : Receive(w, s)
      <4>1. CASE \/ Select(w) \/ MaybePrune(w) \/ Stamp(w) \/ BusyTimeout(w) \/ Respond(w)
                 \/ PruneCommand(w)
        BY <4>1 DEF Select, MaybePrune, Stamp, BusyTimeout, Respond, PruneCommand
      <4>2. CASE \E s \in Snapshot : Receive(w, s)
        BY <4>2 DEF Receive
      <4> QED BY <3>4, <4>1, <4>2
    <3> QED BY <1>2, <3>1, <3>2, <3>3, <3>4 DEF Step
  <2> QED BY <1>1, <2>1, <2>2, OthersTransaction
<1>3. ASSUME NEW w \in Worker,
             \/ Step(w) \/ StatementFails(w) \/ PruneCommand(w)
             \/ \E s \in Snapshot : Receive(w, s)
      PROVE  Transaction(w)'
  BY <1>3, WriteTransaction, ReceiveTransaction, PruneTransaction, OtherTransaction DEF Step
<1>4. ASSUME NEW p \in Process, Restart(p), NEW v \in Worker PROVE Transaction(v)'
  <2>1. CASE ServerOf[v] = p
    <3>1. job'[v].pc = "idle" /\ writer' # v
      BY <1>0, <1>4, <2>1, IdleType DEF Restart
    <3> QED BY <3>1 DEF Transaction
  <2>2. CASE ServerOf[v] # p
    <3>1. job'[v] = job[v]
      BY <1>4, <2>2 DEF Restart
    <3>2. \/ writer' = writer /\ UNCHANGED <<db, tx>>
          \/ writer' # v /\ writer # v
      <4>1. \/ writer # NoWorker /\ ServerOf[writer] = p /\ writer' = NoWorker
            \/ writer' = writer /\ tx' = tx
        BY <1>4 DEF Restart
      <4>2. db' = db
        BY <1>4 DEF Restart
      <4> QED BY <1>0, <2>2, <4>1, <4>2
    <3> QED BY <1>1, <3>1, <3>2, OthersTransaction
  <2> QED BY <2>1, <2>2
<1>5. ASSUME Tick \/ UNCHANGED vars, NEW v \in Worker PROVE Transaction(v)'
  <2>1. job'[v] = job[v] /\ UNCHANGED <<db, tx, writer>>
    BY <1>5 DEF Tick, vars
  <2> QED BY <1>1, <2>1, OthersTransaction
<1>6. ASSUME NEW v \in Worker PROVE Transaction(v)'
  BY <1>2, <1>3, <1>4, <1>5 DEF Next
<1>7. clock' >= BootTime
  BY <1>0, <1>1
<1> QED BY <1>6, <1>7 DEF Transactions

LEMMA TInvStep ==
  ASSUME TInv, [Next]_vars
  PROVE  TInv'
BY StepInv, TransactionsStep DEF TInv

\* The uncommitted tables are always those of a batch so far, or of a prune.
THEOREM Transactional == Spec => []TInv
<1>1. Init => TInv
  BY InitInv, InitTransactions DEF TInv
<1> QED BY <1>1, TInvStep, PTL DEF Spec

-----------------------------------------------------------------------------
(* What readers see of a step.                                             *)

Ingested(d, e, w) ==
  /\ job[w].pc = "row" /\ job[w].req \in Snapshot /\ Dated(w)
  /\ BatchWritten(d, e, Request(w), job[w].ts, Len(Request(w)))

Retired(d, e, w) ==
  /\ job[w].pc = "prune_commit"
  /\ PruneWritten(d, e, job[w].cutoff)
  /\ job[w].cutoff <= clock - RetentionOf(ServerOf[w])

\* The committed tables change when a whole batch is committed or a whole prune, and at no
\* other time.
LEMMA CommittedStep ==
  ASSUME TInv, [Next]_vars
  PROVE  \/ db' = db
         \/ /\ clock' = clock
            /\ \E w \in Worker : \/ Commit(w) /\ Ingested(db, db', w)
                                 \/ Retired(db, db', w)
<1>1. ASSUME NEW w \in Worker, Commit(w), writer = w
      PROVE  clock' = clock /\ Ingested(db, db', w)
  <2>1. /\ job[w].pc = "row" /\ job[w].pos > Len(Request(w)) /\ job[w].req \in Snapshot
        /\ clock' = clock /\ db' = tx
    BY <1>1 DEF Commit, TInv, IInv, Isolation, ThreadsInStep
  <2>2. InBatch(w)
    BY <2>1 DEF TInv, Transactions, Transaction
  <2>3. Len(Request(w)) \in Nat
    BY <2>1, BatchType DEF Request
  <2>4. job[w].pos \in Nat
    BY DEF TInv, IInv, TypeOK, Job
  <2>5. job[w].pos - 1 = Len(Request(w))
    BY <2>1, <2>2, <2>3, <2>4 DEF InBatch
  <2>6. BatchWritten(db, tx, Request(w), job[w].ts, job[w].pos - 1) /\ Dated(w)
    BY <1>1, <2>2 DEF InBatch
  <2> QED BY <2>1, <2>5, <2>6 DEF Ingested
<1>2. ASSUME NEW w \in Worker, PruneCommit(w)
      PROVE  clock' = clock /\ Retired(db, db', w)
  BY <1>2 DEF PruneCommit, Retired, TInv, Transactions, Transaction
<1>3. ASSUME NEW w \in Worker,
             \/ Select(w) \/ Write(w) \/ Conflict(w) \/ MaybePrune(w) \/ PruneDelete(w)
             \/ Stamp(w) \/ BusyTimeout(w) \/ Respond(w) \/ StatementFails(w) \/ PruneCommand(w)
      PROVE  db' = db
  BY <1>3 DEF Select, Write, Conflict, MaybePrune, PruneDelete, Stamp, BusyTimeout, Respond,
     StatementFails, PruneCommand
<1>4. ASSUME NEW w \in Worker, Commit(w), writer # w PROVE db' = db
  BY <1>4 DEF Commit
<1>5. ASSUME NEW w \in Worker, NEW s \in Snapshot, Receive(w, s) PROVE db' = db
  BY <1>5 DEF Receive
<1>6. ASSUME (\E p \in Process : Restart(p)) \/ Tick \/ UNCHANGED vars PROVE db' = db
  BY <1>6 DEF Restart, Tick, vars
<1> QED BY <1>1, <1>2, <1>3, <1>4, <1>5, <1>6 DEF Next, Step

-----------------------------------------------------------------------------
(* Rows in the tables.                                                     *)

LEMMA StoredEvent ==
  ASSUME NEW d, NEW r \in Row, NEW ts, r.kind \notin KeyedKind
  PROVE  Stored(d, r, ts) <=> EventOf(r, ts) \in Seen(d)
BY DEF Stored, Seen, EventOf

LEMMA StoredKeyed ==
  ASSUME NEW d, NEW r \in Row, NEW ts, r.kind \in KeyedKind
  PROVE  Stored(d, r, ts) <=>
           \E p \in d.keyed : p.kind = r.kind /\ p.key = KeyOf(r) /\ p.ts = ts
BY DEF Stored

\* A batch replaces a row only by another one of the same key and date.
LEMMA BatchKeepsKeyed ==
  ASSUME NEW d \in Database, NEW e, NEW b \in Seq(Row), NEW ts, BatchWritten(d, e, b, ts, Len(b)),
         NEW p \in d.keyed
  PROVE  \E q \in e.keyed : q.kind = p.kind /\ q.key = p.key /\ q.ts = p.ts
<1> DEFINE n == Len(b)
<1>0. KeyedWritten(d, e, b, ts, n) /\ Covered(b, n)
  BY DEF BatchWritten
<1>1. CASE ~ Overwritten(p, b, ts, n)
  BY <1>0, <1>1 DEF KeyedWritten
<1>2. CASE Overwritten(p, b, ts, n)
  <2>1. PICK i \in 1 .. n : b[i].kind = p.kind /\ KeyOf(b[i]) = p.key
    BY <1>2 DEF Overwritten
  <2>2. PICK j \in Latest(b, n) : Same(b[i], b[j])
    BY <1>0, <2>1 DEF Covered
  <2>3. j \in Measured(b, n)
    BY <2>1, <2>2 DEF Same, Measured, Database, KeyedRow
  <2>4. KeyedOf(b[j], ts) \in e.keyed
    BY <1>0, <2>3 DEF KeyedWritten
  <2>5. /\ KeyedOf(b[j], ts).kind = p.kind /\ KeyedOf(b[j], ts).key = p.key
        /\ KeyedOf(b[j], ts).ts = p.ts
    BY <1>2, <2>1, <2>2 DEF KeyedOf, Same, Overwritten
  <2> QED BY <2>4, <2>5
<1> QED BY <1>1, <1>2

\* What was stored stays stored.
LEMMA BatchKeeps ==
  ASSUME NEW d \in Database, NEW e, NEW b \in Seq(Row), NEW ts, BatchWritten(d, e, b, ts, Len(b)),
         NEW r \in Row, NEW t, Stored(d, r, t)
  PROVE  Stored(e, r, t)
<1>1. CASE r.kind \in KeyedKind
  <2>1. PICK p \in d.keyed : p.kind = r.kind /\ p.key = KeyOf(r) /\ p.ts = t
    BY <1>1, StoredKeyed
  <2>2. PICK q \in e.keyed : q.kind = p.kind /\ q.key = p.key /\ q.ts = p.ts
    BY BatchKeepsKeyed
  <2> QED BY <1>1, <2>1, <2>2, StoredKeyed
<1>2. CASE r.kind \notin KeyedKind
  <2>1. d.events \subseteq e.events
    BY DEF BatchWritten, EventsWritten
  <2> QED BY <1>2, <2>1 DEF Stored
<1> QED BY <1>1, <1>2

\* Every row of the batch is stored, or one that has its kind, key and date.
LEMMA BatchStores ==
  ASSUME NEW d, NEW e, NEW b \in Seq(Row), NEW ts, BatchWritten(d, e, b, ts, Len(b)),
         NEW i \in 1 .. Len(b)
  PROVE  Stored(e, b[i], ts)
<1> DEFINE n == Len(b)
<1>0. /\ KeyedWritten(d, e, b, ts, n) /\ EventsWritten(d, e, b, ts, n) /\ Covered(b, n)
      /\ b[i] \in Row
  BY ElementOfSeq DEF BatchWritten
<1>1. CASE b[i].kind \in KeyedKind
  <2>1. PICK j \in Latest(b, n) : Same(b[i], b[j])
    BY <1>0 DEF Covered
  <2>2. KeyedOf(b[j], ts) \in e.keyed
    BY <1>0, <1>1, <2>1 DEF KeyedWritten, Measured, Same
  <2>3. /\ KeyedOf(b[j], ts).kind = b[i].kind /\ KeyedOf(b[j], ts).key = KeyOf(b[i])
        /\ KeyedOf(b[j], ts).ts = ts
    BY <2>1 DEF KeyedOf, Same
  <2> QED BY <1>0, <1>1, <2>2, <2>3, StoredKeyed
<1>2. CASE b[i].kind \notin KeyedKind
  <2>1. i \in Reported(b, n)
    BY <1>0, <1>2 DEF Reported, Row, Kind
  <2>2. EventOf(b[i], ts) \in Seen(e)
    BY <1>0, <2>1 DEF EventsWritten
  <2> QED BY <1>0, <1>2, <2>2, StoredEvent
<1> QED BY <1>1, <1>2

\* And nothing else.
LEMMA BatchStoresOnly ==
  ASSUME NEW d, NEW e, NEW b \in Seq(Row), NEW ts, BatchWritten(d, e, b, ts, Len(b)),
         NEW r \in Row, NEW t, Stored(e, r, t)
  PROVE  \/ Stored(d, r, t)
         \/ t = ts /\ \E i \in 1 .. Len(b) : Same(b[i], r)
<1> DEFINE n == Len(b)
<1>0. KeyedWritten(d, e, b, ts, n) /\ EventsWritten(d, e, b, ts, n)
  BY DEF BatchWritten
<1>1. CASE r.kind \in KeyedKind
  <2>1. PICK p \in e.keyed : p.kind = r.kind /\ p.key = KeyOf(r) /\ p.ts = t
    BY <1>1, StoredKeyed
  <2>2. CASE p \in d.keyed
    BY <1>1, <2>1, <2>2, StoredKeyed
  <2>3. CASE \E i \in Measured(b, n) : p = KeyedOf(b[i], ts)
    BY <2>1, <2>3 DEF KeyedOf, Same, Measured, Latest
  <2> QED BY <1>0, <2>1, <2>2, <2>3 DEF KeyedWritten
<1>2. CASE r.kind \notin KeyedKind
  <2>1. EventOf(r, t) \in Seen(e)
    BY <1>2, StoredEvent
  <2>2. CASE EventOf(r, t) \in Seen(d)
    BY <1>2, <2>2, StoredEvent
  <2>3. CASE \E i \in Reported(b, n) : EventOf(r, t) = EventOf(b[i], ts)
    <3>1. PICK i \in Reported(b, n) : EventOf(r, t) = EventOf(b[i], ts)
      BY <2>3
    <3>2. r.kind = b[i].kind /\ KeyOf(r) = KeyOf(b[i]) /\ t = ts
      BY <3>1 DEF EventOf
    <3> QED BY <3>1, <3>2 DEF Same, Reported
  <2> QED BY <1>0, <2>1, <2>2, <2>3 DEF EventsWritten
<1> QED BY <1>1, <1>2

\* A prune decides by the date alone.
LEMMA PruneStores ==
  ASSUME NEW d \in Database, NEW e, NEW cutoff \in Int, PruneWritten(d, e, cutoff),
         NEW r \in Row, NEW t \in Time
  PROVE  Stored(e, r, t) <=> Stored(d, r, t) /\ t >= cutoff
BY DEF PruneWritten, Stored

\* The audit log keeps every cutoff, and gets the prune's own.
LEMMA PruneLogged ==
  ASSUME NEW d \in Database, NEW e, NEW cutoff \in Int, PruneWritten(d, e, cutoff),
         NEW t \in Time
  PROVE  PrunedSince(e, t) <=> PrunedSince(d, t) \/ t < cutoff
<1>1. PICK at \in Time : e.prunes = Append(d.prunes, [at |-> at, cutoff |-> cutoff])
  BY DEF PruneWritten
<1>2. d.prunes \in Seq([at : Time, cutoff : Int])
  BY DEF Database
<1> DEFINE entry == [at |-> at, cutoff |-> cutoff]
           n == Len(d.prunes)
<1>3. /\ n \in Nat /\ Len(e.prunes) = n + 1
      /\ \A j \in 1 .. n : e.prunes[j] = d.prunes[j]
      /\ e.prunes[n + 1] = entry
  BY <1>1, <1>2, AppendProperties
<1>4. entry.cutoff = cutoff
  OBVIOUS
<1> HIDE DEF entry, n
<1>5. \A j : j \in 1 .. (n + 1) <=> j \in 1 .. n \/ j = n + 1
  BY <1>3
<1> QED BY <1>3, <1>4, <1>5 DEF PrunedSince, n

-----------------------------------------------------------------------------
(* No step loses what is still to be kept.                                 *)

\* No process keeps rows for a shorter time than the configured one.
RetentionCovers == \A p \in Process : RetentionOf(p) >= BONITO_RETENTION_DAYS

KeepsRecent(d, e, oldest) ==
  /\ \A p \in d.keyed : p.ts >= oldest =>
       \E q \in e.keyed : q.kind = p.kind /\ q.key = p.key /\ q.ts = p.ts
  /\ \A p \in d.events : p.ts >= oldest => p \in e.events

LEMMA RetentionStep ==
  ASSUME TInv, RetentionCovers, [Next]_vars
  PROVE  KeepsRecent(db, db', clock - BONITO_RETENTION_DAYS)
<1>0. db \in Database /\ clock \in Int /\ BONITO_RETENTION_DAYS \in Int
  BY TimeAssumption DEF TInv, IInv, TypeOK, Time
<1>1. CASE db' = db
  BY <1>1 DEF KeepsRecent
<1>2. ASSUME NEW w \in Worker, Ingested(db, db', w)
      PROVE  KeepsRecent(db, db', clock - BONITO_RETENTION_DAYS)
  <2>1. Request(w) \in Seq(Row)
    BY <1>2, BatchType DEF Ingested, Request
  <2>2. BatchWritten(db, db', Request(w), job[w].ts, Len(Request(w)))
    BY <1>2 DEF Ingested
  <2>3. \A p \in db.keyed :
          \E q \in db'.keyed : q.kind = p.kind /\ q.key = p.key /\ q.ts = p.ts
    BY <1>0, <2>1, <2>2, BatchKeepsKeyed
  <2>4. db.events \subseteq db'.events
    BY <2>2 DEF BatchWritten, EventsWritten
  <2> QED BY <2>3, <2>4 DEF KeepsRecent
<1>3. ASSUME NEW w \in Worker, Retired(db, db', w)
      PROVE  KeepsRecent(db, db', clock - BONITO_RETENTION_DAYS)
  <2>1. job[w].cutoff \in Int
    BY DEF TInv, IInv, TypeOK, Job
  <2>2. RetentionOf(ServerOf[w]) \in Int /\ RetentionOf(ServerOf[w]) >= BONITO_RETENTION_DAYS
    BY RetentionType, ProcessAssumption DEF RetentionCovers
  <2>3. job[w].cutoff <= clock - BONITO_RETENTION_DAYS
    BY <1>0, <1>3, <2>1, <2>2 DEF Retired
  <2>4. /\ \A p \in db.keyed : p.ts \in Int
        /\ \A p \in db.events : p.ts \in Int
    BY <1>0 DEF Database, KeyedRow, EventRow, Time
  <2>5. \A t \in Int : t >= clock - BONITO_RETENTION_DAYS => t >= job[w].cutoff
    BY <1>0, <2>1, <2>3
  <2> QED BY <1>3, <2>4, <2>5 DEF Retired, PruneWritten, KeepsRecent
<1> QED BY <1>1, <1>2, <1>3, CommittedStep

\* If no process is given a shorter retention than the configured one, nothing that is still
\* to be kept is lost, whoever prunes and however late its cutoff is used (prune,
\* _maybe_prune).  The condition is needed: the API's store has the default retention.
THEOREM RetentionIsHonoured ==
  ASSUME RetentionCovers
  PROVE  Spec => RetentionHonoured
<1>1. TInv /\ [Next]_vars =>
        [/\ \A p \in db.keyed : p.ts >= clock - BONITO_RETENTION_DAYS =>
              \E q \in db'.keyed : q.kind = p.kind /\ q.key = p.key /\ q.ts = p.ts
         /\ \A e \in db.events : e.ts >= clock - BONITO_RETENTION_DAYS => e \in db'.events]_vars
  BY RetentionStep DEF KeepsRecent
<1> QED BY <1>1, Transactional, PTL DEF Spec, RetentionHonoured

-----------------------------------------------------------------------------
(* Snapshots are stored as a whole.                                        *)

LEMMA RowsOfType ==
  ASSUME NEW s \in Snapshot
  PROVE  RowsOf[s] \subseteq Row
BY BatchType, ElementOfSeq DEF RowsOf

\* A commit of another payload has nothing to do with the rows of s; a commit of s stores
\* them all; a prune decides by their common date.
LEMMA AtomicStep ==
  ASSUME TInv, SnapshotAtomic, [Next]_vars
  PROVE  SnapshotAtomic'
<1> SUFFICES ASSUME NEW s \in Distinct
             PROVE  \/ \A r \in RowsOf[s] : Stored(db', r, s.collected_at)
                    \/ \A r \in RowsOf[s] : ~ Stored(db', r, s.collected_at)
  BY DEF SnapshotAtomic
<1> DEFINE t == s.collected_at
<1>0. s \in Snapshot /\ s \in Payload /\ db \in Database
  BY PayloadAssumption DEF Distinct, TInv, IInv, TypeOK
<1>1. t # NoTime /\ t \in Time /\ RowsOf[s] \subseteq Row
  BY <1>0, RowsOfType DEF Distinct, Payload
<1>2. \/ \A r \in RowsOf[s] : Stored(db, r, t)
      \/ \A r \in RowsOf[s] : ~ Stored(db, r, t)
  BY DEF SnapshotAtomic
<1>3. CASE db' = db
  BY <1>2, <1>3
<1>4. ASSUME NEW w \in Worker, Ingested(db, db', w)
      PROVE  \/ \A r \in RowsOf[s] : Stored(db', r, t)
             \/ \A r \in RowsOf[s] : ~ Stored(db', r, t)
  <2> DEFINE u == job[w].req
             b == Batch(u)
  <2>1. u \in Snapshot /\ b \in Seq(Row) /\ Dated(w)
    BY <1>4, BatchType DEF Ingested
  <2>2. BatchWritten(db, db', b, job[w].ts, Len(b))
    BY <1>4 DEF Ingested, Request
  <2>3. RowsOf[u] = {b[i] : i \in 1 .. Len(b)}
    BY <2>1 DEF RowsOf
  <2>4. CASE u = s
    <3>1. job[w].ts = t
      BY <1>1, <2>1, <2>4 DEF Dated, DatesOf
    <3>2. \A i \in 1 .. Len(b) : Stored(db', b[i], t)
      BY <2>1, <2>2, <3>1, BatchStores
    <3> QED BY <2>3, <2>4, <3>2
  <2>5. CASE u # s
    <3> HIDE DEF b, u
    <3>1. ASSUME NEW r \in RowsOf[s], t = job[w].ts, NEW i \in 1 .. Len(b), Same(b[i], r)
          PROVE  FALSE
      <4>1. t \in DatesOf(u)
        BY <2>1, <3>1 DEF Dated, u
      <4>2. b[i] \in RowsOf[u] /\ <<r.kind, KeyOf(r)>> = <<b[i].kind, KeyOf(b[i])>>
        BY <2>3, <3>1 DEF Same
      <4> QED BY <2>1, <2>5, <4>1, <4>2 DEF Distinct
    <3>2. \A r \in RowsOf[s] : Stored(db', r, t) <=> Stored(db, r, t)
      BY <1>0, <1>1, <2>1, <2>2, <3>1, BatchKeeps, BatchStoresOnly
    <3> QED BY <1>2, <3>2
  <2> QED BY <2>4, <2>5
<1>5. ASSUME NEW w \in Worker, Retired(db, db', w)
      PROVE  \/ \A r \in RowsOf[s] : Stored(db', r, t)
             \/ \A r \in RowsOf[s] : ~ Stored(db', r, t)
  <2>1. job[w].cutoff \in Int
    BY DEF TInv, IInv, TypeOK, Job
  <2>2. PruneWritten(db, db', job[w].cutoff)
    BY <1>5 DEF Retired
  <2>3. \A r \in RowsOf[s] : Stored(db', r, t) <=> Stored(db, r, t) /\ t >= job[w].cutoff
    BY <1>0, <1>1, <2>1, <2>2, PruneStores
  <2> QED BY <1>2, <2>3
<1> QED BY <1>3, <1>4, <1>5, CommittedStep

\* A snapshot is stored as a whole or not at all: neither an exception in the middle of a
\* batch, nor a crash, nor a prune leaves a part of it (ingest).
THEOREM SnapshotsAtomic == Spec => []SnapshotAtomic
<1>1. Init => SnapshotAtomic
  BY DEF Init, SnapshotAtomic, EmptyDatabase, Stored
<1>2. TInv /\ SnapshotAtomic /\ [Next]_vars => SnapshotAtomic'
  BY AtomicStep
<1> QED BY <1>1, <1>2, Transactional, PTL DEF Spec

-----------------------------------------------------------------------------
(* An acknowledged batch is stored.                                        *)

StoredOrPruned(d, r, ts) == Stored(d, r, ts) \/ PrunedSince(d, ts)

BatchStored(d, w) ==
  \A i \in 1 .. Len(Request(w)) : StoredOrPruned(d, Request(w)[i], job[w].ts)

\* From its commit to its answer, a request's rows are in the tables or were pruned.
Answered ==
  \A w \in Worker :
    job[w].pc \in {"maybe_prune", "prune", "prune_commit", "stamp", "ok"} /\ job[w].req # NoRequest
      => BatchStored(db, w)

\* What is stored stays so until it is pruned.
LEMMA StoredStep ==
  ASSUME TInv, [Next]_vars, NEW r \in Row, NEW ts \in Time, StoredOrPruned(db, r, ts)
  PROVE  StoredOrPruned(db', r, ts)
<1>0. db \in Database
  BY DEF TInv, IInv, TypeOK
<1>1. ASSUME NEW w \in Worker, Ingested(db, db', w) PROVE StoredOrPruned(db', r, ts)
  <2>1. Request(w) \in Seq(Row)
    BY <1>1, BatchType DEF Ingested, Request
  <2>2. BatchWritten(db, db', Request(w), job[w].ts, Len(Request(w)))
    BY <1>1 DEF Ingested
  <2>3. Stored(db, r, ts) => Stored(db', r, ts)
    BY <1>0, <2>1, <2>2, BatchKeeps
  <2>4. PrunedSince(db, ts) => PrunedSince(db', ts)
    BY <2>2 DEF BatchWritten, PrunedSince
  <2> QED BY <2>3, <2>4 DEF StoredOrPruned
<1>2. ASSUME NEW w \in Worker, Retired(db, db', w) PROVE StoredOrPruned(db', r, ts)
  <2>1. job[w].cutoff \in Int /\ ts \in Int
    BY DEF TInv, IInv, TypeOK, Job, Time
  <2>2. PruneWritten(db, db', job[w].cutoff)
    BY <1>2 DEF Retired
  <2>3. Stored(db', r, ts) <=> Stored(db, r, ts) /\ ts >= job[w].cutoff
    BY <1>0, <2>1, <2>2, PruneStores
  <2>4. PrunedSince(db', ts) <=> PrunedSince(db, ts) \/ ts < job[w].cutoff
    BY <1>0, <2>1, <2>2, PruneLogged
  <2> QED BY <2>1, <2>3, <2>4 DEF StoredOrPruned
<1> QED BY <1>1, <1>2, CommittedStep

LEMMA BatchStoredStep ==
  ASSUME TInv, [Next]_vars, NEW v \in Worker, job[v].req # NoRequest, BatchStored(db, v),
         job'[v].req = job[v].req, job'[v].ts = job[v].ts
  PROVE  BatchStored(db, v)'
<1>1. job[v].req \in Snapshot /\ job[v].ts \in Time
  BY DEF TInv, IInv, TypeOK, Job
<1>2. Request(v) \in Seq(Row) /\ Request(v)' = Request(v)
  BY <1>1, BatchType DEF Request
<1>3. \A i \in 1 .. Len(Request(v)) : Request(v)[i] \in Row
  BY <1>2, ElementOfSeq
<1>4. \A i \in 1 .. Len(Request(v)) : StoredOrPruned(db', Request(v)[i], job[v].ts)
  BY <1>1, <1>3, StoredStep DEF BatchStored
<1> QED BY <1>2, <1>4 DEF BatchStored

\* The commit itself stores the batch; a batch that opened no transaction has no rows.
LEMMA CommitStores ==
  ASSUME TInv, NEW w \in Worker, Commit(w)
  PROVE  BatchStored(db, w)'
<1>0. job \in [Worker -> Job]
  BY DEF TInv, IInv, TypeOK
<1>1. /\ job[w].pc = "row" /\ job[w].pos > Len(Request(w)) /\ job[w].req \in Snapshot
      /\ job'[w].req = job[w].req /\ job'[w].ts = job[w].ts
  BY <1>0 DEF Commit, Job, TInv, IInv, Isolation, ThreadsInStep
<1>2. Request(w) \in Seq(Row) /\ Len(Request(w)) \in Nat /\ Request(w)' = Request(w)
  BY <1>1, BatchType DEF Request
<1>3. InBatch(w) /\ job[w].pos \in Nat
  BY <1>0, <1>1 DEF TInv, Transactions, Transaction, Job
<1>4. CASE writer = w
  <2>1. job[w].pos - 1 = Len(Request(w))
    BY <1>1, <1>2, <1>3 DEF InBatch
  <2>2. BatchWritten(db, tx, Request(w), job[w].ts, Len(Request(w)))
    BY <1>3, <1>4, <2>1 DEF InBatch
  <2>3. db' = tx
    BY <1>4 DEF Commit
  <2>4. \A i \in 1 .. Len(Request(w)) : Stored(db', Request(w)[i], job[w].ts)
    BY <1>2, <2>2, <2>3, BatchStores
  <2> QED BY <1>1, <1>2, <2>4 DEF BatchStored, StoredOrPruned
<1>5. CASE writer # w
  <2>1. Len(Request(w)) = 0
    BY <1>1, <1>2, <1>3, <1>5 DEF InBatch
  <2> QED BY <1>2, <2>1 DEF BatchStored
<1> QED BY <1>4, <1>5

LEMMA AnsweredStep ==
  ASSUME TInv, Answered, [Next]_vars
  PROVE  Answered'
<1> DEFINE After == {"maybe_prune", "prune", "prune_commit", "stamp", "ok"}
           Kept(v) == job[v].pc \in After /\ job[v].req # NoRequest => BatchStored(db, v)
<1>0. job \in [Worker -> Job]
  BY DEF TInv, IInv, TypeOK
<1>1. ASSUME NEW v \in Worker, job[v].pc \in After, job'[v].req = job[v].req,
             job'[v].ts = job[v].ts
      PROVE  Kept(v)'
  BY <1>1, BatchStoredStep DEF Answered
<1>2. ASSUME NEW v \in Worker, job'[v] = job[v] PROVE Kept(v)'
  BY <1>1, <1>2
<1>3. ASSUME NEW v \in Worker, job'[v].pc \notin After \/ job'[v].req = NoRequest PROVE Kept(v)'
  BY <1>3
<1> HIDE DEF Kept
<1>4. ASSUME NEW w \in Worker, MaybePrune(w) \/ PruneDelete(w) \/ PruneCommit(w) \/ Stamp(w)
      PROVE  Kept(w)'
  <2>1. /\ job[w].pc \in After
        /\ job'[w].req = job[w].req /\ job'[w].ts = job[w].ts
    BY <1>0, <1>4 DEF MaybePrune, PruneDelete, PruneCommit, Stamp, Job
  <2> QED BY <1>1, <2>1
<1>5. ASSUME NEW w \in Worker, Commit(w) PROVE Kept(w)'
  BY <1>5, CommitStores DEF Kept
<1>6. ASSUME NEW w \in Worker, \/ Select(w) \/ Write(w) \/ Conflict(w) \/ BusyTimeout(w)
                               \/ StatementFails(w)
      PROVE  Kept(w)'
  <2>1. job'[w].pc \notin After
    BY <1>0, <1>6 DEF Select, Write, Conflict, BusyTimeout, StatementFails, Job
  <2> QED BY <1>3, <2>1
<1>7. ASSUME NEW w \in Worker, Respond(w) \/ PruneCommand(w) PROVE Kept(w)'
  <2>1. job'[w].req = NoRequest
    <3>1. CASE Respond(w)
      BY <1>0, <3>1, IdleType DEF Respond
    <3>2. CASE PruneCommand(w)
      BY <1>0, <3>2, IdleType DEF PruneCommand, Job
    <3> QED BY <1>7, <3>1, <3>2
  <2> QED BY <1>3, <2>1
<1>8. ASSUME NEW w \in Worker, NEW s \in Snapshot, Receive(w, s) PROVE Kept(w)'
  <2>1. job'[w].pc = "row"
    BY <1>0, <1>8 DEF Receive, Idle
  <2> QED BY <1>3, <2>1
<1>9. ASSUME NEW w \in Worker, NEW v \in Worker, v # w,
             Step(w) \/ StatementFails(w) \/ PruneCommand(w)
      PROVE  job'[v] = job[v]
  BY <1>0, <1>9 DEF Step, Select, Write, Conflict, Commit, MaybePrune, PruneDelete,
     PruneCommit, Stamp, BusyTimeout, StatementFails, Respond, PruneCommand
<1>10. ASSUME NEW w \in Worker, NEW v \in Worker, v # w, NEW s \in Snapshot, Receive(w, s)
       PROVE  job'[v] = job[v]
  BY <1>0, <1>10 DEF Receive
<1>11. ASSUME NEW p \in Process, Restart(p), NEW v \in Worker PROVE Kept(v)'
  <2>1. job'[v] = job[v] \/ job'[v].pc = "idle"
    BY <1>11, IdleType DEF Restart
  <2> QED BY <1>2, <1>3, <2>1
<1>12. ASSUME Tick \/ UNCHANGED vars, NEW v \in Worker PROVE Kept(v)'
  <2>1. job'[v] = job[v]
    BY <1>12 DEF Tick, vars
  <2> QED BY <1>2, <2>1
<1>13. ASSUME NEW v \in Worker PROVE Kept(v)'
  BY <1>2, <1>4, <1>5, <1>6, <1>7, <1>8, <1>9, <1>10, <1>11, <1>12 DEF Next, Step
<1> QED BY <1>13 DEF Answered, Kept

\* When the 200 leaves, every row of the batch is committed, unless a prune has already
\* found it too old (ingest, _maybe_prune).
THEOREM AcknowledgedStored == Spec => []AckedIsStored
<1>1. Init => Answered
  BY IdleType DEF Init, Answered
<1>2. TInv /\ Answered /\ [Next]_vars => Answered'
  BY AnsweredStep
<1>3. Answered => AckedIsStored
  BY DEF Answered, AckedIsStored, BatchStored, StoredOrPruned
<1> QED BY <1>1, <1>2, <1>3, Transactional, PTL DEF Spec

=============================================================================
