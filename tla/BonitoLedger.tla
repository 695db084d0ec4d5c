--------------------------- MODULE BonitoLedger ---------------------------
(***************************************************************************)
(* What bonito-store promises to those who read its file: a snapshot is    *)
(* taken over in one step, all of its rows or none; a prune drops, in one  *)
(* step, rows that are older than the retention and nothing else; what is  *)
(* known of a query is never dropped.  There are no threads, no locks and  *)
(* no failures here: a request that fails is one that did not happen.      *)
(***************************************************************************)
EXTENDS Integers, Sequences

CONSTANTS
  Snapshot,      \* the payloads
  Rows,          \* the rows that each of them stores, as a function to sequences
  CollectedAt,   \* the date of each, or NoTime
  Key,           \* fingerprints and the other keys of rows
  Keyed,         \* the kinds of rows that are kept once per key and date
  Retention,     \* how long a row is kept
  Start,         \* the time at which the store is created
  NoTime, NoRow  \* the absent date and text

VARIABLES
  now,      \* the time
  texts,    \* what is known of each query
  samples,  \* rows kept once per key and date
  events    \* the other rows, as readers tell them apart

vars == <<now, texts, samples, events>>

-----------------------------------------------------------------------------
\* A row counts unless a later one of its snapshot has the same kind and key.
LastOfKey(rows) ==
  {i \in DOMAIN rows : \A j \in DOMAIN rows :
     j > i => <<rows[j].kind, rows[j].key>> # <<rows[i].kind, rows[i].key>>}

\* What a snapshot says of each query it has, of each key, and the events it reports.
Queries == [s \in Snapshot |->
  {Rows[s][i] : i \in {j \in LastOfKey(Rows[s]) : Rows[s][j].kind = "top_queries"}}]
Measures == [s \in Snapshot |->
  {Rows[s][i] : i \in {j \in LastOfKey(Rows[s]) : Rows[s][j].kind \in Keyed}}]
Events == [s \in Snapshot |->
  {Rows[s][i] : i \in {j \in DOMAIN Rows[s] : Rows[s][j].kind \notin Keyed}}]

\* The text of a query becomes the snapshot's; the date it was first seen stays.
Known(s, ts) ==
  [k \in Key |->
     IF \E r \in Queries[s] : r.key = k
     THEN [first_seen |-> IF texts[k] = NoRow THEN ts ELSE texts[k].first_seen,
           last_seen  |-> ts,
           avg_ms     |-> (CHOOSE r \in Queries[s] : r.key = k).mean_ms]
     ELSE texts[k]]

\* A snapshot without a date is dated when it arrives, which is not after it is taken over.
Dates(s) == IF CollectedAt[s] = NoTime THEN 0 .. now ELSE {CollectedAt[s]}

TakeOver(s, ts) ==
  /\ UNCHANGED now
  /\ texts' = Known(s, ts)
  /\ samples' = {p \in samples : p.ts = ts => \A r \in Measures[s] :
                                  <<r.kind, r.key>> # <<p.kind, p.key>>}
                  \cup {[kind |-> r.kind, key |-> r.key, ts |-> ts, mean_ms |-> r.mean_ms] :
                          r \in Measures[s]}
  /\ events' = events \cup {[kind |-> r.kind, key |-> r.key, ts |-> ts] : r \in Events[s]}

\* Prunes that were begun at different times may drop different amounts of what is too old.
Drop(cutoff) ==
  /\ cutoff <= now - Retention
  /\ UNCHANGED <<now, texts>>
  /\ samples' = {p \in samples : p.ts >= cutoff}
  /\ events' = {e \in events : e.ts >= cutoff}

Pass == now' = now + 1 /\ UNCHANGED <<texts, samples, events>>

Init ==
  /\ now = Start
  /\ texts = [k \in Key |-> NoRow]
  /\ samples = {}
  /\ events = {}

\* Only what readers can see is a step: a snapshot that repeats what is there is none.
Next ==
  /\ vars' # vars
  /\ \/ \E s \in Snapshot : \E ts \in Dates(s) : TakeOver(s, ts)
     \/ \E cutoff \in 0 .. now : Drop(cutoff)
     \/ Pass

Spec == Init /\ [][Next]_vars

=============================================================================
