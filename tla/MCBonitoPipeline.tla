------------------------- MODULE MCBonitoPipeline -------------------------
(***************************************************************************)
(* Small instances of BonitoPipeline for TLC.                              *)
(***************************************************************************)
EXTENDS BonitoPipeline, TLC

CONSTANTS store, w1, w2, f1, t1, d1

MCDigest == t1 :> d1

RowOfKind(k, id, ms) == [kind |-> k, id |-> id, text |-> t1, mean_ms |-> ms]
Nothing(ts) == [collected_at |-> ts, top_queries |-> << >>, locks |-> << >>,
                sessions |-> << >>, tables |-> << >>, plans |-> << >>]

\* Two rounds of the collector see the same query; the first of them also a lock, the
\* second a table.
First  == [Nothing(2) EXCEPT !.top_queries = <<RowOfKind("top_queries", f1, 1)>>,
                             !.locks = <<RowOfKind("locks", f1, 1)>>]
Second == [Nothing(3) EXCEPT !.top_queries = <<RowOfKind("top_queries", f1, 2)>>,
                             !.tables = <<RowOfKind("tables", f1, 1)>>]

\* And a third one, dated as the second, that waits for a thread.
Third  == [Nothing(3) EXCEPT !.sessions = <<RowOfKind("sessions", f1, 1)>>]

MCSnapshot == {First, Second, Third}

\* Two threads of the store.
TwoThreads == (w1 :> store) @@ (w2 :> store)
=============================================================================
