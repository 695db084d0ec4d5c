--------------------------- MODULE MCBonitoStore ---------------------------
(***************************************************************************)
(* Small instances of BonitoStore for TLC.                                 *)
(***************************************************************************)
EXTENDS BonitoStore, TLC

CONSTANTS store, api, cli, w1, w2, w3, f1, f2, t1, d1

MCId == {f1, f2}
MCDigest == t1 :> d1
MCMean == {1, 2}

Query(id, ms) == [kind |-> "top_queries", id |-> id, text |-> t1, mean_ms |-> ms]
Lock(id)      == [kind |-> "locks", id |-> id, text |-> t1, mean_ms |-> 1]

Nothing(ts) == [collected_at |-> ts, top_queries |-> << >>, locks |-> << >>,
                sessions |-> << >>, tables |-> << >>, plans |-> << >>]

\* A query and a lock, collected first.
Earlier == [Nothing(1) EXCEPT !.top_queries = <<Query(f1, 1)>>, !.locks = <<Lock(f1)>>]
\* The same query again, listed twice (for two users).
Later == [Nothing(2) EXCEPT !.top_queries = <<Query(f1, 1), Query(f1, 2)>>]
\* A payload without a date: the same, a query without a fingerprint, and one row too
\* many.
Undated == [Nothing(NoTime) EXCEPT
              !.top_queries = <<Query(f1, 1), Query(f1, 2), Query(NoId, 1), Query(f2, 1)>>]

\* Threads of the store's server and of the API's, and the prune command.
TwoThreads  == (w1 :> store) @@ (w2 :> store)
TwoServers  == (w1 :> store) @@ (w2 :> api)
ServersAndPrune == (w1 :> store) @@ (w2 :> api) @@ (w3 :> cli)

AllSnapshots   == {Earlier, Undated}
BothSnapshots  == {Earlier, Later}

\* Threads of one process are interchangeable.
Threads == Permutations({w1, w2})
\* So are two servers with one thread each, when they have the same retention.
Servers == {(w1 :> w2) @@ (w2 :> w1) @@ (store :> api) @@ (api :> store)}
=============================================================================
