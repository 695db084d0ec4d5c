-------------------------- MODULE BonitoPipeline --------------------------
(***************************************************************************)
(* The collector's pushes and the store's requests together.  The loop     *)
(* collects a snapshot, posts it with a timeout of 5 seconds, takes any    *)
(* outcome and goes on; it never sends a snapshot again.  A push that was  *)
(* given up may still be on its way to the store, or being stored by a     *)
(* thread whose client has gone, while later snapshots overtake it.  The   *)
(* store is the whole of BonitoStore, with the collector as its client.    *)
(***************************************************************************)
EXTENDS BonitoStore, FiniteSets

ASSUME PushAssumption == \A s \in Snapshot : s.collected_at # NoTime

VARIABLES
  pushed,   \* what became of each snapshot: push_events' result, for the one it waits for "sent"
  wire      \* snapshots posted that no thread of the store has taken up

pvars == <<vars, pushed, wire>>

Outcome == {"none", "sent", "true", "false"}

PTypeOK ==
  /\ TypeOK
  /\ pushed \in [Snapshot -> Outcome]
  /\ wire \subseteq Snapshot

Waiting == {s \in Snapshot : pushed[s] = "sent"}

-----------------------------------------------------------------------------
(* The collector.                                                          *)

\* run_instance: a snapshot is dated when it is complete, and posted at once.
Push(s) ==
  /\ Waiting = {}
  /\ pushed[s] = "none"
  /\ s.collected_at = clock
  /\ pushed' = [pushed EXCEPT ![s] = "sent"]
  /\ wire' = wire \cup {s}
  /\ UNCHANGED vars

\* Mutant of GiveUp: the push is tried again until an answer comes.
GiveUp_Retries(s) ==
  /\ pushed[s] = "sent"
  /\ wire' = wire \cup {s}
  /\ UNCHANGED <<vars, pushed>>

\* push_events returns False for any exception: nobody listens, the connection is lost, the 5
\* seconds are over.  The request is then lost, or still waits to be served, or is served.
GiveUp(s) ==
  /\ pushed[s] = "sent"
  /\ pushed' = [pushed EXCEPT ![s] = "false"]
  /\ \E lost \in BOOLEAN : wire' = IF lost THEN wire \ {s} ELSE wire
  /\ UNCHANGED vars

-----------------------------------------------------------------------------
(* The store's side of a request.                                          *)

\* A thread of the store's server takes up a request; the collector posts to no other.
Accept(w, s) ==
  /\ s \in wire
  /\ ServerOf[w] \in StoreServer
  /\ Receive(w, s)
  /\ wire' = wire \ {s}
  /\ UNCHANGED pushed

\* Mutants of Returned: any response will do; the response itself.
Returned_Any(w) == "true"
Returned_Response(w) == job[w].pc

\* r.status_code < 300
Returned(w) == IF job[w].pc = "ok" THEN "true" ELSE "false"

\* The response reaches the client, if that still waits for it.
Reply(w) ==
  /\ Respond(w)
  /\ pushed' = IF job[w].req \in Waiting
               THEN [pushed EXCEPT ![job[w].req] = Returned(w)] ELSE pushed
  /\ UNCHANGED wire

\* What was waiting for the process goes with it.
Crash(p) ==
  /\ Restart(p)
  /\ wire' = IF p \in StoreServer THEN {} ELSE wire
  /\ UNCHANGED pushed

\* The steps of a thread that its client does not see.
Inner(w) ==
  /\ \/ Select(w) \/ Write(w) \/ Conflict(w) \/ Commit(w)
     \/ MaybePrune(w) \/ PruneDelete(w) \/ PruneCommit(w) \/ Stamp(w) \/ BusyTimeout(w)
  /\ UNCHANGED <<pushed, wire>>

Unseen ==
  /\ \/ \E w \in Worker : StatementFails(w) \/ PruneCommand(w)
     \/ Tick
  /\ UNCHANGED <<pushed, wire>>

PInit == Init /\ pushed = [s \in Snapshot |-> "none"] /\ wire = {}

PNext ==
  \/ \E s \in Snapshot : Push(s) \/ GiveUp(s)
  \/ \E w \in Worker : Inner(w) \/ Reply(w)
  \/ \E w \in Worker, s \in Snapshot : Accept(w, s)
  \/ \E p \in Process : Crash(p)
  \/ Unseen

PSpec == PInit /\ [][PNext]_pvars

\* Threads are scheduled and sqlite3's busy timeout does run out; nothing has to fail, and nobody
\* has to send a request.
PFairSpec == PSpec /\ \A w \in Worker : WF_pvars(Inner(w) \/ Reply(w))

-----------------------------------------------------------------------------
(* What must hold.                                                         *)

SameRow(r, kind, key) == r.kind = kind /\ KeyOf(r) = key

Times(r, ts) == Cardinality({e \in db.events : SameRow(r, e.kind, e.key) /\ e.ts = ts})

Given(r, s) == Cardinality({i \in DOMAIN Batch(s) :
                              SameRow(r, Batch(s)[i].kind, KeyOf(Batch(s)[i]))})

\* Lock events and sessions are plain INSERTs, of which nothing removes a double: none is
\* stored more often than its snapshot had it, although a push that timed out is often stored
\* all the same, because the loop never sends a snapshot twice (run_instance, _insert_lock).
StoredOnce ==
  \A s \in Snapshot :
    \A r \in RowsOf[s] : Times(r, s.collected_at) <= Given(r, s)

\* What push_events reports as taken over is in the file, however the server fails, restarts
\* or prunes later, until retention takes it (push_events, ingest).
TrueIsStored ==
  \A s \in Snapshot : pushed[s] = "true" =>
    \A r \in RowsOf[s] : Stored(db, r, s.collected_at) \/ PrunedSince(db, s.collected_at)

=============================================================================
