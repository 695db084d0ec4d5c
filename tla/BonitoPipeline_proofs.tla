------------------------ MODULE BonitoPipeline_proofs ------------------------
(***************************************************************************)
(* The pipeline is the store with the collector as its client: what was    *)
(* proved of the store holds of it.  Following a snapshot on its way, from *)
(* the push to the commit, gives what the collector may rely on.           *)
(***************************************************************************)
EXTENDS BonitoPipeline, BonitoTransaction_proofs, FiniteSetTheorems

-----------------------------------------------------------------------------
(* The store inside the pipeline.                                          *)

\* Every step is one of the store or leaves it alone.
LEMMA StoreStep ==
  ASSUME PNext
  PROVE  [Next]_vars
<1>1. CASE \E s \in Snapshot : Push(s) \/ GiveUp(s)
  BY <1>1 DEF Push, GiveUp
<1>2. CASE \E w \in Worker : Inner(w) \/ Reply(w)
  BY <1>2 DEF Inner, Reply, Next, Step
<1>3. CASE \E w \in Worker, s \in Snapshot : Accept(w, s)
  BY <1>3 DEF Accept, Next
<1>4. CASE \E p \in Process : Crash(p)
  BY <1>4 DEF Crash, Next
<1>5. CASE Unseen
  BY <1>5 DEF Unseen, Next
<1> QED BY <1>1, <1>2, <1>3, <1>4, <1>5 DEF PNext

\* The store's part of the pipeline behaves as the store does by itself: with the collector as
\* its client it keeps all that it promises to any client (BonitoStore.ingest).
THEOREM PipelineIsStore == PSpec => Spec
<1>1. PInit => Init
  BY DEF PInit
<1>2. [PNext]_pvars => [Next]_vars
  BY StoreStep DEF pvars
<1> QED BY <1>1, <1>2, PTL DEF PSpec, Spec

-----------------------------------------------------------------------------
(* Types.                                                                  *)

PTypes ==
  /\ pushed \in [Snapshot -> Outcome]
  /\ wire \subseteq Snapshot

LEMMA PTypesStep ==
  ASSUME PTypes, [PNext]_pvars
  PROVE  PTypes'
<1> USE DEF PTypes, Outcome
<1>1. ASSUME NEW s \in Snapshot, Push(s) \/ GiveUp(s) PROVE PTypes'
  BY <1>1 DEF Push, GiveUp
<1>2. ASSUME NEW w \in Worker, Inner(w) PROVE PTypes'
  BY <1>2 DEF Inner
<1>3. ASSUME NEW w \in Worker, Reply(w) PROVE PTypes'
  BY <1>3 DEF Reply, Returned, Waiting
<1>4. ASSUME NEW w \in Worker, NEW s \in Snapshot, Accept(w, s) PROVE PTypes'
  BY <1>4 DEF Accept
<1>5. ASSUME NEW p \in Process, Crash(p) PROVE PTypes'
  BY <1>5 DEF Crash
<1>6. ASSUME Unseen \/ UNCHANGED pvars PROVE PTypes'
  BY <1>6 DEF Unseen, pvars
<1> QED BY <1>1, <1>2, <1>3, <1>4, <1>5, <1>6 DEF PNext

\* What became of a push is always one of the four outcomes, and only snapshots are posted.
THEOREM PipelineTypes == PSpec => []PTypeOK
<1>1. PInit => PTypes
  BY DEF PInit, PTypes, Outcome
<1>2. PTypes /\ [PNext]_pvars => PTypes'
  BY PTypesStep
<1>3. TypeOK /\ PTypes => PTypeOK
  BY DEF PTypeOK, PTypes
<1> QED BY <1>1, <1>2, <1>3, PipelineIsStore, TypeCorrect, PTL DEF PSpec

\* All that is known of the store, and the types of the collector's side.
PInv == TInv /\ Answered /\ PTypes

LEMMA PipelineInv == PSpec => []PInv
<1>1. Init => Answered
  BY IdleType DEF Init, Answered
<1>2. TInv /\ Answered /\ [Next]_vars => Answered'
  BY AnsweredStep
<1>3. PInit => PTypes
  BY DEF PInit, PTypes, Outcome
<1>4. PTypes /\ [PNext]_pvars => PTypes'
  BY PTypesStep
<1>5. TInv /\ Answered /\ PTypes => PInv
  BY DEF PInv
<1>6. Spec => []Answered
  BY <1>1, <1>2, Transactional, PTL DEF Spec
<1> QED BY <1>3, <1>4, <1>5, <1>6, PipelineIsStore, Transactional, PTL DEF PSpec

-----------------------------------------------------------------------------
(* What a thread does with the snapshot it has.                            *)

\* A thread leaves its request alone, takes up one, or is rid of it.
LEMMA RequestStep ==
  ASSUME PInv, [PNext]_pvars, NEW w \in Worker
  PROVE  \/ job'[w].req = job[w].req /\ job'[w].ts = job[w].ts
         \/ job'[w].req = NoRequest
         \/ \E s \in Snapshot : /\ Accept(w, s) /\ job'[w].req = s /\ job'[w].ts = s.collected_at
                                /\ job[w].pc = "idle"
<1>0. job \in [Worker -> Job]
  BY DEF PInv, TInv, IInv, TypeOK
<1>1. ASSUME NEW v \in Worker, Inner(v) PROVE job'[w].req = job[w].req /\ job'[w].ts = job[w].ts
  BY <1>0, <1>1 DEF Inner, Select, Write, Conflict, Commit, MaybePrune, PruneDelete, PruneCommit,
     Stamp, BusyTimeout, Job
<1>2. ASSUME NEW v \in Worker, Reply(v)
      PROVE  \/ job'[w].req = job[w].req /\ job'[w].ts = job[w].ts
             \/ job'[w].req = NoRequest
  BY <1>0, <1>2, IdleType DEF Reply, Respond
<1>3. ASSUME NEW v \in Worker, NEW s \in Snapshot, Accept(v, s)
      PROVE  \/ job'[w].req = job[w].req /\ job'[w].ts = job[w].ts
             \/ /\ v = w /\ job'[w].req = s /\ job'[w].ts = s.collected_at
                /\ job[w].pc = "idle"
  <2>1. s.collected_at # NoTime
    BY PushAssumption
  <2>2. CASE v = w
    <3>1. job'[w] = [Idle EXCEPT !.pc = "row", !.req = s, !.ts = s.collected_at]
      BY <1>0, <1>3, <2>1, <2>2 DEF Accept, Receive
    <3>2. job'[w].req = s /\ job'[w].ts = s.collected_at
      BY <3>1 DEF Idle
    <3> QED BY <1>3, <2>2, <3>2 DEF Accept, Receive
  <2>3. CASE v # w
    BY <1>0, <1>3, <2>3 DEF Accept, Receive
  <2> QED BY <2>2, <2>3
<1>4. ASSUME NEW p \in Process, Crash(p)
      PROVE  \/ job'[w].req = job[w].req /\ job'[w].ts = job[w].ts
             \/ job'[w].req = NoRequest
  BY <1>0, <1>4, IdleType DEF Crash, Restart
<1>5. ASSUME NEW v \in Worker, StatementFails(v) \/ PruneCommand(v)
      PROVE  \/ job'[w].req = job[w].req /\ job'[w].ts = job[w].ts
             \/ job'[w].req = NoRequest
  <2>1. CASE StatementFails(v)
    BY <1>0, <2>1 DEF StatementFails, Job
  <2>2. CASE PruneCommand(v)
    BY <1>0, <2>2, IdleType DEF PruneCommand, Job
  <2> QED BY <1>5, <2>1, <2>2
<1>6. ASSUME Tick \/ UNCHANGED vars PROVE job'[w].req = job[w].req /\ job'[w].ts = job[w].ts
  BY <1>6 DEF Tick, vars
<1> QED BY <1>1, <1>2, <1>3, <1>4, <1>5, <1>6 DEF PNext, Unseen, Push, GiveUp, pvars

\* A request is stored under the date at which its snapshot was collected.
AsCollected ==
  \A w \in Worker : job[w].req # NoRequest => job[w].ts = job[w].req.collected_at

LEMMA AsCollectedStep ==
  ASSUME PInv, AsCollected, [PNext]_pvars
  PROVE  AsCollected'
BY RequestStep DEF AsCollected

-----------------------------------------------------------------------------
(* "true" is only said of what is stored.                                  *)

RowsKept(s) == \A r \in RowsOf[s] : StoredOrPruned(db, r, s.collected_at)

LEMMA RowsKeptStep ==
  ASSUME TInv, [Next]_vars, NEW s \in Snapshot, RowsKept(s)
  PROVE  RowsKept(s)'
<1>1. RowsOf[s] \subseteq Row
  BY RowsOfType
<1>2. s.collected_at \in Time
  BY PushAssumption, PayloadAssumption DEF Payload
<1> QED BY <1>1, <1>2, StoredStep DEF RowsKept

LEMMA TrueStep ==
  ASSUME PInv, AsCollected, TrueIsStored, [PNext]_pvars
  PROVE  TrueIsStored'
<1>0. job \in [Worker -> Job] /\ pushed \in [Snapshot -> Outcome]
  BY DEF PInv, TInv, IInv, TypeOK, PTypes
<1>1. [Next]_vars
  BY StoreStep DEF pvars
<1>2. ASSUME NEW s \in Snapshot, pushed[s] = "true" PROVE RowsKept(s)'
  BY <1>1, <1>2, RowsKeptStep DEF PInv, TrueIsStored, RowsKept, StoredOrPruned
<1>3. ASSUME NEW s \in Snapshot, pushed'[s] = "true", pushed[s] # "true" PROVE RowsKept(s)'
  <2>1. PICK w \in Worker : Reply(w)
    BY <1>0, <1>3 DEF PNext, Push, GiveUp, Inner, Accept, Crash, Unseen, pvars
  <2>2. job[w].req = s /\ job[w].pc = "ok"
    BY <1>0, <1>3, <2>1 DEF Reply, Returned, Waiting
  <2>3. s # NoRequest
    BY PayloadAssumption
  <2>4. BatchStored(db, w) /\ job[w].ts = s.collected_at
    BY <2>2, <2>3 DEF PInv, Answered, AsCollected
  <2>5. RowsKept(s)
    BY <2>2, <2>4 DEF BatchStored, RowsKept, RowsOf, Request
  <2> QED BY <1>1, <2>5, RowsKeptStep DEF PInv
<1> QED BY <1>2, <1>3 DEF TrueIsStored, RowsKept, StoredOrPruned

\* What push_events reports as taken over is in the file, however the server fails, restarts
\* or prunes later, until retention takes it (push_events, ingest).
THEOREM TrueStored == PSpec => []TrueIsStored
<1>1. PInit => AsCollected /\ TrueIsStored
  BY IdleType DEF PInit, Init, AsCollected, TrueIsStored
<1>2. PInv /\ AsCollected /\ [PNext]_pvars => AsCollected'
  BY AsCollectedStep
<1>3. PInv /\ AsCollected /\ TrueIsStored /\ [PNext]_pvars => TrueIsStored'
  BY TrueStep
<1> QED BY <1>1, <1>2, <1>3, PipelineInv, PTL DEF PSpec

-----------------------------------------------------------------------------
(* Nothing is stored twice.                                                *)

EventsIn(d, r, t) == {e \in d.events : SameRow(r, e.kind, e.key) /\ e.ts = t}

\* No event of the snapshot has been stored.
Undone(s) == \A r \in RowsOf[s] : EventsIn(db, r, s.collected_at) = {}

Few(s) ==
  \A r \in RowsOf[s] : /\ IsFiniteSet(EventsIn(db, r, s.collected_at))
                       /\ Cardinality(EventsIn(db, r, s.collected_at)) <= Given(r, s)

\* A snapshot is with the collector, then on the wire, then with one thread, and never comes
\* back to where it was; nothing of it is stored before that thread commits.
OnItsWay ==
  /\ \A s \in Snapshot : pushed[s] = "none" => s \notin wire
  /\ \A s \in Snapshot : pushed[s] = "none" \/ s \in wire =>
       Undone(s) /\ \A w \in Worker : job[w].req # s
  /\ \A w \in Worker, s \in Snapshot :
       job[w].req = s /\ job[w].pc \in {"row", "write"} => Undone(s)
  /\ \A v, w \in Worker : job[v].req = job[w].req /\ job[w].req # NoRequest => v = w

Once == OnItsWay /\ \A s \in Snapshot : Few(s)

LEMMA GivenType ==
  ASSUME NEW s \in Snapshot, NEW r
  PROVE  /\ IsFiniteSet({i \in DOMAIN Batch(s) : SameRow(r, Batch(s)[i].kind, KeyOf(Batch(s)[i]))})
         /\ Given(r, s) \in Nat
<1>1. Len(Batch(s)) \in Nat /\ DOMAIN Batch(s) = 1 .. Len(Batch(s))
  BY BatchType
<1>2. IsFiniteSet(DOMAIN Batch(s))
  BY <1>1, FS_Interval
<1>3. IsFiniteSet({i \in DOMAIN Batch(s) : SameRow(r, Batch(s)[i].kind, KeyOf(Batch(s)[i]))})
  BY <1>2, FS_Subset
<1> QED BY <1>3, FS_CardinalityType DEF Given

\* A commit stores as many events of a row as the snapshot has, where there was none.
LEMMA FewAfterCommit ==
  ASSUME NEW d, NEW e, NEW s \in Snapshot, NEW r \in RowsOf[s],
         LET b == Batch(s) IN OnePerRow(d, e, b, s.collected_at, Len(b)),
         EventsIn(d, r, s.collected_at) = {}
  PROVE  /\ IsFiniteSet(EventsIn(e, r, s.collected_at))
         /\ Cardinality(EventsIn(e, r, s.collected_at)) <= Given(r, s)
<1> DEFINE b == Batch(s)
           n == Len(b)
           t == s.collected_at
           G == {i \in DOMAIN b : SameRow(r, b[i].kind, KeyOf(b[i]))}
           I == {i \in Reported(b, n) : SameRow(r, b[i].kind, KeyOf(b[i]))}
<1>0. b \in Seq(Row) /\ n \in Nat /\ DOMAIN b = 1 .. n
  BY BatchType
<1>1. PICK row : /\ e.events = d.events \cup {row[i] : i \in Reported(b, n)}
                 /\ \A i \in Reported(b, n) : /\ row[i].kind = b[i].kind
                                              /\ row[i].key = KeyOf(b[i]) /\ row[i].ts = t
  BY DEF OnePerRow
<1> DEFINE T == {row[i] : i \in I}
           f == [i \in I |-> row[i]]
<1>2. IsFiniteSet(G) /\ Given(r, s) = Cardinality(G)
  BY GivenType DEF Given
<1>3. IsFiniteSet(I) /\ Cardinality(I) <= Cardinality(G)
  <2>1. I \subseteq G
    BY <1>0 DEF Reported
  <2> QED BY <1>2, <2>1, FS_Subset
<1>4. f \in Surjection(I, T)
  BY DEF Surjection
<1>5. IsFiniteSet(T) /\ Cardinality(T) <= Cardinality(I)
  <2> HIDE DEF f, T, I
  <2> QED BY <1>3, <1>4, FS_Surjection
<1>6. EventsIn(e, r, t) \subseteq T
  BY <1>1 DEF EventsIn, SameRow
<1>7. IsFiniteSet(EventsIn(e, r, t)) /\ Cardinality(EventsIn(e, r, t)) <= Cardinality(T)
  <2> HIDE DEF T
  <2> QED BY <1>5, <1>6, FS_Subset
<1>8. /\ Cardinality(EventsIn(e, r, t)) \in Nat /\ Cardinality(T) \in Nat
      /\ Cardinality(I) \in Nat /\ Cardinality(G) \in Nat
  <2> HIDE DEF T, I, G
  <2> QED BY <1>2, <1>3, <1>5, <1>7, FS_CardinalityType
<1> HIDE DEF T, I, G
<1> QED BY <1>2, <1>3, <1>5, <1>7, <1>8

\* Of the snapshots' rows, a step stores those of the one it commits, and no others.
LEMMA EventStep ==
  ASSUME PInv, AsCollected, [Next]_vars, Snapshot \subseteq Distinct, NEW s \in Snapshot
  PROVE  \/ \A r \in RowsOf[s] :
              EventsIn(db', r, s.collected_at) \subseteq EventsIn(db, r, s.collected_at)
         \/ \E w \in Worker :
              /\ Commit(w) /\ job[w].req = s
              /\ LET b == Batch(s) IN OnePerRow(db, db', b, s.collected_at, Len(b))
<1> DEFINE t == s.collected_at
<1>1. CASE db' = db
  BY <1>1
<1>2. ASSUME NEW w \in Worker, Retired(db, db', w)
      PROVE  \A r \in RowsOf[s] : EventsIn(db', r, t) \subseteq EventsIn(db, r, t)
  BY <1>2 DEF Retired, PruneWritten, EventsIn
<1>3. ASSUME NEW w \in Worker, Commit(w), Ingested(db, db', w)
      PROVE  \/ \A r \in RowsOf[s] : EventsIn(db', r, t) \subseteq EventsIn(db, r, t)
             \/ /\ job[w].req = s
                /\ LET b == Batch(s) IN OnePerRow(db, db', b, t, Len(b))
  <2> DEFINE u == job[w].req
             b == Batch(u)
             n == Len(b)
  <2>1. u \in Snapshot /\ u # NoRequest /\ job[w].ts = u.collected_at
    BY <1>3, PayloadAssumption DEF Ingested, AsCollected
  <2>2. OnePerRow(db, db', b, u.collected_at, n)
    BY <1>3, <2>1 DEF Ingested, BatchWritten, EventsWritten, Request
  <2>3. CASE u = s
    BY <2>2, <2>3
  <2>4. CASE u # s
    <3>1. PICK row : /\ db'.events = db.events \cup {row[i] : i \in Reported(b, n)}
                     /\ \A i \in Reported(b, n) :
                          /\ row[i].kind = b[i].kind /\ row[i].key = KeyOf(b[i])
                          /\ row[i].ts = u.collected_at
      BY <2>2 DEF OnePerRow
    <3>2. \A i \in Reported(b, n) : b[i] \in RowsOf[u]
      BY <2>1 DEF Reported, RowsOf
    <3>3. \/ t # u.collected_at
          \/ \A r \in RowsOf[s], q \in RowsOf[u] : <<r.kind, KeyOf(r)>> # <<q.kind, KeyOf(q)>>
      BY <2>1, <2>4, PushAssumption DEF Distinct, DatesOf
    <3> HIDE DEF b, u, n
    <3>4. ASSUME NEW r \in RowsOf[s], NEW i \in Reported(b, n),
                 SameRow(r, row[i].kind, row[i].key), row[i].ts = t
          PROVE  FALSE
      BY <3>1, <3>2, <3>3, <3>4 DEF SameRow
    <3> QED BY <3>1, <3>4 DEF EventsIn
  <2> QED BY <2>3, <2>4
<1> QED BY <1>1, <1>2, <1>3, CommittedStep DEF PInv

\* What was collected and not yet pushed stays so until it is pushed, and only then is posted.
LEMMA WireStep ==
  ASSUME PTypes, [PNext]_pvars, NEW s \in Snapshot
  PROVE  /\ pushed'[s] = "none" => pushed[s] = "none" /\ (s \in wire' => s \in wire)
         /\ s \in wire' => s \in wire \/ pushed[s] = "none"
<1> USE DEF PTypes
<1>1. ASSUME NEW u \in Snapshot, Push(u) \/ GiveUp(u)
      PROVE  /\ pushed'[s] = "none" => pushed[s] = "none" /\ (s \in wire' => s \in wire)
             /\ s \in wire' => s \in wire \/ pushed[s] = "none"
  BY <1>1 DEF Push, GiveUp
<1>2. ASSUME NEW w \in Worker, Reply(w)
      PROVE  wire' = wire /\ (pushed'[s] = "none" => pushed[s] = "none")
  BY <1>2 DEF Reply, Returned, Waiting
<1>3. CASE (\E w \in Worker : Inner(w)) \/ Unseen \/ UNCHANGED pvars
  BY <1>3 DEF Inner, Unseen, pvars
<1>4. CASE (\E w \in Worker, u \in Snapshot : Accept(w, u)) \/ \E p \in Process : Crash(p)
  BY <1>4 DEF Accept, Crash
<1> QED BY <1>1, <1>2, <1>3, <1>4 DEF PNext

\* A thread that is at its batch was at it before, or has just taken it up.
LEMMA PhaseStep ==
  ASSUME PInv, [PNext]_pvars, NEW w \in Worker, job'[w].pc \in {"row", "write"}
  PROVE  \/ /\ job[w].pc \in {"row", "write"} /\ job'[w].req = job[w].req
            /\ ~ Commit(w)
         \/ \E s \in Snapshot : Accept(w, s) /\ job'[w].req = s
<1>0. job \in [Worker -> Job]
  BY DEF PInv, TInv, IInv, TypeOK
<1> DEFINE Stays == job[w].pc \in {"row", "write"} /\ job'[w].req = job[w].req
<1>1. ~ Commit(w)
  BY <1>0 DEF Commit, Job
<1>2. ASSUME NEW v \in Worker, Inner(v) PROVE Stays
  <2>1. CASE Select(v) \/ Write(v)
    BY <1>0, <2>1 DEF AtWrite, Select, Write, Job
  <2>2. CASE Conflict(v) \/ Commit(v) \/ BusyTimeout(v)
    BY <1>0, <2>2 DEF Conflict, Commit, BusyTimeout, Job
  <2>3. CASE MaybePrune(v) \/ PruneDelete(v) \/ PruneCommit(v) \/ Stamp(v)
    BY <1>0, <2>3 DEF MaybePrune, PruneDelete, PruneCommit, Stamp, Job
  <2> QED BY <1>2, <2>1, <2>2, <2>3 DEF Inner
<1>3. ASSUME NEW v \in Worker, Reply(v) PROVE Stays
  BY <1>0, <1>3, IdleType DEF Reply, Respond
<1>4. ASSUME NEW v \in Worker, NEW s \in Snapshot, Accept(v, s)
      PROVE  Stays \/ (v = w /\ job'[w].req = s)
  <2>1. CASE v = w
    <3>1. job'[w] = [Idle EXCEPT !.pc = "row", !.req = s,
                                 !.ts = IF s.collected_at = NoTime THEN clock ELSE s.collected_at]
      BY <1>0, <1>4, <2>1 DEF Accept, Receive
    <3> QED BY <2>1, <3>1 DEF Idle
  <2>2. CASE v # w
    BY <1>0, <1>4, <2>2 DEF Accept, Receive
  <2> QED BY <2>1, <2>2
<1>5. ASSUME NEW p \in Process, Crash(p) PROVE Stays
  BY <1>0, <1>5, IdleType DEF Crash, Restart
<1>6. ASSUME NEW v \in Worker, StatementFails(v) \/ PruneCommand(v) PROVE Stays
  <2>1. CASE StatementFails(v)
    BY <1>0, <2>1 DEF StatementFails, Job
  <2>2. ASSUME PruneCommand(v), v = w PROVE FALSE
    <3>1. job'[w].pc = "prune"
      BY <1>0, <2>2 DEF PruneCommand, Idle
    <3> QED BY <3>1
  <2>3. ASSUME PruneCommand(v), v # w PROVE Stays
    BY <1>0, <2>3 DEF PruneCommand
  <2> QED BY <1>6, <2>1, <2>2, <2>3
<1>7. ASSUME Tick \/ UNCHANGED vars PROVE Stays
  BY <1>7 DEF Tick, vars
<1> QED BY <1>1, <1>2, <1>3, <1>4, <1>5, <1>6, <1>7 DEF PNext, Unseen, Push, GiveUp, pvars

\* As long as no thread commits it, nothing of a snapshot is stored.
LEMMA UndoneStep ==
  ASSUME PInv, AsCollected, [PNext]_pvars, Snapshot \subseteq Distinct, NEW s \in Snapshot,
         Undone(s), \A w \in Worker : job[w].req = s => ~ Commit(w)
  PROVE  Undone(s)'
<1>1. [Next]_vars
  BY StoreStep DEF pvars
<1>2. \A r \in RowsOf[s] :
        EventsIn(db', r, s.collected_at) \subseteq EventsIn(db, r, s.collected_at)
  BY <1>1, EventStep
<1> QED BY <1>2 DEF Undone, EventsIn

LEMMA OnItsWayStep ==
  ASSUME PInv, AsCollected, OnItsWay, [PNext]_pvars, Snapshot \subseteq Distinct
  PROVE  OnItsWay'
<1>0. job \in [Worker -> Job] /\ PTypes
  BY DEF PInv, TInv, IInv, TypeOK
<1>1. ASSUME NEW s \in Snapshot, pushed'[s] = "none" PROVE s \notin wire'
  BY <1>0, <1>1, WireStep DEF OnItsWay
<1>2. ASSUME NEW s \in Snapshot, pushed'[s] = "none" \/ s \in wire'
      PROVE  Undone(s)' /\ \A w \in Worker : job'[w].req # s
  <2>1. pushed[s] = "none" \/ s \in wire
    BY <1>0, <1>2, WireStep
  <2>2. Undone(s) /\ \A w \in Worker : job[w].req # s
    BY <2>1 DEF OnItsWay
  <2>3. ASSUME NEW w \in Worker, job'[w].req = s PROVE FALSE
    <3>1. s # NoRequest
      BY PayloadAssumption
    <3>2. PICK u \in Snapshot : Accept(w, u) /\ job'[w].req = u
      BY <2>2, <2>3, <3>1, RequestStep
    <3>3. s \in wire /\ s \notin wire' /\ pushed' = pushed
      BY <2>3, <3>2 DEF Accept
    <3> QED BY <1>2, <3>3 DEF OnItsWay
  <2> QED BY <2>2, <2>3, UndoneStep
<1>3. ASSUME NEW w \in Worker, NEW s \in Snapshot, job'[w].req = s, job'[w].pc \in {"row", "write"}
      PROVE  Undone(s)'
  <2>1. CASE /\ job[w].pc \in {"row", "write"} /\ job'[w].req = job[w].req /\ ~ Commit(w)
    <3>1. job[w].req = s /\ Undone(s)
      BY <1>3, <2>1 DEF OnItsWay
    <3>2. \A v \in Worker : job[v].req = s => ~ Commit(v)
      BY <2>1, <3>1, PayloadAssumption DEF OnItsWay
    <3> QED BY <3>1, <3>2, UndoneStep
  <2>2. CASE \E u \in Snapshot : Accept(w, u) /\ job'[w].req = u
    <3>1. Undone(s) /\ \A v \in Worker : job[v].req # s
      BY <1>3, <2>2 DEF OnItsWay, Accept
    <3> QED BY <3>1, UndoneStep
  <2> QED BY <1>3, <2>1, <2>2, PhaseStep
<1>4. ASSUME NEW v \in Worker, NEW w \in Worker, job'[v].req = job'[w].req, job'[w].req # NoRequest
      PROVE  v = w
  <2>1. ASSUME NEW x \in Worker, NEW y \in Worker, x # y, NEW s \in Snapshot, Accept(x, s),
               job'[x].req = s, job'[y].req = s
        PROVE  FALSE
    <3>1. job'[y] = job[y]
      BY <1>0, <2>1 DEF Accept, Receive
    <3> QED BY <2>1, <3>1 DEF Accept, OnItsWay
  <2> QED BY <1>4, <2>1, RequestStep DEF OnItsWay
<1> QED BY <1>1, <1>2, <1>3, <1>4 DEF OnItsWay

LEMMA FewStep ==
  ASSUME PInv, AsCollected, OnItsWay, [PNext]_pvars, Snapshot \subseteq Distinct,
         NEW s \in Snapshot, Few(s)
  PROVE  Few(s)'
<1> DEFINE t == s.collected_at
<1>1. [Next]_vars
  BY StoreStep DEF pvars
<1>2. ASSUME NEW r \in RowsOf[s], EventsIn(db', r, t) \subseteq EventsIn(db, r, t)
      PROVE  /\ IsFiniteSet(EventsIn(db', r, t))
             /\ Cardinality(EventsIn(db', r, t)) <= Given(r, s)
  <2>1. /\ IsFiniteSet(EventsIn(db, r, t)) /\ Cardinality(EventsIn(db, r, t)) <= Given(r, s)
    BY DEF Few
  <2>2. /\ IsFiniteSet(EventsIn(db', r, t))
        /\ Cardinality(EventsIn(db', r, t)) <= Cardinality(EventsIn(db, r, t))
    BY <1>2, <2>1, FS_Subset
  <2>3. Cardinality(EventsIn(db', r, t)) \in Nat /\ Cardinality(EventsIn(db, r, t)) \in Nat
    BY <2>1, <2>2, FS_CardinalityType
  <2>4. Given(r, s) \in Nat
    BY GivenType
  <2> QED BY <2>1, <2>2, <2>3, <2>4
<1>3. ASSUME NEW w \in Worker, Commit(w), job[w].req = s,
             LET b == Batch(s) IN OnePerRow(db, db', b, t, Len(b))
      PROVE  \A r \in RowsOf[s] : /\ IsFiniteSet(EventsIn(db', r, t))
                                  /\ Cardinality(EventsIn(db', r, t)) <= Given(r, s)
  <2>1. Undone(s)
    BY <1>3 DEF OnItsWay, Commit
  <2> QED BY <1>3, <2>1, FewAfterCommit DEF Undone
<1> QED BY <1>1, <1>2, <1>3, EventStep DEF Few, EventsIn

\* Lock events and sessions are plain INSERTs, of which nothing removes a double: none is
\* stored more often than its snapshot had it, although a push that timed out is often stored
\* all the same, because the loop never sends a snapshot twice (run_instance, _insert_lock).
\* Snapshots that could be mistaken for one another are excluded: a snapshot is dated, to the
\* microsecond, when it is complete, and the next one is collected after it.
THEOREM NothingTwice ==
  ASSUME Snapshot \subseteq Distinct
  PROVE  PSpec => []StoredOnce
<1>1. PInit => AsCollected /\ Once
  <2>1. \A r, t : EventsIn(EmptyDatabase, r, t) = {}
    BY DEF EventsIn, EmptyDatabase
  <2>2. \A s \in Snapshot : \A r \in RowsOf[s] : Given(r, s) \in Nat
    BY GivenType
  <2>3. \A s \in Snapshot : s # NoRequest
    BY PayloadAssumption
  <2> QED BY <2>1, <2>2, <2>3, IdleType, FS_EmptySet
          DEF PInit, Init, AsCollected, Once, OnItsWay, Undone, Few
<1>2. PInv /\ AsCollected /\ [PNext]_pvars => AsCollected'
  BY AsCollectedStep
<1>3. PInv /\ AsCollected /\ Once /\ [PNext]_pvars => Once'
  BY OnItsWayStep, FewStep DEF Once
<1>4. Once => StoredOnce
  BY DEF Once, Few, StoredOnce, Times, EventsIn
<1> QED BY <1>1, <1>2, <1>3, <1>4, PipelineInv, PTL DEF PSpec

=============================================================================
