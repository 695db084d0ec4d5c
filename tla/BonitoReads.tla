---------------------------- MODULE BonitoReads ----------------------------
(***************************************************************************)
(* From a blocked session to the blocking tree that an agent sees: the     *)
(* collector reads pg_blocking_pids of every instance, dates the snapshot  *)
(* when it is complete and posts it; it reaches the store late, out of     *)
(* order or never; the agent's tool asks the API for the lock events of    *)
(* the last minutes and builds a tree of them.  A client of the webhook    *)
(* may post lock rows without a date, which are dated as they arrive.      *)
(***************************************************************************)
EXTENDS Integers, Sequences, FiniteSetsExt, SequencesExt

CONSTANTS
  Instance,  \* the monitored databases
  Lock,      \* lock rows: the instance, who blocks whom, and the lock_mode
  NoPid,     \* a pid that the row does not have (rows that came by the webhook)
  NoTime,    \* the date of a payload without collected_at
  Minutes,   \* the tool's `minutes', in ticks of the clock
  LIMIT,     \* the LIMIT of the query
  Lag,       \* bound: how long the snapshot of one instance takes
  MaxTime,   \* bound: last tick of the clock
  MaxTaken   \* bound: snapshots and payloads that report locks

ASSUME ReadsAssumption == /\ Minutes \in Nat /\ LIMIT \in Nat /\ Lag \in Nat
                          /\ MaxTime \in Nat /\ MaxTaken \in Nat
                          /\ NoTime \notin 0 .. MaxTime
                          /\ \A l \in Lock : l.of \in Instance
                          /\ IsFiniteSet(Lock) /\ Instance # {}

VARIABLES
  clock,
  round,        \* the snapshot the collector is taking, as a set of at most one
  dated,        \* the instances with a snapshot dated at this tick
  wire,         \* snapshots posted and not stored (a push that is lost stays there)
  lock_events,  \* the table; it does not record the instance of a row
  agent         \* the tool call

vars == <<clock, round, dated, wire, lock_events, agent>>

Time   == 0 .. MaxTime
\* When a lock was read is not recorded, and of an undated payload not known.
Event  == [ts : Time, read : Time \cup {NoTime}, lock : Lock]
Posted == [ts : Time, read : Time, locks : SUBSET Lock]
          \cup [ts : {NoTime}, read : {NoTime}, locks : SUBSET Lock]
Call   == [pc : {"idle", "asked", "told"}, db_instance : Instance, since : Int,
           rows : Seq(Event)]
NoCall == [pc |-> "idle", db_instance |-> CHOOSE i \in Instance : TRUE, since |-> 0, rows |-> << >>]

\* Nothing is dated after the present, nor read after its date.
NotAhead(x) ==
  /\ x.ts # NoTime => x.ts <= clock
  /\ x.read # NoTime => x.read <= x.ts

\* One type invariant: every variable holds a value of the program's kind, and the dates on
\* their way from the instance to the agent are in order.
TypeOK ==
  /\ clock \in Time
  /\ \A s \in round : s.of \in Instance /\ s.begun \in 0 .. clock /\ s.locks \subseteq Lock
  /\ Cardinality(round) <= 1
  /\ dated \subseteq Instance
  /\ wire \subseteq Posted
  /\ lock_events \subseteq Event
  /\ agent \in Call
  /\ agent.since <= clock
  /\ \A x \in wire \cup lock_events \cup ToSet(agent.rows) : NotAhead(x)

-----------------------------------------------------------------------------
(* The collector.                                                          *)

Taken == Cardinality(round) + Cardinality(wire) + Cardinality({<<e.ts, e.lock.of>> : e \in lock_events})

\* run_instance: the blocking pairs are read early; without any the snapshot adds no row.
CollectLocks(i) ==
  /\ round = {}
  /\ Taken < MaxTaken
  /\ \E locks \in SUBSET {l \in Lock : l.of = i} \ {{}} :
       round' = {[of |-> i, begun |-> clock, locks |-> locks]}
  /\ UNCHANGED <<clock, dated, wire, lock_events, agent>>

\* and the snapshot is dated once the rest is collected, and posted.  The interval between two
\* rounds is at least a tick.
Push(s) ==
  /\ s \in round /\ s.of \notin dated
  /\ round' = {}
  /\ dated' = dated \cup {s.of}
  /\ wire' = wire \cup {[ts |-> clock, read |-> s.begun, locks |-> s.locks]}
  /\ UNCHANGED <<clock, lock_events, agent>>

\* The instance stops answering; what was collected is dropped.
CollectFails ==
  /\ round # {}
  /\ round' = {}
  /\ UNCHANGED <<clock, dated, wire, lock_events, agent>>

\* POST /events or POST /ingest by another client, without a collected_at.
Webhook(i) ==
  /\ Taken < MaxTaken
  /\ \E locks \in SUBSET {l \in Lock : l.of = i} \ {{}} :
       wire' = wire \cup {[ts |-> NoTime, read |-> NoTime, locks |-> locks]}
  /\ UNCHANGED <<clock, round, dated, lock_events, agent>>

-----------------------------------------------------------------------------
(* The store and the API.                                                  *)

\* Mutants of DateOf: a snapshot is dated on arrival; or in the local time of a server that is
\* ahead of UTC.
DateOf_Now(s) == clock
DateOf_Ahead(s) == IF s.ts = NoTime THEN clock + 1 ELSE s.ts

\* events.get("collected_at") or _now()
DateOf(s) == IF s.ts = NoTime THEN clock ELSE s.ts

\* _insert_lock, for every pair.  Its blocked_pids is a list of one pid, or NULL.
Inserted(s) == {[ts |-> DateOf(s), read |-> s.read, lock |-> l] : l \in s.locks}

Ingest(s) ==
  /\ s \in wire
  /\ wire' = wire \ {s}
  /\ lock_events' = lock_events \cup Inserted(s)
  /\ UNCHANGED <<clock, round, dated, agent>>

InWindow(since) == {e \in lock_events : e.ts >= since}

\* Mutant of NewestFirst: ORDER BY ts.
NewestFirst_Ascending(q, rest) ==
  /\ IsInjective(q)
  /\ \A i, j \in DOMAIN q : i < j => q[i].ts <= q[j].ts
  /\ \A i \in DOMAIN q, e \in rest : q[i].ts <= e.ts

\* ORDER BY ts DESC: rows with the same date come in any order.
NewestFirst(q, rest) ==
  /\ IsInjective(q)
  /\ \A i, j \in DOMAIN q : i < j => q[i].ts >= q[j].ts
  /\ \A i \in DOMAIN q, e \in rest : q[i].ts >= e.ts

\* The answers that /locks/active may give.
LocksActive(since) ==
  LET n == Min({LIMIT, Cardinality(InWindow(since))})
  IN  {q \in [1 .. n -> InWindow(since)] : NewestFirst(q, InWindow(since) \ ToSet(q))}

-----------------------------------------------------------------------------
(* build_blocking_tree.                                                    *)

\* Mutant of Grown: a pid is listed as often as it is reported.
Grown_Repeats(node, pid) ==
  IF pid = NoPid THEN node ELSE [node EXCEPT !.blocked_pids = Append(@, pid)]

\* A row of the store lists one pid or none, which is how the loop over blocked_pids is taken; a
\* list of several, or one that is not JSON, is written by nobody.
Grown(node, pid) ==
  IF pid \in ToSet(node.blocked_pids) \cup {NoPid} THEN node
  ELSE [node EXCEPT !.blocked_pids = Append(@, pid)]

\* One row: a blocker not seen before gets a node, with this row's lock_mode.
Added(tree, lock) ==
  LET leaf == [lock_mode |-> lock.lock_mode, blocked_pids |-> << >>]
      node == IF lock.blocking_pid \in DOMAIN tree THEN tree[lock.blocking_pid] ELSE leaf
  IN  IF lock.blocking_pid = NoPid THEN tree
      ELSE [b \in DOMAIN tree \cup {lock.blocking_pid} |->
              IF b = lock.blocking_pid THEN Grown(node, lock.blocked_pid) ELSE tree[b]]

BuildBlockingTree(rows) ==
  LET tree[n \in 0 .. Len(rows)] == IF n = 0 THEN << >> ELSE Added(tree[n - 1], rows[n].lock)
  IN  tree[Len(rows)]

\* The entries of the tree, each by its node and its position in blocked_pids.
Entries(tree) == UNION {{b} \X DOMAIN tree[b].blocked_pids : b \in DOMAIN tree}

\* total_blocked, the sum of the lengths of the lists.
TotalBlocked(tree) == Cardinality(Entries(tree))

-----------------------------------------------------------------------------
(* get_blocking_tree.                                                      *)

\* The client sends db_instance and minutes; the handler computes the start of the window.
Ask(i) ==
  /\ agent.pc = "idle"
  /\ agent' = [pc |-> "asked", db_instance |-> i, since |-> clock - Minutes, rows |-> << >>]
  /\ UNCHANGED <<clock, round, dated, wire, lock_events>>

\* The handler's one SELECT; db_instance goes back with the answer and is used nowhere else.
Tell ==
  /\ agent.pc = "asked"
  /\ \E q \in LocksActive(agent.since) : agent' = [agent EXCEPT !.pc = "told", !.rows = q]
  /\ UNCHANGED <<clock, round, dated, wire, lock_events>>

\* The agent takes the tree, or the tool raises: a response of 400 or more, a lost connection.
Done ==
  /\ agent.pc # "idle"
  /\ agent' = NoCall
  /\ UNCHANGED <<clock, round, dated, wire, lock_events>>

Tick ==
  /\ clock < MaxTime
  /\ \A s \in round : clock < s.begun + Lag
  /\ clock' = clock + 1
  /\ dated' = {}
  /\ UNCHANGED <<round, wire, lock_events, agent>>

Init ==
  /\ clock = 0
  /\ round = {} /\ dated = {} /\ wire = {}
  /\ lock_events = {}
  /\ agent = NoCall

Next ==
  \/ \E i \in Instance : CollectLocks(i) \/ Webhook(i) \/ Ask(i)
  \/ \E s \in round : Push(s)
  \/ \E s \in wire : Ingest(s)
  \/ CollectFails \/ Tell \/ Done \/ Tick

Spec == Init /\ [][Next]_vars

-----------------------------------------------------------------------------
(* What must hold.                                                         *)

Told == agent.pc = "told"

Tree == BuildBlockingTree(agent.rows)

Reported == {e.lock : e \in ToSet(agent.rows)}

Edges == {<<l.blocking_pid, l.blocked_pid>> :
            l \in {m \in Reported : NoPid \notin {m.blocking_pid, m.blocked_pid}}}

\* The pairs that the tree shows.
Shown == UNION {{<<b, pid>> : pid \in ToSet(Tree[b].blocked_pids)} : b \in DOMAIN Tree}

\* The tree is the relation that the rows report, each edge once however many snapshots report
\* it, under one node per blocker, whose lock_mode is that of a newest row of the blocker
\* (build_blocking_tree relies on the rows coming newest first).
TreeIsRelation ==
  Told =>
    /\ Shown = Edges
    /\ TotalBlocked(Tree) = Cardinality(Edges)
    /\ DOMAIN Tree = {l.blocking_pid : l \in Reported} \ {NoPid}
    /\ \A b \in DOMAIN Tree : \E e \in ToSet(agent.rows) :
         /\ e.lock.blocking_pid = b /\ e.lock.lock_mode = Tree[b].lock_mode
         /\ \A f \in ToSet(agent.rows) : f.lock.blocking_pid = b => f.ts <= e.ts

\* What the LIMIT cuts off is old: a pair in the window is left out only when LIMIT rows at
\* least as new are stored, in whatever order the snapshots arrived.
NewestShown ==
  [][agent.pc = "asked" /\ agent'.pc = "told" =>
       \A e \in InWindow(agent.since) :
         Cardinality({f \in lock_events : f.ts >= e.ts}) <= LIMIT =>
           e.lock \in {r.lock : r \in ToSet(agent'.rows)}]_vars

\* A row in the tree that a dated snapshot brought was true of its instance not long before the
\* window began: a snapshot that reaches the store late does not bring locks back that were
\* released before, and one is dated soon enough after its locks were read.  Of an undated
\* payload nobody knows when its locks were held.
ReleasedForgotten ==
  Told => \A e \in ToSet(agent.rows) : e.read # NoTime => e.read >= agent.since - Lag

-----------------------------------------------------------------------------
(* What the documents say, and the code does not do.                       *)

\* docs/recipes/multi-instance.md: the tree asked for an instance is of that instance.  The
\* rows do not record it, and the query does not ask for it.
TreeOfInstance ==
  Told => \A l \in Reported : l.of = agent.db_instance

=============================================================================
