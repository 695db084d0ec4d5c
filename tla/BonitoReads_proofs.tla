------------------------- MODULE BonitoReads_proofs -------------------------
(***************************************************************************)
(* Proofs about BonitoReads: of whatever snapshots the store has when it   *)
(* is asked, the answer is what the window promises.  The rows it leaves   *)
(* out are counted against the LIMIT, and how old a row can be follows it  *)
(* from the instance to the agent.                                         *)
(***************************************************************************)
EXTENDS BonitoReads, NaturalLemmas, FunctionTheorems, FiniteSetTheorems, TLAPS

-----------------------------------------------------------------------------
(* Types.                                                                  *)

LEMMA NoCallType == NoCall \in Call /\ NoCall.pc = "idle"
BY ReadsAssumption DEF NoCall, Call

\* The rows of what is on the wire, dated by its client or by the store.
LEMMA InsertedType ==
  ASSUME clock \in Time, NEW s \in Posted, NotAhead(s)
  PROVE  /\ Inserted(s) \subseteq Event /\ IsFiniteSet(Inserted(s))
         /\ \A e \in Inserted(s) : NotAhead(e)
<1> DEFINE row == [l \in s.locks |-> [ts |-> DateOf(s), read |-> s.read, lock |-> l]]
<1>0. /\ DateOf(s) \in Time /\ s.read \in Time \cup {NoTime} /\ s.locks \subseteq Lock
      /\ DateOf(s) <= clock
      /\ s.read # NoTime => s.read <= DateOf(s)
  BY ReadsAssumption DEF DateOf, Posted, NotAhead, Time
<1>1. ASSUME NEW e \in Inserted(s) PROVE e \in Event /\ NotAhead(e)
  <2>1. PICK l \in s.locks : e = [ts |-> DateOf(s), read |-> s.read, lock |-> l]
    BY DEF Inserted
  <2>2. e \in Event
    BY <1>0, <2>1 DEF Event
  <2>3. e.ts = DateOf(s) /\ e.read = s.read
    BY <2>1
  <2>4. NotAhead(e)
    BY <1>0, <2>3 DEF NotAhead
  <2> QED BY <2>2, <2>4
<1>2. IsFiniteSet(s.locks)
  BY <1>0, ReadsAssumption, FS_Subset
<1>3. row \in Surjection(s.locks, Inserted(s))
  BY DEF Surjection, Inserted
<1>4. IsFiniteSet(Inserted(s))
  <2> HIDE DEF row
  <2> QED BY <1>2, <1>3, FS_Surjection
<1> QED BY <1>1, <1>4

\* The table never has infinitely many rows.
RTypes == TypeOK /\ IsFiniteSet(lock_events)

LEMMA InWindowType ==
  ASSUME RTypes, NEW since \in Int
  PROVE  /\ InWindow(since) \subseteq Event /\ IsFiniteSet(InWindow(since))
         /\ Cardinality(InWindow(since)) \in Nat
<1>1. InWindow(since) \subseteq lock_events
  BY DEF InWindow
<1>2. IsFiniteSet(InWindow(since))
  BY <1>1, FS_Subset DEF RTypes
<1> QED BY <1>1, <1>2, FS_CardinalityType DEF RTypes, TypeOK

\* An answer has LIMIT rows of the window, or all of it.
LEMMA LocksActiveType ==
  ASSUME RTypes, NEW since \in Int, NEW q \in LocksActive(since)
  PROVE  \E n \in Nat : /\ q \in [1 .. n -> InWindow(since)]
                        /\ n = LIMIT \/ n = Cardinality(InWindow(since))
                        /\ NewestFirst(q, InWindow(since) \ ToSet(q))
<1> DEFINE c == Cardinality(InWindow(since))
           n == Min({LIMIT, c})
<1>1. c \in Nat /\ LIMIT \in Nat
  BY InWindowType, ReadsAssumption
<1>2. n = LIMIT \/ n = c
  <2> HIDE DEF c
  <2>1. \E x \in {LIMIT, c} : \A y \in {LIMIT, c} : x =< y
    BY <1>1
  <2> QED BY <2>1 DEF Min
<1> QED BY <1>1, <1>2 DEF LocksActive

LEMMA InitTypes == Init => RTypes
<1>1. \A S : S = {} => IsFiniteSet(S) /\ Cardinality(S) = 0
  BY FS_EmptySet
<1>2. NoCall.since = 0 /\ ToSet(NoCall.rows) = {}
  BY DEF NoCall, ToSet
<1> QED BY <1>1, <1>2, NoCallType, ReadsAssumption DEF Init, RTypes, TypeOK, Time

\* What the variables are, but for the order of the dates in them.
Kinds ==
  /\ clock \in Time
  /\ \A s \in round : s.of \in Instance /\ s.begun \in Nat /\ s.locks \subseteq Lock
  /\ Cardinality(round) <= 1
  /\ dated \subseteq Instance
  /\ wire \subseteq Posted
  /\ lock_events \subseteq Event /\ IsFiniteSet(lock_events)
  /\ agent \in Call

\* That order.
Dates ==
  /\ \A s \in round : s.begun <= clock
  /\ agent.since <= clock
  /\ \A x \in wire \cup lock_events \cup ToSet(agent.rows) : NotAhead(x)

LEMMA TypesAre == RTypes <=> Kinds /\ Dates
<1>1. ASSUME clock \in Time PROVE \A n : n \in 0 .. clock <=> n \in Nat /\ n <= clock
  BY <1>1, ReadsAssumption DEF Time
<1> QED BY <1>1 DEF RTypes, TypeOK, Kinds, Dates

LEMMA KindStep ==
  ASSUME Kinds, Dates, [Next]_vars
  PROVE  Kinds'
<1> USE DEF Kinds
<1>1. ASSUME NEW i \in Instance, CollectLocks(i) PROVE Kinds'
  <2>1. PICK locks \in SUBSET Lock : round' = {[of |-> i, begun |-> clock, locks |-> locks]}
    BY <1>1 DEF CollectLocks
  <2>2. Cardinality(round') <= 1
    <3>1. PICK x : round' = {x}
      BY <2>1
    <3>2. Cardinality({x}) = 1
      BY FS_Singleton
    <3> QED BY <3>1, <3>2
  <2> QED BY <1>1, <2>1, <2>2 DEF CollectLocks, Time
<1>2. ASSUME NEW i \in Instance, Ask(i) PROVE Kinds'
  <2>1. clock - Minutes \in Int
    BY ReadsAssumption DEF Time
  <2>2. agent' \in Call
    BY <1>2, <2>1 DEF Ask, Call
  <2> QED BY <1>2, <2>2 DEF Ask
<1>3. ASSUME NEW s \in round, Push(s) PROVE Kinds'
  <2>1. s.begun \in Time
    BY ReadsAssumption DEF Dates, Time
  <2>2. [ts |-> clock, read |-> s.begun, locks |-> s.locks] \in Posted
    BY <2>1 DEF Posted
  <2> QED BY <1>3, <2>2, FS_EmptySet DEF Push
<1>4. ASSUME NEW s \in wire, Ingest(s) PROVE Kinds'
  <2>1. Inserted(s) \subseteq Event /\ IsFiniteSet(Inserted(s))
    BY InsertedType DEF Dates
  <2>2. IsFiniteSet(lock_events \cup Inserted(s))
    BY <2>1, FS_Union
  <2> QED BY <1>4, <2>1, <2>2 DEF Ingest
<1>5. CASE CollectFails
  BY <1>5, FS_EmptySet DEF CollectFails
<1>6. CASE Tell
  <2>1. agent.since \in Int
    BY DEF Call
  <2>2. PICK q \in LocksActive(agent.since) : agent' = [agent EXCEPT !.pc = "told", !.rows = q]
    BY <1>6 DEF Tell
  <2>3. q \in Seq(Event)
    <3>1. PICK n \in Nat : q \in [1 .. n -> InWindow(agent.since)]
      BY <2>1, LocksActiveType, TypesAre
    <3>2. q \in [1 .. n -> Event]
      BY <2>1, <3>1, InWindowType, TypesAre
    <3> QED BY <3>2
  <2>4. agent' \in Call
    BY <2>2, <2>3 DEF Call
  <2> QED BY <1>6, <2>4 DEF Tell
<1>7. CASE Done
  BY <1>7, NoCallType DEF Done
<1>8. CASE Tick
  BY <1>8, ReadsAssumption DEF Tick, Time
<1>9. ASSUME NEW i \in Instance, Webhook(i) PROVE Kinds'
  <2>1. PICK locks \in SUBSET Lock : wire' = wire \cup {[ts |-> NoTime, read |-> NoTime, locks |-> locks]}
    BY <1>9 DEF Webhook
  <2>2. [ts |-> NoTime, read |-> NoTime, locks |-> locks] \in Posted
    BY DEF Posted
  <2> QED BY <1>9, <2>1, <2>2 DEF Webhook
<1>10. CASE UNCHANGED vars
  BY <1>10 DEF vars
<1> QED BY <1>1, <1>2, <1>3, <1>4, <1>5, <1>6, <1>7, <1>8, <1>9, <1>10 DEF Next

LEMMA DatesStep ==
  ASSUME Kinds, Dates, [Next]_vars
  PROVE  Dates'
<1> USE DEF Dates
<1>0. clock \in Int /\ Minutes \in Nat /\ agent.since \in Int
  BY ReadsAssumption DEF Kinds, Time, Call
<1>1. ASSUME NEW i \in Instance, CollectLocks(i) PROVE Dates'
  BY <1>0, <1>1 DEF CollectLocks, NotAhead
<1>2. ASSUME NEW i \in Instance, Ask(i) PROVE Dates'
  <2>1. agent'.since = clock - Minutes /\ ToSet(agent'.rows) = {}
    BY <1>2 DEF Ask, ToSet
  <2> QED BY <1>0, <1>2, <2>1 DEF Ask, NotAhead
<1>3. ASSUME NEW s \in round, Push(s) PROVE Dates'
  <2>1. NotAhead([ts |-> clock, read |-> s.begun, locks |-> s.locks])
    BY <1>0 DEF NotAhead
  <2> QED BY <1>3, <2>1 DEF Push, NotAhead
<1>4. ASSUME NEW s \in wire, Ingest(s) PROVE Dates'
  <2>1. \A e \in Inserted(s) : NotAhead(e)
    BY InsertedType DEF Kinds
  <2> QED BY <1>4, <2>1 DEF Ingest, NotAhead
<1>5. CASE CollectFails
  BY <1>5 DEF CollectFails, NotAhead
<1>6. CASE Tell
  <2>1. PICK q \in LocksActive(agent.since) : agent' = [agent EXCEPT !.pc = "told", !.rows = q]
    BY <1>6 DEF Tell
  <2>2. ToSet(q) \subseteq lock_events
    <3>1. PICK n \in Nat : q \in [1 .. n -> InWindow(agent.since)]
      BY <1>0, LocksActiveType, TypesAre
    <3> QED BY <3>1 DEF ToSet, InWindow
  <2>3. agent'.rows = q /\ agent'.since = agent.since
    BY <2>1 DEF Kinds, Call
  <2> QED BY <1>6, <2>2, <2>3 DEF Tell, NotAhead
<1>7. CASE Done
  <2>1. agent'.since = 0 /\ ToSet(agent'.rows) = {}
    BY <1>7 DEF Done, NoCall, ToSet
  <2> QED BY <1>7, <2>1 DEF Done, NotAhead, Kinds, Time
<1>8. CASE Tick
  <2>1. \A e \in ToSet(agent.rows) : e \in Event
    BY DEF Kinds, Call, ToSet
  <2>2. \A x \in wire \cup lock_events \cup ToSet(agent.rows) : x.ts # NoTime => x.ts \in Int
    BY <2>1 DEF Kinds, Posted, Event, Time
  <2>3. \A s \in round : s.begun \in Int
    BY DEF Kinds
  <2> QED BY <1>0, <1>8, <2>2, <2>3 DEF Tick, NotAhead
<1>9. ASSUME NEW i \in Instance, Webhook(i) PROVE Dates'
  <2>1. \A locks : NotAhead([ts |-> NoTime, read |-> NoTime, locks |-> locks])
    BY DEF NotAhead
  <2> QED BY <1>9, <2>1 DEF Webhook, NotAhead
<1>10. CASE UNCHANGED vars
  BY <1>10 DEF vars, NotAhead
<1> QED BY <1>1, <1>2, <1>3, <1>4, <1>5, <1>6, <1>7, <1>8, <1>9, <1>10 DEF Next

LEMMA TypeStep ==
  ASSUME RTypes, [Next]_vars
  PROVE  RTypes'
<1>1. Kinds /\ Dates
  BY TypesAre
<1>2. Kinds' /\ Dates'
  BY <1>1, KindStep, DatesStep
<1>3. ASSUME (clock \in Time)' PROVE \A n : n \in 0 .. clock' <=> n \in Nat /\ n <= clock'
  BY <1>3, ReadsAssumption DEF Time
<1> QED BY <1>2, <1>3 DEF RTypes, TypeOK, Kinds, Dates

LEMMA ReadsInv == Spec => []RTypes
BY InitTypes, TypeStep, PTL DEF Spec

\* Every variable keeps a value of the program's kind, and nothing is dated after the present: not
\* the snapshot being taken, nor what is on the wire, in the table or in an answer; and what says
\* when it was read was read no later than it is dated.
THEOREM ReadsTypes == Spec => []TypeOK
BY ReadsInv, PTL DEF RTypes

-----------------------------------------------------------------------------
(* How old a row can be.                                                   *)

\* From the instance to the agent, a snapshot is at most Lag older than its date.
Fresh ==
  /\ \A s \in round : clock <= s.begun + Lag
  /\ \A s \in wire : s.read # NoTime => s.ts <= s.read + Lag
  /\ \A e \in lock_events : e.read # NoTime => e.ts <= e.read + Lag
  /\ agent.pc = "told" => \A i \in DOMAIN agent.rows :
       agent.rows[i].read # NoTime => agent.rows[i].read >= agent.since - Lag

LEMMA FreshStep ==
  ASSUME RTypes, Fresh, [Next]_vars
  PROVE  Fresh'
<1> USE DEF Fresh
<1>0. Lag \in Nat /\ clock \in Int /\ agent.since \in Int
  BY ReadsAssumption DEF RTypes, TypeOK, Time, Call
<1>1. ASSUME NEW i \in Instance, CollectLocks(i) PROVE Fresh'
  BY <1>0, <1>1 DEF CollectLocks
<1>2. ASSUME NEW i \in Instance, Ask(i) PROVE Fresh'
  BY <1>2 DEF Ask
<1>3. ASSUME NEW s \in round, Push(s) PROVE Fresh'
  BY <1>3 DEF Push
<1>4. ASSUME NEW s \in wire, Ingest(s) PROVE Fresh'
  <2>1. s.read # NoTime => DateOf(s) = s.ts
    BY ReadsAssumption DEF RTypes, TypeOK, Posted, Time, DateOf
  <2>2. \A e \in Inserted(s) : e.read = s.read /\ e.ts = DateOf(s)
    BY DEF Inserted
  <2>3. \A e \in Inserted(s) : e.read # NoTime => e.ts <= e.read + Lag
    BY <2>1, <2>2
  <2> QED BY <1>4, <2>3 DEF Ingest
<1>5. CASE CollectFails
  BY <1>5 DEF CollectFails
<1>6. CASE Tell
  <2>1. PICK q \in LocksActive(agent.since) : agent' = [agent EXCEPT !.pc = "told", !.rows = q]
    BY <1>6 DEF Tell
  <2>2. \A i \in DOMAIN q : q[i] \in InWindow(agent.since)
    BY <1>0, LocksActiveType
  <2>3. \A i \in DOMAIN q : q[i].read # NoTime => q[i].read >= agent.since - Lag
    <3>1. ASSUME NEW e \in InWindow(agent.since), e.read # NoTime PROVE e.read >= agent.since - Lag
      <4>1. e \in lock_events /\ e.ts >= agent.since
        BY DEF InWindow
      <4>2. e \in Event
        BY <4>1 DEF RTypes, TypeOK
      <4>3. e.ts \in Int /\ e.read \in Int
        BY <3>1, <4>2 DEF Event, Time
      <4>4. e.ts <= e.read + Lag
        BY <3>1, <4>1
      <4> QED BY <1>0, <4>1, <4>3, <4>4
    <3> QED BY <2>2, <3>1
  <2>4. agent'.rows = q /\ agent'.since = agent.since
    BY <2>1 DEF RTypes, TypeOK, Call
  <2> QED BY <1>6, <2>3, <2>4 DEF Tell
<1>7. CASE Done
  BY <1>7, NoCallType DEF Done
<1>8. CASE Tick
  <2>1. \A s \in round : s.begun \in Int
    BY DEF RTypes, TypeOK, Time
  <2>2. \A s \in round : clock' <= s.begun + Lag
    BY <1>0, <1>8, <2>1 DEF Tick
  <2> QED BY <1>8, <2>2 DEF Tick
<1>9. ASSUME NEW i \in Instance, Webhook(i) PROVE Fresh'
  BY <1>9 DEF Webhook
<1>10. CASE UNCHANGED vars
  BY <1>10 DEF vars
<1> QED BY <1>1, <1>2, <1>3, <1>4, <1>5, <1>6, <1>7, <1>8, <1>9, <1>10 DEF Next

\* A row in the tree was true of its instance not long before the window began, however late
\* its snapshot was stored, if a collector dated it (run_instance; _insert_lock keeps the date).
THEOREM ReleasedAreForgotten == Spec => []ReleasedForgotten
<1>1. Init => Fresh
  BY NoCallType DEF Init, Fresh
<1>2. Fresh => ReleasedForgotten
  BY DEF Fresh, ReleasedForgotten, Told, ToSet
<1> QED BY <1>1, <1>2, FreshStep, ReadsInv, PTL DEF Spec

-----------------------------------------------------------------------------
(* What the LIMIT leaves out.                                              *)

\* A row that an answer leaves out is older than the LIMIT rows of it.
LEMMA LeftOut ==
  ASSUME RTypes, NEW since \in Int, NEW q \in LocksActive(since), NEW e \in InWindow(since),
         e \notin ToSet(q)
  PROVE  ~ (Cardinality({f \in lock_events : f.ts >= e.ts}) <= LIMIT)
<1> DEFINE F == {f \in lock_events : f.ts >= e.ts}
           S == ToSet(q)
           W == InWindow(since)
<1>1. PICK n \in Nat : /\ q \in [1 .. n -> W]
                       /\ n = LIMIT \/ n = Cardinality(W)
                       /\ NewestFirst(q, W \ S)
  BY LocksActiveType
<1>2. IsFiniteSet(S) /\ Cardinality(S) = n
  <2>1. q \in Bijection(1 .. n, S)
    BY <1>1 DEF NewestFirst, Bijection, Injection, Surjection, ToSet
  <2>2. IsFiniteSet(1 .. n) /\ Cardinality(1 .. n) = n
    BY <1>1, FS_Interval
  <2> HIDE DEF S
  <2> QED BY <2>1, <2>2, FS_Bijection DEF ExistsBijection
<1>3. n = LIMIT
  <2>1. IsFiniteSet(W) /\ e \in W
    BY InWindowType
  <2>2. S \subseteq W /\ e \notin S
    BY <1>1 DEF ToSet
  <2> HIDE DEF S, W
  <2>3. n # Cardinality(W)
    BY <1>2, <2>1, <2>2, FS_Subset
  <2> QED BY <1>1, <2>3
<1>4. S \cup {e} \subseteq F
  <2>1. S \subseteq lock_events /\ e \in lock_events
    BY <1>1 DEF ToSet, InWindow
  <2>2. \A f \in S : f.ts >= e.ts
    BY <1>1 DEF ToSet, NewestFirst
  <2>3. e.ts \in Int
    BY <2>1 DEF RTypes, TypeOK, Event, Time
  <2> QED BY <2>1, <2>2, <2>3
<1>5. IsFiniteSet(F) /\ Cardinality(F) \in Nat
  BY FS_Subset, FS_CardinalityType DEF RTypes
<1>6. IsFiniteSet(S \cup {e}) /\ Cardinality(S \cup {e}) = n + 1
  <2>1. e \notin S
    OBVIOUS
  <2> HIDE DEF S
  <2> QED BY <1>2, <2>1, FS_AddElement
<1>7. n + 1 <= Cardinality(F)
  <2> DEFINE T == S \cup {e}
  <2>1. T \in SUBSET F /\ Cardinality(T) = n + 1
    BY <1>4, <1>6
  <2> HIDE DEF T, F
  <2> QED BY <1>5, <2>1, FS_Subset
<1> QED BY <1>1, <1>3, <1>5, <1>7

LEMMA NewestStep ==
  ASSUME RTypes, [Next]_vars, agent.pc = "asked", agent'.pc = "told", NEW e \in InWindow(agent.since),
         Cardinality({f \in lock_events : f.ts >= e.ts}) <= LIMIT
  PROVE  e.lock \in {r.lock : r \in ToSet(agent'.rows)}
<1>1. Tell
  <2>1. agent' # agent
    OBVIOUS
  <2>2. ~ Done /\ \A i \in Instance : ~ Ask(i)
    BY NoCallType DEF Done, Ask
  <2> QED BY <2>1, <2>2 DEF Next, CollectLocks, Webhook, Push, Ingest, CollectFails, Tick, vars
<1>2. PICK q \in LocksActive(agent.since) : agent' = [agent EXCEPT !.pc = "told", !.rows = q]
  BY <1>1 DEF Tell
<1>3. agent'.rows = q /\ agent.since \in Int
  BY <1>2 DEF RTypes, TypeOK, Call
<1>4. e \in ToSet(q)
  BY <1>3, LeftOut
<1> QED BY <1>3, <1>4

\* What the LIMIT cuts off is old: a pair in the window is left out only when LIMIT rows at
\* least as new are stored, in whatever order the snapshots arrived (locks_active).
THEOREM NewestAreShown == Spec => NewestShown
<1>1. RTypes /\ [Next]_vars =>
        [agent.pc = "asked" /\ agent'.pc = "told" =>
           \A e \in InWindow(agent.since) :
             Cardinality({f \in lock_events : f.ts >= e.ts}) <= LIMIT =>
               e.lock \in {r.lock : r \in ToSet(agent'.rows)}]_vars
  BY NewestStep
<1> QED BY <1>1, ReadsInv, PTL DEF Spec, NewestShown

-----------------------------------------------------------------------------
(* The tree.                                                               *)

Pids  == {l.blocked_pid : l \in Lock}
Modes == {l.lock_mode : l \in Lock}
Node  == [lock_mode : Modes, blocked_pids : Seq(Pids)]

\* The first n rows that name b as a blocker.
Reports(rows, n, b) == {i \in 1 .. n : rows[i].lock.blocking_pid = b}

\* What a node is after the rows I: it has the mode of the first, and each session once.
NodeOf(node, rows, I) ==
  /\ IsInjective(node.blocked_pids)
  /\ ToSet(node.blocked_pids) = {rows[i].lock.blocked_pid : i \in I} \ {NoPid}
  /\ \E i \in I : node.lock_mode = rows[i].lock.lock_mode /\ \A j \in I : i <= j

\* What the tree t is after the first n rows: a node for each blocker.
TreeOf(t, rows, n) ==
  /\ t \in [{rows[i].lock.blocking_pid : i \in 1 .. n} \ {NoPid} -> Node]
  /\ \A b \in DOMAIN t : NodeOf(t[b], rows, Reports(rows, n, b))

\* A list without repetitions takes a new element without repeating one.
LEMMA AppendNew ==
  ASSUME NEW S, NEW s \in Seq(S), NEW x \in S, x \notin ToSet(s), IsInjective(s)
  PROVE  /\ Append(s, x) \in Seq(S) /\ IsInjective(Append(s, x))
         /\ ToSet(Append(s, x)) = ToSet(s) \cup {x}
<1> DEFINE n == Len(s)
           a == Append(s, x)
<1>1. /\ n \in Nat /\ DOMAIN s = 1 .. n /\ DOMAIN a = 1 .. (n + 1) /\ a \in Seq(S)
      /\ \A i \in 1 .. n : a[i] = s[i]
      /\ a[n + 1] = x
  OBVIOUS
<1>2. DOMAIN a = (1 .. n) \cup {n + 1} /\ n + 1 \notin 1 .. n
  BY <1>1
<1> HIDE DEF a, n
<1>3. IsInjective(a)
  BY <1>1, <1>2 DEF IsInjective, ToSet
<1>4. ToSet(a) = ToSet(s) \cup {x}
  BY <1>1, <1>2 DEF ToSet
<1> QED BY <1>1, <1>3, <1>4 DEF a

LEMMA GrownIs ==
  ASSUME NEW node \in Node, IsInjective(node.blocked_pids), NEW pid \in Pids
  PROVE  /\ Grown(node, pid) \in Node /\ Grown(node, pid).lock_mode = node.lock_mode
         /\ IsInjective(Grown(node, pid).blocked_pids)
         /\ ToSet(Grown(node, pid).blocked_pids) = ToSet(node.blocked_pids) \cup ({pid} \ {NoPid})
<1>1. CASE pid \in ToSet(node.blocked_pids) \cup {NoPid}
  BY <1>1 DEF Grown
<1>2. CASE pid \notin ToSet(node.blocked_pids) \cup {NoPid}
  <2> DEFINE p == Append(node.blocked_pids, pid)
  <2>1. p \in Seq(Pids) /\ IsInjective(p) /\ ToSet(p) = ToSet(node.blocked_pids) \cup {pid}
    BY <1>2, AppendNew DEF Node
  <2>2. Grown(node, pid) = [node EXCEPT !.blocked_pids = p]
    BY <1>2 DEF Grown
  <2> HIDE DEF p
  <2> QED BY <1>2, <2>1, <2>2 DEF Node
<1> QED BY <1>1, <1>2

LEMMA TreeStep ==
  ASSUME NEW rows \in Seq(Event), NEW n \in 0 .. (Len(rows) - 1), NEW t, TreeOf(t, rows, n)
  PROVE  TreeOf(Added(t, rows[n + 1].lock), rows, n + 1)
<1> DEFINE lock == rows[n + 1].lock
           b0   == lock.blocking_pid
           leaf == [lock_mode |-> lock.lock_mode, blocked_pids |-> << >>]
           node == IF b0 \in DOMAIN t THEN t[b0] ELSE leaf
           u    == Added(t, lock)
           old(b) == Reports(rows, n, b)
           new(b) == Reports(rows, n + 1, b)
<1>0. /\ 1 .. (n + 1) = (1 .. n) \cup {n + 1} /\ n + 1 \notin 1 .. n /\ n \in Nat
      /\ \A i \in 1 .. (n + 1) : i <= n + 1
      /\ lock \in Lock
  <2>1. Len(rows) \in Nat /\ n \in Nat /\ n + 1 \in 1 .. Len(rows)
    OBVIOUS
  <2>2. rows[n + 1] \in Event
    BY <2>1
  <2> QED BY <2>1, <2>2 DEF Event
<1>1. \A b : new(b) = IF b = b0 THEN old(b) \cup {n + 1} ELSE old(b)
  BY <1>0 DEF Reports
<1>2. /\ t \in [{rows[i].lock.blocking_pid : i \in 1 .. n} \ {NoPid} -> Node]
      /\ \A b \in DOMAIN t : NodeOf(t[b], rows, old(b))
  BY DEF TreeOf
<1>3. {rows[i].lock.blocking_pid : i \in 1 .. (n + 1)}
        = {rows[i].lock.blocking_pid : i \in 1 .. n} \cup {b0}
  BY <1>0
<1>4. SUFFICES /\ u \in [{rows[i].lock.blocking_pid : i \in 1 .. (n + 1)} \ {NoPid} -> Node]
               /\ \A b \in DOMAIN u : NodeOf(u[b], rows, new(b))
  BY DEF TreeOf
<1>5. CASE b0 = NoPid
  <2>1. u = t
    BY <1>5 DEF Added
  <2>2. \A b \in DOMAIN t : new(b) = old(b)
    BY <1>1, <1>2, <1>5
  <2> HIDE DEF u, new, old, b0
  <2> QED BY <1>2, <1>3, <1>5, <2>1, <2>2
<1>6. CASE b0 # NoPid
  <2>1. u = [b \in DOMAIN t \cup {b0} |-> IF b = b0 THEN Grown(node, lock.blocked_pid) ELSE t[b]]
    BY <1>6 DEF Added
  <2>2. b0 \notin DOMAIN t => old(b0) = {}
    BY <1>2, <1>6 DEF Reports
  <2>3. node \in Node /\ IsInjective(node.blocked_pids)
    <3>1. CASE b0 \in DOMAIN t
      BY <1>2, <3>1 DEF NodeOf
    <3>2. CASE b0 \notin DOMAIN t
      <4>1. lock.lock_mode \in Modes
        BY <1>0 DEF Modes
      <4>2. leaf \in Node /\ IsInjective(leaf.blocked_pids)
        BY <4>1 DEF Node, IsInjective
      <4> QED BY <3>2, <4>2
    <3> QED BY <3>1, <3>2
  <2>4. lock.blocked_pid \in Pids
    BY <1>0 DEF Pids
  <2> HIDE DEF u, node
  <2>5. /\ u[b0] \in Node /\ u[b0].lock_mode = node.lock_mode /\ IsInjective(u[b0].blocked_pids)
        /\ ToSet(u[b0].blocked_pids) = ToSet(node.blocked_pids) \cup ({lock.blocked_pid} \ {NoPid})
    BY <2>1, <2>3, <2>4, GrownIs
  <2>6. u \in [{rows[i].lock.blocking_pid : i \in 1 .. (n + 1)} \ {NoPid} -> Node]
    BY <1>2, <1>3, <1>6, <2>1, <2>5
  <2>7. ToSet(node.blocked_pids) = {rows[i].lock.blocked_pid : i \in old(b0)} \ {NoPid}
    <3>1. CASE b0 \in DOMAIN t
      BY <1>2, <3>1 DEF node, NodeOf
    <3>2. CASE b0 \notin DOMAIN t
      <4>1. ToSet(leaf.blocked_pids) = {}
        BY DEF ToSet
      <4> QED BY <2>2, <3>2, <4>1 DEF node
    <3> QED BY <3>1, <3>2
  <2>8. ToSet(u[b0].blocked_pids) = {rows[i].lock.blocked_pid : i \in new(b0)} \ {NoPid}
    BY <1>1, <2>5, <2>7
  <2>9. \E i \in new(b0) : u[b0].lock_mode = rows[i].lock.lock_mode /\ \A j \in new(b0) : i <= j
    <3>1. CASE b0 \in DOMAIN t
      <4>1. PICK i \in old(b0) : node.lock_mode = rows[i].lock.lock_mode /\ \A j \in old(b0) : i <= j
        BY <1>2, <3>1 DEF node, NodeOf
      <4>2. i \in 1 .. (n + 1)
        BY <1>0 DEF Reports
      <4>3. i \in new(b0) /\ \A j \in new(b0) : i <= j
        BY <1>0, <1>1, <4>1, <4>2
      <4> QED BY <2>5, <4>1, <4>3
    <3>2. CASE b0 \notin DOMAIN t
      <4>1. new(b0) = {n + 1} /\ node.lock_mode = lock.lock_mode
        BY <1>1, <2>2, <3>2 DEF node
      <4> QED BY <1>0, <2>5, <4>1
    <3> QED BY <3>1, <3>2
  <2>10. NodeOf(u[b0], rows, new(b0))
    BY <2>5, <2>8, <2>9 DEF NodeOf
  <2>11. ASSUME NEW b \in DOMAIN u PROVE NodeOf(u[b], rows, new(b))
    <3>1. CASE b = b0
      BY <2>10, <3>1
    <3>2. CASE b # b0
      BY <1>1, <1>2, <2>1, <3>2
    <3> QED BY <3>1, <3>2
  <2> QED BY <2>6, <2>11
<1> QED BY <1>5, <1>6

\* The trees of the first rows of an answer.
TreesOf(g, rows, n) ==
  g = [k \in 0 .. n |-> IF k = 0 THEN << >> ELSE Added(g[k - 1], rows[k].lock)]

LEMMA TreesExist ==
  ASSUME NEW rows, NEW n \in Nat
  PROVE  \E g : TreesOf(g, rows, n)
<1> DEFINE S == {m \in Nat : \E g : TreesOf(g, rows, m)}
<1>1. 0 \in S
  <2>1. TreesOf([k \in 0 .. 0 |-> << >>], rows, 0)
    BY DEF TreesOf
  <2> QED BY <2>1
<1>2. ASSUME NEW m \in 0 .. (n - 1), m \in S PROVE m + 1 \in S
  <2>1. PICK g : TreesOf(g, rows, m)
    BY <1>2
  <2> DEFINE h == [k \in 0 .. (m + 1) |-> IF k = m + 1 THEN Added(g[m], rows[m + 1].lock) ELSE g[k]]
  <2>2. \A k \in 0 .. (m + 1) : h[k] = IF k = 0 THEN << >> ELSE Added(h[k - 1], rows[k].lock)
    BY <2>1 DEF TreesOf
  <2>3. h = [k \in 0 .. (m + 1) |-> IF k = 0 THEN << >> ELSE Added(h[k - 1], rows[k].lock)]
    <3>1. h = [k \in 0 .. (m + 1) |-> h[k]]
      OBVIOUS
    <3> HIDE DEF h
    <3> QED BY <2>2, <3>1
  <2>4. TreesOf(h, rows, m + 1) /\ m + 1 \in Nat
    BY <2>3 DEF TreesOf
  <2> HIDE DEF h
  <2> QED BY <2>4
<1>3. n \in S
  <2> HIDE DEF S
  <2> QED BY <1>1, <1>2, UpTo
<1> QED BY <1>3

\* build_blocking_tree makes the tree of all its rows.
LEMMA TreeIsOf ==
  ASSUME NEW rows \in Seq(Event)
  PROVE  TreeOf(BuildBlockingTree(rows), rows, Len(rows))
<1> DEFINE n == Len(rows)
           tree[k \in 0 .. Len(rows)] == IF k = 0 THEN << >> ELSE Added(tree[k - 1], rows[k].lock)
<1>0. n \in Nat
  OBVIOUS
<1>1. BuildBlockingTree(rows) = tree[n]
  BY DEF BuildBlockingTree
<1>2. TreesOf(tree, rows, n)
  <2>1. \E g : TreesOf(g, rows, n)
    BY <1>0, TreesExist
  <2> QED BY <2>1 DEF TreesOf
<1> HIDE DEF tree
<1> DEFINE S == {k \in 0 .. n : TreeOf(tree[k], rows, k)}
<1>3. 0 \in S
  <2>1. tree[0] = << >>
    BY <1>0, <1>2 DEF TreesOf
  <2>2. TreeOf(<< >>, rows, 0)
    <3>1. 1 .. 0 = {}
      OBVIOUS
    <3> QED BY <3>1 DEF TreeOf
  <2> QED BY <1>0, <2>1, <2>2
<1>4. ASSUME NEW k \in 0 .. (n - 1), k \in S PROVE k + 1 \in S
  <2>1. tree[k + 1] = Added(tree[k], rows[k + 1].lock)
    BY <1>0, <1>2 DEF TreesOf
  <2> QED BY <1>0, <1>4, <2>1, TreeStep
<1>5. n \in S
  <2> HIDE DEF S, n
  <2>1. \A k \in 0 .. n : k \in S
    BY <1>0, <1>3, <1>4, UpTo
  <2> QED BY <1>0, <2>1
<1> QED BY <1>1, <1>5

\* The rows of an answer are newest first.
Ordered == agent.pc = "told" =>
             \A i, j \in DOMAIN agent.rows : i < j => agent.rows[i].ts >= agent.rows[j].ts

LEMMA OrderedStep ==
  ASSUME RTypes, Ordered, [Next]_vars
  PROVE  Ordered'
<1> USE DEF Ordered
<1>1. CASE UNCHANGED agent
  BY <1>1
<1>2. ASSUME NEW i \in Instance, Ask(i) PROVE Ordered'
  BY <1>2 DEF Ask
<1>3. CASE Tell
  <2>1. PICK q \in LocksActive(agent.since) : agent' = [agent EXCEPT !.pc = "told", !.rows = q]
    BY <1>3 DEF Tell
  <2>2. agent'.rows = q /\ agent.since \in Int
    BY <2>1 DEF RTypes, TypeOK, Call
  <2> QED BY <2>2, LocksActiveType DEF NewestFirst
<1>4. CASE Done
  BY <1>4, NoCallType DEF Done
<1> QED BY <1>1, <1>2, <1>3, <1>4 DEF Next, CollectLocks, Webhook, Push, Ingest, CollectFails, Tick, vars

LEMMA AnswersOrdered == Spec => []Ordered
<1>1. Init => Ordered
  BY NoCallType DEF Init, Ordered
<1> QED BY <1>1, OrderedStep, ReadsInv, PTL DEF Spec

\* An entry of a tree without repetitions is an edge.
LEMMA EntriesAreEdges ==
  ASSUME NEW tree, NEW E, IsFiniteSet(E),
         E = UNION {{<<b, pid>> : pid \in ToSet(tree[b].blocked_pids)} : b \in DOMAIN tree},
         \A b \in DOMAIN tree : IsInjective(tree[b].blocked_pids)
  PROVE  TotalBlocked(tree) = Cardinality(E)
<1> DEFINE edge == [x \in Entries(tree) |-> <<x[1], tree[x[1]].blocked_pids[x[2]]>>]
<1>1. \A x \in Entries(tree) : /\ x = <<x[1], x[2]>> /\ x[1] \in DOMAIN tree
                               /\ x[2] \in DOMAIN tree[x[1]].blocked_pids
  BY DEF Entries
<1>2. edge \in [Entries(tree) -> E]
  BY <1>1 DEF ToSet
<1>3. \A x, y \in Entries(tree) : edge[x] = edge[y] => x = y
  BY <1>1 DEF IsInjective
<1>4. ASSUME NEW e \in E PROVE \E x \in Entries(tree) : edge[x] = e
  <2>1. PICK b \in DOMAIN tree : \E pid \in ToSet(tree[b].blocked_pids) : e = <<b, pid>>
    OBVIOUS
  <2>2. PICK i \in DOMAIN tree[b].blocked_pids : e = <<b, tree[b].blocked_pids[i]>>
    BY <2>1 DEF ToSet
  <2>3. <<b, i>> \in Entries(tree)
    BY DEF Entries
  <2> QED BY <2>1, <2>2, <2>3
<1>5. edge \in Bijection(Entries(tree), E)
  <2> HIDE DEF edge
  <2>1. edge \in Injection(Entries(tree), E)
    BY <1>2, <1>3 DEF Injection, IsInjective
  <2>2. edge \in Surjection(Entries(tree), E)
    BY <1>2, <1>4 DEF Surjection
  <2> QED BY <2>1, <2>2 DEF Bijection
<1>6. ExistsBijection(E, Entries(tree))
  <2> HIDE DEF edge
  <2>1. ExistsBijection(Entries(tree), E)
    BY <1>5 DEF ExistsBijection
  <2> QED BY <2>1, Fun_ExistsBijSymmetric
<1> QED BY <1>6, FS_Bijection DEF TotalBlocked

\* The tree is the relation that the rows report, each edge once, under one node per blocker,
\* which has the lock_mode of a newest row of the blocker (build_blocking_tree keeps the first,
\* and locks_active sends the newest first).
THEOREM TreeShowsRelation == Spec => []TreeIsRelation
<1>1. ASSUME RTypes, Ordered, Told PROVE
        /\ Shown = Edges
        /\ TotalBlocked(Tree) = Cardinality(Edges)
        /\ DOMAIN Tree = {l.blocking_pid : l \in Reported} \ {NoPid}
        /\ \A b \in DOMAIN Tree : \E e \in ToSet(agent.rows) :
             /\ e.lock.blocking_pid = b /\ e.lock.lock_mode = Tree[b].lock_mode
             /\ \A f \in ToSet(agent.rows) : f.lock.blocking_pid = b => f.ts <= e.ts
  <2> DEFINE rows == agent.rows
             n == Len(rows)
  <2>1. rows \in Seq(Event) /\ n \in Nat /\ DOMAIN rows = 1 .. n
    BY <1>1 DEF RTypes, TypeOK, Call
  <2>2. /\ Tree \in [{rows[i].lock.blocking_pid : i \in 1 .. n} \ {NoPid} -> Node]
        /\ \A b \in DOMAIN Tree : NodeOf(Tree[b], rows, Reports(rows, n, b))
    BY <2>1, TreeIsOf DEF TreeOf, Tree
  <2>3. DOMAIN Tree = {l.blocking_pid : l \in Reported} \ {NoPid}
    BY <2>1, <2>2 DEF Reported, ToSet
  <2>4. Shown = Edges
    <3>1. ASSUME NEW b, NEW pid
          PROVE  <<b, pid>> \in Edges <=>
                   \E i \in 1 .. n : /\ rows[i].lock.blocking_pid = b /\ rows[i].lock.blocked_pid = pid
                                     /\ b # NoPid /\ pid # NoPid
      BY <2>1 DEF Edges, Reported, ToSet
    <3>2. ASSUME NEW b \in DOMAIN Tree, NEW pid
          PROVE  pid \in ToSet(Tree[b].blocked_pids) <=>
                   \E i \in 1 .. n : /\ rows[i].lock.blocking_pid = b /\ rows[i].lock.blocked_pid = pid
                                     /\ pid # NoPid
      <4>1. ToSet(Tree[b].blocked_pids)
              = {rows[i].lock.blocked_pid : i \in Reports(rows, n, b)} \ {NoPid}
        BY <2>2 DEF NodeOf
      <4> QED BY <4>1 DEF Reports
    <3>3. \A x \in Edges : x = <<x[1], x[2]>>
      BY DEF Edges
    <3>4. \A x \in Shown : x = <<x[1], x[2]>>
      BY DEF Shown
    <3>5. ASSUME NEW b, NEW pid
          PROVE  <<b, pid>> \in Shown <=> b \in DOMAIN Tree /\ pid \in ToSet(Tree[b].blocked_pids)
      BY DEF Shown
    <3>6. ASSUME NEW b, NEW pid
          PROVE  <<b, pid>> \in Shown <=> <<b, pid>> \in Edges
      <4>1. CASE b \in DOMAIN Tree
        <5>1. b # NoPid
          BY <2>2, <4>1
        <5> QED BY <3>1, <3>2, <3>5, <4>1, <5>1
      <4>2. CASE b \notin DOMAIN Tree
        <5>1. \A i \in 1 .. n : rows[i].lock.blocking_pid = b => b = NoPid
          BY <2>2, <4>2
        <5> QED BY <3>1, <3>5, <4>2, <5>1
      <4> QED BY <4>1, <4>2
    <3> QED BY <3>3, <3>4, <3>6
  <2>5. TotalBlocked(Tree) = Cardinality(Edges)
    <3>1. IsFiniteSet(Edges)
      <4> DEFINE pair == [l \in Lock |-> <<l.blocking_pid, l.blocked_pid>>]
                 P == {pair[l] : l \in Lock}
      <4>1. pair \in Surjection(Lock, P)
        BY DEF Surjection
      <4>2. IsFiniteSet(P)
        <5> HIDE DEF pair, P
        <5> QED BY <4>1, ReadsAssumption, FS_Surjection
      <4>3. Edges \subseteq P
        <5>1. Reported \subseteq Lock
          <6>1. \A i \in DOMAIN rows : rows[i] \in Event
            BY <2>1
          <6> QED BY <6>1 DEF Reported, ToSet, Event
        <5> QED BY <5>1 DEF Edges
      <4> QED BY <4>2, <4>3, FS_Subset
    <3> QED BY <2>2, <2>4, <3>1, EntriesAreEdges DEF Shown, NodeOf
  <2>6. ASSUME NEW b \in DOMAIN Tree
        PROVE  \E e \in ToSet(rows) :
                 /\ e.lock.blocking_pid = b /\ e.lock.lock_mode = Tree[b].lock_mode
                 /\ \A f \in ToSet(rows) : f.lock.blocking_pid = b => f.ts <= e.ts
    <3>1. PICK i \in Reports(rows, n, b) : /\ Tree[b].lock_mode = rows[i].lock.lock_mode
                                           /\ \A j \in Reports(rows, n, b) : i <= j
      BY <2>2 DEF NodeOf
    <3>2. i \in 1 .. n /\ rows[i].lock.blocking_pid = b
      BY DEF Reports
    <3>3. ASSUME NEW j \in 1 .. n, rows[j].lock.blocking_pid = b PROVE rows[j].ts <= rows[i].ts
      <4>1. i <= j /\ rows[i].ts \in Int /\ rows[j].ts \in Int
        <5>1. rows[i] \in Event /\ rows[j] \in Event
          BY <2>1, <3>2
        <5>2. j \in Reports(rows, n, b)
          BY <3>3 DEF Reports
        <5> QED BY <3>1, <5>1, <5>2 DEF Event, Time
      <4>2. CASE i = j
        BY <4>1, <4>2
      <4>3. CASE i # j
        BY <1>1, <2>1, <3>2, <4>1, <4>3 DEF Ordered, Told
      <4> QED BY <4>2, <4>3
    <3> QED BY <2>1, <3>1, <3>2, <3>3 DEF ToSet
  <2> QED BY <2>3, <2>4, <2>5, <2>6
<1> QED BY <1>1, ReadsInv, AnswersOrdered, PTL DEF TreeIsRelation

=============================================================================
