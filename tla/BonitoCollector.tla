-------------------------- MODULE BonitoCollector --------------------------
(***************************************************************************)
(* bonito-collector's scrape loop: one thread that takes a snapshot of     *)
(* every configured instance in turn, updates the Prometheus gauges with   *)
(* it, emits its spans, pushes it to the store and sleeps, while another   *)
(* thread serves the gauges.  Instances come and go; the store answers or  *)
(* does not.  Of a snapshot the model keeps the sessions, whose gauges     *)
(* carry a label that comes and goes, and a ratio that may be NULL.        *)
(***************************************************************************)
EXTENDS Integers, Sequences, FiniteSetsExt, SequencesExt

CONSTANTS
  Order,      \* cfg.instances: the configured instances, in their order
  State,      \* the states of sessions
  IdleInTx,   \* the state "idle in transaction"
  Ratio,      \* values of a top query's buffer_hit_ratio
  Tracing,    \* whether init_otlp found an endpoint and its dependencies
  None        \* a gauge never set; NULL; the spans and events of no snapshot

Instance == ToSet(Order)

ASSUME OrderAssumption == Order \in Seq(Instance) /\ Order # << >> /\ IsInjective(Order)
                          /\ None \notin Ratio /\ Tracing \in BOOLEAN
ASSUME StateAssumption == IsFiniteSet(State) /\ IdleInTx \in State

VARIABLES
  up,      \* whether each instance answers queries
  pc,      \* where the loop is
  at,      \* the position in Order of the instance it works on
  got,     \* what was collected from it
  gauge,   \* per instance: bonito_active_sessions, _sessions_by_state, _idle_in_transaction
           \* and _query_buffer_hit_ratio
  spans,   \* per instance: the snapshot whose spans were emitted last
  last,    \* per instance: the last snapshot whose events were built
  errors   \* COLLECTOR_ERRORS, modulo 2

vars == <<up, pc, at, got, gauge, spans, last, errors>>

Sessions == [State -> {0, 1}]   \* bound: at most one session of each state
Count(n) == Cardinality({s \in State : n[s] = 1})
Snapshot == [sessions : Sessions, hit : Ratio \cup {None}]
Nothing  == [sessions |-> [s \in State |-> 0], hit |-> None]
Gauges   == [active : Nat \cup {None}, by_state : [State -> {1, None}], idle : {0, 1, None},
             hit : Ratio \cup {None}]

ASSUME NoneAssumption == None \notin Snapshot

Collected == {"queries", "locks", "sessions", "tables"}
Export == {"export_queries", "export_active", "export_states", "export_idle"}
Phase  == {"sleep", "extension", "spans", "push", "error"} \cup Collected \cup Export

\* One type invariant: every variable holds a value of the program's kind.
TypeOK ==
  /\ up \in [Instance -> BOOLEAN]
  /\ pc \in Phase
  /\ at \in 1 .. Len(Order)
  /\ got \in Snapshot
  /\ gauge \in [Instance -> Gauges]
  /\ spans \in [Instance -> Snapshot \cup {None}]
  /\ last \in [Instance -> Snapshot \cup {None}]
  /\ errors \in {0, 1}

-----------------------------------------------------------------------------
(* run_instance.                                                           *)

current == Order[at]

\* Each query opens a connection of its own, makes it read-only, runs and closes it.
Answers(phase) == pc = phase /\ up[current]

\* Without pg_stat_statements there are no top queries to ask for.
HasExtension ==
  /\ Answers("extension")
  /\ \E present \in BOOLEAN : pc' = IF present THEN "queries" ELSE "locks"
  /\ UNCHANGED <<up, at, got, gauge, spans, last, errors>>

\* No queries, no query with any block access: both leave the ratio out.
CollectTopQueries ==
  /\ Answers("queries")
  /\ \E hit \in Ratio \cup {None} : got' = [got EXCEPT !.hit = hit]
  /\ pc' = "locks"
  /\ UNCHANGED <<up, at, gauge, spans, last, errors>>

CollectLocks ==
  /\ Answers("locks")
  /\ pc' = "sessions"
  /\ UNCHANGED <<up, at, got, gauge, spans, last, errors>>

\* Mutant of CollectSessions: the gauge is set as soon as the sessions are there.
CollectSessions_Export ==
  /\ Answers("sessions")
  /\ \E n \in Sessions : got' = [got EXCEPT !.sessions = n]
  /\ gauge' = [gauge EXCEPT ![current].active = Count(got'.sessions)]
  /\ pc' = "tables"
  /\ UNCHANGED <<up, at, spans, last, errors>>

CollectSessions ==
  /\ Answers("sessions")
  /\ \E n \in Sessions : got' = [got EXCEPT !.sessions = n]
  /\ pc' = "tables"
  /\ UNCHANGED <<up, at, gauge, spans, last, errors>>

CollectTableStats ==
  /\ Answers("tables")
  /\ pc' = "export_queries"
  /\ UNCHANGED <<up, at, got, gauge, spans, last, errors>>

\* An instance that is down, refuses the connection or exceeds statement_timeout: the
\* exception leaves run_once, and with it the round.
QueryFails ==
  /\ pc \in Collected \cup {"extension"}
  /\ ~ up[current]
  /\ pc' = "error"
  /\ UNCHANGED <<up, at, got, gauge, spans, last, errors>>

\* export_prometheus: gauge by gauge, so that Prometheus may read them half-way.  _set leaves
\* the gauge of a NULL as it is.
ExportQueries ==
  /\ pc = "export_queries"
  /\ gauge' = [gauge EXCEPT ![current].hit = IF got.hit = None THEN @ ELSE got.hit]
  /\ pc' = "export_active"
  /\ UNCHANGED <<up, at, got, spans, last, errors>>

ExportActive ==
  /\ pc = "export_active"
  /\ gauge' = [gauge EXCEPT ![current].active = Count(got.sessions)]
  /\ pc' = "export_states"
  /\ UNCHANGED <<up, at, got, spans, last, errors>>

\* Only the states that occur are set.
ExportStates ==
  /\ pc = "export_states"
  /\ gauge' = [gauge EXCEPT ![current].by_state =
                 [s \in State |-> IF got.sessions[s] > 0 THEN got.sessions[s] ELSE @[s]]]
  /\ pc' = "export_idle"
  /\ UNCHANGED <<up, at, got, spans, last, errors>>

ExportIdle ==
  /\ pc = "export_idle"
  /\ gauge' = [gauge EXCEPT ![current].idle = got.sessions[IdleInTx]]
  /\ pc' = "spans"
  /\ UNCHANGED <<up, at, got, spans, last, errors>>

\* A span per query and per blocking pair, when there is a tracer; then the events are built.
EmitSpans ==
  /\ pc = "spans"
  /\ spans' = IF Tracing THEN [spans EXCEPT ![current] = got] ELSE spans
  /\ last' = [last EXCEPT ![current] = got]
  /\ pc' = "push"
  /\ UNCHANGED <<up, at, got, gauge, errors>>

-----------------------------------------------------------------------------
(* run_once and main.                                                      *)

\* Mutant of Advance: the end of the list is noticed one instance too late.
Advance_Beyond ==
  IF at <= Len(Order) THEN at' = at + 1 /\ pc' = "extension"
                      ELSE at' = 1 /\ pc' = "sleep"

\* The snapshot is over: on to the next instance, or to the end of the round.
Advance ==
  IF at < Len(Order) THEN at' = at + 1 /\ pc' = "extension"
                     ELSE at' = 1 /\ pc' = "sleep"

\* Mutant of Push: a push that fails is raised, as any other exception of run_instance.
Push_Raises ==
  /\ pc = "push"
  /\ \E stored \in BOOLEAN : IF stored THEN Advance ELSE pc' = "error" /\ at' = at
  /\ got' = Nothing
  /\ UNCHANGED <<up, gauge, spans, last, errors>>

\* push_events, if there is a store_url: whatever becomes of the snapshot, the loop goes on.
Push ==
  /\ pc = "push"
  /\ Advance
  /\ got' = Nothing
  /\ UNCHANGED <<up, gauge, spans, last, errors>>

\* Mutant of Failed: the handler only prints.
Failed_Uncounted ==
  /\ pc = "error"
  /\ at' = 1 /\ pc' = "sleep" /\ got' = Nothing
  /\ UNCHANGED <<up, gauge, spans, last, errors>>

\* except Exception: the error is counted, and the rest of the round is skipped.
Failed ==
  /\ pc = "error"
  /\ errors' = 1 - errors
  /\ at' = 1 /\ pc' = "sleep" /\ got' = Nothing
  /\ UNCHANGED <<up, gauge, spans, last>>

\* time.sleep(interval), and the next round starts with the first instance.
Sleep ==
  /\ pc = "sleep"
  /\ pc' = "extension"
  /\ UNCHANGED <<up, at, got, gauge, spans, last, errors>>

\* The monitored servers go down and come up.
Change(i) ==
  /\ up' = [up EXCEPT ![i] = ~ @]
  /\ UNCHANGED <<pc, at, got, gauge, spans, last, errors>>

Init ==
  /\ up \in [Instance -> BOOLEAN]
  /\ pc = "extension" /\ at = 1 /\ got = Nothing
  /\ gauge = [i \in Instance |-> [active |-> None, by_state |-> [s \in State |-> None],
                                  idle |-> None, hit |-> None]]
  /\ spans = [i \in Instance |-> None]
  /\ last = [i \in Instance |-> None]
  /\ errors = 0

Loop ==
  \/ HasExtension \/ CollectTopQueries \/ CollectLocks \/ CollectSessions \/ CollectTableStats
  \/ QueryFails \/ ExportQueries \/ ExportActive \/ ExportStates \/ ExportIdle \/ EmitSpans
  \/ Push \/ Failed \/ Sleep

Next == Loop \/ \E i \in Instance : Change(i)

Spec == Init /\ [][Next]_vars

\* The loop's thread is scheduled; every query returns or times out within 5 seconds.
FairSpec == Spec /\ WF_vars(Loop)

-----------------------------------------------------------------------------
(* What must hold.                                                         *)

\* What a snapshot sets the gauges of its instance to; a state that it has not, and a NULL, set
\* nothing.
Sets(s) == [active |-> {Count(s.sessions)}, idle |-> {s.sessions[IdleInTx]},
            hit |-> IF s.hit = None THEN Ratio \cup {None} ELSE {s.hit},
            by_state |-> [t \in State |-> IF s.sessions[t] = 0 THEN {1, None} ELSE {1}]]

Unset == [active |-> {None}, idle |-> {None}, hit |-> {None}, by_state |-> [t \in State |-> {None}]]

Agree(g, by) ==
  /\ \E s \in by : g.active \in s.active
  /\ \E s \in by : g.idle \in s.idle
  /\ \E s \in by : g.hit \in s.hit
  /\ \A t \in State : \E s \in by : g.by_state[t] \in s.by_state[t]

\* Whenever Prometheus reads them, the gauges of an instance are those of its last complete
\* snapshot; while the next one is being exported, each is of one of the two.  A snapshot that
\* failed half-way leaves no gauge and no span behind (run_instance collects everything before
\* export_prometheus), and the spans are those of the snapshot that the gauges show.
GaugesOfLastSnapshot ==
  \A i \in Instance :
    LET before == IF last[i] = None THEN Unset ELSE Sets(last[i])
    IN  /\ Agree(gauge[i], {before} \cup IF i = current /\ pc \in Export \cup {"spans"}
                                          THEN {Sets(got)} ELSE {})
        /\ spans[i] = IF Tracing THEN last[i] ELSE None

Up(i) == up[i]

Snapped(i) == pc = "push" /\ current = i

\* While every instance answers, every instance is collected again and again, whatever the
\* store does with the pushes.
EveryInstanceCollected ==
  (\A i \in Instance : <>[]Up(i)) => \A i \in Instance : []<>Snapped(i)

\* While some instance stays down, bonito_collector_errors_total goes on counting: the handler
\* in main neither swallows an outage nor lets it end the loop.
OutageCounted ==
  (\E i \in Instance : <>[](~ Up(i))) => []<><<errors' # errors>>_vars

-----------------------------------------------------------------------------
(* What the documents say, and the code does not do.                       *)

\* run_once: "Collect one snapshot for every configured instance."  The first instance that
\* fails ends the round, so the ones after it are never collected while it is down.
UpIsCollected ==
  \A i \in Instance : <>[]Up(i) => []<>Snapped(i)

\* docs/observability/metrics.md: bonito_active_sessions counts the non-idle sessions,
\* bonito_sessions_by_state the sessions by state.  A state that no longer occurs keeps its
\* last count, so the states add up to more sessions than there are.
StatesAddUp ==
  \A i \in Instance : gauge[i].active # None /\ ~ (i = current /\ pc \in Export) =>
    gauge[i].active = Cardinality({s \in State : gauge[i].by_state[s] = 1})

=============================================================================
