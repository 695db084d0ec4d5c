----------------------- MODULE BonitoCollector_proofs -----------------------
(***************************************************************************)
(* Proofs about BonitoCollector: whatever fails and however a snapshot is  *)
(* interrupted, the gauges and the spans of an instance are those of one   *)
(* complete snapshot, or, while it is exported, of it and the one before.  *)
(***************************************************************************)
EXTENDS BonitoCollector, FiniteSetTheorems, TLAPS

-----------------------------------------------------------------------------
(* Types.                                                                  *)

LEMMA CurrentType ==
  ASSUME NEW n \in 1 .. Len(Order)
  PROVE  Order[n] \in Instance
BY OrderAssumption

LEMMA CountType ==
  ASSUME NEW n
  PROVE  Count(n) \in Nat
<1>1. IsFiniteSet({s \in State : n[s] = 1})
  BY StateAssumption, FS_Subset
<1> QED BY <1>1, FS_CardinalityType DEF Count

LEMMA InitTypes == Init => TypeOK
<1>1. Len(Order) \in Nat /\ Len(Order) >= 1
  BY OrderAssumption
<1> QED BY <1>1 DEF Init, TypeOK, Phase, Collected, Export, Nothing, Snapshot, Sessions, Gauges

\* The gauges of the other instances, and the other gauges of this one, stay.
Updates(g) ==
  /\ g \in Gauges
  /\ gauge' = [gauge EXCEPT ![current] = g]

LEMMA ExportEffect ==
  ASSUME TypeOK
  PROVE  /\ ExportQueries =>
              \E g : /\ Updates(g)
                     /\ g.hit = (IF got.hit = None THEN gauge[current].hit ELSE got.hit)
                     /\ g.active = gauge[current].active /\ g.by_state = gauge[current].by_state
                     /\ g.idle = gauge[current].idle
         /\ ExportActive =>
              \E g : /\ Updates(g)
                     /\ g.active = Count(got.sessions)
                     /\ g.hit = gauge[current].hit /\ g.by_state = gauge[current].by_state
                     /\ g.idle = gauge[current].idle
         /\ ExportStates =>
              \E g : /\ Updates(g)
                     /\ \A t \in State :
                          g.by_state[t] = (IF got.sessions[t] = 0 THEN gauge[current].by_state[t] ELSE 1)
                     /\ g.hit = gauge[current].hit /\ g.active = gauge[current].active
                     /\ g.idle = gauge[current].idle
         /\ ExportIdle =>
              \E g : /\ Updates(g)
                     /\ g.idle = got.sessions[IdleInTx]
                     /\ g.hit = gauge[current].hit /\ g.active = gauge[current].active
                     /\ g.by_state = gauge[current].by_state
<1> DEFINE old == gauge[current]
<1>0. current \in Instance /\ gauge \in [Instance -> Gauges] /\ old \in Gauges
  BY CurrentType DEF TypeOK, current
<1>1. got.sessions \in [State -> {0, 1}] /\ got.hit \in Ratio \cup {None}
  BY DEF TypeOK, Snapshot, Sessions
<1> HIDE DEF old
<1>2. ASSUME ExportQueries
      PROVE  \E g : /\ Updates(g)
                    /\ g.hit = (IF got.hit = None THEN old.hit ELSE got.hit)
                    /\ g.active = old.active /\ g.by_state = old.by_state /\ g.idle = old.idle
  <2> DEFINE v == IF got.hit = None THEN old.hit ELSE got.hit
             g == [old EXCEPT !.hit = v]
  <2>1. gauge' = [gauge EXCEPT ![current] = g]
    BY <1>2 DEF ExportQueries, old
  <2>2. v \in Ratio \cup {None}
    BY <1>0, <1>1 DEF Gauges
  <2>3. /\ g \in Gauges /\ g.hit = v
        /\ g.active = old.active /\ g.by_state = old.by_state /\ g.idle = old.idle
    <3> HIDE DEF v
    <3> QED BY <1>0, <2>2 DEF Gauges
  <2> QED BY <2>1, <2>3 DEF Updates
<1>3. ASSUME ExportActive
      PROVE  \E g : /\ Updates(g)
                    /\ g.active = Count(got.sessions)
                    /\ g.hit = old.hit /\ g.by_state = old.by_state /\ g.idle = old.idle
  <2> DEFINE v == Count(got.sessions)
             g == [old EXCEPT !.active = v]
  <2>1. gauge' = [gauge EXCEPT ![current] = g]
    BY <1>3 DEF ExportActive, old
  <2>2. v \in Nat
    BY CountType
  <2>3. /\ g \in Gauges /\ g.active = v
        /\ g.hit = old.hit /\ g.by_state = old.by_state /\ g.idle = old.idle
    <3> HIDE DEF v
    <3> QED BY <1>0, <2>2 DEF Gauges
  <2> QED BY <2>1, <2>3 DEF Updates
<1>4. ASSUME ExportStates
      PROVE  \E g : /\ Updates(g)
                    /\ \A t \in State :
                         g.by_state[t] = (IF got.sessions[t] = 0 THEN old.by_state[t] ELSE 1)
                    /\ g.hit = old.hit /\ g.active = old.active /\ g.idle = old.idle
  <2> DEFINE v == [s \in State |-> IF got.sessions[s] > 0 THEN got.sessions[s] ELSE old.by_state[s]]
             g == [old EXCEPT !.by_state = v]
  <2>1. gauge' = [gauge EXCEPT ![current] = g]
    BY <1>4 DEF ExportStates, old
  <2>2. /\ v \in [State -> {1, None}]
        /\ \A t \in State : v[t] = IF got.sessions[t] = 0 THEN old.by_state[t] ELSE 1
    BY <1>0, <1>1 DEF Gauges
  <2>3. /\ g \in Gauges /\ g.by_state = v
        /\ g.hit = old.hit /\ g.active = old.active /\ g.idle = old.idle
    <3> HIDE DEF v
    <3> QED BY <1>0, <2>2 DEF Gauges
  <2> QED BY <2>1, <2>2, <2>3 DEF Updates
<1>5. ASSUME ExportIdle
      PROVE  \E g : /\ Updates(g)
                    /\ g.idle = got.sessions[IdleInTx]
                    /\ g.hit = old.hit /\ g.active = old.active /\ g.by_state = old.by_state
  <2> DEFINE v == got.sessions[IdleInTx]
             g == [old EXCEPT !.idle = v]
  <2>1. gauge' = [gauge EXCEPT ![current] = g]
    BY <1>5 DEF ExportIdle, old
  <2>2. v \in {0, 1}
    BY <1>1, StateAssumption
  <2>3. /\ g \in Gauges /\ g.idle = v
        /\ g.hit = old.hit /\ g.active = old.active /\ g.by_state = old.by_state
    <3> HIDE DEF v
    <3> QED BY <1>0, <2>2 DEF Gauges
  <2> QED BY <2>1, <2>3 DEF Updates
<1> QED BY <1>2, <1>3, <1>4, <1>5 DEF old

LEMMA TypeStep ==
  ASSUME TypeOK, [Next]_vars
  PROVE  TypeOK'
<1> USE DEF Phase, Collected, Export
<1>0. current \in Instance /\ Nothing \in Snapshot /\ Len(Order) \in Nat /\ Len(Order) >= 1
  BY CurrentType, OrderAssumption DEF TypeOK, current, Nothing, Snapshot, Sessions
<1>1. CASE HasExtension \/ CollectLocks \/ CollectTableStats \/ QueryFails \/ Sleep
  BY <1>1 DEF HasExtension, CollectLocks, CollectTableStats, QueryFails, Sleep, TypeOK
<1>2. CASE CollectTopQueries
  BY <1>2 DEF CollectTopQueries, TypeOK, Snapshot
<1>3. CASE CollectSessions
  BY <1>3 DEF CollectSessions, TypeOK, Snapshot
<1>4. CASE ExportQueries \/ ExportActive \/ ExportStates \/ ExportIdle
  <2>1. PICK g : Updates(g)
    BY <1>4, ExportEffect
  <2>2. gauge' \in [Instance -> Gauges]
    BY <2>1 DEF Updates, TypeOK
  <2> QED BY <1>4, <2>2 DEF ExportQueries, ExportActive, ExportStates, ExportIdle, TypeOK
<1>7. CASE EmitSpans
  BY <1>0, <1>7 DEF EmitSpans, TypeOK
<1>8. CASE Push
  BY <1>0, <1>8 DEF Push, Advance, TypeOK
<1>9. CASE Failed
  BY <1>0, <1>9 DEF Failed, TypeOK
<1>10. CASE (\E i \in Instance : Change(i)) \/ UNCHANGED vars
  BY <1>10 DEF Change, vars, TypeOK
<1> QED BY <1>1, <1>2, <1>3, <1>4, <1>7, <1>8, <1>9, <1>10 DEF Next, Loop

\* Every variable keeps a value of the program's kind; in particular the loop never leaves the
\* list of instances, and an exported count is a number.
THEOREM CollectorTypes == Spec => []TypeOK
BY InitTypes, TypeStep, PTL DEF Spec

-----------------------------------------------------------------------------
(* The gauges.                                                             *)

Before(i) == IF last[i] = None THEN Unset ELSE Sets(last[i])

\* Which snapshot a gauge of an instance shows, if the phases are those after it was set.
Source(i, phases) == IF i = current /\ pc \in phases THEN Sets(got) ELSE Before(i)

Exporting == {"export_active", "export_states", "export_idle", "spans"}

\* The gauges are set in an order: those that come first already show the snapshot at hand.
HitShown(i) ==
  gauge[i].hit \in Source(i, Exporting).hit
ActiveShown(i) == gauge[i].active \in Source(i, {"export_states", "export_idle", "spans"}).active
StatesShown(i) ==
  \A t \in State : gauge[i].by_state[t] \in Source(i, {"export_idle", "spans"}).by_state[t]
IdleShown(i) == gauge[i].idle \in Source(i, {"spans"}).idle
SpansShown(i) == spans[i] = IF Tracing THEN last[i] ELSE None

Exported ==
  \A i \in Instance : HitShown(i) /\ ActiveShown(i) /\ StatesShown(i) /\ IdleShown(i) /\ SpansShown(i)

LEMMA InitExported == Init => Exported
<1> SUFFICES ASSUME Init, NEW i \in Instance
             PROVE  HitShown(i) /\ ActiveShown(i) /\ StatesShown(i) /\ IdleShown(i) /\ SpansShown(i)
  BY DEF Exported
<1>1. pc \notin Exporting /\ last[i] = None /\ spans[i] = None
  BY DEF Init, Exporting
<1>2. \A S \in SUBSET Exporting : Source(i, S) = Unset
  BY <1>1 DEF Source, Before
<1>3. /\ gauge[i].active = None /\ gauge[i].idle = None /\ gauge[i].hit = None
      /\ \A t \in State : gauge[i].by_state[t] = None
  BY DEF Init
<1> QED BY <1>1, <1>2, <1>3
        DEF HitShown, ActiveShown, StatesShown, IdleShown, SpansShown, Unset, Exporting

\* While nothing is being exported, no gauge shows what is collected.
LEMMA QuietStep ==
  ASSUME Exported, UNCHANGED <<gauge, spans, last>>,
         pc \notin Exporting, pc' \notin Exporting
  PROVE  Exported'
<1>1. \A i : Before(i)' = Before(i)
  BY DEF Before
<1>2. \A S \in SUBSET Exporting : \A i : Source(i, S)' = Source(i, S)
  BY <1>1 DEF Source
<1> QED BY <1>2 DEF Exported, HitShown, ActiveShown, StatesShown, IdleShown, SpansShown, Exporting

LEMMA ExportedStep ==
  ASSUME TypeOK, Exported, [Next]_vars
  PROVE  Exported'
<1> USE DEF Exported, HitShown, ActiveShown, StatesShown, IdleShown, SpansShown, Source, Before, Exporting
<1>0. current \in Instance
  BY CurrentType DEF TypeOK, current
<1>1. CASE HasExtension \/ CollectTopQueries \/ CollectLocks \/ CollectSessions
  BY <1>1, QuietStep DEF HasExtension, CollectTopQueries, CollectLocks, CollectSessions, Answers,
     Exporting
<1>2. CASE CollectTableStats \/ QueryFails \/ Failed \/ Sleep
  BY <1>2, QuietStep DEF CollectTableStats, QueryFails, Failed, Sleep, Answers, Exporting, Collected
<1>3. ASSUME pc \in Export, UNCHANGED <<at, got, spans, last>>, NEW g, Updates(g)
      PROVE  /\ gauge'[current] = g /\ current' = current
             /\ \A i \in Instance \ {current} :
                  HitShown(i)' /\ ActiveShown(i)' /\ StatesShown(i)' /\ IdleShown(i)'
             /\ \A i \in Instance : SpansShown(i)'
  BY <1>0, <1>3 DEF Updates, TypeOK, current
<1>a. /\ gauge[current] \in Gauges /\ got.hit \in Ratio \cup {None}
      /\ got.sessions \in [State -> {0, 1}]
      /\ \A t \in State : gauge[current].by_state[t] \in {1, None}
      /\ gauge[current].hit \in Ratio \cup {None}
  BY <1>0 DEF TypeOK, Gauges, Snapshot, Sessions
<1>b. /\ Sets(got).active = {Count(got.sessions)} /\ Sets(got).idle = {got.sessions[IdleInTx]}
      /\ Sets(got).hit = IF got.hit = None THEN Ratio \cup {None} ELSE {got.hit}
      /\ \A t \in State : Sets(got).by_state[t] = IF got.sessions[t] = 0 THEN {1, None} ELSE {1}
  BY DEF Sets
<1>4. CASE ExportQueries
  <2>1. UNCHANGED <<at, got, spans, last>> /\ pc = "export_queries" /\ pc' = "export_active"
    BY <1>4 DEF ExportQueries
  <2>2. pc \in Export
    BY <2>1 DEF Export
  <2>3. PICK g : /\ Updates(g)
                 /\ g.hit = (IF got.hit = None THEN gauge[current].hit ELSE got.hit)
                 /\ g.active = gauge[current].active /\ g.by_state = gauge[current].by_state
                 /\ g.idle = gauge[current].idle
    BY <1>4, ExportEffect
  <2>4. gauge'[current] = g /\ current' = current
    BY <1>3, <2>1, <2>2, <2>3
  <2>5. HitShown(current) /\ ActiveShown(current) /\ StatesShown(current) /\ IdleShown(current)
    BY <1>0
  <2>6. HitShown(current)' /\ ActiveShown(current)' /\ StatesShown(current)' /\ IdleShown(current)'
    BY <1>a, <1>b, <2>1, <2>3, <2>4, <2>5
  <2> QED BY <1>3, <2>1, <2>2, <2>3, <2>6
<1>5. CASE ExportActive
  <2>1. UNCHANGED <<at, got, spans, last>> /\ pc = "export_active" /\ pc' = "export_states"
    BY <1>5 DEF ExportActive
  <2>2. pc \in Export
    BY <2>1 DEF Export
  <2>3. PICK g : /\ Updates(g)
                 /\ g.active = Count(got.sessions)
                 /\ g.hit = gauge[current].hit /\ g.by_state = gauge[current].by_state
                 /\ g.idle = gauge[current].idle
    BY <1>5, ExportEffect
  <2>4. gauge'[current] = g /\ current' = current
    BY <1>3, <2>1, <2>2, <2>3
  <2>5. HitShown(current) /\ ActiveShown(current) /\ StatesShown(current) /\ IdleShown(current)
    BY <1>0
  <2>6. HitShown(current)' /\ ActiveShown(current)' /\ StatesShown(current)' /\ IdleShown(current)'
    BY <1>a, <1>b, <2>1, <2>3, <2>4, <2>5
  <2> QED BY <1>3, <2>1, <2>2, <2>3, <2>6
<1>6. CASE ExportStates
  <2>1. UNCHANGED <<at, got, spans, last>> /\ pc = "export_states" /\ pc' = "export_idle"
    BY <1>6 DEF ExportStates
  <2>2. pc \in Export
    BY <2>1 DEF Export
  <2>3. PICK g : /\ Updates(g)
                 /\ \A t \in State :
                      g.by_state[t] = (IF got.sessions[t] = 0 THEN gauge[current].by_state[t] ELSE 1)
                 /\ g.hit = gauge[current].hit /\ g.active = gauge[current].active
                 /\ g.idle = gauge[current].idle
    BY <1>6, ExportEffect
  <2>4. gauge'[current] = g /\ current' = current
    BY <1>3, <2>1, <2>2, <2>3
  <2>5. HitShown(current) /\ ActiveShown(current) /\ StatesShown(current) /\ IdleShown(current)
    BY <1>0
  <2>6. HitShown(current)' /\ ActiveShown(current)' /\ StatesShown(current)' /\ IdleShown(current)'
    BY <1>a, <1>b, <2>1, <2>3, <2>4, <2>5
  <2> QED BY <1>3, <2>1, <2>2, <2>3, <2>6
<1>10. CASE ExportIdle
  <2>1. UNCHANGED <<at, got, spans, last>> /\ pc = "export_idle" /\ pc' = "spans"
    BY <1>10 DEF ExportIdle
  <2>2. pc \in Export
    BY <2>1 DEF Export
  <2>3. PICK g : /\ Updates(g)
                 /\ g.idle = got.sessions[IdleInTx]
                 /\ g.hit = gauge[current].hit /\ g.active = gauge[current].active
                 /\ g.by_state = gauge[current].by_state
    BY <1>10, ExportEffect
  <2>4. gauge'[current] = g /\ current' = current
    BY <1>3, <2>1, <2>2, <2>3
  <2>5. HitShown(current) /\ ActiveShown(current) /\ StatesShown(current) /\ IdleShown(current)
    BY <1>0
  <2>6. HitShown(current)' /\ ActiveShown(current)' /\ StatesShown(current)' /\ IdleShown(current)'
    BY <1>a, <1>b, <2>1, <2>3, <2>4, <2>5
  <2> QED BY <1>3, <2>1, <2>2, <2>3, <2>6
<1>7. CASE EmitSpans
  BY <1>0, <1>7, NoneAssumption DEF EmitSpans, TypeOK, current
<1>8. CASE Push
  BY <1>8, QuietStep DEF Push, Advance, Exporting
<1>9. CASE (\E i \in Instance : Change(i)) \/ UNCHANGED vars
  BY <1>9 DEF Change, vars, current
<1> QED BY <1>1, <1>2, <1>3, <1>4, <1>5, <1>6, <1>7, <1>8, <1>9, <1>10 DEF Next, Loop

\* Whenever Prometheus reads them, the gauges of an instance are those of its last complete
\* snapshot, or, while the next one is exported, of one of the two; and so are the spans
\* (run_instance collects everything before export_prometheus).
THEOREM GaugesShown == Spec => []GaugesOfLastSnapshot
<1>1. Exported => GaugesOfLastSnapshot
  BY DEF Exported, HitShown, ActiveShown, StatesShown, IdleShown, SpansShown, Source, Before,
     Exporting, GaugesOfLastSnapshot, Agree, Export
<1> QED BY <1>1, InitExported, ExportedStep, CollectorTypes, PTL DEF Spec
=============================================================================
