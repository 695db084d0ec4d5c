------------------------ MODULE BonitoAnomaly_proofs ------------------------
(***************************************************************************)
(* Proofs about BonitoAnomaly: what the arithmetic of baselines() and      *)
(* _anomaly() computes from any list of samples, and what therefore always *)
(* holds of the verdicts.                                                  *)
(***************************************************************************)
EXTENDS BonitoAnomaly, NaturalLemmas, SequenceTheorems

-----------------------------------------------------------------------------
(* Sums.                                                                   *)

\* The sums of the first rows of a list.
SumsOf(g, vals, n) == g = [k \in 0 .. n |-> IF k = 0 THEN 0 ELSE g[k - 1] + vals[k]]

LEMMA SumsExist ==
  ASSUME NEW vals, NEW n \in Nat
  PROVE  \E g : SumsOf(g, vals, n)
<1> DEFINE S == {m \in Nat : \E g : SumsOf(g, vals, m)}
<1>1. 0 \in S
  <2>1. SumsOf([k \in 0 .. 0 |-> 0], vals, 0)
    BY DEF SumsOf
  <2> QED BY <2>1
<1>2. ASSUME NEW m \in 0 .. (n - 1), m \in S PROVE m + 1 \in S
  <2>1. PICK g : SumsOf(g, vals, m)
    BY <1>2
  <2> DEFINE h == [k \in 0 .. (m + 1) |-> IF k = m + 1 THEN g[m] + vals[m + 1] ELSE g[k]]
  <2>2. \A k \in 0 .. (m + 1) : h[k] = IF k = 0 THEN 0 ELSE h[k - 1] + vals[k]
    BY <2>1 DEF SumsOf
  <2>3. h = [k \in 0 .. (m + 1) |-> IF k = 0 THEN 0 ELSE h[k - 1] + vals[k]]
    <3>1. h = [k \in 0 .. (m + 1) |-> h[k]]
      OBVIOUS
    <3> HIDE DEF h
    <3> QED BY <2>2, <3>1
  <2>4. SumsOf(h, vals, m + 1) /\ m + 1 \in Nat
    BY <2>3 DEF SumsOf
  <2> HIDE DEF h
  <2> QED BY <2>4
<1>3. n \in S
  <2> HIDE DEF S
  <2> QED BY <1>1, <1>2, UpTo
<1> QED BY <1>3

LEMMA TotalIsSum ==
  ASSUME NEW vals, Len(vals) \in Nat
  PROVE  \E g : SumsOf(g, vals, Len(vals)) /\ Total(vals) = g[Len(vals)]
<1>1. \E g : SumsOf(g, vals, Len(vals))
  BY SumsExist
<1> DEFINE sum[n \in 0 .. Len(vals)] == IF n = 0 THEN 0 ELSE sum[n - 1] + vals[n]
<1>2. Total(vals) = sum[Len(vals)]
  BY DEF Total
<1>3. SumsOf(sum, vals, Len(vals))
  BY <1>1 DEF SumsOf
<1> QED BY <1>2, <1>3

\* A sum of naturals is one, and lies between as many times the bounds of its terms.
LEMMA TotalBounds ==
  ASSUME NEW vals \in Seq(Nat), NEW lo \in Nat, NEW hi \in Nat,
         \A i \in DOMAIN vals : lo <= vals[i] /\ vals[i] <= hi
  PROVE  /\ Total(vals) \in Nat
         /\ Len(vals) * lo <= Total(vals) /\ Total(vals) <= Len(vals) * hi
<1> DEFINE n == Len(vals)
<1>0. n \in Nat /\ DOMAIN vals = 1 .. n
  OBVIOUS
<1>1. PICK g : SumsOf(g, vals, n) /\ Total(vals) = g[n]
  BY <1>0, TotalIsSum
<1> DEFINE S == {k \in 0 .. n : g[k] \in Nat /\ k * lo <= g[k] /\ g[k] <= k * hi}
<1>2. 0 \in S
  BY <1>0, <1>1 DEF SumsOf
<1>3. ASSUME NEW k \in 0 .. (n - 1), k \in S PROVE k + 1 \in S
  <2>1. g[k + 1] = g[k] + vals[k + 1]
    BY <1>0, <1>1 DEF SumsOf
  <2>2. vals[k + 1] \in Nat /\ lo <= vals[k + 1] /\ vals[k + 1] <= hi
    BY <1>0
  <2>3. (k + 1) * lo = k * lo + lo /\ (k + 1) * hi = k * hi + hi
    OBVIOUS
  <2>4. k * lo \in Int /\ k * hi \in Int
    OBVIOUS
  <2> QED BY <1>0, <1>3, <2>1, <2>2, <2>3, <2>4
<1>4. n \in S
  <2> HIDE DEF S, n
  <2>1. \A k \in 0 .. n : k \in S
    BY <1>0, <1>2, <1>3, UpTo
  <2> QED BY <1>0, <2>1
<1> QED BY <1>0, <1>1, <1>4

\* Rounding a quotient gives a natural number, at most a half above the quotient.
LEMMA RoundedIs ==
  ASSUME NEW x \in Nat, NEW d \in Nat \ {0}
  PROVE  /\ Rounded(x, d) # {} /\ Rounded(x, d) \subseteq Nat
         /\ \A k \in Rounded(x, d) : 2 * (k * d) <= 2 * x + d
<1> DEFINE q == x \div d
<1>1. q \in Nat /\ q * d <= x /\ x < (q + 1) * d
  OBVIOUS
<1> HIDE DEF q
<1>2. (q + 1) * d = q * d + d /\ q * d \in Int
  BY <1>1
<1>3. Rounded(x, d) = {k \in {q, q + 1} : 2 * (x - k * d) <= d /\ 2 * (k * d - x) <= d}
  BY DEF Rounded, q
<1>4. q \in Rounded(x, d) \/ q + 1 \in Rounded(x, d)
  BY <1>1, <1>2, <1>3
<1>5. Rounded(x, d) \subseteq Nat
  BY <1>1, <1>3
<1>6. ASSUME NEW k \in Rounded(x, d) PROVE 2 * (k * d) <= 2 * x + d
  <2>1. k \in Nat /\ k * d \in Int /\ 2 * (k * d - x) <= d
    BY <1>3, <1>5
  <2> QED BY <2>1
<1> QED BY <1>4, <1>5, <1>6

-----------------------------------------------------------------------------
(* Percentiles.                                                            *)

ValuesOf(vals) == {vals[i] : i \in DOMAIN vals}
Below(vals, v) == {i \in DOMAIN vals : vals[i] < v}
AtMost(vals, v) == {i \in DOMAIN vals : vals[i] <= v}

LEMMA CountTypes ==
  ASSUME NEW vals \in Seq(Nat), NEW v \in Nat
  PROVE  /\ Cardinality(Below(vals, v)) \in Nat /\ Cardinality(AtMost(vals, v)) \in Nat
         /\ \A u \in Nat : u < v =>
              Cardinality(AtMost(vals, u)) <= Cardinality(Below(vals, v))
<1>0. Len(vals) \in Nat /\ DOMAIN vals = 1 .. Len(vals) /\ \A i \in DOMAIN vals : vals[i] \in Nat
  OBVIOUS
<1>1. Below(vals, v) \subseteq 1 .. Len(vals) /\ AtMost(vals, v) \subseteq 1 .. Len(vals)
  BY <1>0 DEF Below, AtMost
<1>2. ASSUME NEW u \in Nat, u < v PROVE AtMost(vals, u) \subseteq Below(vals, v)
  BY <1>0, <1>2 DEF Below, AtMost
<1> QED BY <1>0, <1>1, <1>2, CountMonotone

\* A sorted list has an element at every position: one that at most p elements are below, and
\* more than p are not above.
LEMMA SortedAtIs ==
  ASSUME NEW vals \in Seq(Nat), NEW p \in Nat, p < Len(vals)
  PROVE  /\ SortedAt(vals, p) \in ValuesOf(vals)
         /\ Cardinality(Below(vals, SortedAt(vals, p))) <= p
         /\ Cardinality(AtMost(vals, SortedAt(vals, p))) > p
<1> DEFINE V == ValuesOf(vals)
           n == Len(vals)
           T == {v \in V : Cardinality(AtMost(vals, v)) > p}
<1>0. n \in Nat /\ DOMAIN vals = 1 .. n /\ \A i \in DOMAIN vals : vals[i] \in Nat /\ vals[i] \in V
  BY DEF ValuesOf
<1>1. V \in SUBSET Nat /\ \E b \in Nat : \A v \in V : v <= b
  <2>1. PICK b \in Nat : \A i \in DOMAIN vals : vals[i] <= b
    BY ListBounded
  <2>2. \A v \in V : \E i \in DOMAIN vals : v = vals[i]
    BY DEF ValuesOf
  <2> HIDE DEF V
  <2> QED BY <1>0, <2>1, <2>2
<1> HIDE DEF V
<1>2. ASSUME NEW U \in SUBSET V, U # {} PROVE \E x \in U : \A y \in U : y <= x
  BY <1>1, <1>2, GreatestNumber
<1>3. T # {}
  <2>1. V # {}
    BY <1>0
  <2>2. PICK x \in V : \A y \in V : y <= x
    BY <1>2, <2>1
  <2>3. AtMost(vals, x) = 1 .. n
    BY <1>0, <2>2 DEF AtMost
  <2>4. Cardinality(AtMost(vals, x)) = n
    BY <1>0, <2>3, CountMonotone
  <2> QED BY <2>4
<1>4. PICK v \in T : \A y \in T : v <= y
  <2>1. T \in SUBSET Nat
    BY <1>1
  <2> HIDE DEF T
  <2> QED BY <1>3, <2>1, LeastNumber
<1>5. Cardinality(Below(vals, v)) <= p
  <2> DEFINE U == {u \in V : u < v}
  <2>1. CASE U = {}
    <3>1. Below(vals, v) = {}
      BY <1>0, <2>1 DEF Below
    <3> QED BY <3>1, FS_EmptySet
  <2>2. CASE U # {}
    <3>1. PICK x \in U : \A y \in U : y <= x
      BY <1>2, <2>2
    <3>2. x \in V /\ x < v /\ x \in Nat /\ v \in Nat
      BY <1>1, <3>1
    <3>3. AtMost(vals, x) = Below(vals, v)
      BY <1>0, <3>1, <3>2 DEF AtMost, Below
    <3>4. x \notin T
      BY <1>4, <3>2
    <3>5. Cardinality(AtMost(vals, x)) \in Nat
      BY <3>2, CountTypes
    <3> QED BY <3>2, <3>3, <3>4, <3>5
  <2> QED BY <2>1, <2>2
<1> QED BY <1>4, <1>5 DEF SortedAt, ValuesOf, Below, AtMost, V

\* The sample whose rounding is p95_ms is the largest that at most 95% of the others are below.
LEMMA P95IsLargest ==
  ASSUME NEW vals \in Seq(Nat), vals # << >>
  PROVE  LET low == {v \in ValuesOf(vals) : 100 * Cardinality(Below(vals, v)) <= 95 * (Len(vals) - 1)}
             w == SortedAt(vals, (95 * (Len(vals) - 1)) \div 100)
         IN  w \in ValuesOf(vals) /\ w = Max(low)
<1> DEFINE n == Len(vals)
           p == (95 * (n - 1)) \div 100
           low == {v \in ValuesOf(vals) : 100 * Cardinality(Below(vals, v)) <= 95 * (n - 1)}
           w == SortedAt(vals, p)
<1>0. n \in Nat /\ n >= 1 /\ ValuesOf(vals) \subseteq Nat
  BY DEF ValuesOf
<1>1. p \in Nat /\ p < n /\ \A c \in Nat : 100 * c <= 95 * (n - 1) <=> c <= p
  BY <1>0
<1>2. w \in ValuesOf(vals) /\ Cardinality(Below(vals, w)) <= p /\ Cardinality(AtMost(vals, w)) > p
  BY <1>1, SortedAtIs
<1> HIDE DEF w, p
<1>4. w \in low
  BY <1>0, <1>1, <1>2, CountTypes
<1>5. ASSUME NEW v \in low PROVE v <= w
  <2>1. v \in Nat /\ w \in Nat
    BY <1>0, <1>2
  <2>2. Cardinality(Below(vals, v)) \in Nat /\ Cardinality(Below(vals, v)) <= p
    BY <1>1, <2>1, CountTypes
  <2>3. ASSUME w < v PROVE FALSE
    <3>1. Cardinality(AtMost(vals, w)) <= Cardinality(Below(vals, v))
      BY <2>1, <2>3, CountTypes
    <3>2. Cardinality(AtMost(vals, w)) \in Nat
      BY <2>1, CountTypes
    <3> QED BY <1>1, <1>2, <2>2, <3>1, <3>2
  <2> QED BY <2>1, <2>3
<1>6. low \subseteq Nat
  BY <1>0
<1>7. Max(low) = w
  <2> HIDE DEF low
  <2>1. \A x \in low : (\A y \in low : x >= y) => x = w
    BY <1>4, <1>5, <1>6
  <2>2. \A y \in low : w >= y
    BY <1>4, <1>5, <1>6
  <2> QED BY <1>4, <2>1, <2>2 DEF Max
<1> QED BY <1>2, <1>7 DEF w, p

-----------------------------------------------------------------------------
(* Baselines.                                                              *)

\* A mean over n values is at most a half hundredth above the greatest of them.
LEMMA MeanIsBelow ==
  ASSUME NEW n \in Nat \ {0}, NEW t \in Nat, NEW hi \in Nat, NEW h \in Nat, NEW m \in Nat,
         t <= n * hi, 2 * (m * (n * h)) <= 2 * t + n * h
  PROVE  2 * (m * h) <= 2 * hi + h
<1> DEFINE y == 2 * hi + h
           x == 2 * (m * h)
<1>1. x \in Nat /\ y \in Nat
  OBVIOUS
<1>2. n * x = 2 * (m * (n * h)) /\ n * y = 2 * (n * hi) + n * h
  OBVIOUS
<1>3. n * x <= n * y
  <2>1. n * hi \in Int /\ n * h \in Int /\ m * (n * h) \in Int
    OBVIOUS
  <2> QED BY <1>2, <2>1
<1> HIDE DEF x, y
<1>4. ASSUME x > y PROVE FALSE
  <2>1. n * x >= n * (y + 1)
    BY <1>1, <1>4
  <2>2. n * (y + 1) = n * y + n /\ n * y \in Int /\ n * x \in Int
    BY <1>1
  <2> QED BY <1>3, <2>1, <2>2
<1> QED BY <1>1, <1>4 DEF x, y

\* What baselines() computes of a list that is not empty: a mean and a percentile, each at most
\* a half hundredth above some sample.
LEMMA BaselineOf ==
  ASSUME NEW vals \in Seq(Nat), vals # << >>
  PROVE  /\ Means(vals) # {} /\ Means(vals) \subseteq Nat
         /\ P95s(vals) # {} /\ P95s(vals) \subseteq Nat
         /\ ValuesOf(vals) \subseteq Nat
         /\ \E v \in ValuesOf(vals) : \A m \in Means(vals) : 2 * (m * Hundredth) <= 2 * v + Hundredth
         /\ \E v \in ValuesOf(vals) : \A p \in P95s(vals) : 2 * (p * Hundredth) <= 2 * v + Hundredth
<1> DEFINE V == ValuesOf(vals)
           n == Len(vals)
<1>0. n \in Nat \ {0} /\ DOMAIN vals = 1 .. n /\ \A i \in DOMAIN vals : vals[i] \in Nat /\ vals[i] \in V
  BY DEF ValuesOf
<1>1. V \in SUBSET Nat /\ V # {} /\ Hundredth \in Nat \ {0}
  BY <1>0, DurationAssumption DEF ValuesOf
<1>2. PICK b \in Nat : \A v \in V : v <= b
  <2>1. PICK b \in Nat : \A i \in DOMAIN vals : vals[i] <= b
    BY ListBounded
  <2> QED BY <2>1 DEF ValuesOf
<1>3. PICK hi \in V : \A v \in V : v <= hi
  <2> HIDE DEF V
  <2> QED BY <1>1, <1>2, GreatestNumber
<1>4. Total(vals) \in Nat /\ Total(vals) <= n * hi
  <2>1. \A i \in DOMAIN vals : 0 <= vals[i] /\ vals[i] <= hi
    BY <1>0, <1>3
  <2>2. hi \in Nat
    BY <1>1, <1>3
  <2> QED BY <2>1, <2>2, TotalBounds
<1>5. n * Hundredth \in Nat \ {0}
  <2>1. \A i, j \in Nat \ {0} : i * j \in Nat \ {0}
    OBVIOUS
  <2> QED BY <1>0, <1>1, <2>1
<1>6. /\ Means(vals) # {} /\ Means(vals) \subseteq Nat
      /\ \A m \in Means(vals) : 2 * (m * (n * Hundredth)) <= 2 * Total(vals) + n * Hundredth
  BY <1>4, <1>5, RoundedIs DEF Means
<1>7. ASSUME NEW m \in Means(vals) PROVE 2 * (m * Hundredth) <= 2 * hi + Hundredth
  BY <1>0, <1>1, <1>3, <1>4, <1>6, MeanIsBelow
<1>8. \E w \in V : P95s(vals) = Rounded(w, Hundredth)
  BY P95IsLargest DEF P95s
<1>9. PICK w \in V : P95s(vals) = Rounded(w, Hundredth)
  BY <1>8
<1>10. /\ P95s(vals) # {} /\ P95s(vals) \subseteq Nat
       /\ \A p \in P95s(vals) : 2 * (p * Hundredth) <= 2 * w + Hundredth
  <2>1. w \in Nat
    BY <1>1, <1>9
  <2> QED BY <1>1, <1>9, <2>1, RoundedIs
<1> HIDE DEF V
<1> QED BY <1>1, <1>6, <1>7, <1>10, <1>3, <1>9 DEF V

-----------------------------------------------------------------------------
(* Types.                                                                  *)

\* A thread that is about to read a current average has a query to read it of.
Judging == \A w \in Scraper : scrape[w].pc = "current" => scrape[w].f \in Fingerprint

Typed == TypeOK /\ Judging

Activity == [pc : {"idle", "judge", "current"}, todo : SUBSET Fingerprint,
             f : Fingerprint \cup {NoSeries}, mean : Nat, p95 : Nat, verdicts : SUBSET Verdict]

LEMMA SamplesAreNumbers ==
  ASSUME TypeOK, NEW f \in Fingerprint
  PROVE  samples[f] \in Seq(Nat)
<1>1. samples[f] \in UNION {[1 .. n -> Duration] : n \in Nat}
  BY SeqDef DEF TypeOK
<1>2. samples[f] \in UNION {[1 .. n -> Nat] : n \in Nat}
  BY <1>1, DurationAssumption
<1> QED BY <1>2, SeqDef

LEMMA TypedInit == Init => Typed
BY BoundAssumption DEF Init, Typed, TypeOK, Judging, Quiet, Verdict

LEMMA TypedTables ==
  ASSUME Typed, NEW f \in Fingerprint,
         AgeOut(f) \/ \E ms \in Duration \cup {NoMean} : Ingest(f, ms)
  PROVE  Typed'
<1>1. CASE AgeOut(f)
  <2>1. Tail(samples[f]) \in Seq(Duration) /\ Len(Tail(samples[f])) <= Len(samples[f])
        /\ Len(Tail(samples[f])) \in Nat /\ Len(samples[f]) \in Nat
    BY <1>1 DEF AgeOut, Typed, TypeOK
  <2>2. samples' \in [Fingerprint -> Seq(Duration)]
    BY <1>1, <2>1 DEF AgeOut, Typed, TypeOK
  <2>3. ASSUME NEW h \in Fingerprint PROVE Len(samples'[h]) <= MaxSamples
    BY <1>1, <2>1, BoundAssumption DEF AgeOut, Typed, TypeOK
  <2> QED BY <1>1, <2>2, <2>3 DEF AgeOut, Typed, TypeOK, Judging
<1>2. ASSUME NEW ms \in Duration \cup {NoMean}, Ingest(f, ms) PROVE Typed'
  <2>0. ms # NoMean => Append(samples[f], ms) \in Seq(Duration)
                       /\ Len(Append(samples[f], ms)) = Len(samples[f]) + 1
    BY <1>2 DEF Typed, TypeOK
  <2>1. samples' \in [Fingerprint -> Seq(Duration)]
    BY <1>2, <2>0 DEF Ingest, Typed, TypeOK
  <2>2. ASSUME NEW h \in Fingerprint PROVE Len(samples'[h]) <= MaxSamples
    <3>1. Len(samples[f]) \in Nat /\ Len(samples[f]) < MaxSamples
      BY <1>2 DEF Ingest, Typed, TypeOK
    <3> QED BY <1>2, <2>0, <3>1, BoundAssumption DEF Ingest, Typed, TypeOK
  <2>3. avg_ms' \in [Fingerprint -> Duration \cup {NoMean}]
        /\ ingested' \in [Fingerprint -> 0 .. MaxIngests]
    BY <1>2, BoundAssumption DEF Ingest, Typed, TypeOK
  <2> QED BY <1>2, <2>1, <2>2, <2>3 DEF Ingest, Typed, TypeOK, Judging
<1> QED BY <1>1, <1>2

LEMMA TypedScrape ==
  ASSUME Typed, NEW w \in Scraper, ScrapeStart(w) \/ Serve(w)
  PROVE  Typed'
<1> USE DEF Typed, TypeOK, Judging
<1>1. CASE ScrapeStart(w)
  BY <1>1 DEF ScrapeStart, Quiet, Listed, Verdict
<1>2. ASSUME NEW f \in Fingerprint, ReadBaseline(w, f) PROVE Typed'
  <2>1. PICK m \in Means(samples[f]), p \in P95s(samples[f]) :
          scrape' = [scrape EXCEPT ![w] =
            [scrape[w] EXCEPT !.pc = "current", !.todo = @ \ {f}, !.f = f, !.mean = m, !.p95 = p]]
    BY <1>2 DEF ReadBaseline
  <2>2. m \in Nat /\ p \in Nat
    BY <1>2, <2>1, SamplesAreNumbers, BaselineOf DEF ReadBaseline
  <2> DEFINE r == [scrape[w] EXCEPT !.pc = "current", !.todo = @ \ {f}, !.f = f, !.mean = m, !.p95 = p]
  <2>3. r \in Activity /\ r.pc = "current" /\ r.f = f
    BY <2>2 DEF Activity
  <2>4. scrape' = [scrape EXCEPT ![w] = r]
    BY <2>1
  <2> HIDE DEF r
  <2> QED BY <1>2, <2>3, <2>4 DEF ReadBaseline, Activity
<1>3. ASSUME NEW f \in Fingerprint, NoBaseline(w, f) PROVE Typed'
  BY <1>3 DEF NoBaseline
<1>4. CASE ReadCurrent(w)
  <2> DEFINE s == scrape[w]
             v == IF avg_ms[s.f] = NoMean THEN {}
                  ELSE {[f |-> s.f, flag |-> IF Regressed(avg_ms[s.f], s.mean, s.p95) THEN 1 ELSE 0]}
  <2>1. v \subseteq Verdict
    BY <1>4 DEF ReadCurrent, Verdict
  <2>2. scrape' = [scrape EXCEPT ![w] =
           [Quiet EXCEPT !.pc = "judge", !.todo = s.todo, !.verdicts = s.verdicts \cup v]]
    BY <1>4 DEF ReadCurrent
  <2> HIDE DEF v
  <2> DEFINE r == [Quiet EXCEPT !.pc = "judge", !.todo = s.todo, !.verdicts = s.verdicts \cup v]
  <2>3. r \in Activity /\ r.pc = "judge"
    BY <2>1 DEF Activity, Quiet
  <2> HIDE DEF r
  <2> QED BY <1>4, <2>2, <2>3 DEF ReadCurrent, Activity, r
<1>5. ASSUME NEW v \in scrape[w].verdicts, SetGauge(w, v) PROVE Typed'
  BY <1>5 DEF SetGauge, Verdict
<1>6. CASE ScrapeEnd(w)
  BY <1>6 DEF ScrapeEnd, Quiet
<1> QED BY <1>1, <1>2, <1>3, <1>4, <1>5, <1>6 DEF Serve

LEMMA TypedInductive == Typed /\ [Next]_vars => Typed'
<1> SUFFICES ASSUME Typed, [Next]_vars PROVE Typed'
  OBVIOUS
<1>1. CASE UNCHANGED vars
  BY <1>1 DEF vars, Typed, TypeOK, Judging
<1> QED BY <1>1, TypedTables, TypedScrape DEF Next

LEMMA AlwaysTyped == Spec => []Typed
BY TypedInit, TypedInductive, PTL DEF Spec

\* Every variable keeps its type; in particular a mean and a percentile are always found.
THEOREM EngineTypes == Spec => []TypeOK
<1>1. Typed => TypeOK
  BY DEF Typed
<1> QED BY <1>1, AlwaysTyped, PTL

-----------------------------------------------------------------------------
(* What holds of every baseline and every verdict.                         *)

\* p95_ms is the rounding of the largest sample that at most 95% of the others are below: the
\* position that baselines() computes is that of the percentile, for a list of any length.
THEOREM Percentile == Spec => []P95IsPercentile
<1>1. TypeOK => P95IsPercentile
  <2> SUFFICES ASSUME TypeOK, NEW f \in Fingerprint, samples[f] # << >>
               PROVE  P95s(samples[f]) = Rounded(Max({v \in Values(f) :
                        100 * Cardinality({i \in DOMAIN samples[f] : samples[f][i] < v})
                          <= 95 * (Len(samples[f]) - 1)}), Hundredth)
    BY DEF P95IsPercentile
  <2> QED BY SamplesAreNumbers, P95IsLargest DEF P95s, Values, ValuesOf, Below
<1> QED BY <1>1, EngineTypes, PTL

\* What follows of a sample's bound on the baseline, in units of Duration.
LEMMA BaselineBounds ==
  ASSUME TypeOK, NEW f \in Fingerprint, samples[f] # << >>,
         NEW m \in Means(samples[f]), NEW p \in P95s(samples[f])
  PROVE  /\ m \in Nat /\ p \in Nat /\ Hundredth \in Nat \ {0}
         /\ m * Hundredth \in Nat /\ p * Hundredth \in Nat
         /\ \E v \in Values(f) : v \in Nat /\ 2 * (m * Hundredth) <= 2 * v + Hundredth
         /\ \E v \in Values(f) : v \in Nat /\ 2 * (p * Hundredth) <= 2 * v + Hundredth
<1>1. samples[f] \in Seq(Nat) /\ Values(f) = ValuesOf(samples[f])
  BY SamplesAreNumbers DEF Values, ValuesOf
<1>2. m \in Nat /\ p \in Nat /\ Hundredth \in Nat \ {0}
  BY <1>1, BaselineOf, DurationAssumption
<1>3. m * Hundredth \in Nat /\ p * Hundredth \in Nat
  BY <1>2
<1> QED BY <1>1, <1>2, <1>3, BaselineOf

\* A current average more than 20% above every sample, rounding apart, is a regression: the mean
\* is at most a half hundredth above the greatest sample, and so regression_pct alone gives the
\* verdict.
THEOREM GrossRegression == Spec => []GrossRegressionFlagged
<1>1. TypeOK => GrossRegressionFlagged
  <2> SUFFICES ASSUME TypeOK, NEW f \in Fingerprint, NEW c \in Duration, samples[f] # << >>,
                      \A v \in Values(f) : 2 * 100 * (c - v) > pct_threshold * (2 * v) + (100 + pct_threshold) * Hundredth,
                      NEW m \in Means(samples[f]) \ {0}, NEW p \in P95s(samples[f])
               PROVE  Regressed(c, m, p)
    BY DEF GrossRegressionFlagged
  <2> DEFINE mean == m * Hundredth
  <2>1. PICK hi \in Values(f) : hi \in Nat /\ 2 * mean <= 2 * hi + Hundredth
    BY BaselineBounds
  <2>2. mean \in Nat /\ Hundredth \in Nat /\ c \in Nat /\ m # 0
    BY BaselineBounds, DurationAssumption
  <2>3. 200 * (c - hi) > 40 * hi + 120 * Hundredth
    BY <2>1, <2>2 DEF pct_threshold
  <2> HIDE DEF mean
  <2>4. 100 * (c - mean) > 20 * mean
    BY <2>1, <2>2, <2>3
  <2> QED BY <2>2, <2>4 DEF Regressed, PctHigh, Excess, pct_threshold, mean
<1> QED BY <1>1, EngineTypes, PTL

\* A query more than twice as slow as every sample, by 2 ms and more, is a regression for any
\* list of samples, finer than 0.01 ms or not.  With p95 above the mean it is further from it than
\* twice the spread; with p95 equal to the mean the spread is 1.0, whatever they were rounded to;
\* and with p95 below the mean, the mean is not 0 and regression_pct decides.
THEOREM Slowdown == Spec => []SlowdownNoticed
<1>1. TypeOK => SlowdownNoticed
  <2> SUFFICES ASSUME TypeOK, NEW f \in Fingerprint, NEW c \in Duration, samples[f] # << >>,
                      \A v \in Values(f) : c > 2 * v + 200 * Hundredth,
                      NEW m \in Means(samples[f]), NEW p \in P95s(samples[f])
               PROVE  Regressed(c, m, p)
    BY DEF SlowdownNoticed
  <2> DEFINE mean == m * Hundredth
             p95  == p * Hundredth
  <2>1. /\ mean \in Nat /\ p95 \in Nat /\ Hundredth \in Nat \ {0} /\ c \in Nat
        /\ m \in Nat /\ p \in Nat
    BY BaselineBounds, DurationAssumption
  <2>2. c > 2 * mean + 199 * Hundredth /\ c > 200 * Hundredth
    <3>1. PICK v \in Values(f) : v \in Nat /\ 2 * mean <= 2 * v + Hundredth
      BY BaselineBounds
    <3> HIDE DEF mean
    <3> QED BY <2>1, <3>1
  <2>3. c > 2 * p95 + 199 * Hundredth
    <3>1. PICK v \in Values(f) : v \in Nat /\ 2 * p95 <= 2 * v + Hundredth
      BY BaselineBounds
    <3> HIDE DEF p95
    <3> QED BY <2>1, <3>1
  <2>4. CASE p = m
    <3>1. c - mean > 200 * Hundredth
      <4>1. CASE m = 0
        BY <2>1, <2>2, <4>1
      <4>2. CASE m # 0
        <5>1. mean >= Hundredth
          BY <2>1, <4>2
        <5> HIDE DEF mean
        <5> QED BY <2>1, <2>2, <5>1
      <4> QED BY <4>1, <4>2
    <3> QED BY <2>4, <3>1 DEF Regressed, ZscoreHigh, Spread, Excess, z_threshold
  <2>5. CASE p > m
    <3>1. (2 * (p - m)) * Hundredth = 2 * p95 - 2 * mean /\ p - m > 0
      BY <2>1, <2>5
    <3>2. c - mean > (2 * (p - m)) * Hundredth
      <4> HIDE DEF mean, p95
      <4> QED BY <2>1, <2>3, <3>1
    <3> QED BY <2>1, <2>5, <3>1, <3>2 DEF Regressed, ZscoreHigh, Spread, Excess, z_threshold
  <2>6. CASE p < m
    <3>1. m # 0
      BY <2>1, <2>6
    <3>2. 100 * (c - mean) > 20 * mean
      <4> HIDE DEF mean
      <4> QED BY <2>1, <2>2
    <3> QED BY <3>1, <3>2 DEF Regressed, PctHigh, Excess, pct_threshold
  <2> QED BY <2>1, <2>4, <2>5, <2>6
<1> QED BY <1>1, EngineTypes, PTL

\* Whenever the rounded regression_pct of the API's /baseline is above the threshold, the
\* verdict of the store on the same numbers is a regression: rounding to a tenth of a percent
\* does not carry a number across a threshold that is a whole one.
THEOREM BaselineAndVerdict == Spec => []BaselineAgrees
<1>1. TypeOK => BaselineAgrees
  <2> SUFFICES ASSUME TypeOK, NEW f \in Fingerprint, NEW c \in Duration, samples[f] # << >>,
                      NEW m \in Means(samples[f]) \ {0}, NEW p \in P95s(samples[f]),
                      NEW pct \in RegressionPct(c, m), pct > 10 * pct_threshold
               PROVE  Regressed(c, m, p)
    BY DEF BaselineAgrees
  <2> DEFINE mean == m * Hundredth
  <2>1. mean \in Nat /\ c \in Nat /\ m # 0
    BY BaselineBounds, DurationAssumption
  <2>2. pct \in Int /\ pct >= 201 /\ 2 * (pct * mean - 1000 * (c - mean)) <= mean
    <3>1. m \in Nat \ {0} /\ Hundredth \in Nat \ {0}
      BY BaselineBounds
    <3>2. mean # 0
      BY <3>1
    <3>3. RegressionPct(c, m) = Rounded(1000 * (c - mean), mean)
      BY DEF RegressionPct, Excess
    <3> HIDE DEF mean
    <3>4. pct \in Int /\ 2 * (pct * mean - 1000 * (c - mean)) <= mean
      BY <2>1, <3>2, <3>3 DEF Rounded
    <3> QED BY <3>4 DEF pct_threshold
  <2> HIDE DEF mean
  <2>3. pct * mean >= 201 * mean /\ pct * mean \in Int
    <3>1. \A x \in Int, y \in Nat : x >= 201 => x * y >= 201 * y /\ x * y \in Int
      OBVIOUS
    <3> QED BY <2>1, <2>2, <3>1
  <2>4. 100 * (c - mean) > 20 * mean
    <3>1. mean # 0
      <4>1. \A i, j \in Nat \ {0} : i * j # 0
        OBVIOUS
      <4> QED BY <2>1, <4>1, BaselineBounds DEF mean
    <3> QED BY <2>1, <2>2, <2>3, <3>1
  <2> QED BY <2>1, <2>4 DEF Regressed, PctHigh, Excess, pct_threshold, mean
<1> QED BY <1>1, EngineTypes, PTL

=============================================================================
