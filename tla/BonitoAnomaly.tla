--------------------------- MODULE BonitoAnomaly ---------------------------
(***************************************************************************)
(* bonito-store's baselines and anomaly engine, and the /metrics endpoint  *)
(* that exports its verdicts as gauges.  A baseline and the current        *)
(* average it is compared with are read by separate connections, so that   *)
(* ingests and the passing of time come in between; the gauges live in the *)
(* process and are only ever set.                                          *)
(*                                                                         *)
(* Durations are whole numbers of a small unit: the collector rounds them  *)
(* to 0.01 ms, a client of the webhook may send finer ones, which the      *)
(* tables keep as they are.  Baselines are in hundredths of a millisecond. *)
(***************************************************************************)
EXTENDS Integers, Sequences, FiniteSetsExt

CONSTANTS
  Fingerprint,   \* the queries
  Duration,      \* the values of mean_ms
  Hundredth,     \* the units of Duration in 0.01 ms
  NoMean,        \* mean_ms is NULL
  NoSeries,      \* a gauge never set
  Scraper,       \* request threads that serve /metrics
  MaxSamples,    \* bound: samples of a query within the window
  MaxIngests     \* bound: ingests of a query in a behaviour

ASSUME DurationAssumption == /\ Duration \subseteq Nat /\ NoMean \notin Duration
                             /\ Hundredth \in Nat \ {0}
ASSUME BoundAssumption == MaxSamples \in Nat \ {0} /\ MaxIngests \in Nat

VARIABLES
  samples,   \* query_samples.mean_ms of each query, within the baseline's window, oldest first
  avg_ms,    \* query_texts.avg_ms
  ingested,  \* how many samples each query got
  gauge,     \* bonito_query_anomaly
  scrape     \* what each thread is doing

vars == <<samples, avg_ms, ingested, gauge, scrape>>

-----------------------------------------------------------------------------
(* The arithmetic of baselines() and _anomaly().                           *)

\* The integers nearest to n / d: two when it lies half-way, since the division is done on
\* binary floats and the tie may be broken either way.
Rounded(n, d) == {k \in {n \div d, n \div d + 1} : 2 * (n - k * d) <= d /\ 2 * (k * d - n) <= d}

Total(vals) ==
  LET sum[n \in 0 .. Len(vals)] == IF n = 0 THEN 0 ELSE sum[n - 1] + vals[n]
  IN  sum[Len(vals)]

\* round(sum(vals) / len(vals), 2), in hundredths
Means(vals) == Rounded(Total(vals), Len(vals) * Hundredth)

\* The element at a position, counted from 0, of the sorted list.
SortedAt(vals, p) ==
  CHOOSE v \in {vals[i] : i \in DOMAIN vals} :
    /\ Cardinality({i \in DOMAIN vals : vals[i] < v}) <= p
    /\ Cardinality({i \in DOMAIN vals : vals[i] <= v}) > p

\* Mutant of P95s: the position taken from the number of samples.
P95s_OfLength(vals) == Rounded(SortedAt(vals, (95 * Len(vals)) \div 100), Hundredth)

\* round(vals[int(0.95 * (len(vals) - 1))], 2), in hundredths
P95s(vals) == Rounded(SortedAt(vals, (95 * (Len(vals) - 1)) \div 100), Hundredth)

z_threshold   == 2
pct_threshold == 20

\* (p95_ms - mean_ms) or 1.0, in hundredths
Spread(mean, p95) == IF p95 = mean THEN 100 ELSE p95 - mean

\* How much the current average, which is not rounded, is above the mean.
Excess(current, mean) == current - mean * Hundredth

\* zscore > z_threshold, with the division multiplied out: a negative spread turns it round.
ZscoreHigh(current, mean, p95) ==
  LET spread == Spread(mean, p95)
  IN  IF spread > 0 THEN Excess(current, mean) > z_threshold * spread * Hundredth
                    ELSE Excess(current, mean) < z_threshold * spread * Hundredth

\* regression_pct > pct_threshold; a mean of 0 counts as no regression.
PctHigh(current, mean) ==
  mean # 0 /\ 100 * Excess(current, mean) > pct_threshold * (mean * Hundredth)

\* Mutant of RegressionPct: the distance to the mean, whatever its sign.
RegressionPct_Distance(current, mean) ==
  LET excess == Excess(current, mean)
  IN  Rounded(1000 * (IF excess > 0 THEN excess ELSE - excess), mean * Hundredth)

\* The regression_pct of the API's /baseline, in tenths of a percent; it has none for a mean of 0.
RegressionPct(current, mean) == Rounded(1000 * Excess(current, mean), mean * Hundredth)

\* Mutants of Regressed: both signals are required; a mean of 0 ends it, before the z-score.
Regressed_Both(current, mean, p95) == PctHigh(current, mean) /\ ZscoreHigh(current, mean, p95)
Regressed_NeedsMean(current, mean, p95) ==
  mean # 0 /\ (PctHigh(current, mean) \/ ZscoreHigh(current, mean, p95))

\* status = "regression"
Regressed(current, mean, p95) == PctHigh(current, mean) \/ ZscoreHigh(current, mean, p95)

-----------------------------------------------------------------------------
(* The tables change.                                                      *)

\* Mutant of Ingest: a NULL is kept among the samples, as without the WHERE of baselines().
Ingest_Null(f, ms) ==
  /\ ingested[f] < MaxIngests
  /\ Len(samples[f]) < MaxSamples
  /\ ingested' = [ingested EXCEPT ![f] = @ + 1]
  /\ avg_ms' = [avg_ms EXCEPT ![f] = ms]
  /\ samples' = [samples EXCEPT ![f] = Append(@, ms)]
  /\ UNCHANGED <<gauge, scrape>>

\* POST /events with a row of this query: its mean is the current average and a sample; a
\* NULL is no sample for baselines().
Ingest(f, ms) ==
  /\ ingested[f] < MaxIngests
  /\ Len(samples[f]) < MaxSamples
  /\ ingested' = [ingested EXCEPT ![f] = @ + 1]
  /\ avg_ms' = [avg_ms EXCEPT ![f] = ms]
  /\ samples' = IF ms = NoMean THEN samples ELSE [samples EXCEPT ![f] = Append(@, ms)]
  /\ UNCHANGED <<gauge, scrape>>

\* The oldest sample leaves the window, or retention prunes it; query_texts stays as it is.
AgeOut(f) ==
  /\ samples[f] # << >>
  /\ samples' = [samples EXCEPT ![f] = Tail(@)]
  /\ UNCHANGED <<avg_ms, ingested, gauge, scrape>>

-----------------------------------------------------------------------------
(* GET /metrics.                                                           *)

\* todo: fingerprints that baselines() listed and anomaly() has still to judge; f, mean, p95:
\* the one being judged; verdicts: those whose gauge is to be set.
Quiet == [pc |-> "idle", todo |-> {}, f |-> NoSeries, mean |-> 0, p95 |-> 0, verdicts |-> {}]

\* Mutant of Listed: only series that do not exist yet.
Listed_New == {f \in Fingerprint : samples[f] # << >> /\ gauge[f] = NoSeries}

\* baselines(None): the fingerprints that have a sample.
Listed == {f \in Fingerprint : samples[f] # << >>}

ScrapeStart(w) ==
  /\ scrape[w].pc = "idle"
  /\ scrape' = [scrape EXCEPT ![w] = [Quiet EXCEPT !.pc = "judge", !.todo = Listed]]
  /\ UNCHANGED <<samples, avg_ms, ingested, gauge>>

\* anomaly(f) reads the baseline once more; it may be gone by now.
ReadBaseline(w, f) ==
  /\ scrape[w].pc = "judge"
  /\ f \in scrape[w].todo
  /\ samples[f] # << >>
  /\ \E m \in Means(samples[f]), p \in P95s(samples[f]) :
       scrape' = [scrape EXCEPT ![w] =
         [scrape[w] EXCEPT !.pc = "current", !.todo = @ \ {f}, !.f = f, !.mean = m, !.p95 = p]]
  /\ UNCHANGED <<samples, avg_ms, ingested, gauge>>

NoBaseline(w, f) ==
  /\ scrape[w].pc = "judge"
  /\ f \in scrape[w].todo
  /\ samples[f] = << >>
  /\ scrape' = [scrape EXCEPT ![w].todo = @ \ {f}]
  /\ UNCHANGED <<samples, avg_ms, ingested, gauge>>

\* ... and the current average, by a connection of its own.
ReadCurrent(w) ==
  /\ scrape[w].pc = "current"
  /\ LET s == scrape[w]
         v == IF avg_ms[s.f] = NoMean THEN {}
              ELSE {[f |-> s.f, flag |-> IF Regressed(avg_ms[s.f], s.mean, s.p95) THEN 1 ELSE 0]}
     IN  scrape' = [scrape EXCEPT ![w] =
           [Quiet EXCEPT !.pc = "judge", !.todo = s.todo, !.verdicts = s.verdicts \cup v]]
  /\ UNCHANGED <<samples, avg_ms, ingested, gauge>>

\* The loop over the verdicts begins when anomalies() has returned; it sets one gauge a turn.
SetGauge(w, v) ==
  /\ scrape[w].pc = "judge"
  /\ scrape[w].todo = {}
  /\ v \in scrape[w].verdicts
  /\ gauge' = [gauge EXCEPT ![v.f] = v.flag]
  /\ scrape' = [scrape EXCEPT ![w].verdicts = @ \ {v}]
  /\ UNCHANGED <<samples, avg_ms, ingested>>

ScrapeEnd(w) ==
  /\ scrape[w].pc = "judge"
  /\ scrape[w].todo = {}
  /\ scrape[w].verdicts = {}
  /\ scrape' = [scrape EXCEPT ![w] = Quiet]
  /\ UNCHANGED <<samples, avg_ms, ingested, gauge>>

-----------------------------------------------------------------------------
Init ==
  /\ samples = [f \in Fingerprint |-> << >>]
  /\ avg_ms = [f \in Fingerprint |-> NoMean]
  /\ ingested = [f \in Fingerprint |-> 0]
  /\ gauge = [f \in Fingerprint |-> NoSeries]
  /\ scrape = [w \in Scraper |-> Quiet]

Serve(w) ==
  \/ \E f \in Fingerprint : ReadBaseline(w, f) \/ NoBaseline(w, f)
  \/ ReadCurrent(w)
  \/ \E v \in scrape[w].verdicts : SetGauge(w, v)
  \/ ScrapeEnd(w)

Next ==
  \/ \E f \in Fingerprint, ms \in Duration \cup {NoMean} : Ingest(f, ms)
  \/ \E f \in Fingerprint : AgeOut(f)
  \/ \E w \in Scraper : ScrapeStart(w) \/ Serve(w)

Spec == Init /\ [][Next]_vars

\* Prometheus scrapes at its interval for ever, and threads are scheduled.
FairSpec == Spec /\ \A w \in Scraper : WF_vars(ScrapeStart(w)) /\ WF_vars(Serve(w))

-----------------------------------------------------------------------------
(* What must hold.                                                         *)

Verdict == [f : Fingerprint, flag : {0, 1}]

\* One type invariant: every variable holds a value of the program's kind.
TypeOK ==
  /\ samples \in [Fingerprint -> Seq(Duration)]
  /\ \A f \in Fingerprint : Len(samples[f]) <= MaxSamples
  /\ avg_ms \in [Fingerprint -> Duration \cup {NoMean}]
  /\ ingested \in [Fingerprint -> 0 .. MaxIngests]
  /\ gauge \in [Fingerprint -> {0, 1, NoSeries}]
  /\ scrape \in [Scraper -> [pc : {"idle", "judge", "current"}, todo : SUBSET Fingerprint,
                             f : Fingerprint \cup {NoSeries}, mean : Nat, p95 : Nat,
                             verdicts : SUBSET Verdict]]

Values(f) == {samples[f][i] : i \in DOMAIN samples[f]}

\* p95_ms is the 95th percentile by its definition, not by its position: the largest sample
\* that at most 95% of the other samples are below, rounded (baselines()).
P95IsPercentile ==
  \A f \in Fingerprint : samples[f] # << >> =>
    P95s(samples[f]) = Rounded(Max({v \in Values(f) :
      100 * Cardinality({i \in DOMAIN samples[f] : samples[f][i] < v}) <= 95 * (Len(samples[f]) - 1)}),
      Hundredth)

\* A current average more than 20% above every sample of the baseline, and above the half
\* hundredth by which rounding may raise the mean, is a regression, however the samples are
\* spread and whatever the sign of p95 - mean; a mean rounded to 0 is the one exception that
\* _anomaly makes.
GrossRegressionFlagged ==
  \A f \in Fingerprint, c \in Duration :
    /\ samples[f] # << >>
    /\ \A v \in Values(f) : 2 * 100 * (c - v) > pct_threshold * (2 * v) + (100 + pct_threshold) * Hundredth
    => \A m \in Means(samples[f]) \ {0}, p \in P95s(samples[f]) : Regressed(c, m, p)

\* A query more than twice as slow as every sample, by 2 ms and more, is a regression whatever
\* its baseline is.  A mean that is rounded to 0 has no regression_pct, and then the z-score
\* alone has to tell: the p95 it is measured by is not rounded away as well, or the 1.0 that
\* takes its place is less (_anomaly).
SlowdownNoticed ==
  \A f \in Fingerprint, c \in Duration :
    /\ samples[f] # << >>
    /\ \A v \in Values(f) : c > 2 * v + 200 * Hundredth
    => \A m \in Means(samples[f]), p \in P95s(samples[f]) : Regressed(c, m, p)

\* The API's /baseline computes its regression_pct by itself, without a verdict.  Whenever it
\* is above the threshold, although it is rounded, the store's verdict on the same baseline is
\* a regression, so that an agent and the alert agree (baseline of app.py, _anomaly).
BaselineAgrees ==
  \A f \in Fingerprint, c \in Duration : samples[f] # << >> =>
    \A m \in Means(samples[f]) \ {0}, p \in P95s(samples[f]) :
      (\E pct \in RegressionPct(c, m) : pct > 10 * pct_threshold) => Regressed(c, m, p)

InRegression(f) ==
  /\ samples[f] # << >> /\ avg_ms[f] # NoMean
  /\ \A m \in Means(samples[f]), p \in P95s(samples[f]) : Regressed(avg_ms[f], m, p)

MayBeInRegression(f) ==
  /\ samples[f] # << >> /\ avg_ms[f] # NoMean
  /\ \E m \in Means(samples[f]), p \in P95s(samples[f]) : Regressed(avg_ms[f], m, p)

\* A regression that lasts is exported in the end, and stays so: a slow scrape that read older
\* tables can overwrite the gauge only so often (metrics()).
RegressionReported ==
  \A f \in Fingerprint : <>[]InRegression(f) => <>[](gauge[f] = 1)

-----------------------------------------------------------------------------
(* What the documents say, and the code does not do.                       *)

\* docs/recipes/detect-regression.md: the verdict "REGRESSION" is that the query is "slower
\* than 7-day baseline".  When p95 is below the mean, as it is for a few samples, the
\* spread is negative, and a query that has become faster has a high z-score.
FlaggedIsSlower ==
  \A f \in Fingerprint : InRegression(f) =>
    \A m \in Means(samples[f]) : Excess(avg_ms[f], m) > 0

\* docs/recipes/detect-regression.md: bonito_query_anomaly is "1 when in regression".  Gauges
\* are set for the fingerprints that have samples; the others keep what they had.
FlagCleared ==
  \A f \in Fingerprint : <>[](~ MayBeInRegression(f)) => <>[](gauge[f] # 1)

=============================================================================
