----------------------------- MODULE Comparisons -----------------------------
(***************************************************************************)
(* Comparing a candidate run with a baseline, and the quality gate of a CI *)
(* job on the stored comparison (routes/analysis.py, comparisons.py,       *)
(* gates.py).  Nothing asks the runs to have ended: results keep arriving, *)
(* and a worker that is upgraded in the middle of a run gives the metric   *)
(* another version.  The resampled interval and the p-value of a test are  *)
(* whatever they turn out to be.                                           *)
(***************************************************************************)
EXTENDS Integers, Sequences, SequencesExt, FiniteSets, FiniteSetsExt

CONSTANTS
    VersionStrings, \* the versions of the metric, sorted as strings: "1.10.0" before "1.9.0"
    Histories,      \* what a run gives: sequences of [point, version, outcome]
    NoScore, MetricFailed, TaskFailed,      \* outcomes that are no score
    NotFinite,      \* a score that is not a number or infinite
    Chances,        \* p-values, in units of 1 / PScale
    PScale,
    Alpha,          \* 1 - confidence, in the same units
    Reaches,        \* where an interval may begin and end, from the mean difference
    Practical,      \* practical_difference
    Rules           \* of a gate

Operators == {"minimum", "maximum", "maximum_regression", "lower_confidence_minimum",
              "no_meaningful_regression"}

MetricOutcomes == Int \union {NoScore, MetricFailed, TaskFailed, NotFinite}

\* A point is a record and repetition; its outcome a score, or that the metric
\* gave none or failed, or that the task did and has no result at all.  A version is
\* known by its place among the strings, which is not that of its release.
ASSUME ComparisonAssumption ==
    /\ VersionStrings \in Seq(STRING)
    /\ \A h \in Histories :
          /\ h \in Seq(ToSet(h))
          /\ \A i \in DOMAIN h :
                /\ h[i].version \in DOMAIN VersionStrings
                /\ h[i].outcome \in MetricOutcomes
                /\ \A j \in DOMAIN h : h[i].point = h[j].point => i = j
    /\ \A o \in {NoScore, MetricFailed, TaskFailed, NotFinite} : o \notin Int
    /\ MetricFailed # NotFinite
    /\ PScale \in Nat \ {0} /\ Chances \subseteq 0..PScale /\ Alpha \in 0..PScale
    /\ Reaches \subseteq Int \X Int /\ Practical \in Nat
    /\ \A rule \in Rules :
          /\ rule.operator \in Operators
          /\ rule.threshold \in Int /\ rule.minimum \in Nat /\ rule.required \in BOOLEAN

VARIABLES
    measured,     \* [side -> the history of its run, and how far it is]
    comparison,   \* the stored comparison
    gate          \* the gate evaluated on it

comparisonVars == <<measured, comparison, gate>>

Sides == {"baseline", "candidate"}

NoComparison == [at |-> "none", policy |-> "available_pairs", results |-> <<>>]

NoGate == [asked |-> FALSE, rules |-> {}, passed |-> FALSE]

ComparisonsInit ==
    /\ measured = [s \in Sides |-> [history |-> <<>>, done |-> 0]]
    /\ comparison = NoComparison
    /\ gate = NoGate

\* A run starts, and one after another its tasks are settled.
StartMeasuring(side, history) ==
    /\ measured[side].history = <<>>
    /\ side = "candidate" => measured["baseline"].history # <<>>
    /\ measured' = [measured EXCEPT ![side].history = history]
    /\ UNCHANGED <<comparison, gate>>

Measure(side) ==
    /\ measured[side].done < Len(measured[side].history)
    /\ measured' = [measured EXCEPT ![side].done = @ + 1]
    /\ UNCHANGED <<comparison, gate>>

-----------------------------------------------------------------------------
(* compare_metric *)

\* _metric_samples: the rows of one version; a task that failed has none.
RowsOf(side, version) ==
    {measured[side].history[i] : i \in {j \in 1..measured[side].done :
        /\ measured[side].history[j].version = version
        /\ measured[side].history[j].outcome # TaskFailed}}

VersionsOf(side) == {v \in {measured[side].history[i].version : i \in DOMAIN measured[side].history} :
                        RowsOf(side, v) # {}}

PointsOf(rows) == {r.point : r \in rows}

OutcomeAt(rows, point) == (CHOOSE r \in rows : r.point = point).outcome

\* _analysis_values: the points that have a value, finite or not, and it.
ValuesOf(rows, policy) ==
    LET scored == {r \in rows : r.outcome \in Int \union {NotFinite}}
        zeros == {r \in rows : policy = "failures_as_zero" /\ r.outcome = MetricFailed}
        valued == scored \union zeros
    IN  [p \in PointsOf(valued) |-> IF OutcomeAt(rows, p) = MetricFailed THEN 0 ELSE OutcomeAt(rows, p)]

UnionOf(left, right) == PointsOf(left) \union PointsOf(right)

FailedIn(rows) == Cardinality({r \in rows : r.outcome = MetricFailed})

SumOver(values, points) == MapThenSumSet(LAMBDA p : values[p], points)

\* _interpret, all multiplied by the number of pairs.
Interpretation(difference, lower, upper, chance, pairs) ==
    LET margin == Practical * pairs
        meaningful == difference >= margin \/ -difference >= margin
    IN  IF upper <= -margin /\ Practical > 0 THEN "regression"
        ELSE IF chance < Alpha THEN IF meaningful THEN "significant" ELSE "small"
        ELSE IF lower >= -margin /\ upper <= margin THEN "tolerable"
        ELSE "inconclusive"

\* The points whose value is a number.
Finite(values) == {p \in DOMAIN values : values[p] # NotFinite}

\* align_pairs and what follows from it for one version: a pair that is not finite is
\* left out, but is not counted as missing.
ComparedMetric(version, policy, chance, reach) ==
    LET left == RowsOf("baseline", version)
        right == RowsOf("candidate", version)
        leftValues == ValuesOf(left, policy)
        rightValues == ValuesOf(right, policy)
        union == UnionOf(left, right)
        pairs == union \intersect Finite(leftValues) \intersect Finite(rightValues)
        difference == SumOver(rightValues, pairs) - SumOver(leftValues, pairs)
    IN  [union |-> Cardinality(union),
         paired |-> Cardinality(pairs),
         missing |-> [baseline |-> Cardinality(union \ DOMAIN leftValues),
                      candidate |-> Cardinality(union \ DOMAIN rightValues)],
         failed |-> [baseline |-> FailedIn(left), candidate |-> FailedIn(right)],
         candidateSum |-> SumOver(rightValues, pairs),
         difference |-> difference,
         lower |-> difference + reach[1],
         upper |-> difference + reach[2],
         chance |-> chance,
         reading |-> Interpretation(difference, difference + reach[1], difference + reach[2], chance,
                                    Cardinality(pairs))]

-----------------------------------------------------------------------------
(* adjust_p_values of a family [name -> p]; equal values are sorted by name. *)

\* What is sorted before a value: the lower ones, and of equal ones those named first.
SortedBefore(family, v) ==
    {w \in DOMAIN family : family[w] < family[v] \/ (family[w] = family[v] /\ w < v)}

Least(S) == CHOOSE x \in S : \A y \in S : x <= y

Greatest(S) == CHOOSE x \in S : \A y \in S : x >= y

\* Each value times the number of those not sorted before it.
Scaled(family, v) ==
    Least({PScale, family[v] * (Cardinality(DOMAIN family) - Cardinality(SortedBefore(family, v)))})

\* Mutant: without the running maximum.
HolmUnordered(family) == [v \in DOMAIN family |-> Scaled(family, v)]

\* That, but never less than for those before.
Holm(family) ==
    [v \in DOMAIN family |->
        Greatest({Scaled(family, w) : w \in SortedBefore(family, v) \union {v}})]

-----------------------------------------------------------------------------
Magnitude(n) == IF n < 0 THEN -n ELSE n

Compared == VersionsOf("baseline") \intersect VersionsOf("candidate")

\* Runs of different dataset versions must be allowed.
RefuseComparison ==
    /\ comparison.at # "stored"
    /\ comparison' = [NoComparison EXCEPT !.at = "409"]
    /\ UNCHANGED <<measured, gate>>

\* create_comparison: nothing in common is refused; a metric with fewer than two
\* pairs fails the request as a whole; then the results are stored with their
\* adjusted p-values.
CreateComparison(policy, chances, reaches) ==
    /\ comparison.at # "stored"
    /\ LET results == [v \in Compared |-> ComparedMetric(v, policy, chances[v], reaches[v])] IN
       IF Compared = {}
       THEN comparison' = [NoComparison EXCEPT !.at = "422"]
       ELSE IF \E v \in Compared : results[v].paired < 2
       THEN comparison' = [NoComparison EXCEPT !.at = "500"]
       ELSE LET adjusted == Holm([v \in Compared |-> chances[v]]) IN
            comparison' = [at |-> "stored", policy |-> policy,
                           results |-> [v \in Compared |->
                               [metric |-> results[v], adjusted |-> adjusted[v]]]]
    /\ UNCHANGED <<measured, gate>>

\* Mutant: the versions of a metric are taken in the order of the table.
JudgedFirst == Least(DOMAIN comparison.results)

\* metrics, keyed by identifier: the version whose string comes last stands for its
\* metric, be it the newest or not.
Judged == Greatest(DOMAIN comparison.results)

\* _evaluate_rule: [metric, operator, threshold, minimum, required].
RulePasses(rule) ==
    /\ rule.metric = "compared"
    /\ LET m == comparison.results[Judged].metric IN
       /\ m.paired >= rule.minimum
       /\ CASE rule.operator = "minimum" -> m.candidateSum >= rule.threshold * m.paired
            [] rule.operator = "maximum" -> m.candidateSum <= rule.threshold * m.paired
            [] rule.operator = "maximum_regression" ->
                  m.difference >= -Magnitude(rule.threshold) * m.paired
            [] rule.operator = "lower_confidence_minimum" -> m.lower >= rule.threshold * m.paired
            [] rule.operator = "no_meaningful_regression" -> m.reading # "regression"

\* evaluate_comparison_gate.  One gate is followed: its answer depends on the stored
\* comparison alone.
EvaluateGate(rules) ==
    /\ comparison.at = "stored" /\ ~gate.asked
    /\ gate' = [asked |-> TRUE, rules |-> rules,
                passed |-> \A rule \in rules : RulePasses(rule) \/ ~rule.required]
    /\ UNCHANGED <<measured, comparison>>

ComparisonsNext ==
    \/ \E s \in Sides : Measure(s) \/ \E h \in Histories : StartMeasuring(s, h)
    \/ RefuseComparison
    \/ \E policy \in {"available_pairs", "failures_as_zero"}, chances \in [Compared -> Chances],
          reaches \in [Compared -> Reaches] : CreateComparison(policy, chances, reaches)
    \/ \E rules \in (SUBSET Rules) \ {{}} : Cardinality(rules) <= 2 /\ EvaluateGate(rules)

ComparisonsSpec == ComparisonsInit /\ [][ComparisonsNext]_comparisonVars

-----------------------------------------------------------------------------
(* Properties *)

Now(v) == ComparedMetric(v, comparison.policy, 0, <<0, 0>>)

\* The points a run has a score for that is no number.
Infinite(side, v) == PointsOf({r \in RowsOf(side, v) : r.outcome = NotFinite})

\* A stored comparison accounts for every point it saw, whatever the runs do next:
\* what is not paired lacks a value on a side and is counted there, or a side's score
\* is not finite, which no count shows; a failed metric is counted as failed and, as
\* zero, is not missing; pairs only grow; and adjusted p-values of a family keep their
\* order, exceed no Bonferroni bound and never claim more than the test did.
ComparisonsAccount ==
    comparison.at = "stored" =>
        \A v \in DOMAIN comparison.results :
            LET m == comparison.results[v].metric
                a == comparison.results[v].adjusted
                excluded == m.union - m.paired
            IN
            /\ m.paired >= 2 /\ m.union <= Cardinality(PointsOf(RowsOf("baseline", v))
                                                         \union PointsOf(RowsOf("candidate", v)))
            /\ Greatest({m.missing.baseline, m.missing.candidate}) <= excluded
            /\ excluded <= m.missing.baseline + m.missing.candidate
                             + Cardinality(Infinite("baseline", v) \union Infinite("candidate", v))
            /\ \A s \in Sides :
                  /\ m.failed[s] <= m.union
                  /\ comparison.policy = "failures_as_zero" => m.failed[s] + m.missing[s] <= m.union
                  /\ comparison.policy = "available_pairs" => m.failed[s] <= m.missing[s]
            /\ Now(v).paired >= m.paired /\ Now(v).union >= m.union
            /\ m.chance <= a /\ a <= PScale
            /\ a <= Cardinality(DOMAIN comparison.results) * m.chance
            /\ \A w \in DOMAIN comparison.results :
                  comparison.results[w].metric.chance <= m.chance => comparison.results[w].adjusted <= a

\* Of the first n tasks a run settled, those that have a result of a version.
Resulted(side, n, v) ==
    {i \in 1..n : /\ measured[side].history[i].version = v
                  /\ measured[side].history[i].outcome # TaskFailed}

\* The versions that both runs had results of when they had settled b and c tasks.
Common(b, c) ==
    {v \in DOMAIN VersionStrings : Resulted("baseline", b, v) # {} /\ Resulted("candidate", c, v) # {}}

\* The points a run had a score for by then, and those that both had.
ScoredBy(side, n, v, policy) ==
    LET h == measured[side].history
        counts(x) == x.outcome \in Int \/ (policy = "failures_as_zero" /\ x.outcome = MetricFailed)
    IN  {h[i].point : i \in {j \in Resulted(side, n, v) : counts(h[j])}}

Shared(b, c, v, policy) ==
    ScoredBy("baseline", b, v, policy) \intersect ScoredBy("candidate", c, v, policy)

\* What a run scored at a point, a failure as zero.
ScoreAt(side, p) ==
    LET outcome == (CHOOSE x \in ToSet(measured[side].history) : x.point = p).outcome
    IN  IF outcome \in Int THEN outcome ELSE 0

Given(side, points) == SumOver([p \in points |-> ScoreAt(side, p)], points)

\* What a rule demands of the runs as they were then, the interval being what the
\* bootstrap made of them: enough shared points of the metric's last version, and the
\* bound of the rule on the candidate's mean, the mean difference or its interval.
Meets(rule, b, c) ==
    LET last == CHOOSE v \in Common(b, c) : \A w \in Common(b, c) : w <= v
        points == Shared(b, c, last, comparison.policy)
        n == Cardinality(points)
        gain == Given("candidate", points) - Given("baseline", points)
        interval == comparison.results[last].metric
    IN  /\ rule.metric = "compared" /\ n >= rule.minimum
        /\ rule.operator = "minimum" => Given("candidate", points) >= rule.threshold * n
        /\ rule.operator = "maximum" => Given("candidate", points) <= rule.threshold * n
        /\ rule.operator = "maximum_regression" => gain + Magnitude(rule.threshold) * n >= 0
        /\ rule.operator = "lower_confidence_minimum" => interval.lower >= rule.threshold * n
        /\ rule.operator = "no_meaningful_regression" =>
              Practical = 0 \/ interval.upper > -Practical * n

\* A gate's verdict is what its required rules say of one moment of the two runs, not
\* after now, that has as many pairs of each version as the comparison tells.  It passes
\* exactly if every one is met by the points both had scored then with one version, the
\* last in the order of strings, whatever was measured since, with another version, by
\* one run alone, or as no number.  So an absent metric fails what requires it, a worker
\* upgraded in the middle of a run leaves the gate the points measured since, if its
\* version sorts last, and a gate without required rules passes.
GatesJudgeEvidence ==
    gate.asked =>
        \E b \in 0..measured["baseline"].done, c \in 0..measured["candidate"].done :
            /\ Common(b, c) = DOMAIN comparison.results
            /\ \A v \in Common(b, c) :
                  Cardinality(Shared(b, c, v, comparison.policy)) = comparison.results[v].metric.paired
            /\ gate.passed <=> \A rule \in gate.rules : rule.required => Meets(rule, b, c)
=============================================================================
