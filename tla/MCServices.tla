----------------------------- MODULE MCServices -----------------------------
(***************************************************************************)
(* The parts of the platform around the run engine, for TLC.  They share   *)
(* no state, so each behaviour runs one of them, its focus, and leaves the *)
(* others at their start.                                                  *)
(***************************************************************************)
EXTENDS JudgeExecution, PairDesign, Judgments, ProgressStream,
        ServiceAccounts, Publication, Sampling, ProviderCalls, RateLimiter,
        Catalog, RunResults, Comparisons, Commands, Metrics, Agreement

CONSTANT Foci

VARIABLE focus

-----------------------------------------------------------------------------
(* Values of the constants *)

\* Two spellings of one key, and another key.
MCRawKeys ==
    {[name |-> "a", form |-> f] : f \in {"composed", "decomposed"}}
        \union {[name |-> "b", form |-> "composed"]}

MCTopics == {"create", "revoke"} \X Accounts \union {<<"report", "other">>}

\* How far the clock of each replica is ahead.
MCAhead == <<0, 1>>

\* Slugs as given and as stored; BadSlug stays what it is.
MCNormal == [s \in Slugs |-> IF s \in {"A", "a"} THEN "a" ELSE s]

\* Callers: unbound, bound to another project, of too small a role, of narrow scopes.
MCPrincipals == {
    [role |-> "admin", scopes |-> {}, bound |-> "none"],
    [role |-> "editor", scopes |-> {}, bound |-> "other"],
    [role |-> "editor", scopes |-> {"dataset:write"}, bound |-> "none"]}

\* The keys of versions as the database sorts them: as Python does, and as a collation
\* that puts capitals among the small letters does.
MCVersions == {<<1, 2, 3, 4>>, <<2, 1, 4, 3>>, <<3, 4, 1, 2>>, <<4, 1, 3>>}

MCBuiltin == [
    exact |-> [tasks |-> {"generation", "rag"}, reference |-> TRUE],
    latency |-> [tasks |-> {"generation"}, reference |-> FALSE]]

\* Suites that name a metric once, twice, of another task type, or not registered.
MCSuites == {
    <<>>, <<"exact">>, <<"latency", "exact">>, <<"exact", "exact">>,
    <<"ghost", "exact">>, <<"ghost", "ghost">>}

Measured(stamps, outcomes) ==
    [i \in DOMAIN outcomes |-> [point |-> i, version |-> stamps[i], outcome |-> outcomes[i]]]

MCVersionStrings == <<"1.10.0", "1.9.0">>

\* A worker upgraded from 1.9.0 to 1.10.0 between two points, set back or not, failed
\* metrics, failed tasks, no score, no number.
MCHistories == {
    Measured(<<2, 2, 1, 1>>, <<2, 2, 1, 2>>),
    Measured(<<1, 1, 2, 2>>, <<0, 1, 0, MetricFailed>>),
    Measured(<<1, 1, 1, 1>>, <<MetricFailed, TaskFailed, 1, 2>>),
    Measured(<<1, 1, 2, 2>>, <<1, 1, 2, 2>>),
    Measured(<<2, 2, 1, 1>>, <<1, 0, NotFinite, 2>>),
    Measured(<<1, 1, 1, 2>>, <<2, NoScore, 0, 1>>)}

Rule(metric, operator, threshold, minimum, required) ==
    [metric |-> metric, operator |-> operator, threshold |-> threshold,
     minimum |-> minimum, required |-> required]

MCRules == {
    Rule("compared", "minimum", 1, 3, TRUE),
    Rule("compared", "maximum", 1, 1, TRUE),
    Rule("compared", "maximum_regression", 1, 2, TRUE),
    Rule("compared", "lower_confidence_minimum", 0, 1, TRUE),
    Rule("compared", "lower_confidence_minimum", 1, 1, FALSE),
    Rule("compared", "no_meaningful_regression", 0, 2, TRUE),
    Rule("absent", "minimum", 0, 1, TRUE),
    Rule("absent", "minimum", 0, 1, FALSE)}

\* Intervals round the mean, and one above it.
MCReaches == {<<-2, 2>>, <<0, 0>>, <<1, 3>>}

\* Two seeds: how they order the keys.
MCSeedOrders == {[k \in 1..6 |-> k], [k \in 1..6 |-> (k * 3) % 7]}

\* 1/log2(rank + 1) in hundredths.
MCDiscounts == <<100, 63, 50, 43>>

-----------------------------------------------------------------------------
(* A behaviour of one part *)

Init ==
    /\ JudgeInit /\ DesignInit /\ JudgmentsInit /\ StreamInit
    /\ AccountsInit /\ PublicationInit /\ SamplingInit
    /\ CallInit /\ LimiterInit /\ CatalogInit
    /\ ResultsInit /\ ComparisonsInit /\ CommandsInit
    /\ MetricsInit /\ AgreementInit
    /\ focus \in Foci
    /\ focus # "design" => ~reversed
    /\ focus # "judgments" => stored = {}
    /\ focus # "metrics" => relevant = {}

JudgeStep ==
    /\ focus = "judge" /\ JudgeNext
    /\ UNCHANGED <<designVars, judgmentVars, streamVars, chainVars,
          accountVars, publicationVars, samplingVars, callVars, limiterVars,
          catalogVars, resultsVars, comparisonVars, commandVars, metricVars,
          ratings, focus>>

DesignStep ==
    /\ focus = "design" /\ DesignNext
    /\ UNCHANGED <<judgeVars, judgmentVars, streamVars, chainVars,
          accountVars, publicationVars, samplingVars, callVars, limiterVars,
          catalogVars, resultsVars, comparisonVars, commandVars, metricVars,
          ratings, focus>>

JudgmentsStep ==
    /\ focus = "judgments" /\ JudgmentsNext
    /\ UNCHANGED <<judgeVars, designVars, streamVars, chainVars, accountVars,
          publicationVars, samplingVars, callVars, limiterVars, catalogVars,
          resultsVars, comparisonVars, commandVars, metricVars, ratings,
          focus>>

StreamStep ==
    /\ focus = "stream" /\ StreamNext
    /\ UNCHANGED <<judgeVars, designVars, judgmentVars, chainVars,
          accountVars, publicationVars, samplingVars, callVars, limiterVars,
          catalogVars, resultsVars, comparisonVars, commandVars, metricVars,
          ratings, focus>>

AccountsStep ==
    /\ focus = "accounts" /\ AccountsNext
    /\ UNCHANGED <<judgeVars, designVars, judgmentVars, streamVars,
          publicationVars, samplingVars, callVars, limiterVars, catalogVars,
          resultsVars, comparisonVars, commandVars, metricVars, ratings,
          focus>>

PublicationStep ==
    /\ focus = "publication" /\ PublicationNext
    /\ UNCHANGED <<judgeVars, designVars, judgmentVars, streamVars, chainVars,
          accountVars, samplingVars, callVars, limiterVars, catalogVars,
          resultsVars, comparisonVars, commandVars, metricVars, ratings,
          focus>>

SamplingStep ==
    /\ focus = "sampling" /\ SamplingNext
    /\ UNCHANGED <<judgeVars, designVars, judgmentVars, streamVars, chainVars,
          accountVars, publicationVars, callVars, limiterVars, catalogVars,
          resultsVars, comparisonVars, commandVars, metricVars, ratings,
          focus>>

CallStep ==
    /\ focus = "provider" /\ CallNext
    /\ UNCHANGED <<judgeVars, designVars, judgmentVars, streamVars, chainVars,
          accountVars, publicationVars, samplingVars, limiterVars,
          catalogVars, resultsVars, comparisonVars, commandVars, metricVars,
          ratings, focus>>

LimiterStep ==
    /\ focus = "limiter" /\ LimiterNext
    /\ UNCHANGED <<judgeVars, designVars, judgmentVars, streamVars, chainVars,
          accountVars, publicationVars, samplingVars, callVars, catalogVars,
          resultsVars, comparisonVars, commandVars, metricVars, ratings,
          focus>>

CatalogStep ==
    /\ focus \in {"catalog", "lists", "records"} /\ CatalogNext
    \* Creations that race for one slug; those that are accepted and fit, of several slugs
    \* and in one project, beside a reader of the lists they come into; and the records of
    \* a version, which have nothing to do with the rows of the tables.
    /\ focus = "catalog" => reader' = reader /\ \A c \in Creations : creation'[c].slug # "b"
    /\ focus = "lists" =>
          /\ \A c \in Creations :
                \/ creation'[c].at \in {"new", "displaced"}
                \/ creation'[c].at \in {"named", "201", "stored"} /\ creation'[c].fits
                      /\ creation'[c].home # 3
          /\ \A r \in Readers : reader'[r].kind # "record" /\ reader'[r].home # 3
    /\ focus = "records" => creation' = creation
    /\ UNCHANGED <<judgeVars, designVars, judgmentVars, streamVars, chainVars,
          accountVars, publicationVars, samplingVars, callVars, limiterVars,
          resultsVars, comparisonVars, commandVars, metricVars, ratings,
          focus>>

ResultsStep ==
    /\ focus = "results" /\ ResultsNext
    /\ UNCHANGED <<judgeVars, designVars, judgmentVars, streamVars, chainVars,
          accountVars, publicationVars, samplingVars, callVars, limiterVars,
          catalogVars, comparisonVars, commandVars, metricVars, ratings,
          focus>>

ComparisonsStep ==
    /\ focus = "comparisons" /\ ComparisonsNext
    /\ UNCHANGED <<judgeVars, designVars, judgmentVars, streamVars, chainVars,
          accountVars, publicationVars, samplingVars, callVars, limiterVars,
          catalogVars, resultsVars, commandVars, metricVars, ratings, focus>>

CommandsStep ==
    /\ focus = "commands" /\ CommandsNext
    /\ UNCHANGED <<judgeVars, designVars, judgmentVars, streamVars, chainVars,
          accountVars, publicationVars, samplingVars, callVars, limiterVars,
          catalogVars, resultsVars, comparisonVars, metricVars, ratings,
          focus>>

MetricsStep ==
    /\ focus = "metrics" /\ MetricsNext
    /\ UNCHANGED <<judgeVars, designVars, judgmentVars, streamVars, chainVars,
          accountVars, publicationVars, samplingVars, callVars, limiterVars,
          catalogVars, resultsVars, comparisonVars, commandVars, ratings,
          focus>>

AgreementStep ==
    /\ focus = "agreement" /\ AgreementNext
    /\ UNCHANGED <<judgeVars, designVars, judgmentVars, streamVars, chainVars,
          accountVars, publicationVars, samplingVars, callVars, limiterVars,
          catalogVars, resultsVars, comparisonVars, commandVars, metricVars,
          focus>>

Next ==
    \/ JudgeStep \/ DesignStep \/ JudgmentsStep \/ StreamStep
    \/ AccountsStep \/ PublicationStep \/ SamplingStep \/ CallStep
    \/ LimiterStep \/ CatalogStep \/ ResultsStep \/ ComparisonsStep
    \/ CommandsStep \/ MetricsStep \/ AgreementStep

servicesVars ==
    <<judgeVars, designVars, judgmentVars, streamVars, chainVars, accountVars,
      publicationVars, samplingVars, callVars, limiterVars, catalogVars,
      resultsVars, comparisonVars, commandVars, metricVars, ratings, focus>>

Spec == Init /\ [][Next]_servicesVars

\* The stream polls while its response is open.
FairSpec == Spec /\ WF_servicesVars(Poll /\ StreamStep)
=============================================================================
