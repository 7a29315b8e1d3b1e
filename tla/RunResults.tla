----------------------------- MODULE RunResults -----------------------------
(***************************************************************************)
(* What a run records and what the API reports of it: an experiment and a  *)
(* run are created (application/experiments.py), one delivery after        *)
(* another executes the tasks (worker/tasks.py), each answer is scored by  *)
(* the metrics of the suite (metrics/base.py) and saved with its costs in  *)
(* one transaction, and the routes add up costs, errors and samples        *)
(* (routes/experiments.py).  Deliveries that overlap, requests and lost    *)
(* workers are the subject of RunEngine.                                   *)
(***************************************************************************)
EXTENDS Naturals, Sequences, SequencesExt, FiniteSets, FiniteSetsExt

CONSTANTS
    PlanRecords,       \* the keys of the dataset version
    Builtin,           \* [metric identifier -> [tasks, reference], its definition]
    Unregistered,      \* an identifier no metric has
    TaskTypes,         \* the task types of suites
    RunRepetitions,    \* how often a run repeats each record
    ErrorKinds,        \* the kinds of provider errors
    Suites,            \* sequences of metric identifiers
    Estimates,         \* what a call is estimated to cost
    Budget,            \* the limit of the run
    Bills,             \* what a provider says of the cost, Unbilled if nothing
    Unbilled,
    Monies,            \* the currencies it bills in
    MaxPaid            \* bound: answers paid for a task

ASSUME ResultsAssumption ==
    /\ IsFiniteSet(PlanRecords)
    /\ Unregistered \notin DOMAIN Builtin
    /\ \A s \in Suites : s \in Seq(DOMAIN Builtin \union {Unregistered})
    /\ Estimates \subseteq Nat /\ Bills \ {Unbilled} \subseteq Nat /\ Unbilled \notin Nat
    /\ Budget \in Nat /\ MaxPaid \in Nat \ {0}
    /\ RunRepetitions \subseteq Nat

VARIABLES
    plan,       \* the experiment and its run
    work,       \* [task -> its row, its sample and its records]
    spent       \* actual_cost of the run

resultsVars == <<plan, work, spent>>

\* Of a record the worker can read, or cannot, the fields it takes for granted; only a
\* complete one holds a reference.
RecordForms == {"complete", "bare", "unreadable"}

NoPlan == [at |-> "none", suite |-> <<>>, type |-> "generation",
           records |-> [r \in PlanRecords |-> "bare"], estimate |-> 0]

ResultsInit == plan = NoPlan /\ work = <<>> /\ spent = 0

RefusePlan(why) == plan' = [NoPlan EXCEPT !.at = why] /\ UNCHANGED <<work, spent>>

NoFailure == [category |-> "none", kind |-> "none"]

\* The failure records of a run out of budget, and of a provider's error.
Failures ==
    {[category |-> "budget", kind |-> "invalid_request"]}
        \union {[category |-> "provider", kind |-> k] : k \in ErrorKinds}

\* A task of the natural key (run, record, repetition, snapshot); paid counts the
\* answers paid for, spoilt those that no row could have held.
NewWork == [state |-> "pending", scores |-> {}, bill |-> [amount |-> 0, money |-> "none", estimated |-> FALSE],
            failure |-> NoFailure, paid |-> 0, spoilt |-> 0]

\* create_experiment and create_run: authorisation and the version (404), the
\* provider, the seed, the prompt and the repetitions (422); then one task for
\* each record and repetition.  What each record holds is up to its publisher: the
\* schema of the dataset need not ask for what the worker reads.
CreateRun(permitted, secret, valid, suite, type, records, estimate, repetitions) ==
    /\ plan.at = "none"
    /\ IF ~permitted THEN RefusePlan("404")
       ELSE IF secret \/ ~valid THEN RefusePlan("422")
       ELSE /\ plan' = [at |-> "created", suite |-> suite, type |-> type, records |-> records,
                        estimate |-> estimate]
            /\ work' = [t \in PlanRecords \X (1..repetitions) |-> NewWork]
            /\ UNCHANGED spent

-----------------------------------------------------------------------------
(* MetricRegistry.evaluate *)

\* What the code of a metric may give; a score that breaks the output schema or
\* the range of the metric is refused like an exception; a label that is part of a
\* score (the predicted text, say) may be longer than its column.
Returns == {"score", "overlong", "unscored", "raises", "invalid"}

Known(id) == id \in DOMAIN Builtin

\* The tests before the metric is called on an answer to a record.
Applicable(id, record) ==
    /\ Known(id)
    /\ plan.type \in Builtin[id].tasks
    /\ Builtin[id].reference => plan.records[record] = "complete"

\* The status a suite entry is saved with: its errors are its own.
ScoreStatus(id, record, returned) ==
    IF ~Applicable(id, record) \/ returned \in {"raises", "invalid"} THEN "failed"
    ELSE IF returned = "unscored" THEN "missing" ELSE "succeeded"

\* The version is the definition's, which an unknown metric does not have.
ScoreVersion(id) == IF Known(id) THEN "1.0.0" ELSE "unknown"

Scored(record, returned) ==
    [i \in DOMAIN plan.suite |->
        [metric |-> plan.suite[i], version |-> ScoreVersion(plan.suite[i]),
         status |-> ScoreStatus(plan.suite[i], record, returned[i])]]

\* A metric that is called gives a label its column does not hold.
Overlong(record, returned) ==
    \E i \in DOMAIN returned : returned[i] = "overlong" /\ Applicable(plan.suite[i], record)

\* Mutant: an exception in a metric is not caught.
StorableUnlessRaised(record, fits, returned) ==
    /\ fits /\ ~Overlong(record, returned)
    /\ \A i \in DOMAIN returned : returned[i] = "raises" => ~Applicable(plan.suite[i], record)

\* Whatever a metric raises becomes its status, but the columns must hold the response
\* (fits: no NUL in its text, a currency of eight characters) and the labels.
Storable(record, fits, returned) == fits /\ ~Overlong(record, returned)

\* The unique key (sample, metric, version) of the results.
KeysDiffer(scores) ==
    \A i, j \in DOMAIN scores :
        scores[i].metric = scores[j].metric /\ scores[i].version = scores[j].version => i = j

-----------------------------------------------------------------------------
(* A delivery executes a task; a task whose delivery died is claimed again   *)
(* when its lease has expired.                                               *)

Open(t) == work[t].state \in {"pending", "running"}

OverBudget == spent + plan.estimate > Budget

\* complete_task_failure: of the category budget before the call, provider after.
FailWork(t, failure) ==
    /\ Open(t)
    /\ OverBudget <=> failure.category = "budget"
    /\ work' = [work EXCEPT ![t] = [@ EXCEPT !.state = "failed", !.failure = failure]]
    /\ UNCHANGED <<plan, spent>>

\* The bill of an answer: the estimate stands in for a cost not given.
BillOf(amount, money) ==
    [amount |-> IF amount = Unbilled THEN plan.estimate ELSE amount,
     money |-> money, estimated |-> amount = Unbilled]

\* Mutant: only what the provider bills is added to the run.
ChargeBilled(bill) == spent' = IF bill.estimated THEN spent ELSE spent + bill.amount

Charge(bill) == spent' = spent + bill.amount

\* complete_task_success: sample, response, metric results, cost record and the
\* run's total, unless the context cannot be built from the record, the columns do not
\* hold the rows, or the results break their unique key; then the delivery dies with
\* the answer.
SaveWork(t, amount, money, fits, returned) ==
    /\ Open(t) /\ ~OverBudget
    /\ work[t].paid < MaxPaid
    /\ LET scores == Scored(t[1], returned)  bill == BillOf(amount, money)
            unfit == ~fits \/ Overlong(t[1], returned)
       IN
       IF plan.records[t[1]] # "unreadable" /\ Storable(t[1], fits, returned) /\ KeysDiffer(scores)
       THEN /\ work' = [work EXCEPT ![t] =
                 [@ EXCEPT !.state = "succeeded", !.scores = ToSet(scores), !.bill = bill,
                           !.paid = work[t].paid + 1]]
            /\ Charge(bill)
       ELSE /\ work' = [work EXCEPT ![t] =
                 [@ EXCEPT !.state = "running", !.paid = work[t].paid + 1,
                           !.spoilt = work[t].spoilt + (IF unfit THEN 1 ELSE 0)]]
            /\ UNCHANGED spent
    /\ UNCHANGED plan

ResultsNext ==
    \/ \E permitted, secret, valid \in BOOLEAN, suite \in Suites, type \in TaskTypes,
          records \in [PlanRecords -> RecordForms], estimate \in Estimates,
          repetitions \in RunRepetitions :
          CreateRun(permitted, secret, valid, suite, type, records, estimate, repetitions)
    \/ \E t \in DOMAIN work :
          \/ \E f \in Failures : FailWork(t, f)
          \/ \E amount \in Bills, money \in Monies, fits \in BOOLEAN,
                returned \in [DOMAIN plan.suite -> Returns] :
                SaveWork(t, amount, money, fits, returned)

ResultsSpec == ResultsInit /\ [][ResultsNext]_resultsVars

-----------------------------------------------------------------------------
(* The views of the API *)

In(state) == {t \in DOMAIN work : work[t].state = state}

\* The sum of a column, over the entries it has.
Added(column) == MapThenSumSet(LAMBDA x : column[x], DOMAIN column)

TotalBill(tasks) == Added([t \in tasks |-> work[t].bill.amount])

\* summarize_costs: a dictionary with one entry for each currency.
BilledIn(money) == {t \in In("succeeded") : work[t].bill.money = money}

Costs ==
    LET of(money, estimated) == TotalBill({t \in BilledIn(money) : work[t].bill.estimated = estimated})
    IN  [c \in {d \in Monies : BilledIn(d) # {}} |->
            [actual |-> of(c, FALSE), estimated |-> of(c, TRUE), count |-> Cardinality(BilledIn(c))]]

\* summarize_errors: the failure records by category and kind.
FailedFor(failure) == {t \in DOMAIN work : work[t].failure = failure}

Errors ==
    [f \in {work[t].failure : t \in DOMAIN work} \ {NoFailure} |-> Cardinality(FailedFor(f))]

\* list_results: a sample of each settled task, with its response or its failure.
Samples ==
    {[task |-> t, status |-> work[t].state, failure |-> work[t].failure] :
        t \in In("succeeded") \union In("failed")}

-----------------------------------------------------------------------------
(* Properties *)

\* The reports of a run add up, whatever failed from one delivery to the next: the costs, actual and
\* estimated, in all currencies, to the total the budget is held against; their
\* counts to the successes; the errors to the failures; and a success has exactly
\* one result for each metric of the suite, of its own status.
ReportsAddUp ==
    /\ spent = Added([c \in DOMAIN Costs |-> Costs[c].actual + Costs[c].estimated])
    /\ Cardinality(In("succeeded")) = Added([c \in DOMAIN Costs |-> Costs[c].count])
    /\ Cardinality(In("failed")) = Added(Errors)
    /\ \A s \in Samples : (s.status = "failed") <=> (s.failure # NoFailure)
    /\ \A t \in In("succeeded") :
          /\ Cardinality(work[t].scores) = Len(plan.suite)
          /\ {s.metric : s \in work[t].scores} = ToSet(plan.suite)
          /\ \A s \in work[t].scores : ~Applicable(s.metric, t[1]) => s.status = "failed"

\* What a failure costs.  Where the worker can read the record and no metric is named
\* twice, every answer that was paid for is kept, but for those whose own text no row
\* can hold: no exception or invalid score of a metric, no missing reference, no metric
\* of another task, and no other record of the run costs an answer.  Where it cannot,
\* the answers to that record, or all of them, are paid for and never kept.
PaidAnswersSurvive ==
    \A t \in DOMAIN work :
        LET kept == IF work[t].state = "succeeded" THEN 1 ELSE 0 IN
        IF plan.records[t[1]] # "unreadable" /\ IsInjective(plan.suite)
        THEN work[t].paid = kept + work[t].spoilt
        ELSE kept = 0
=============================================================================
