# A TLA+ development of the evaluation platform

This directory holds TLA+ modules that model the evaluation platform of this
repository, TLC configurations that check them on small instances, and theorems
that TLAPS proves for every instance. Files below are named by their last
components.

## The system and its parts

The platform stores versioned datasets, runs experiments over them against
language-model providers, scores the answers and compares runs. State lives in
PostgreSQL; the API and the workers are stateless processes that meet only in
its rows, in a Celery queue on Redis, and in an outbox table.

| Component | State it keeps | Operations | What is hard |
|---|---|---|---|
| **Run engine** (`run_repository.py`, `worker/tasks.py`, `domain/execution.py`, migration 0003) | `evaluation_runs`, `run_state_events`, `evaluation_tasks`, samples, cost and failure records | create, start, claim, mark running, complete, fail, cancel, pause, resume | deliveries of the same run overlap; leases expire under a running call; objects are read before a lock and used after it; two transitions in one transaction |
| **Outbox relay** (`_relay_outbox`, beat) | `outbox_events` | send, mark published | sends before it commits: duplicates after a crash |
| **Run creation and results** (`application/experiments.py`, `metrics/base.py`, `routes/experiments.py`) | experiments, snapshots, runs; metric results, cost records, errors | validate, create tasks, score, save, report | one metric may fail, or be named twice, and an answer was paid for; reports add up what several tables hold |
| **Progress stream** (`routes/experiments.py`) | the session of one HTTP response | poll, emit, stop | the session keeps its objects between polls |
| **Provider calls** (`application/retry.py`, `providers/http.py`) | attempt counter | call, time out, wait, give up | limits that meet at the last attempt; exceptions that are no `ProviderError` |
| **Judges** (`evaluators/`, `routes/analysis.py`) | attempts, repairs, cost; rubrics, designs, judgments | ask, repair, retry, aggregate, schedule pairs, submit, count | three limits in one loop; ties and abstentions; two submissions of one judgment |
| **Datasets** (`application/datasets.py`, `dataset_repository.py`, `dataset_import.py`, `domain/dataset_*`) | datasets, versions, records | create, import, publish, diff, list, sample, split | version numbers under a lock; keys before and after normalisation; remainders of a stratified sample |
| **Catalog** (`application/projects.py`, the list routes, `client.py`) | projects and datasets | create, list page by page | the slug race; the answer before the commit, which other constraints may refuse; rows that appear below the cursor; two orders of record keys |
| **Audit chain** (`infrastructure/audit.py`) | `audit_events` | append | concurrent appends, several in one transaction |
| **Access control** (`domain/auth.py`, `api/dependencies.py`, `routes/access.py`) | `api_keys` | authenticate, authorize, create and revoke service accounts | the caller's own row is in the session before it is locked; two callers that revoke each other |
| **Rate limiter** (`api/middleware.py`) | Redis counters | count, expire, reject | INCR without EXPIRE, commands sent twice, clocks of several replicas |
| **Metrics** (`rag.py`, `agent.py`, `language.py`) | none (pure) | evaluate | duplicates, loops, recoveries, empty inputs |
| **Statistics** (`agreement.py`, `effects.py`, `multiplicity.py`, `calibration.py`, `diagnostics.py`) | none (pure) | agree, drift, compare, adjust | one score, no score, missing scores |
| **Comparisons and gates** (`comparisons.py`, `gates.py`, `routes/analysis.py`) | comparisons | pair, test, adjust, decide | runs that still go on, versions of a metric, missing values |
| **Command line** (`main.py`, `sdk/client.py`) | the output file | validate, send, write, print, exit | which `except` a problem leaves by; answers that do not come |
| Object store, settings, wire schemas, web UI | adapters | | I/O and wording |

Interactions: the API creates a run and its outbox row in one transaction; the
beat-driven relay turns the row into a Celery message; a worker's delivery
(`_execute_run`) starts the run and loops *claim – check budget – mark running –
call provider – complete*, each a transaction of its own; the API pauses, resumes
and cancels the run by writing the same rows. The database contributes row
locks, a trigger that only lets a run move along the graph of run states, a check
on the counters and unique keys on (run, event sequence) and on a task's sample.

What makes each component correct:

* run engine: no task is settled twice, counters and cost agree with the tasks,
  a run is declared complete only when its work is, states move along the graph,
  every run ends;
* relay: every row is sent at least once, and duplicates change nothing;
* progress stream: it shows the last state and ends with the run;
* provider calls and judges: bounded calls, waits as long as asked, everything spent is
  reported, aggregation does not depend on the order of answers, a judge counts once;
* results: the reports add up to what the run spent and did; a paid answer is kept, but for
  the losses `PaidAnswersSurvive` names;
* datasets: consecutive version numbers, unique keys, diffs that reproduce a
  version, samples of the asked size;
* audit chain: consecutive sequence numbers, each hash over its predecessor;
* access control: the log and the rows agree at every commit, revocation is idempotent;
* rate limiter: never more than the limit pass in a window, and none is refused early;
* catalog: one row for a slug, each dataset in a stored project, complete pages where the
  orders of the database and of Python agree;
* comparisons and gates: every point is accounted for, a gate's verdict is what its rules say
  of one version's shared points;
* metrics and statistics: what they say follows from the evidence and fits together;
* command line: an exit code tells what happened.

## Modules

| Module | Role |
|---|---|
| `RunLifecycle` | what a run promises to its users: state along the graph, one outcome per task, completion only when justified |
| `RunEngine` | the detailed model of one run: rows, locks, deliveries, relay, requests, failures; its properties and refinement mapping |
| `RunInvariant` | the inductive invariant `IInv` |
| `RunClaims` | statements of the documentation, those that hold for serial deliveries and those the code does not keep |
| `RunEngineProofs` | the TLAPS proofs about the engine |
| `MCRunEngine` | the engine's instances for TLC, with its `.cfg` files |
| `RunClaimsProofs` | the TLAPS proofs that need invariants of their own on top of those: leases and attempts, the cost ledger, deliveries one at a time |
| `ProgressStream` | the event stream of one response; instantiates `RunLifecycle` as the run it watches |
| `ProviderCalls` | `call_with_retry` around an HTTP adapter |
| `RunResults` | creation of a run, its suite's metrics, the records of a task, cost and error reports |
| `Verdicts` | the two aggregations of judgements, as operators on sequences of verdicts |
| `JudgeExecution` | `evaluate_with_judge`: repetitions, attempts, repairs, cost; uses `Verdicts` on its answers |
| `PairDesign` | `balanced_pair_assignments`, the consistency of reversals and the position effect |
| `Judgments` | the routes of a pairwise study: racing inserts under unique keys, and the aggregate of a study |
| `JudgeProofs` | the TLAPS proofs about verdicts, judges, designs and studies |
| `AuditChain` | `append_audit_event` and the transactions around it |
| `ServiceAccounts` | the requests on service accounts; composes with `AuditChain`, whose transactions they are |
| `AuditChainProofs` | the TLAPS proofs about both, and that the second implements the first |
| `Catalog` | creation of projects and datasets, authorisation, and the paged lists with the client that iterates them |
| `Publication` | `publish_version` by concurrent requests, and `diff_versions` over what they publish |
| `Sampling` | import of a file, plain and stratified samples |
| `CatalogProofs` | the TLAPS proofs about the three |
| `RateLimiter` | the window counter in Redis |
| `Comparisons` | comparison of two runs, families of tests, quality gates |
| `ResultProofs` | the TLAPS proofs about results, reports, comparisons, gates and the statistics of raters |
| `Metrics`, `Agreement` | the metrics of one sample and the statistics of two raters, as ratios over growing evidence |
| `Commands` | what `evalctl` does and the exit code of every way out |
| `HttpProofs` | the TLAPS proofs about provider calls, the progress stream, the commands and the rate limiter |
| `Counting` | lemmas on sums over finite sets, their products and on ranks, which the proofs about costs, counters, statistics and sorted lists cite |
| `MCServices` | the fifteen parts around the engine for TLC, one of them (`focus`) moving in each behaviour |

### How `RunEngine` corresponds to the code

One run is modelled; runs share no row but the queue. The state is the row of the
run (`run`), its events, its task rows, for each task its sample's status and
the amount of its cost record, the outbox, the queue, and for each delivery its
place in `_execute_run` (`pc`), the task it holds (`cur`), the outcome of its call
(`result`) and the run object it read before a lock (`snap`).

*One action is one transaction*, split where another transaction can come in
between: at the lock of the run inside a completion (`LockForSuccess`,
`LockForFailure`, `LockForBudget`, then `Commit…`) and at the bulk UPDATE inside
`cancel_run` (`CancelBegin`, `CancelCommit`). Row locks are derived from that
state (`TaskLocked`, `RunLocked`), `SKIP LOCKED` is the `~TaskLocked` conjunct of
`Claimable`. Where a completion and a cancellation wait for each other, PostgreSQL
aborts either (`AbortDelivery`, `AbortCancel`).

Three facts about the session decide much of the behaviour and are modelled as
they are: `autoflush=False` (`database.py`), so SELECTs inside a transaction do
not see its own pending changes (`FinalState` counts the task being settled as
active; two transitions take the same sequence number, `EventsAccepted`); a
SELECT … FOR UPDATE of a row the session holds does not refresh the object
(`StartRun`, `CommitBudget` work on `snap`); only changed columns are written at
commit (`Moved` writes the state only if the transition changed it). The trigger
and constraints are `RowAccepted` and `EventsAccepted`; a refused commit rolls the
whole transaction back. The pause, resume and cancel routes read the run before
they lock it too, but drop that object, so their lock reads afresh.

| Actions | Code |
|---|---|
| `Init` | `create_run`, `add_run` |
| `RelaySend`, `RelayCommit`, `RelayCrash` | `_relay_outbox` |
| `Receive`, `StartRun` | first session of `_execute_run`, `transition_run` |
| `LoopRead`, `Claim` | second session, `claim_next_task` |
| `BudgetRead`, `MarkRunning`, `LockForBudget`, `CommitBudget` | third session, `mark_task_running`, `complete_task_failure` |
| `CallReturns` | `call_with_retry` |
| `LockForSuccess`, `CommitSuccess`, `LockForFailure`, `CommitFailure` | `complete_task_success`, `complete_task_failure`, `_finalize_if_settled` |
| `CancelBegin`, `CancelCommit`, `AbortCancel`, `Pause`, `Resume` | the repository's operations behind the API routes |
| `Crash`, `Die`, `LeaseExpires` | lost worker (redelivered), time limit or exception (acknowledged), 120 s of a lease |

Abstractions: prompts, payloads, responses and metric results are absent; a call
succeeds at a cost or fails; time is only the expiry of leases; a delivery's
owner string is unique, so a dead one's leases belong to `Nobody`; the provider's
idempotency key is not modelled (a repeated call may be paid twice by the provider,
the platform records one cost).

### The parts around the engine

**`ProgressStream`.** `Poll` is one turn of the loop. SQLAlchemy's session keeps an
object while something refers to it, and the loop's variable `model` does between
two polls, so `Selected` is the row at the first poll and that object ever after.
`RunMoves` is any step of `RunLifecycle`, the promise `RunEngine` is proved to keep,
with its stamp.

**`JudgeExecution`.** One action per result of a call: an answer accepted or rejected,
a timeout, a provider error. Each does all the loop does with it: the usage is
charged before the cost limit is tested, the limit before the answer is validated;
timeouts and rejected answers spend a repair, provider errors do not. Delays,
messages and nonces are absent. `calls` is a history variable, the calls made.

**`PairDesign`.** The seeded shuffle becomes an arbitrary order of the cells and the
seeded bit an arbitrary side at equal counts, so a behaviour is one seed and its
prefixes are the sample sizes. Judge slot and repetition are one component of a cell.

**`AuditChain` and `ServiceAccounts`.** A transaction takes the advisory lock, reads
the head among the committed rows and those it has flushed, and flushes the next
event; the lock goes with its commit or rollback. A request on service accounts is
such a transaction, with one action per statement that can wait: the flush of a new
account, the locking SELECT of a revocation, the advisory lock, the flush of the event.
Authentication by a key sets `last_used_at`, which has two consequences the model keeps:
the caller's row is written, so locked, at the next flush (`RowsHeld`), and its
object stays in the session, so a locking SELECT of the same row does not refresh it
(`Seen`). `OtherRequest` stands for the routes that append about other subjects.

**`Publication`.** A request is checked and hashed before it takes the lock of the dataset;
`TakeNumber` waits for that lock, which `Publish` or `Lose` ends. A key is a
name and the Unicode form it is spelt in; `RepeatsKey` compares a key as sent with
the normalised ones before it, as the code does. What a hash covers stands for the
hash. The fields a diff compares (`Changes`) are not those the envelope covers.

**`ProviderCalls`.** An attempt is one exchange: what the address check, the transport, the
status or the body gave, with the `Retry-After` hint. `KindOf` maps it to the error the
adapter raises; `Retry`, `Refuse`, `Answer` are the ways through the loop. Three replies
are no `ProviderError` and leave the loop, and with it the delivery (`Escape`): a broken
HTTP protocol, a body that is not an object, and `"usage": null`; the errors
`docs/concepts/evaluation-engine.md:69` lists do not include them. Only the last error's
`ambiguous_billing` is recorded, though an earlier attempt may have been billed
(`docs/adr/0003`).

**`RateLimiter`.** A request takes its key from the clock of its replica (`Arrive`); Redis
executes INCR (`Count`), and EXPIRE for the first (`Expire`). Either command may be executed
and unheard: the client library sends INCR again (`SendAgain`), and a request may give up
or its replica go away with the command executed or not (`GiveUp`). `Tick` is Redis' time,
drops expired keys, and lets no INCR be waited for beyond `Patience`: the 65 seconds of a
key cover its window of 60, the clocks' difference and that wait (`LimiterAssumption`); the
default retries of a slow client library may exceed it, which the assumption excludes.

**`Catalog`.** `TestSlug` answers 201 with the object in the session; `CommitCreation` comes
after the answer, as the dependency commits on exit, and may displace the creation or never
come (`CreationDies`). What displaces it is `Accepted`: the unique key of the slugs; the
foreign key to a project that no handler looks up (`datasets.py:109`,
`dataset_models.py:35`); values their columns do not hold, a tag of more than 100 characters
for one (`fits`). So a 201 is worth no more than `CreationsTold` says. Identifiers increase
within one process, those of several replicas come in any order. A client reads page after
page (`ReadPage`) while rows are committed.

The records of a version are ordered by the database (`dataset_repository.py:175`) and cut at
the cursor by Python's `>` (`routes/datasets.py:369`). No model, migration or query names a
collation, and the production database is an external one, so `Versions` takes the keys in
any order: with `a`, `B`, `c` sorted as in `en_US` and pages of one, `B` is never got.
`PagesComplete` claims of records what is left: nothing is missing, repeated or out of order
but where the two orders disagree (`Misplaced`).

**`RunResults`.** `CreateRun` refuses or makes the tasks; `SaveWork` is the whole of one
success: each metric of the suite with the status of what it raised, the record of the cost
and the flush. Four things can cost the answer that was paid for, against
`docs/concepts/metric-framework.md:104`: a suite that names a metric twice violates the
unique key on (sample, metric, version) at every answer; a record the metric context cannot be
built from (`"unreadable"`, `tasks.py:211`) loses its own; a metric's label longer than its
column loses that answer (`Overlong`; `language.py:534` stores the predicted text in 200
characters), and so does a response its columns do not hold (`fits`: NUL in its text, a
currency of four letters). `PaidAnswersSurvive` says that these are all. `Costs` and
`Errors`, by category and kind, are the reports. The aggregate results, retrieval traces and trajectories of the schema are never
written; no adapter of `http.py` gives an actual cost; `actual_cost` adds amounts of all currencies.

**`Judgments`.** One action per statement that can wait: look-up, the flush of the INSERT
(which waits for another of the same key, `Clash`), the commit. Designs have no unique key
but their identifier, so no two clash. The judge's name comes from the
request. `TwiceWins` counts display positions, as `tie_adjusted_a_win_rate` does.

**`Comparisons`.** Two runs gain results (`Measure`) while one comparison is stored and a gate
evaluated on it: nothing asks the runs to have ended. A failed task has no metric rows, so
`failures_as_zero` sees failed metrics only. Fewer than two pairs end in a 500
(`RefuseComparison`). A gate keys results by metric, and the last of the sorted version
*strings* wins (`Judged`; `routes/analysis.py:481`, `gates.py:21`): 1.9.0 is judged and 1.10.0 is not.
A version is known by its place in `VersionStrings`. A pair with a value that is not finite is
left out and counted nowhere, for `compare_metric` drops the count `align_pairs` makes
(against its docstring, `models.py:102`). The interval is any pair of ends, on
either side of the mean.

**`Sampling`.** Lines are read one by one into the records of a version, a record without a
key getting the number of its row, which the formats count differently. `Quota` is the
rounding of a stratified sample, over exact ratios in place of floats. A seed's order is any fixed
order.

**`Metrics`, `Agreement`.** The input grows one document, step, word or rating per step, so a
property can compare a metric before and after; a metric is a ratio of whole numbers, a
logarithmic discount a table of weights. A retrieved item without relevance overrides the
label's 1 in nDCG (`rag.py:405`); any later success counts as a recovery
(`agent.py:157`); unpaired values enter Krippendorff's chance term (`agreement.py:64`), so
`StatisticsFit` compares it with its definition for complete ratings only.

**`Commands`.** One command of a script: options, input, request, output file, print, each with
the exit code of the `except` clause that catches its problems, and the script that
runs it again. A problem no clause catches exits with 1. That includes a JSON
file that is not UTF-8, and a message that cannot be printed (`LeaveWith`). `_emit` is inside
the `try` of each command, so a result that cannot be printed (`LoseResult`) leaves by the
same clauses (`Unshown`): an import that was published and a report that was written exit
with 3, a suite that was written with 2, a gate that failed with 1. An unreadable import
source exits with 3, a suite that cannot be written with 2 (all against
`docs/guides/cli.md:58`). Requests carry no idempotency key, so a second run after an answer
that was not seen may add a second thing; `unseen` counts those.

## Runs

Instances are in `MCRunEngine_<run>.cfg` and `MCServices_<run>.cfg`. In the engine every environment action spends an
allowance (`MaxRequests`, `MaxCrashes`, `MaxDeaths`, `MaxExpiries`,
`MaxRelayCrashes`), which bounds the state space and is the only bound.
Around the engine the bounds are `MaxVersion` (stamps of a run, which may be paused and
resumed for ever), `MaxEvents` (audit events made), `MaxRows` and `MaxLines` (records of a request, lines of
a file), `LastTick` (the time that passes), `MaxPaid` (answers paid for a task), `MaxReruns`
(of a command), `MaxRanks`, `MaxSteps`, `MaxWords`, `MaxRatings` (the evidence of a metric or statistic), and
the numbers of `Creations`, `Submissions` and `Arrivals`, and the two rules a gate has at most
(its rules are judged one by one); attempts, repetitions, repairs,
sends, page and import limits are the configuration's own.

| Run | Instance | Shows |
|---|---|---|
| `concurrent` | 2 tasks, 2 workers, 2 requests, one each of crash, death, expiry, relay crash, budget for one task | the safety properties, `IInv` and the refinement of `RunLifecycle` under all of it together |
| `serial` | 3 tasks, 1 worker, costs 0 and 1, 2 expiries | what holds when deliveries do not overlap: stamps count events, every failure counted, budget kept |
| `live` | 3 tasks, 2 workers, relay crash | every run ends, absent crashes and requests |
| `cancel_idle`, `pause`, `double_start`, `redelivery` | one or two tasks | counterexamples to statements of the documentation (below) |
| `services` | fifteen parts, 1.3 million states: a judge (2 repetitions, 3 attempts, 1 repair, prices 1, 2 and none, limit 3, 2 currencies); a design (3 variants, 3 records, 8 of 9 cells, with and without reversals); 3 submissions by 2 judges; a stream over 2 tasks; 2 requests on 2 accounts, 4 events; 2 publications of up to 2 rows; files of up to 4 lines in 3 formats, samples of every size; calls of 3 attempts, hints below and above the cap; 3 requests at 2 replicas, limit 1, windows of 2, 4 ticks; 3 creations of 4 spellings, one of them refused, datasets in 2 projects that may be stored or not: creations of one slug by themselves (`catalog`), and those of two slugs that are accepted and fit, in one project, beside one reader with pages of 1 and 2 (`lists`); the records of 4 versions in orders that agree with Python's, partly or not; a run over six suites and every form of two records, 2 answers paid for a task; pairs of six histories of a run, 3 intervals, 8 rules over the five operators, gates of one or two; every command with 2 reruns; 4 ranks, 5 steps, 3 words, 4 ratings | the 26 properties of the parts |
| `abstentions`, `progress`, `self_revoke`, `diff` | the same, one part each | counterexamples to statements of the documentation (below) |

Two workers and two tasks suffice for each race the code has: a race is between
two transactions over one run row and one task row, and the second task keeps the
run from settling with the first. Two requests allow pause–resume and
pause–cancel, one expiry lets a lease be taken over while the first call is still
out, which together with one crash gives three deliveries on a task. Three
tasks in `serial` let success, failure and over-budget failure mix.
Around the engine, 3 attempts with 1 repair
let each limit be the one that stops the loop; 3 variants give three
pairs whose cells interleave and 3 records an odd number of cells for each; two requests
are enough for each race over one lock, key or row, and a third creation, submission or arrival
comes after a winner; two rows are what one key comparison needs, and both orders of the two
spellings occur; 4 ticks let one window end, its key expire and the next begin while a
request still waits; pages of one row put every row on a page border, pages of two leave one inside;
a dataset's project is stored, stored later or never; 5 steps hold a loop of
two actions and a step beyond it; the histories have a metric that changes version midway,
up or down, failures of metric and task, no score and one that is no number; three strata of four records leave every kind of
remainder.
`CHECK_DEADLOCK FALSE` is right in every run: a run that ended, with no message
left, has nothing to do.

Fairness (`Fairness`): a worker process that can take a step takes it, Celery's
beat schedules the relay every few seconds, PostgreSQL resolves a deadlock
after its timeout, and time passes. Weak fairness suffices because each of these
stays enabled until taken. Requests, crashes, deaths and relay crashes are owed to nobody
and have none. The stream polls once a second while its
response is open (weak fairness of `Poll`); the run it watches is owed nothing, as the claim
is about runs that have ended.

### Disagreements between code and documentation

| Run | What happens |
|---|---|
| `cancel_idle` | `cancel_run` on a run with nothing running makes the transitions to `cancelling` and `cancelled` in one flush; the event sequence repeats and the trigger refuses running → cancelled; nothing is cancelled (`run_repository.py:520`, against `docs/concepts/evaluation-engine.md:100`) |
| `pause` | the completion of the last active task counts itself as active, so a pausing run never becomes paused, and pausing with nothing active is refused as above (`run_repository.py:533`, `:569`, against its docstring `:547`) |
| `double_start` | two deliveries that both read `queued` both start the run; the second repeats the event and the stamp (`tasks.py:108`, against `evaluation-engine.md:44`) |
| `redelivery` | the redelivered message comes before the lease expires, finds nothing and is acknowledged; the run stays running (`run_repository.py:299`, against `tasks.py:281`) |
| `abstentions` | `aggregate_judgments` over judgements that all abstain gives a tie (`pairwise.py:183`, against its docstring `:170`); the aggregation of one judge gives an abstention |
| `progress` | after its first poll the stream never sees the run move, so unless the run had ended by then the response stays open until the client leaves (`routes/experiments.py:584`, against `docs/design/phase-1-design.md:233`) |
| `self_revoke` | two requests of an account revoking itself both find it active, the second after waiting for the lock, and both log a revocation (`access.py:127`, `dependencies.py:81`, against its docstring `access.py:124`) |
| `diff` | the envelope covers the source row, so a record that only moved within its source is modified without changes (`canonicalization.py:176`, against `docs/concepts/versioned-datasets.md:83`) |

A fifth loss in the engine has no run of its own: the over-budget path
writes `failed_tasks` from an object read before the lock (`tasks.py:159`), so
`FailuresCounted` holds only for deliveries one after another (`serial`); under all
interleavings the count is never too high (`FailuresNeverOvercounted`).

Smaller differences, met while modelling and kept in the models as the code has them:
what an exit code means (`docs/guides/cli.md:58`), paid answers that a metric's result or a
record loses (`metric-framework.md:104`), pairs that are excluded and not reported
(`models.py:102`), a version judged for its string, errors outside the taxonomy
(`evaluation-engine.md:69`), mean average precision divided by all labels although only k
documents are asked for (`rag.py:110` against `metric-framework.md:69`), and tables that the
design names but nothing writes (`phase-1-design.md:240`).

## Proofs

`RunEngineProofs` proves for every number of tasks, finite or infinite set of
workers and all allowances, from `ConstantsAssumption` alone:

| Theorem | Statement |
|---|---|
| `InvariantHolds` | `Spec => []IInv` |
| `TypeCorrect`, `SuccessesCountedOnce`, `OneSamplePerOutcome`, `CompletionsExclusive`, `FailuresBounded`, `VerdictHonest` | `[]` of `TypeOK`, `SuccessCounted`, `SampleMatchesOutcome`, `SettlementGuarded`, `FailuresNeverOvercounted`, `CompletionIsHonest` |
| `RefinesLifecycle` | `Spec => ImplementsLifecycle` |

None of the safety properties is inductive alone. `SuccessCounted` needs that a
delivery in `settling` holds a running task nobody else can settle
(`SettlementGuarded`), which needs that a delivery past its claim names a task that
is no longer pending (`DeliveriesWellFormed`). `CompletionIsHonest` on the budget path
rests on `SnapshotsAreOld`: an object read without a lock never shows more succeeded or
failed tasks than there are now, because those sets only grow; then a verdict
reached on it (succeeded + failed = total, none cancelled) means, by cardinality,
that every task is settled (`AllTasksDone`). `StartersSawQueued` and `CancelHoldsRun`
are what the refinement needs of the two other stale readers.

The argument goes in three layers. (1) `TypeInductive`: every action keeps the
types. (2) What a step does is abstracted twice: to the deliveries and locks
(`DeliveryMoves`, `SystemMoves`), from which the guards follow (`GuardsKept`), and
to the rows, where `StepShapes` shows that each step is `Quiet` (no outcome
changes), `Settles` one task or `Cancels` open tasks; counters, snapshots, verdict
and cancellation follow from the shape (`CountsKept`, `SnapshotsKept`,
`VerdictKept`, `CancelHoldsRunKept`). (3) The same shapes map to `Move`,
`Record(t)`, `Cancel` of `RunLifecycle` or a stutter (`LifecycleStep`).

The other proof modules, each from the assumptions of its module on the constants. First the
run engine, in `RunClaimsProofs`:

| Theorem | Statement and argument |
|---|---|
| `AttemptsPaidFor`, `LeasesExclusive` | `[]` of `AttemptsJustified`, `ExclusiveUntilExpiry`, for every allowance of crashes, redeliveries and requests. A task's attempts and the starts it is still owed (one if it waits or is leased, one if its lease ran out) are at most one more than the leases that ran out (`LeasesPaid`); and no delivery names a waiting task, so without an expiry nobody claims what another holds |
| `LedgerBalances` | `[]CostLedger`: the run's cost is the sum of the cost records. Each completion changes one record and the run by the same amount; every other step leaves both (`LedgerKept`) |
| `StampsCountEvents`, `FailuresExact`, `BudgetKept` | `[]` of `VersionCountsEvents`, `FailuresCounted`, `BudgetRespected`, each from `Spec /\ []OneAtATime`. What the one delivery read before a lock is still so, or an operator has moved the run on, and then the trigger turns down what is made of the old object (`ReadsHold`, `OvertakenRejected`). `BudgetKept` also assumes that no call costs more than the estimate, and carries that whoever the check cleared still fits the budget (`BudgetInv`) |

`OneAtATime` (no two deliveries of the run under way) is not what the code guarantees: Celery
redelivers, and without it `double_start` violates the first of these and the budget path the
second. The hypothesis says under which schedule the documentation is right; one worker process
gives it (`OneWorker`), as in the run `serial`, and so do any number that do not overlap.

| Theorem of `AuditChainProofs` | Statement and argument |
|---|---|
| `ChainHolds` | `ChainSpec => []ChainUnbroken`, for any transactions and events. Inductive with the fact that only the holder of the lock has pending events: the chain of everybody else is the log |
| `AccountsUseTheLog` | `AccountsSpec => ChainSpec /\ []ChainUnbroken`: the requests on service accounts do to the log what transactions of `AuditChain` do, so its promise is theirs |
| `LogTells` | `[]LogTellsAccounts`, for any requests, races, rollbacks and deaths. What a transaction has flushed is its request's one event at most (`PendingFits`); an account being created is absent and no other request's, an account being revoked is there (`TargetsFit`) |
| `OthersRevokeOnce` | a revocation is reported once as long as no account revokes itself. The locked row then tells who may log (`RevokesExclude`): so what `self_revoke` finds needs a caller that is its own target, and nothing else brings it about |

| Theorem of `CatalogProofs` | Statement and argument |
|---|---|
| `CreationsAreTold` | `[]` of `CreationsTold`, for any creations, slugs and callers. Rows are never removed, so a slug seen stays held (`SeenIsHeld`), and no two creations share an identifier (`IdsApart`), so the row that refuses one is another's; a project that was stored when a dataset was asked for stays, so a displaced one that fits met the unique key |
| `PagesAreComplete` | `[]PagesComplete`, for any page limits, readers and rows committed meanwhile, and any order the database gives the keys of records. The items got are those up to the cursor, in order, and what was there when the reader began is got, beyond it, or hidden by one that is misplaced (`ReaderTells`) |
| `Serial`, `Whole` | `[]` of `PublicationsAreSerial`, `VersionsAreWhole`. A request that has its number is alone in having one, it is the next, and its rows were valid (`JobFits`) |
| `DiffTells` | `[]DiffTellsChanges`, for any two published versions: both directions tell the same changes, and nothing only if the content is the same. It needs that keys are unique in a version (`UniqueKeys`), which makes the diff by key total |
| `SamplesAreExact` | `[]SamplesExact`, for any file, strata, size and seed. The remainders of the quotas add up to the version's size times the seats still to give, and each is less than the size; so there are more strata with a remainder than seats, a favoured stratum has one, and no quota exceeds its stratum (`QuotasFit`) |

| Theorem of `JudgeProofs` | Statement and argument |
|---|---|
| `VerdictsAgree`, `VerdictsNeutral` | for every sequence of judgements: the two aggregations give the same verdict and count if one is usable, and exchanging the candidates exchanges the verdict. The maxima of `Max` over the occurring and over all verdicts are related first |
| `JudgeTypeCorrect`, `JudgementsAgree`, `JudgementsNeutral` | `[]` of `JudgeTypeOK` (the attempt and repair counters never leave their limits), `AggregationsAgree`, `AggregationIsNeutral` |
| `LimitsHold`, `UsageReported` | `[]` of `LimitsRespected`, `UsageIsComplete`, for any limits, prices and answers. The second says that the reported cost is the sum of what was billed, in one currency, and is reported if and only if some answer was priced. The place in the loop counts the calls of its repetition, none of them accepted, and the repairs are its unusable answers (`PlaceTells`); the tally is that of the answers that arrived (`TallyTells`) |
| `DesignBalanced`, `DesignCounted` | `[]` of `Balanced`, `CountsAreOfTheDesign`, for any records, slots, variants, order and sample size. The count of a pair's side is the cardinality of its originals; a cell taken once (`TakenOnce`) keeps identities apart |
| `BiasIsTold`, `FairLooksFair` | `[]` of `ReversalsTellBias`, `FairJudgeLooksFair`. Every reversed assignment has its original, in the other order (`TurnsTell`), so a judge that always says the same side contradicts itself on every cell, and a fair one says each side as often |
| `StudiesCount` | `[]JudgmentsCounted`, for any racing submissions. Rows stored or about to be have keys of their own (`KeysUnique`), and what a row refers to stays (`RefersToStored`); the aggregate's counts are cardinalities of those rows |

| Theorem of `HttpProofs` | Statement and argument |
|---|---|
| `CallsAreJustified` | `[]` of `CallsJustified`, for every policy, hint and sequence of failures. The strengthening is that while a call goes on its last exchange too was worth retrying (`GoesOn`) |
| `WindowIsKept` | `[]` of `WindowKept`, for any replicas, clocks, requests, losses and repetitions. A key outlives every request that may still count on it (`ClocksKept`, and `Over` once it is gone), so a counter is never below the requests let through (`PassesCounted`); and it is never above the INCRs sent less those waited for (`SendsCounted`). This is where `LimiterAssumption` is needed: with a shorter lifetime a key could go while a request of its window still waits |
| `StreamTells` | `[]EndsWithLastWord`. What was sent is the one event of the object the session keeps, and an object of an ended run is the row, as ends of the graph have no way out (`StreamInv`) |
| `CodesAreTold` | `[]CodesTell`, for every command, answers and number of reruns. Nothing is shown before the answer is a result, and a file comes before the screen (`Asking`, `Answered`); what is left at the API beyond one result was left by answers or results nobody saw (`Accounted`). A print that fails leaves by a code of its command, which tells no more than it may (`LostTells`) |

| Theorem of `ResultProofs` | Statement and argument |
|---|---|
| `AnswersSurvive`, `ReportsHold` | `[]` of `PaidAnswersSurvive`, `ReportsAddUp`, for any plan, suite, records, repetitions and currencies, and one delivery after another (that overlapping ones settle a task once is `RunEngine`'s `SuccessCounted`). Only a success has a bill, and it has a result for every metric of the suite; what was paid for a record that can be kept is kept or spoilt (`RowTells`); the run's cost is the sum of the bills; the reports' sums by currency and provider are regroupings of those (`TotalOfSums`) |
| `ComparisonsHaveAccounted` | `[]ComparisonsAccount`, for any histories and p-values. Rows of a run are only added, so what the stored comparison counted is bounded by what the runs show now (`ComparisonTells`); Holm's step-down is stated by ranks, from which order and the two bounds follow (`HolmTells`) |
| `GatesHaveEvidence` | `[]GatesJudgeEvidence`, for any histories, intervals and rules of the five operators. The comparison as stored is of one moment of the two runs, whose shared points give its counts and sums (`Moment`); the answer of a gate is that of its rules on it (`GateTells`), so it is what they demand of that moment |
| `StatisticsHold` | `[]StatisticsFit`, for any finite scale and any number of samples. Every count is a cardinality over the samples, and those of the scores add up to it (`CountsAddUp`); the products off the diagonal are the product of the sums less the diagonal (`TotalUnlike`), so the disagreement chance gives vanishes only if the raters never differ, and the two chance terms of alpha are one number |

`TypeOK`, `JudgeTypeOK`, `CountsAreOfTheDesign` and the hypotheses of `OthersRevokeOnce` are
proved about and need no run; the other properties of this section are also checked by one, and
part of `IInv` is `TypeOK`. The sums of the models are folds, whose recursion takes elements in
an order of its own; `Counting` proves what does not depend on it. The library's induction
theorems take an operator as a parameter, which the provers cannot instantiate, so `Counting`
argues by a smallest counterexample among the subsets of a finite set (`Smallest`). `SortSeq`
chooses a permutation whose existence is another induction: where the code sorts, the modules
say at which place an element comes (`InOrder` of `Catalog`, `SortedBefore` of `Comparisons`).

Trying to prove a property found what the model or its assumptions left out: that a key is never
0, which stands for no cursor (`Catalog`); that a bound of rows is a number (`Publication`); that a
score is told from the marks of what has none (`Comparisons`); and that a seed gives every
record a rank of its own (`Sampling`).

Only model-checked:

* `MetricsFollowEvidence` (`Metrics`), an action property over all metrics at once, whose edit
  distance is what a recursion computes for every input;
* `EventuallyFinished`: liveness under fairness, like `ENABLED`, is beyond the prover;
* what the documentation says and the code does not do, which no proof can show.

## Plan

1. **Done:** the run engine with relay, its abstract specification, claims and proofs, leases
   and ledger included; the progress stream; provider calls and the rate limiter; creation of
   runs, results and reports; judges, pair designs and studies; the audit chain and the service
   accounts over it; the catalog, publication, import and sampling; comparisons and gates;
   metrics, agreement; the command line. Every invariant a run checks and finds kept is
   a theorem.
2. Proofs next: of `MetricsFollowEvidence` the retrieval metrics, which are counts.
3. Where more could be modelled: dataset splits, expiry of API keys, the derivation
   of seeds, slice predicates.

## Not modelled

| What | Why |
|---|---|
| object store, settings, logging, tracing, health, demo data | input and output of whole objects, configuration and wording, without decisions of their own |
| web dashboard | forms and charts over the API; it polls a run every two seconds and keeps no state the API depends on |
| wire schemas, payload formats of providers, rendering of reports | layout; where a schema refuses, the modules accept or reject |
| benchmarking | it measures the time the code takes |
| resampled intervals, hypothesis tests, special functions, calibration error, Brier scores, clustered means | floating-point work, beyond TLC's arithmetic; `Comparisons` takes any interval and p-value |
| ROUGE, BLEU, embeddings, regular expressions, JSON Schema, classification reports | library work or text, of which no property here is about |
| expiry of API keys, the development identity | a clock and a switch in front of `Authorized` |
