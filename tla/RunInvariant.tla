---------------------------- MODULE RunInvariant ----------------------------
(***************************************************************************)
(* The inductive invariant behind the safety properties of RunEngine: what *)
(* else is true of locks, snapshots and counters in every reachable state, *)
(* so that one step can be judged without looking at the steps before it.  *)
(***************************************************************************)
EXTENDS RunEngine

\* Places of a delivery that has claimed a task and not let go of it.
Holding == {"leased", "marking", "overbudget", "calling", "returned", "settling"}

\* A delivery that holds a task names it, and knows how its call ended when the
\* next step depends on it.
DeliveriesWellFormed ==
    \A w \in Workers :
        /\ pc[w] \in Holding => cur[w] \in Tasks /\ task[cur[w]].state # "pending"
        /\ pc[w] = "returned" => result[w] \in {"success", "failure"}
        /\ pc[w] = "settling" => result[w] # "none"

\* The object over which the budget path works never shows more settled work
\* than there is, nor a running run with cancelled tasks.
BudgetViews(w) == pc[w] = "overbudget" \/ (pc[w] = "settling" /\ result[w] = "budget")

SnapshotsAreOld ==
    \A w \in Workers : BudgetViews(w) =>
        /\ snap[w].succ <= Cardinality(InState({"succeeded"}))
        /\ snap[w].failed <= Cardinality(InState({"failed"}))
        /\ snap[w].state = "running" => snap[w].cancelled = 0

\* A delivery about to start the run read it while it was queued.
StartersSawQueued ==
    \A w \in Workers : pc[w] = "starting" => snap[w].state = "queued"

\* While cancel_run holds the run, the run stays cancellable.
CancelHoldsRun ==
    cancel.active => run.state \in {"queued", "running", "pausing", "paused"}

\* Cancelled tasks are counted only once the run is being cancelled.
CancelledOnlyWhenCancelling ==
    run.cancelled # 0 => run.state \in {"cancelling", "cancelled"}

\* The inductive invariant.
IInv ==
    /\ TypeOK
    /\ SuccessCounted
    /\ SampleMatchesOutcome
    /\ SettlementGuarded
    /\ DeliveriesWellFormed
    /\ FailuresNeverOvercounted
    /\ SnapshotsAreOld
    /\ StartersSawQueued
    /\ CancelHoldsRun
    /\ CancelledOnlyWhenCancelling
    /\ CompletionIsHonest
=============================================================================
