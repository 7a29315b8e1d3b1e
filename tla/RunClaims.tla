------------------------------ MODULE RunClaims ------------------------------
(***************************************************************************)
(* Statements the documentation and the docstrings make about runs.  Some  *)
(* hold when one delivery executes the run at a time; some do not hold for *)
(* the code (the findings of PROJECT.json).                                *)
(***************************************************************************)
EXTENDS RunInvariant

\* "Every transition appends a sequenced state event and advances an optimistic
\* version_stamp" (docs/concepts/evaluation-engine.md:44): the stamp counts the
\* events.  The double start of two deliveries that both read "queued" is what
\* can break it.
VersionCountsEvents == run.version = Len(events)

\* failed_tasks is the number of failed tasks: "Successful and failed completion
\* take the task and run rows under locks" (docs/concepts/evaluation-engine.md:55).
\* Only deliveries one at a time keep it: the budget path writes the counter from
\* an object it read before the lock.
FailuresCounted == run.failed = Cardinality(InState({"failed"}))

\* actual_cost stays within the budget when no call costs more than estimated:
\* "It rejects work whose estimate would exceed the run budget"
\* (docs/concepts/evaluation-engine.md:85), for deliveries one at a time.
BudgetRespected == run.cost <= BudgetLimit

\* "Cancellation marks pending and leased work cancelled and lets active calls
\* finish" (docs/concepts/evaluation-engine.md:100): a cancel_run that reaches its
\* commit leaves the run cancelling or cancelled.
CancelTakesEffect ==
    [][cancel.active /\ ~cancel'.active =>
          \/ run'.state \in {"cancelling", "cancelled"}
          \/ \E w \in Workers : Deadlocked(w)]_vars

\* "Stop new dispatch and move to paused when active work is settled"
\* (run_repository.py:547): a pausing run does not stay so for ever.
PauseSettles == run.state = "pausing" ~> run.state # "pausing"
=============================================================================
