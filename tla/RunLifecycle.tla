---------------------------- MODULE RunLifecycle ----------------------------
(***************************************************************************)
(* What the run engine promises about one evaluation run, seen from its    *)
(* outside: the state of the run and the one outcome of each of its tasks. *)
(* The graph is ALLOWED_RUN_TRANSITIONS of the domain, which the database  *)
(* trigger repeats.  Leases, workers, locks, messages and counters do not  *)
(* exist here; RunEngine implements this specification.                    *)
(***************************************************************************)
EXTENDS Naturals

CONSTANT Tasks                \* the tasks of the run

VARIABLES
    state,                    \* the state of the run
    outcome                   \* [Tasks -> Outcomes], "open" until settled

vars == <<state, outcome>>

RunStates ==
    {"draft", "validating", "queued", "running", "pausing", "paused",
     "cancelling", "cancelled", "completed", "completed_with_errors",
     "failed"}

Allowed == [s \in RunStates |->
    CASE s = "draft"      -> {"validating"}
      [] s = "validating" -> {"draft", "queued"}
      [] s = "queued"     -> {"running", "cancelling", "failed"}
      [] s = "running"    -> {"pausing", "cancelling", "completed",
                              "completed_with_errors", "failed"}
      [] s = "pausing"    -> {"paused", "cancelling"}
      [] s = "paused"     -> {"queued", "cancelling"}
      [] s = "cancelling" -> {"cancelled"}
      [] OTHER            -> {}]

TerminalRunStates == {"cancelled", "completed", "completed_with_errors", "failed"}

Outcomes == {"open", "succeeded", "failed", "cancelled"}

-----------------------------------------------------------------------------
(***************************************************************************)
(* A run may only be declared complete when every task has its outcome:    *)
(* "completed" when all succeeded, "completed_with_errors" when some task  *)
(* failed and none was cancelled.                                          *)
(***************************************************************************)
Justified(s, o) ==
    /\ s = "completed" => \A t \in Tasks : o[t] = "succeeded"
    /\ s = "completed_with_errors" =>
          /\ \A t \in Tasks : o[t] \in {"succeeded", "failed"}
          /\ \E t \in Tasks : o[t] = "failed"

TypeOK ==
    /\ state \in RunStates
    /\ outcome \in [Tasks -> Outcomes]

Init ==
    /\ state = "queued"
    /\ outcome = [t \in Tasks |-> "open"]

\* The run moves along one edge of the graph, or keeps its state.
MayMove == state' = state \/ state' \in Allowed[state]

\* Worker: one open task gets its outcome; the last one may end the run.
Record(t) ==
    /\ outcome[t] = "open"
    /\ \E r \in {"succeeded", "failed"} : outcome' = [outcome EXCEPT ![t] = r]
    /\ MayMove
    /\ Justified(state', outcome')

\* Operator or worker: the run moves and no task is touched.
Move ==
    /\ state' \in Allowed[state]
    /\ UNCHANGED outcome
    /\ Justified(state', outcome)

\* Operator: cancellation closes some of the open tasks.
Cancel ==
    /\ state' = "cancelling"
    /\ "cancelling" \in Allowed[state]
    /\ \E C \in SUBSET {t \in Tasks : outcome[t] = "open"} :
          outcome' = [t \in Tasks |-> IF t \in C THEN "cancelled" ELSE outcome[t]]

Next == Move \/ Cancel \/ \E t \in Tasks : Record(t)

Spec == Init /\ [][Next]_vars
=============================================================================
