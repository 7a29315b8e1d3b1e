------------------------------ MODULE RunEngine ------------------------------
(***************************************************************************)
(* Execution of one evaluation run: the Celery deliveries that execute it  *)
(* (worker/tasks.py), the repository transactions they and the API make    *)
(* (infrastructure/run_repository.py), the transactional outbox and its    *)
(* relay, and the guards of the database schema (migrations/0003).         *)
(*                                                                         *)
(* One action is one database transaction, or the part of one between two  *)
(* row locks where another transaction can come in between.  The session   *)
(* factory sets autoflush=False, so a transaction's SELECTs and bulk       *)
(* UPDATEs see the rows as they are in the database, never the object's    *)
(* pending changes, which are all written at commit; and a SELECT ... FOR  *)
(* UPDATE of a row the session already holds does not refresh the object.  *)
(* snap[w] is such an object: read without a lock, used after the lock.    *)
(***************************************************************************)
EXTENDS Naturals, Sequences, FiniteSets, FiniteSetsExt

CONSTANTS
    NumTasks,          \* total_tasks of the run
    Workers,           \* the processes that execute deliveries
    Nobody,            \* the owner of a row whose owner is no live delivery
    Estimate,          \* estimated cost of one task
    Costs,             \* what the provider may charge for a call
    BudgetLimit,       \* budget_limit of the run
    MaxRequests,       \* pause, resume and cancel requests
    MaxCrashes,        \* lost worker processes (message redelivered)
    MaxDeaths,         \* deliveries ended by a time limit or an exception
    MaxExpiries,       \* leases that run out while the task is unsettled
    MaxRelayCrashes    \* relays that die after sending, before committing

Tasks == 1..NumTasks   \* in the order (record_key, repetition)

ASSUME ConstantsAssumption ==
    /\ NumTasks \in Nat \ {0}
    /\ Nobody \notin Workers
    /\ Estimate \in Nat /\ BudgetLimit \in Nat /\ Costs \subseteq Nat
    /\ MaxRequests \in Nat /\ MaxCrashes \in Nat /\ MaxDeaths \in Nat
    /\ MaxExpiries \in Nat /\ MaxRelayCrashes \in Nat

VARIABLES
    run,       \* the evaluation_runs row
    events,    \* the run_state_events rows, in the order of their sequence
    task,      \* the evaluation_tasks rows
    sample,    \* status of the task's evaluation_samples row, or "none"
    charged,   \* amount of the task's cost_records row, 0 without one
    outbox,    \* unpublished outbox_events rows
    relay,     \* rows the relay has sent and not yet marked published
    queue,     \* messages in the generation queue
    pc,        \* where each delivery is in _execute_run
    cur,       \* the task it holds, 0 without one
    snap,      \* the run object its session read before taking a lock
    result,    \* how the provider call of cur ended
    cancel,    \* the cancel_run transaction in progress
    env        \* how often the environment may still interfere

runVars == <<run, events>>
dataVars == <<task, sample, charged>>
relayVars == <<outbox, relay>>
workerVars == <<pc, cur, snap, result>>
vars == <<run, events, task, sample, charged, outbox, relay, queue,
          pc, cur, snap, result, cancel, env>>

-----------------------------------------------------------------------------
(* States *)

RunStates ==
    {"draft", "validating", "queued", "running", "pausing", "paused",
     "cancelling", "cancelled", "completed", "completed_with_errors",
     "failed"}

TerminalRunStates == {"cancelled", "completed", "completed_with_errors", "failed"}

TaskStates == {"pending", "leased", "running", "succeeded", "failed", "cancelled"}

TerminalTaskStates == {"succeeded", "failed", "cancelled"}

\* The edges the trigger enforce_run_transition lets an UPDATE take.
Guarded == [s \in RunStates |->
    CASE s = "draft"      -> {"validating"}
      [] s = "validating" -> {"draft", "queued"}
      [] s = "queued"     -> {"running", "cancelling", "failed"}
      [] s = "running"    -> {"pausing", "cancelling", "completed",
                              "completed_with_errors", "failed"}
      [] s = "pausing"    -> {"paused", "cancelling"}
      [] s = "paused"     -> {"queued", "cancelling"}
      [] s = "cancelling" -> {"cancelled"}
      [] OTHER            -> {}]

RunRow == [state : RunStates, version : Nat, succ : Nat, failed : Nat,
           cancelled : Nat, cost : Nat]

NoRun == [state |-> "draft", version |-> 0, succ |-> 0, failed |-> 0,
          cancelled |-> 0, cost |-> 0]

TaskRow == [state : TaskStates, owner : Workers \union {Nobody},
            expired : BOOLEAN, attempts : Nat]

Event == [from : RunStates \union {"none"}, to : RunStates]

Allowances == [requests : Nat, crashes : Nat, deaths : Nat, expiries : Nat,
               relayCrashes : Nat]

Places == {"idle", "starting", "loop", "claiming", "leased", "marking",
           "overbudget", "calling", "returned", "settling"}

\* The rows claim_next_task and mark_task_running write.
Leased(row, w) == [row EXCEPT !.state = "leased", !.owner = w, !.expired = FALSE]

Started(row) == [row EXCEPT !.state = "running", !.attempts = @ + 1]

-----------------------------------------------------------------------------
(* What the database sees and allows *)

InState(S) == {t \in Tasks : task[t].state \in S}

Settled(r) == r.succ + r.failed + r.cancelled

\* A settling delivery holds the row lock of its task, cancel_run that of
\* the run; every other transaction releases its locks in the same action.
TaskLocked(t) == \E w \in Workers : pc[w] = "settling" /\ cur[w] = t

RunLocked == cancel.active

\* Mutant: the schema without the transition trigger.
RowAcceptedUnguarded(new) == Settled(new) <= NumTasks

\* The commit of a run row: the trigger sees the state before and after, and
\* a check constraint bounds the counters.
RowAccepted(new) ==
    /\ new.state = run.state \/ new.state \in Guarded[run.state]
    /\ Settled(new) <= NumTasks

\* All events of one transaction take the sequence max + 1, because none is
\* flushed before the next one reads the maximum; (run_id, sequence) is unique.
EventsAccepted(news) == Len(news) <= 1

Commits(new, news) == RowAccepted(new) /\ EventsAccepted(news)

\* Mutant: the stamp is not advanced.
MovedUnstamped(row, from, target, version) == [row EXCEPT !.state = target]

Moved(row, from, target, version) ==
    IF target = from THEN row
    ELSE [row EXCEPT !.state = target, !.version = version + 1]

EventOf(from, target) ==
    IF target = from THEN << >> ELSE <<[from |-> from, to |-> target]>>

\* Mutants: the verdict ignores failures; failed tasks do not count as settled.
FinalStateIgnoringFailures(r) ==
    IF Settled(r) # NumTasks \/ r.state # "running" THEN r.state ELSE "completed"

FinalStateOfSuccesses(r) ==
    IF r.succ # NumTasks \/ r.state # "running" THEN r.state ELSE "completed"

\* _finalize_if_settled on the run object r.  The task being settled is still
\* counted among the active ones, its new state being unflushed.
FinalState(r) ==
    IF r.state = "pausing"
    THEN IF InState({"leased", "running"}) = {} THEN "paused" ELSE "pausing"
    ELSE IF Settled(r) # NumTasks THEN r.state
    ELSE IF r.state = "cancelling" THEN "cancelled"
    ELSE IF r.state # "running" THEN r.state
    ELSE IF r.failed > 0 THEN "completed_with_errors" ELSE "completed"

-----------------------------------------------------------------------------
(* Creation: ExperimentService.create_run and add_run *)

Init ==
    /\ run = [state |-> "queued", version |-> 3, succ |-> 0, failed |-> 0,
              cancelled |-> 0, cost |-> 0]
    /\ events = <<[from |-> "none", to |-> "draft"],
                  [from |-> "draft", to |-> "validating"],
                  [from |-> "validating", to |-> "queued"]>>
    /\ task = [t \in Tasks |-> [state |-> "pending", owner |-> Nobody,
                                expired |-> FALSE, attempts |-> 0]]
    /\ sample = [t \in Tasks |-> "none"]
    /\ charged = [t \in Tasks |-> 0]
    /\ outbox = 1 /\ relay = 0 /\ queue = 0
    /\ pc = [w \in Workers |-> "idle"]
    /\ cur = [w \in Workers |-> 0]
    /\ snap = [w \in Workers |-> NoRun]
    /\ result = [w \in Workers |-> "none"]
    /\ cancel = [active |-> FALSE, counted |-> 0]
    /\ env = [requests |-> MaxRequests, crashes |-> MaxCrashes,
              deaths |-> MaxDeaths, expiries |-> MaxExpiries,
              relayCrashes |-> MaxRelayCrashes]

-----------------------------------------------------------------------------
(* Outbox relay *)

\* _relay_outbox selects the unpublished rows and sends a message for each.
RelaySend ==
    /\ relay = 0 /\ outbox > 0
    /\ relay' = outbox
    /\ queue' = queue + outbox
    /\ UNCHANGED <<runVars, dataVars, outbox, workerVars, cancel, env>>

RelayCommit ==
    /\ relay > 0
    /\ outbox' = outbox - relay
    /\ relay' = 0
    /\ UNCHANGED <<runVars, dataVars, queue, workerVars, cancel, env>>

\* The messages are out and the rows stay unpublished: they are sent again.
RelayCrash ==
    /\ relay > 0 /\ env.relayCrashes > 0
    /\ relay' = 0
    /\ env' = [env EXCEPT !.relayCrashes = @ - 1]
    /\ UNCHANGED <<runVars, dataVars, outbox, queue, workerVars, cancel>>

-----------------------------------------------------------------------------
(* Deliveries: _execute_run *)

\* The delivery ends, normally or by an exception, and gives up its locks.
\* Its owner string host:pid:request-id never comes back, so the rows that
\* carry it have no live owner from here on.
Quit(w) ==
    /\ pc' = [pc EXCEPT ![w] = "idle"]
    /\ cur' = [cur EXCEPT ![w] = 0]
    /\ snap' = [snap EXCEPT ![w] = NoRun]
    /\ result' = [result EXCEPT ![w] = "none"]
    /\ task' = [t \in Tasks |-> IF task[t].owner = w
                                THEN [task[t] EXCEPT !.owner = Nobody]
                                ELSE task[t]]

\* The delivery is done with its task and goes round the loop.
Again(w) ==
    /\ pc' = [pc EXCEPT ![w] = "loop"]
    /\ cur' = [cur EXCEPT ![w] = 0]
    /\ snap' = [snap EXCEPT ![w] = NoRun]
    /\ result' = [result EXCEPT ![w] = "none"]

Goto(w, place) ==
    /\ pc' = [pc EXCEPT ![w] = place]
    /\ UNCHANGED <<cur, result>>

\* First read of the run, without a lock.
Receive(w) ==
    /\ pc[w] = "idle" /\ queue > 0
    /\ queue' = queue - 1
    /\ \/ /\ run.state = "queued"
          /\ Goto(w, "starting")
          /\ snap' = [snap EXCEPT ![w] = run]
       \/ /\ run.state = "running"
          /\ Goto(w, "loop")
          /\ UNCHANGED snap
       \/ /\ run.state \notin {"queued", "running"}
          /\ UNCHANGED workerVars
    /\ UNCHANGED <<runVars, dataVars, relayVars, cancel, env>>

\* transition_run(RUNNING): the lock is taken, the object is the one read
\* before it, so both the legality test and the version come from the snapshot.
StartRun(w) ==
    /\ pc[w] = "starting" /\ ~RunLocked
    /\ LET new == Moved(run, snap[w].state, "running", snap[w].version)
           news == EventOf(snap[w].state, "running")
       IN  IF Commits(new, news)
           THEN /\ run' = new
                /\ events' = events \o news
                /\ Again(w)
                /\ UNCHANGED task
           ELSE /\ Quit(w)
                /\ UNCHANGED runVars
    /\ UNCHANGED <<sample, charged, relayVars, queue, cancel, env>>

LoopRead(w) ==
    /\ pc[w] = "loop"
    /\ IF run.state = "running"
       THEN Goto(w, "claiming") /\ UNCHANGED <<snap, task>>
       ELSE Quit(w)
    /\ UNCHANGED <<runVars, sample, charged, relayVars, queue, cancel, env>>

\* Mutants: no row locks in the claim; a lease is taken before it expires.
ClaimableUnlocked ==
    {t \in Tasks : \/ task[t].state = "pending"
                   \/ task[t].state \in {"leased", "running"} /\ task[t].expired}

ClaimableUnexpired ==
    {t \in Tasks : ~TaskLocked(t) /\ task[t].state \in {"pending", "leased", "running"}}

Claimable ==
    {t \in Tasks : /\ ~TaskLocked(t)
                   /\ \/ task[t].state = "pending"
                      \/ task[t].state \in {"leased", "running"} /\ task[t].expired}

\* claim_next_task and its commit.  The run is not looked at again.
Claim(w) ==
    /\ pc[w] = "claiming"
    /\ \/ /\ Claimable = {}
          /\ Quit(w)
       \/ \E t \in Claimable :
             /\ \A u \in Claimable : t <= u
             /\ task' = [task EXCEPT ![t] = Leased(@, w)]
             /\ pc' = [pc EXCEPT ![w] = "leased"]
             /\ cur' = [cur EXCEPT ![w] = t]
             /\ UNCHANGED <<snap, result>>
    /\ UNCHANGED <<runVars, sample, charged, relayVars, queue, cancel, env>>

\* Mutant: the estimate is left out of the comparison.
BudgetReadWithoutEstimate(w) ==
    /\ pc[w] = "leased"
    /\ IF run.cost > BudgetLimit
       THEN Goto(w, "overbudget") /\ snap' = [snap EXCEPT ![w] = run]
       ELSE Goto(w, "marking") /\ UNCHANGED snap
    /\ UNCHANGED <<runVars, dataVars, relayVars, queue, cancel, env>>

\* The budget check reads the run without a lock; over budget, the object it
\* read stays in the session of the transaction that fails the task.
BudgetRead(w) ==
    /\ pc[w] = "leased"
    /\ IF run.cost + Estimate > BudgetLimit
       THEN Goto(w, "overbudget") /\ snap' = [snap EXCEPT ![w] = run]
       ELSE Goto(w, "marking") /\ UNCHANGED snap
    /\ UNCHANGED <<runVars, dataVars, relayVars, queue, cancel, env>>

\* mark_task_running finds the row only while the lease is the delivery's own.
OwnsLease(w) == task[cur[w]].state = "leased" /\ task[cur[w]].owner = w

MarkRunning(w) ==
    /\ pc[w] = "marking" /\ ~TaskLocked(cur[w])
    /\ IF OwnsLease(w)
       THEN /\ task' = [task EXCEPT ![cur[w]] = Started(@)]
            /\ Goto(w, "calling")
            /\ UNCHANGED snap
       ELSE Quit(w)
    /\ UNCHANGED <<runVars, sample, charged, relayVars, queue, cancel, env>>

\* call_with_retry returns a response or raises a ProviderError.
CallReturns(w) ==
    /\ pc[w] = "calling"
    /\ \E r \in {"success", "failure"} : result' = [result EXCEPT ![w] = r]
    /\ pc' = [pc EXCEPT ![w] = "returned"]
    /\ UNCHANGED <<runVars, dataVars, relayVars, queue, cur, snap, cancel, env>>

\* Mutants: completion without the test of the task's state.
LockForSuccessUntested(w) ==
    /\ pc[w] = "returned" /\ result[w] = "success" /\ ~TaskLocked(cur[w])
    /\ Goto(w, "settling")
    /\ UNCHANGED <<runVars, dataVars, relayVars, queue, snap, cancel, env>>

LockForFailureUntested(w) ==
    /\ pc[w] = "returned" /\ result[w] = "failure" /\ ~TaskLocked(cur[w])
    /\ Goto(w, "settling")
    /\ UNCHANGED <<runVars, dataVars, relayVars, queue, snap, cancel, env>>

\* complete_task_success up to the lock of the run: the task row is locked and
\* its state tested (a sample already there ends it early).  There is no owner
\* test.
LockForSuccess(w) ==
    /\ pc[w] = "returned" /\ result[w] = "success" /\ ~TaskLocked(cur[w])
    /\ \/ /\ task[cur[w]].state = "succeeded"
          /\ Again(w)
          /\ UNCHANGED task
       \/ /\ task[cur[w]].state = "running"
          /\ IF sample[cur[w]] = "none"
             THEN Goto(w, "settling") /\ UNCHANGED <<snap, task>>
             ELSE Again(w) /\ task' = [task EXCEPT ![cur[w]].state = "succeeded"]
       \/ /\ task[cur[w]].state \notin {"succeeded", "running"}
          /\ Quit(w)
    /\ UNCHANGED <<runVars, sample, charged, relayVars, queue, cancel, env>>

\* complete_task_failure up to the lock of the run.
LockForFailure(w) ==
    /\ pc[w] = "returned" /\ result[w] = "failure" /\ ~TaskLocked(cur[w])
    /\ IF task[cur[w]].state \in TerminalTaskStates
       THEN Again(w)
       ELSE Goto(w, "settling") /\ UNCHANGED snap
    /\ UNCHANGED <<runVars, dataVars, relayVars, queue, cancel, env>>

\* mark_task_running and complete_task_failure in one transaction, up to the
\* lock of the run: in the database the task stays leased until the commit.
LockForBudget(w) ==
    /\ pc[w] = "overbudget" /\ ~TaskLocked(cur[w])
    /\ IF OwnsLease(w)
       THEN /\ pc' = [pc EXCEPT ![w] = "settling"]
            /\ result' = [result EXCEPT ![w] = "budget"]
            /\ UNCHANGED <<cur, snap, task>>
       ELSE Quit(w)
    /\ UNCHANGED <<runVars, sample, charged, relayVars, queue, cancel, env>>

\* Mutant: the cost record is committed before the run is locked.
SettleTaskInTwo(w, seen, row, newTask, amount) ==
    LET t == cur[w]
        new == Moved(row, seen.state, FinalState(seen), seen.version)
        news == EventOf(seen.state, FinalState(seen))
    IN  /\ charged' = [charged EXCEPT ![t] = @ + amount]
        /\ IF Commits(new, news)
           THEN /\ run' = new
                /\ events' = events \o news
                /\ task' = [task EXCEPT ![t] = newTask]
                /\ sample' = [sample EXCEPT ![t] = newTask.state]
                /\ Again(w)
           ELSE /\ Quit(w)
                /\ UNCHANGED <<runVars, sample>>

\* The end of every completion: _finalize_if_settled on the object seen, whose
\* changed columns row holds, then the commit of run, event, task and sample.
SettleTask(w, seen, row, newTask, amount) ==
    LET t == cur[w]
        new == Moved(row, seen.state, FinalState(seen), seen.version)
        news == EventOf(seen.state, FinalState(seen))
    IN  IF Commits(new, news)
        THEN /\ run' = new
             /\ events' = events \o news
             /\ task' = [task EXCEPT ![t] = newTask]
             /\ sample' = [sample EXCEPT ![t] =
                              IF @ = "none" THEN newTask.state ELSE @]
             /\ charged' = [charged EXCEPT ![t] = @ + amount]
             /\ Again(w)
        ELSE /\ Quit(w)
             /\ UNCHANGED <<runVars, sample, charged>>

CommitSuccess(w) ==
    /\ pc[w] = "settling" /\ result[w] = "success" /\ ~RunLocked
    /\ \E c \in Costs :
          LET seen == [run EXCEPT !.succ = @ + 1, !.cost = @ + c]
          IN  SettleTask(w, seen, seen,
                         [task[cur[w]] EXCEPT !.state = "succeeded"], c)
    /\ UNCHANGED <<relayVars, queue, cancel, env>>

\* Mutant: a pausing run is returned early, before the failure is counted.
CommitFailureUncounted(w) ==
    /\ pc[w] = "settling" /\ result[w] = "failure" /\ ~RunLocked
    /\ LET seen == IF run.state = "pausing" THEN run ELSE [run EXCEPT !.failed = @ + 1]
       IN  SettleTask(w, seen, seen,
                      [task[cur[w]] EXCEPT !.state = "failed"], 0)
    /\ UNCHANGED <<relayVars, queue, cancel, env>>

CommitFailure(w) ==
    /\ pc[w] = "settling" /\ result[w] = "failure" /\ ~RunLocked
    /\ LET seen == [run EXCEPT !.failed = @ + 1]
       IN  SettleTask(w, seen, seen,
                      [task[cur[w]] EXCEPT !.state = "failed"], 0)
    /\ UNCHANGED <<relayVars, queue, cancel, env>>

\* The run object is the snapshot: failed_tasks is written from it, the other
\* counters are not written, and the run is finalised on what it showed.
CommitBudget(w) ==
    /\ pc[w] = "settling" /\ result[w] = "budget" /\ ~RunLocked
    /\ LET seen == [snap[w] EXCEPT !.failed = @ + 1]
       IN  SettleTask(w, seen, [run EXCEPT !.failed = seen.failed],
                      [Started(task[cur[w]]) EXCEPT !.state = "failed"], 0)
    /\ UNCHANGED <<relayVars, queue, cancel, env>>

-----------------------------------------------------------------------------
(* Failures of the environment *)

\* The worker process is lost: task_reject_on_worker_lost requeues the message.
Crash(w) ==
    /\ pc[w] # "idle" /\ env.crashes > 0
    /\ Quit(w)
    /\ queue' = queue + 1
    /\ env' = [env EXCEPT !.crashes = @ - 1]
    /\ UNCHANGED <<runVars, sample, charged, relayVars, cancel>>

\* A time limit or an exception _execute_run does not catch ends the delivery;
\* the message is acknowledged.
Die(w) ==
    /\ pc[w] # "idle" /\ env.deaths > 0
    /\ Quit(w)
    /\ env' = [env EXCEPT !.deaths = @ - 1]
    /\ UNCHANGED <<runVars, sample, charged, relayVars, queue, cancel>>

\* The 120 seconds of a lease pass; nothing renews it.
LeaseExpires(t) ==
    /\ task[t].state \in {"leased", "running"} /\ ~task[t].expired
    /\ env.expiries > 0
    /\ task' = [task EXCEPT ![t].expired = TRUE]
    /\ env' = [env EXCEPT !.expiries = @ - 1]
    /\ UNCHANGED <<runVars, sample, charged, relayVars, queue, workerVars, cancel>>

-----------------------------------------------------------------------------
(* Operator requests *)

TakeRequest ==
    /\ env.requests > 0
    /\ env' = [env EXCEPT !.requests = @ - 1]

\* cancel_run up to its bulk UPDATE: the run is locked, the tasks are counted.
CancelBegin ==
    /\ TakeRequest /\ ~RunLocked
    /\ run.state \in {"queued", "running", "pausing", "paused"}
    /\ cancel' = [active |-> TRUE,
                  counted |-> Cardinality(InState({"pending", "leased"}))]
    /\ UNCHANGED <<runVars, dataVars, relayVars, queue, workerVars>>

\* The bulk UPDATE waits for the locks of the rows it matches.  With no task
\* running, the second transition joins the first in the same flush.
CancelCommit ==
    /\ cancel.active
    /\ \A t \in InState({"pending", "leased"}) : ~TaskLocked(t)
    /\ LET target == IF InState({"running"}) = {} THEN "cancelled" ELSE "cancelling"
           first == EventOf(run.state, "cancelling")
           second == EventOf("cancelling", target)
           new == [run EXCEPT !.state = target,
                              !.version = @ + Len(first) + Len(second),
                              !.cancelled = @ + cancel.counted]
       IN  IF Commits(new, first \o second)
           THEN /\ run' = new
                /\ events' = events \o first \o second
                /\ task' = [t \in Tasks |->
                              IF task[t].state \in {"pending", "leased"}
                              THEN [task[t] EXCEPT !.state = "cancelled"]
                              ELSE task[t]]
           ELSE UNCHANGED <<run, events, task>>
    /\ cancel' = [active |-> FALSE, counted |-> 0]
    /\ UNCHANGED <<sample, charged, relayVars, queue, workerVars, env>>

\* A settling delivery waits for the run that cancel_run holds, cancel_run for
\* the task it holds: the database aborts one of the two.
Deadlocked(w) ==
    /\ RunLocked /\ pc[w] = "settling"
    /\ task[cur[w]].state \in {"pending", "leased"}

AbortDelivery(w) ==
    /\ Deadlocked(w)
    /\ Quit(w)
    /\ UNCHANGED <<runVars, sample, charged, relayVars, queue, cancel, env>>

AbortCancel ==
    /\ \E w \in Workers : Deadlocked(w)
    /\ cancel' = [active |-> FALSE, counted |-> 0]
    /\ UNCHANGED <<runVars, dataVars, relayVars, queue, workerVars, env>>

Pause ==
    /\ TakeRequest /\ ~RunLocked
    /\ run.state = "running"
    /\ LET target == IF InState({"leased", "running"}) = {} THEN "paused" ELSE "pausing"
           news == EventOf("running", "pausing") \o EventOf("pausing", target)
           new == [run EXCEPT !.state = target, !.version = @ + Len(news)]
       IN  IF Commits(new, news)
           THEN run' = new /\ events' = events \o news
           ELSE UNCHANGED runVars
    /\ UNCHANGED <<dataVars, relayVars, queue, workerVars, cancel>>

\* resume_run queues a paused run again and announces it; any other state is
\* rejected by the transition table.
Resume ==
    /\ TakeRequest /\ ~RunLocked
    /\ IF run.state = "paused"
       THEN /\ run' = Moved(run, "paused", "queued", run.version)
            /\ events' = events \o EventOf("paused", "queued")
            /\ outbox' = outbox + 1
       ELSE UNCHANGED <<run, events, outbox>>
    /\ UNCHANGED <<dataVars, relay, queue, workerVars, cancel>>

-----------------------------------------------------------------------------
(* Specifications *)

Step(w) ==
    \/ Receive(w) \/ StartRun(w) \/ LoopRead(w) \/ Claim(w) \/ BudgetRead(w)
    \/ MarkRunning(w) \/ CallReturns(w)
    \/ LockForSuccess(w) \/ LockForFailure(w) \/ LockForBudget(w)
    \/ CommitSuccess(w) \/ CommitFailure(w) \/ CommitBudget(w)

Next ==
    \/ \E w \in Workers : Step(w)
    \/ \E w \in Workers : Crash(w)
    \/ \E w \in Workers : Die(w)
    \/ \E w \in Workers : AbortDelivery(w)
    \/ \E t \in Tasks : LeaseExpires(t)
    \/ RelaySend \/ RelayCommit \/ RelayCrash
    \/ CancelBegin \/ CancelCommit \/ AbortCancel
    \/ Pause \/ Resume

Spec == Init /\ [][Next]_vars

\* Workers, the beat-driven relay, the API process and the clock keep going;
\* operators, crashes and uncaught exceptions owe nothing.  A lease that can
\* expire does expire, as often as the bound allows.
Fairness ==
    /\ \A w \in Workers : WF_vars(Step(w))
    /\ \A w \in Workers : WF_vars(AbortDelivery(w))
    /\ \A t \in Tasks : WF_vars(LeaseExpires(t))
    /\ WF_vars(RelaySend) /\ WF_vars(RelayCommit) /\ WF_vars(CancelCommit)

FairSpec == Spec /\ Fairness
-----------------------------------------------------------------------------
(* Properties *)

\* Every variable has its shape.
TypeOK ==
    /\ run \in RunRow
    /\ events \in Seq(Event)
    /\ task \in [Tasks -> TaskRow]
    /\ sample \in [Tasks -> {"none", "succeeded", "failed"}]
    /\ charged \in [Tasks -> Nat]
    /\ outbox \in Nat /\ relay \in Nat /\ relay <= outbox /\ queue \in Nat
    /\ pc \in [Workers -> Places]
    /\ cur \in [Workers -> Tasks \union {0}]
    /\ snap \in [Workers -> RunRow]
    /\ result \in [Workers -> {"none", "success", "failure", "budget"}]
    /\ cancel \in [active : BOOLEAN, counted : Nat]
    /\ env \in Allowances

\* succeeded_tasks is the number of succeeded tasks in every state, whatever
\* deliveries overlap, die or lose their lease: no success is counted twice and
\* none is lost, although any delivery may complete any running task.
SuccessCounted == run.succ = Cardinality(InState({"succeeded"}))

\* A task has a sample exactly when a delivery settled it, with the status it
\* settled with: redelivered and overtaken calls leave no second result, and a
\* cancelled task has none.
SampleMatchesOutcome ==
    \A t \in Tasks :
        sample[t] = IF task[t].state \in {"succeeded", "failed"}
                    THEN task[t].state ELSE "none"

\* actual_cost is the sum of the cost records, though completions of several
\* workers add to it and the budget path writes the same row from a stale object.
CostLedger == run.cost = MapThenSumSet(LAMBDA t : charged[t], Tasks)

\* failed_tasks never exceeds the number of failed tasks, whatever stale value
\* the budget path writes it from.
FailuresNeverOvercounted == run.failed <= Cardinality(InState({"failed"}))

\* A run declared complete has all its work: "completed" only when every task
\* succeeded, "completed_with_errors" only when every task succeeded or failed
\* and one failed, even when the verdict was reached on a stale run object.
CompletionIsHonest ==
    /\ run.state = "completed" =>
          \A t \in Tasks : task[t].state = "succeeded"
    /\ run.state = "completed_with_errors" =>
          /\ \A t \in Tasks : task[t].state \in {"succeeded", "failed"}
          /\ \E t \in Tasks : task[t].state = "failed"

\* A completion in progress holds its task alone, and the task can still be
\* settled the way the completion is about to: nothing between its test of the
\* task and its commit invalidates the test.
SettlementGuarded ==
    \A w \in Workers : pc[w] = "settling" =>
        /\ \A v \in Workers : pc[v] = "settling" /\ cur[v] = cur[w] => v = w
        /\ result[w] = "success" => task[cur[w]].state = "running"
        /\ result[w] = "failure" => task[cur[w]].state \in {"leased", "running"}
        /\ result[w] = "budget" => task[cur[w]].state = "leased"

\* Each attempt beyond the first is paid for by an expired lease.
AttemptsJustified ==
    \A t \in Tasks : task[t].attempts <= 1 + (MaxExpiries - env.expiries)

\* Until a lease expires, a task is worked on by one delivery only.
ExclusiveUntilExpiry ==
    env.expiries = MaxExpiries =>
        \A v, w \in Workers : cur[v] = cur[w] /\ cur[v] # 0 => v = w

\* Every run ends.
EventuallyFinished == <>(run.state \in TerminalRunStates)

(* The run as its users see it. *)
Lifecycle == INSTANCE RunLifecycle WITH
    state <- run.state,
    outcome <- [t \in Tasks |-> IF task[t].state \in TerminalTaskStates
                                THEN task[t].state ELSE "open"]

\* Run and tasks evolve as RunLifecycle says: along the graph, each task settled
\* once, completion only when justified.
ImplementsLifecycle == Lifecycle!Spec
=============================================================================
