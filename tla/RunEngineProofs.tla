-------------------------- MODULE RunEngineProofs --------------------------
(***************************************************************************)
(* Proofs about RunEngine, for any number of tasks and workers and for any *)
(* number of requests, crashes, expiries and duplicate messages.           *)
(***************************************************************************)
EXTENDS RunInvariant, FiniteSetTheorems, SequenceTheorems, TLAPS

-----------------------------------------------------------------------------
(* Finite sets of tasks *)

\* The run has NumTasks tasks.
LEMMA TasksFinite == IsFiniteSet(Tasks) /\ Cardinality(Tasks) = NumTasks
  <1>1. NumTasks \in Int /\ 1 \in Int /\ NumTasks >= 1
    BY ConstantsAssumption
  <1> QED
    BY <1>1, FS_Interval DEF Tasks

\* Tasks in given states can be counted.
LEMMA InStateFinite ==
    ASSUME NEW S
    PROVE  IsFiniteSet(InState(S)) /\ Cardinality(InState(S)) \in Nat
  <1>1. InState(S) \in SUBSET Tasks
    BY DEF InState
  <1> QED
    BY <1>1, TasksFinite, FS_Subset, FS_CardinalityType

-----------------------------------------------------------------------------
(* Type correctness *)

\* One transaction's events are events.
LEMMA EventOfType ==
    ASSUME NEW a \in RunStates, NEW b \in RunStates
    PROVE  EventOf(a, b) \in Seq(Event)
  <1>1. [from |-> a, to |-> b] \in Event
    BY DEF Event
  <1> QED
    BY <1>1 DEF EventOf

\* A move keeps the row a row.
LEMMA MovedType ==
    ASSUME NEW r \in RunRow, NEW a \in RunStates, NEW b \in RunStates, NEW n \in Nat
    PROVE  Moved(r, a, b, n) \in RunRow
  <1> DEFINE q == [r EXCEPT !.state = b]
  <1>1. q \in RunRow
    BY DEF RunRow
  <1> HIDE DEF q
  <1>2. [q EXCEPT !.version = n + 1] \in RunRow
    BY <1>1 DEF RunRow
  <1> QED
    BY <1>2 DEF Moved, q

\* The verdict is a run state.
LEMMA FinalStateType ==
    ASSUME NEW r \in RunRow
    PROVE  FinalState(r) \in RunStates
  BY DEF FinalState, RunRow, RunStates

\* A delivery that ends leaves typed rows.
LEMMA QuitType ==
    ASSUME TypeOK, NEW w \in Workers, Quit(w)
    PROVE  /\ task' \in [Tasks -> TaskRow]
           /\ pc' \in [Workers -> Places]
           /\ cur' \in [Workers -> Tasks \union {0}]
           /\ snap' \in [Workers -> RunRow]
           /\ result' \in [Workers -> {"none", "success", "failure", "budget"}]
  <1>1. NoRun \in RunRow
    BY DEF NoRun, RunRow, RunStates
  <1>2. ASSUME NEW t \in Tasks
        PROVE  task[t] \in TaskRow /\ [task[t] EXCEPT !.owner = Nobody] \in TaskRow
    <2>1. task[t] \in TaskRow
      BY DEF TypeOK
    <2> QED
      BY <2>1 DEF TaskRow
  <1> QED
    BY <1>1, <1>2 DEF TypeOK, Quit, Places

\* A delivery that goes round the loop leaves typed variables.
LEMMA AgainType ==
    ASSUME TypeOK, NEW w \in Workers, Again(w)
    PROVE  /\ pc' \in [Workers -> Places]
           /\ cur' \in [Workers -> Tasks \union {0}]
           /\ snap' \in [Workers -> RunRow]
           /\ result' \in [Workers -> {"none", "success", "failure", "budget"}]
  <1>1. NoRun \in RunRow
    BY DEF NoRun, RunRow, RunStates
  <1> QED
    BY <1>1 DEF TypeOK, Again, Places

\* A completion leaves typed rows, committed or not.
LEMMA SettleType ==
    ASSUME TypeOK, NEW w \in Workers, NEW seen \in RunRow, NEW row \in RunRow,
           NEW newTask \in TaskRow, newTask.state \in {"succeeded", "failed"},
           NEW amount \in Nat, SettleTask(w, seen, row, newTask, amount)
    PROVE  /\ run' \in RunRow
           /\ events' \in Seq(Event)
           /\ task' \in [Tasks -> TaskRow]
           /\ sample' \in [Tasks -> {"none", "succeeded", "failed"}]
           /\ charged' \in [Tasks -> Nat]
           /\ pc' \in [Workers -> Places]
           /\ cur' \in [Workers -> Tasks \union {0}]
           /\ snap' \in [Workers -> RunRow]
           /\ result' \in [Workers -> {"none", "success", "failure", "budget"}]
  <1> DEFINE target == FinalState(seen)
             new == Moved(row, seen.state, target, seen.version)
             news == EventOf(seen.state, target)
  <1>1. target \in RunStates /\ seen.state \in RunStates /\ seen.version \in Nat
    BY FinalStateType DEF RunRow
  <1>2. new \in RunRow /\ news \in Seq(Event)
    BY <1>1, MovedType, EventOfType
  <1>3. CASE Commits(new, news)
    <2>1. /\ run' = new
          /\ events' = events \o news
          /\ task' = [task EXCEPT ![cur[w]] = newTask]
          /\ sample' = [sample EXCEPT ![cur[w]] = IF @ = "none" THEN newTask.state ELSE @]
          /\ charged' = [charged EXCEPT ![cur[w]] = @ + amount]
          /\ Again(w)
      BY <1>3 DEF SettleTask
    <2>2. events' \in Seq(Event)
      BY <2>1, <1>2, ConcatProperties DEF TypeOK
    <2>3. /\ task' \in [Tasks -> TaskRow]
          /\ sample' \in [Tasks -> {"none", "succeeded", "failed"}]
      BY <2>1 DEF TypeOK
    <2>4. CASE cur[w] \in Tasks
      <3>1. charged[cur[w]] \in Nat
        BY <2>4 DEF TypeOK
      <3>2. charged' \in [Tasks -> Nat]
        BY <2>1, <2>4, <3>1 DEF TypeOK
      <3> QED
        BY <2>1, <2>2, <2>3, <3>2, <1>2, AgainType
    <2>5. CASE cur[w] \notin Tasks
      <3>1. charged' \in [Tasks -> Nat]
        BY <2>1, <2>5 DEF TypeOK
      <3> QED
        BY <2>1, <2>2, <2>3, <3>1, <1>2, AgainType
    <2> QED
      BY <2>4, <2>5
  <1>4. CASE ~Commits(new, news)
    <2>1. Quit(w) /\ UNCHANGED <<runVars, sample, charged>>
      BY <1>4 DEF SettleTask
    <2> QED
      BY <2>1, QuitType DEF runVars, TypeOK
  <1> QED
    BY <1>3, <1>4

\* Counting keeps the row a row.
LEMMA CountersType ==
    ASSUME NEW r \in RunRow, NEW c \in Nat
    PROVE  /\ [r EXCEPT !.succ = @ + 1, !.cost = @ + c] \in RunRow
           /\ [r EXCEPT !.failed = @ + 1] \in RunRow
           /\ [r EXCEPT !.failed = c] \in RunRow
  <1> DEFINE q == [r EXCEPT !.succ = @ + 1]
  <1>1. q \in RunRow
    BY DEF RunRow
  <1> HIDE DEF q
  <1>2. [q EXCEPT !.cost = @ + c] \in RunRow
    BY <1>1 DEF RunRow
  <1>3. /\ [r EXCEPT !.failed = @ + 1] \in RunRow
        /\ [r EXCEPT !.failed = c] \in RunRow
    BY DEF RunRow
  <1>4. r.cost = q.cost
    BY DEF RunRow, q
  <1> QED
    BY <1>2, <1>3, <1>4 DEF q

\* One field of a row at a time.
LEMMA StateRowType ==
    ASSUME NEW r \in TaskRow, NEW s \in TaskStates
    PROVE  [r EXCEPT !.state = s] \in TaskRow
  BY DEF TaskRow

\* A lease that runs out leaves the task row a task row.
LEMMA ExpiredRowType ==
    ASSUME NEW r \in TaskRow
    PROVE  [r EXCEPT !.expired = TRUE] \in TaskRow
  BY DEF TaskRow

\* The rows of a claim and of a start of work.
LEMMA TaskRowType ==
    ASSUME NEW r \in TaskRow, NEW w \in Workers
    PROVE  Leased(r, w) \in TaskRow /\ Started(r) \in TaskRow
  <1> DEFINE q(s) == [r EXCEPT !.state = s]
             p == [q("leased") EXCEPT !.owner = w]
  <1>1. {"leased", "running"} \subseteq TaskStates
    BY DEF TaskStates
  <1>2. \A s \in TaskStates : q(s) \in TaskRow /\ q(s).attempts = r.attempts
    BY StateRowType DEF TaskRow
  <1> HIDE DEF q
  <1>3. p \in TaskRow
    BY <1>1, <1>2 DEF TaskRow
  <1> HIDE DEF p
  <1>4. [p EXCEPT !.expired = FALSE] \in TaskRow
    BY <1>3 DEF TaskRow
  <1>5. [q("running") EXCEPT !.attempts = @ + 1] \in TaskRow
    BY <1>1, <1>2 DEF TaskRow
  <1> QED
    BY <1>1, <1>2, <1>4, <1>5 DEF p, q, Leased, Started

\* The rows a pause and a cancellation write.
LEMMA StampRowType ==
    ASSUME NEW r \in RunRow, NEW s \in RunStates, NEW n \in Nat
    PROVE  [r EXCEPT !.state = s, !.version = @ + n] \in RunRow
  <1> DEFINE q == [r EXCEPT !.state = s]
  <1>1. q \in RunRow /\ r.version = q.version
    BY DEF RunRow
  <1> HIDE DEF q
  <1>2. [q EXCEPT !.version = @ + n] \in RunRow
    BY <1>1 DEF RunRow
  <1> QED
    BY <1>1, <1>2 DEF q

\* The run row cancel_run writes is a run row.
LEMMA CancelRowType ==
    ASSUME NEW r \in RunRow, NEW s \in RunStates, NEW m \in Nat, NEW n \in Nat, NEW k \in Nat
    PROVE  [r EXCEPT !.state = s, !.version = @ + m + n, !.cancelled = @ + k] \in RunRow
  <1> DEFINE q == [r EXCEPT !.state = s]
             p == [q EXCEPT !.version = @ + m + n]
  <1>1. q \in RunRow /\ r.version = q.version
    BY DEF RunRow
  <1> HIDE DEF q
  <1>2. p \in RunRow
    BY <1>1 DEF RunRow
  <1>3. r.cancelled = p.cancelled
    BY DEF RunRow, p, q
  <1> HIDE DEF p
  <1>4. [p EXCEPT !.cancelled = @ + k] \in RunRow
    BY <1>2 DEF RunRow
  <1> QED
    BY <1>1, <1>3, <1>4 DEF p, q

\* Using up an allowance.
LEMMA AllowanceType ==
    ASSUME env \in Allowances
    PROVE  /\ env.requests > 0 => [env EXCEPT !.requests = @ - 1] \in Allowances
           /\ env.crashes > 0 => [env EXCEPT !.crashes = @ - 1] \in Allowances
           /\ env.deaths > 0 => [env EXCEPT !.deaths = @ - 1] \in Allowances
           /\ env.expiries > 0 => [env EXCEPT !.expiries = @ - 1] \in Allowances
           /\ env.relayCrashes > 0 => [env EXCEPT !.relayCrashes = @ - 1] \in Allowances
  BY DEF Allowances

\* Every step keeps every variable in its type.
LEMMA TypeInductive == TypeOK /\ DeliveriesWellFormed /\ [Next]_vars => TypeOK'
  <1> SUFFICES ASSUME TypeOK, DeliveriesWellFormed, [Next]_vars PROVE TypeOK'
    OBVIOUS
  <1> USE DEF runVars, dataVars, relayVars, workerVars
  <1>1. ASSUME NEW w \in Workers, Receive(w) PROVE TypeOK'
    <2>1. queue' \in Nat
      BY <1>1 DEF Receive, TypeOK
    <2>2. CASE Goto(w, "starting") /\ snap' = [snap EXCEPT ![w] = run]
      BY <1>1, <2>1, <2>2 DEF Receive, Goto, TypeOK, Places
    <2>3. CASE Goto(w, "loop") /\ UNCHANGED snap
      BY <1>1, <2>1, <2>3 DEF Receive, Goto, TypeOK, Places
    <2>4. CASE UNCHANGED workerVars
      BY <1>1, <2>1, <2>4 DEF Receive, TypeOK
    <2> QED
      BY <1>1, <2>2, <2>3, <2>4 DEF Receive
  <1>2. ASSUME NEW w \in Workers, StartRun(w) PROVE TypeOK'
    <2> DEFINE new == Moved(run, snap[w].state, "running", snap[w].version)
               news == EventOf(snap[w].state, "running")
    <2>1. snap[w].state \in RunStates /\ snap[w].version \in Nat /\ "running" \in RunStates
      BY DEF TypeOK, RunRow, RunStates
    <2>2. new \in RunRow /\ news \in Seq(Event)
      BY <2>1, MovedType, EventOfType DEF TypeOK
    <2>3. events \o news \in Seq(Event)
      BY <2>2, ConcatProperties DEF TypeOK
    <2>4. CASE Commits(new, news)
      <3>1. /\ run' = new /\ events' = events \o news /\ Again(w)
            /\ UNCHANGED <<task, sample, charged, outbox, relay, queue, cancel, env>>
        BY <1>2, <2>4 DEF StartRun
      <3> QED
        BY <3>1, <2>2, <2>3, AgainType DEF TypeOK
    <2>5. CASE ~Commits(new, news)
      <3>1. /\ Quit(w)
            /\ UNCHANGED <<run, events, sample, charged, outbox, relay, queue, cancel, env>>
        BY <1>2, <2>5 DEF StartRun
      <3> QED
        BY <3>1, QuitType DEF TypeOK
    <2> QED
      BY <2>4, <2>5
  <1>3. ASSUME NEW w \in Workers, LoopRead(w) PROVE TypeOK'
    <2>1. CASE run.state = "running"
      BY <1>3, <2>1 DEF LoopRead, Goto, TypeOK, Places
    <2>2. CASE run.state # "running"
      BY <1>3, <2>2, QuitType DEF LoopRead, TypeOK
    <2> QED
      BY <2>1, <2>2
  <1>4. ASSUME NEW w \in Workers, Claim(w) PROVE TypeOK'
    <2>1. CASE Claimable = {} /\ Quit(w)
      BY <1>4, <2>1, QuitType DEF Claim, TypeOK
    <2>2. ASSUME NEW t \in Claimable,
                 task' = [task EXCEPT ![t] = Leased(@, w)],
                 pc' = [pc EXCEPT ![w] = "leased"],
                 cur' = [cur EXCEPT ![w] = t],
                 UNCHANGED <<snap, result>>
          PROVE  TypeOK'
      <3>1. t \in Tasks /\ task[t] \in TaskRow
        BY DEF Claimable, TypeOK
      <3>2. Leased(task[t], w) \in TaskRow
        BY <3>1, TaskRowType
      <3>3. task' \in [Tasks -> TaskRow]
        BY <2>2, <3>1, <3>2 DEF TypeOK
      <3> QED
        BY <1>4, <2>2, <3>1, <3>3 DEF Claim, TypeOK, Places
    <2> QED
      BY <1>4, <2>1, <2>2 DEF Claim
  <1>5. ASSUME NEW w \in Workers, BudgetRead(w) PROVE TypeOK'
    <2>1. \/ Goto(w, "overbudget") /\ snap' = [snap EXCEPT ![w] = run]
          \/ Goto(w, "marking") /\ snap' = snap
      BY <1>5 DEF BudgetRead
    <2>2. snap' \in [Workers -> RunRow]
      BY <2>1 DEF TypeOK
    <2>3. pc' \in [Workers -> Places] /\ cur' = cur /\ result' = result
      BY <2>1 DEF TypeOK, Goto, Places
    <2>4. UNCHANGED <<runVars, dataVars, relayVars, queue, cancel, env>>
      BY <1>5 DEF BudgetRead
    <2> QED
      BY <2>2, <2>3, <2>4 DEF TypeOK, runVars, dataVars, relayVars
  <1>6. ASSUME NEW w \in Workers, MarkRunning(w) PROVE TypeOK'
    <2>1. CASE OwnsLease(w)
      <3>1. /\ task' = [task EXCEPT ![cur[w]] = Started(@)]
            /\ Goto(w, "calling") /\ UNCHANGED snap
        BY <1>6, <2>1 DEF MarkRunning
      <3>2. cur[w] \in Tasks /\ task[cur[w]] \in TaskRow
        BY <1>6 DEF MarkRunning, DeliveriesWellFormed, Holding, TypeOK
      <3>3. Started(task[cur[w]]) \in TaskRow
        BY <3>2, TaskRowType
      <3>4. task' \in [Tasks -> TaskRow]
        BY <3>1, <3>2, <3>3 DEF TypeOK
      <3> QED
        BY <1>6, <3>1, <3>4 DEF MarkRunning, Goto, TypeOK, Places
    <2>2. CASE ~OwnsLease(w)
      BY <1>6, <2>2, QuitType DEF MarkRunning, TypeOK
    <2> QED
      BY <2>1, <2>2
  <1>7. ASSUME NEW w \in Workers, CallReturns(w) PROVE TypeOK'
    BY <1>7 DEF CallReturns, TypeOK, Places
  <1>8. ASSUME NEW w \in Workers, LockForSuccess(w) PROVE TypeOK'
    <2>1. CASE task[cur[w]].state = "succeeded" /\ Again(w) /\ UNCHANGED task
      BY <1>8, <2>1, AgainType DEF LockForSuccess, TypeOK
    <2>2. CASE Goto(w, "settling") /\ UNCHANGED <<snap, task>>
      BY <1>8, <2>2 DEF LockForSuccess, Goto, TypeOK, Places
    <2>3. CASE Again(w) /\ task' = [task EXCEPT ![cur[w]].state = "succeeded"]
      <3>1. \A t \in Tasks : [task[t] EXCEPT !.state = "succeeded"] \in TaskRow
        BY StateRowType DEF TypeOK, TaskStates
      <3>2. task' \in [Tasks -> TaskRow]
        BY <2>3, <3>1 DEF TypeOK
      <3> QED
        BY <1>8, <2>3, <3>2, AgainType DEF LockForSuccess, TypeOK
    <2>4. CASE Quit(w)
      BY <1>8, <2>4, QuitType DEF LockForSuccess, TypeOK
    <2> QED
      BY <1>8, <2>1, <2>2, <2>3, <2>4 DEF LockForSuccess
  <1>9. ASSUME NEW w \in Workers, LockForFailure(w) PROVE TypeOK'
    <2>1. CASE Again(w)
      BY <1>9, <2>1, AgainType DEF LockForFailure, TypeOK
    <2>2. CASE Goto(w, "settling") /\ UNCHANGED snap
      BY <1>9, <2>2 DEF LockForFailure, Goto, TypeOK, Places
    <2> QED
      BY <1>9, <2>1, <2>2 DEF LockForFailure
  <1>10. ASSUME NEW w \in Workers, LockForBudget(w) PROVE TypeOK'
    <2>1. CASE OwnsLease(w)
      BY <1>10, <2>1 DEF LockForBudget, TypeOK, Places
    <2>2. CASE ~OwnsLease(w)
      BY <1>10, <2>2, QuitType DEF LockForBudget, TypeOK
    <2> QED
      BY <2>1, <2>2
  <1>11. ASSUME NEW w \in Workers, CommitSuccess(w) PROVE TypeOK'
    <2> DEFINE seen(c) == [run EXCEPT !.succ = @ + 1, !.cost = @ + c]
               done == [task[cur[w]] EXCEPT !.state = "succeeded"]
    <2>1. PICK c \in Costs : SettleTask(w, seen(c), seen(c), done, c)
      BY <1>11 DEF CommitSuccess
    <2>2. c \in Nat /\ seen(c) \in RunRow
      BY ConstantsAssumption, CountersType DEF TypeOK
    <2>3. task[cur[w]] \in TaskRow
      BY <1>11 DEF CommitSuccess, DeliveriesWellFormed, Holding, TypeOK
    <2>4. done \in TaskRow
      BY <2>3, StateRowType DEF TaskStates
    <2>5. done.state = "succeeded"
      BY <2>3 DEF TaskRow
    <2> HIDE DEF seen, done
    <2> QED
      BY <1>11, <2>1, <2>2, <2>4, <2>5, SettleType DEF CommitSuccess, TypeOK
  <1>12. ASSUME NEW w \in Workers, CommitFailure(w) PROVE TypeOK'
    <2> DEFINE seen == [run EXCEPT !.failed = @ + 1]
               done == [task[cur[w]] EXCEPT !.state = "failed"]
    <2>1. SettleTask(w, seen, seen, done, 0)
      BY <1>12 DEF CommitFailure
    <2>2. seen \in RunRow
      BY CountersType DEF TypeOK
    <2>3. task[cur[w]] \in TaskRow
      BY <1>12 DEF CommitFailure, DeliveriesWellFormed, Holding, TypeOK
    <2>4. done \in TaskRow
      BY <2>3, StateRowType DEF TaskStates
    <2>5. done.state = "failed"
      BY <2>3 DEF TaskRow
    <2> HIDE DEF seen, done
    <2> QED
      BY <1>12, <2>1, <2>2, <2>4, <2>5, SettleType DEF CommitFailure, TypeOK
  <1>13. ASSUME NEW w \in Workers, CommitBudget(w) PROVE TypeOK'
    <2> DEFINE seen == [snap[w] EXCEPT !.failed = @ + 1]
               row == [run EXCEPT !.failed = seen.failed]
               done == [Started(task[cur[w]]) EXCEPT !.state = "failed"]
    <2>1. SettleTask(w, seen, row, done, 0)
      BY <1>13 DEF CommitBudget
    <2>2. seen \in RunRow
      BY CountersType DEF TypeOK
    <2>3. seen.failed \in Nat
      BY <2>2 DEF RunRow
    <2>4. row \in RunRow
      BY <2>3, CountersType DEF TypeOK
    <2>5. task[cur[w]] \in TaskRow
      BY <1>13 DEF CommitBudget, DeliveriesWellFormed, Holding, TypeOK
    <2>6. done \in TaskRow /\ done.state = "failed"
      <3>1. Started(task[cur[w]]) \in TaskRow
        BY <2>5, TaskRowType
      <3>2. done \in TaskRow
        BY <3>1, StateRowType DEF TaskStates
      <3> QED
        BY <3>1, <3>2 DEF TaskRow
    <2> HIDE DEF seen, row, done
    <2> QED
      BY <1>13, <2>1, <2>2, <2>4, <2>6, SettleType DEF CommitBudget, TypeOK
  <1>14. ASSUME NEW w \in Workers, Crash(w) PROVE TypeOK'
    <2>1. env' \in Allowances
      BY <1>14, AllowanceType DEF Crash, TypeOK
    <2> QED
      BY <1>14, <2>1, QuitType DEF Crash, TypeOK
  <1>15. ASSUME NEW w \in Workers, Die(w) PROVE TypeOK'
    <2>1. env' \in Allowances
      BY <1>15, AllowanceType DEF Die, TypeOK
    <2> QED
      BY <1>15, <2>1, QuitType DEF Die, TypeOK
  <1>16. ASSUME NEW w \in Workers, AbortDelivery(w) PROVE TypeOK'
    BY <1>16, QuitType DEF AbortDelivery, TypeOK
  <1>17. ASSUME NEW t \in Tasks, LeaseExpires(t) PROVE TypeOK'
    <2>1. [task[t] EXCEPT !.expired = TRUE] \in TaskRow
      BY ExpiredRowType DEF TypeOK
    <2>2. task' \in [Tasks -> TaskRow]
      BY <1>17, <2>1 DEF LeaseExpires, TypeOK
    <2>3. env' \in Allowances
      BY <1>17, AllowanceType DEF LeaseExpires, TypeOK
    <2> QED
      BY <1>17, <2>2, <2>3 DEF LeaseExpires, TypeOK
  <1>18. CASE RelaySend
    BY <1>18 DEF RelaySend, TypeOK
  <1>18a. CASE RelayCommit
    BY <1>18a DEF RelayCommit, TypeOK
  <1>18b. CASE RelayCrash
    <2>1. env' \in Allowances
      BY <1>18b, AllowanceType DEF RelayCrash, TypeOK
    <2> QED
      BY <1>18b, <2>1 DEF RelayCrash, TypeOK
  <1>19. CASE CancelBegin
    <2>1. env' \in Allowances
      BY <1>19, AllowanceType DEF CancelBegin, TakeRequest, TypeOK
    <2>2. cancel' \in [active : BOOLEAN, counted : Nat]
      BY <1>19, InStateFinite DEF CancelBegin
    <2> QED
      BY <1>19, <2>1, <2>2 DEF CancelBegin, TypeOK
  <1>20. CASE CancelCommit
    <2> DEFINE target == IF InState({"running"}) = {} THEN "cancelled" ELSE "cancelling"
               first == EventOf(run.state, "cancelling")
               second == EventOf("cancelling", target)
               new == [run EXCEPT !.state = target,
                                  !.version = @ + Len(first) + Len(second),
                                  !.cancelled = @ + cancel.counted]
    <2>1. CASE Commits(new, first \o second)
      <3>1. run.state \in RunStates /\ target \in RunStates /\ "cancelling" \in RunStates
        BY DEF TypeOK, RunRow, RunStates
      <3>2. first \in Seq(Event) /\ second \in Seq(Event)
        BY <3>1, EventOfType
      <3>3. Len(first) \in Nat /\ Len(second) \in Nat /\ cancel.counted \in Nat
        BY <3>2, LenProperties DEF TypeOK
      <3>4. new \in RunRow
        BY <3>1, <3>3, CancelRowType DEF TypeOK
      <3>5. (events \o first) \o second \in Seq(Event)
        BY <3>2, ConcatProperties DEF TypeOK
      <3>6. \A t \in Tasks : [task[t] EXCEPT !.state = "cancelled"] \in TaskRow
        BY StateRowType DEF TypeOK, TaskStates
      <3>6a. task' = [t \in Tasks |-> IF task[t].state \in {"pending", "leased"}
                                     THEN [task[t] EXCEPT !.state = "cancelled"]
                                     ELSE task[t]]
        BY <1>20, <2>1 DEF CancelCommit
      <3>7. task' \in [Tasks -> TaskRow]
        BY <3>6, <3>6a DEF TypeOK
      <3>8. run' = new /\ events' = (events \o first) \o second
        BY <1>20, <2>1 DEF CancelCommit
      <3> HIDE DEF target, first, second, new
      <3> QED
        BY <1>20, <3>4, <3>5, <3>7, <3>8 DEF CancelCommit, TypeOK
    <2>2. CASE ~Commits(new, first \o second)
      <3>1. UNCHANGED <<run, events, task>>
        BY <1>20, <2>2 DEF CancelCommit
      <3> QED
        BY <1>20, <3>1 DEF CancelCommit, TypeOK
    <2> QED
      BY <2>1, <2>2
  <1>21. CASE AbortCancel
    BY <1>21 DEF AbortCancel, TypeOK
  <1>22. CASE Pause
    <2> DEFINE target == IF InState({"leased", "running"}) = {} THEN "paused" ELSE "pausing"
               news == EventOf("running", "pausing") \o EventOf("pausing", target)
               new == [run EXCEPT !.state = target, !.version = @ + Len(news)]
    <2>1. env' \in Allowances
      BY <1>22, AllowanceType DEF Pause, TakeRequest, TypeOK
    <2>2. {"running", "pausing", target} \subseteq RunStates
      BY DEF RunStates
    <2>3. news \in Seq(Event)
      BY <2>2, EventOfType, ConcatProperties
    <2>4. Len(news) \in Nat
      BY <2>3, LenProperties
    <2>5. new \in RunRow
      BY <2>2, <2>4, StampRowType DEF TypeOK
    <2>6. events \o news \in Seq(Event)
      BY <2>3, ConcatProperties DEF TypeOK
    <2>7. \/ run' = new /\ events' = events \o news
          \/ run' = run /\ events' = events
      BY <1>22 DEF Pause
    <2> HIDE DEF target, news, new
    <2> QED
      BY <1>22, <2>1, <2>5, <2>6, <2>7 DEF Pause, TypeOK
  <1>23. CASE Resume
    <2>1. env' \in Allowances
      BY <1>23, AllowanceType DEF Resume, TakeRequest, TypeOK
    <2>2. run.version \in Nat /\ {"paused", "queued"} \subseteq RunStates
      BY DEF TypeOK, RunRow, RunStates
    <2>3. Moved(run, "paused", "queued", run.version) \in RunRow
      BY <2>2, MovedType DEF TypeOK
    <2>4. events \o EventOf("paused", "queued") \in Seq(Event)
      BY <2>2, EventOfType, ConcatProperties DEF TypeOK
    <2>5. /\ run' \in RunRow /\ events' \in Seq(Event)
          /\ outbox' \in Nat /\ relay <= outbox'
      <3>1. CASE run.state = "paused"
        <4>1. /\ run' = Moved(run, "paused", "queued", run.version)
              /\ events' = events \o EventOf("paused", "queued")
              /\ outbox' = outbox + 1
          BY <1>23, <3>1 DEF Resume
        <4> QED
          BY <4>1, <2>3, <2>4 DEF TypeOK
      <3>2. CASE run.state # "paused"
        <4>1. UNCHANGED <<run, events, outbox>>
          BY <1>23, <3>2 DEF Resume
        <4> QED
          BY <4>1 DEF TypeOK
      <3> QED
        BY <3>1, <3>2
    <2> QED
      BY <1>23, <2>1, <2>5 DEF Resume, TypeOK
  <1>24. CASE UNCHANGED vars
    BY <1>24 DEF vars, TypeOK
  <1> QED
    BY <1>1, <1>2, <1>3, <1>4, <1>5, <1>6, <1>7, <1>8, <1>9, <1>10, <1>11, <1>12,
       <1>13, <1>14, <1>15, <1>16, <1>17, <1>18, <1>18a, <1>18b, <1>19, <1>20, <1>21, <1>22,
       <1>23, <1>24 DEF Next, Step

-----------------------------------------------------------------------------
(* What a step of one delivery does to the deliveries *)

\* The step of w leaves the other deliveries and the tasks they lock alone.
OthersKept(w) ==
    \A v \in Workers \ {w} :
        /\ pc'[v] = pc[v] /\ cur'[v] = cur[v]
        /\ snap'[v] = snap[v] /\ result'[v] = result[v]
        /\ pc[v] = "settling" => task'[cur[v]].state = task[cur[v]].state

\* Where the step of w may leave w itself.
OwnMove(w) ==
    \/ pc'[w] \in {"idle", "loop", "claiming"}
    \/ pc'[w] = "starting" /\ snap'[w] = run /\ run.state = "queued"
    \/ /\ pc'[w] \in Holding \ {"settling"}
       /\ cur'[w] \in Tasks /\ task'[cur'[w]].state # "pending"
       /\ pc'[w] = "returned" => result'[w] \in {"success", "failure"}
       /\ pc'[w] = "overbudget" => snap'[w] = run
    \/ /\ pc'[w] = "settling"
       /\ cur'[w] = cur[w] /\ cur[w] \in Tasks /\ task' = task
       /\ ~TaskLocked(cur[w])
       /\ task[cur[w]].state # "pending"
       /\ \/ result'[w] = "success" /\ task[cur[w]].state = "running"
          \/ result'[w] = "failure" /\ task[cur[w]].state \in {"leased", "running"}
          \/ /\ result'[w] = "budget" /\ task[cur[w]].state = "leased"
             /\ pc[w] = "overbudget" /\ snap'[w] = snap[w]

\* No task becomes pending again.
NeverPendingAgain ==
    \A t \in Tasks : task[t].state # "pending" => task'[t].state # "pending"

DeliveryMove(w) == OthersKept(w) /\ OwnMove(w) /\ NeverPendingAgain

\* Ending a delivery changes no state of a task and nothing of the others.
LEMMA QuitEffect ==
    ASSUME TypeOK, NEW w \in Workers, Quit(w)
    PROVE  /\ \A t \in Tasks : task'[t].state = task[t].state
           /\ pc'[w] = "idle"
           /\ \A v \in Workers \ {w} :
                 /\ pc'[v] = pc[v] /\ cur'[v] = cur[v]
                 /\ snap'[v] = snap[v] /\ result'[v] = result[v]
  <1>1. \A t \in Tasks : task[t] \in TaskRow
    BY DEF TypeOK
  <1>2. \A t \in Tasks : [task[t] EXCEPT !.owner = Nobody].state = task[t].state
    BY <1>1 DEF TaskRow
  <1> QED
    BY <1>2 DEF TypeOK, Quit

\* What going round the loop does to the delivery's variables.
LEMMA AgainEffect ==
    ASSUME TypeOK, NEW w \in Workers, Again(w)
    PROVE  /\ pc'[w] = "loop"
           /\ \A v \in Workers \ {w} :
                 /\ pc'[v] = pc[v] /\ cur'[v] = cur[v]
                 /\ snap'[v] = snap[v] /\ result'[v] = result[v]
  BY DEF TypeOK, Again

\* A settling delivery names a task.
LEMMA SettlingNamesTask ==
    ASSUME DeliveriesWellFormed, NEW w \in Workers, pc[w] = "settling"
    PROVE  cur[w] \in Tasks
  BY DEF DeliveriesWellFormed, Holding

\* Ending a delivery is a delivery move.
LEMMA QuitMoves ==
    ASSUME TypeOK, DeliveriesWellFormed, NEW w \in Workers, Quit(w)
    PROVE  DeliveryMove(w)
  BY QuitEffect, SettlingNamesTask DEF DeliveryMove, OthersKept, OwnMove, NeverPendingAgain

\* Going round the loop without touching a task is one.
LEMMA AgainMoves ==
    ASSUME TypeOK, NEW w \in Workers, Again(w), UNCHANGED task
    PROVE  DeliveryMove(w)
  BY AgainEffect DEF DeliveryMove, OthersKept, OwnMove, NeverPendingAgain

\* Writing one row that no other delivery locks.
LEMMA OneRow ==
    ASSUME TypeOK, NEW t \in Tasks, NEW r \in TaskRow, task' = [task EXCEPT ![t] = r]
    PROVE  /\ task'[t].state = r.state
           /\ \A u \in Tasks \ {t} : task'[u] = task[u]
  BY DEF TypeOK

\* The states of the rows written.
LEMMA RowStates ==
    ASSUME NEW r \in TaskRow, NEW w \in Workers
    PROVE  Leased(r, w).state = "leased" /\ Started(r).state = "running"
  BY DEF Leased, Started, TaskRow

\* A completion is a delivery move.
LEMMA SettleMoves ==
    ASSUME TypeOK, DeliveriesWellFormed, SettlementGuarded,
           NEW w \in Workers, pc[w] = "settling", NEW seen, NEW row,
           NEW newTask \in TaskRow, newTask.state \in {"succeeded", "failed"},
           NEW amount, SettleTask(w, seen, row, newTask, amount)
    PROVE  DeliveryMove(w)
  <1>1. cur[w] \in Tasks
    BY SettlingNamesTask
  <1>2. \A v \in Workers \ {w} : pc[v] = "settling" => cur[v] \in Tasks \ {cur[w]}
    BY SettlingNamesTask DEF SettlementGuarded
  <1>3. CASE Again(w) /\ task' = [task EXCEPT ![cur[w]] = newTask]
    <2>1. /\ task'[cur[w]].state = newTask.state
          /\ \A u \in Tasks \ {cur[w]} : task'[u] = task[u]
      BY <1>1, <1>3, OneRow
    <2> QED
      BY <1>2, <1>3, <2>1, AgainEffect
         DEF DeliveryMove, OthersKept, OwnMove, NeverPendingAgain
  <1>4. CASE Quit(w)
    BY <1>4, QuitMoves
  <1> QED
    BY <1>3, <1>4 DEF SettleTask

\* Every step of a delivery is one.
LEMMA DeliveryMoves ==
    ASSUME TypeOK, DeliveriesWellFormed, SettlementGuarded, NEW w \in Workers,
           Step(w) \/ Crash(w) \/ Die(w) \/ AbortDelivery(w)
    PROVE  DeliveryMove(w)
  <1> USE DEF runVars, dataVars, relayVars, workerVars
  <1>1. CASE Receive(w)
    <2>1. UNCHANGED task
      BY <1>1 DEF Receive
    <2>2. CASE Goto(w, "starting") /\ snap' = [snap EXCEPT ![w] = run] /\ run.state = "queued"
      BY <2>1, <2>2 DEF Goto, TypeOK, DeliveryMove, OthersKept, OwnMove, NeverPendingAgain
    <2>3. CASE Goto(w, "loop") /\ UNCHANGED snap
      BY <2>1, <2>3 DEF Goto, TypeOK, DeliveryMove, OthersKept, OwnMove, NeverPendingAgain
    <2>4. CASE UNCHANGED workerVars /\ pc[w] = "idle"
      BY <2>1, <2>4 DEF TypeOK, DeliveryMove, OthersKept, OwnMove, NeverPendingAgain
    <2> QED
      BY <1>1, <2>2, <2>3, <2>4 DEF Receive
  <1>2. CASE StartRun(w)
    BY <1>2, AgainMoves, QuitMoves DEF StartRun
  <1>3. CASE LoopRead(w)
    <2>1. CASE Goto(w, "claiming") /\ UNCHANGED <<snap, task>>
      BY <2>1 DEF Goto, TypeOK, DeliveryMove, OthersKept, OwnMove, NeverPendingAgain
    <2> QED
      BY <1>3, <2>1, QuitMoves DEF LoopRead
  <1>4. CASE Claim(w)
    <2>1. ASSUME NEW t \in Claimable,
                 task' = [task EXCEPT ![t] = Leased(@, w)],
                 pc' = [pc EXCEPT ![w] = "leased"],
                 cur' = [cur EXCEPT ![w] = t],
                 UNCHANGED <<snap, result>>
          PROVE  DeliveryMove(w)
      <3>1. t \in Tasks /\ task[t] \in TaskRow /\ ~TaskLocked(t)
        BY DEF Claimable, TypeOK
      <3>2. Leased(task[t], w) \in TaskRow /\ Leased(task[t], w).state = "leased"
        BY <3>1, TaskRowType, RowStates
      <3>3. task'[t].state = "leased" /\ \A u \in Tasks \ {t} : task'[u] = task[u]
        BY <2>1, <3>1, <3>2, OneRow
      <3>4. \A v \in Workers : pc[v] = "settling" => cur[v] \in Tasks \ {t}
        BY <3>1, SettlingNamesTask DEF TaskLocked
      <3> QED
        BY <2>1, <3>1, <3>3, <3>4
           DEF TypeOK, DeliveryMove, OthersKept, OwnMove, NeverPendingAgain, Holding
    <2> QED
      BY <1>4, <2>1, QuitMoves DEF Claim
  <1>5. CASE BudgetRead(w)
    <2>1. UNCHANGED task /\ cur[w] \in Tasks /\ task[cur[w]].state # "pending"
      BY <1>5 DEF BudgetRead, DeliveriesWellFormed, Holding
    <2>2. CASE Goto(w, "overbudget") /\ snap' = [snap EXCEPT ![w] = run]
      BY <2>1, <2>2
         DEF Goto, TypeOK, DeliveryMove, OthersKept, OwnMove, NeverPendingAgain, Holding
    <2>3. CASE Goto(w, "marking") /\ UNCHANGED snap
      BY <2>1, <2>3
         DEF Goto, TypeOK, DeliveryMove, OthersKept, OwnMove, NeverPendingAgain, Holding
    <2> QED
      BY <1>5, <2>2, <2>3 DEF BudgetRead
  <1>6. CASE MarkRunning(w)
    <2>1. CASE /\ task' = [task EXCEPT ![cur[w]] = Started(@)]
               /\ Goto(w, "calling") /\ UNCHANGED snap
      <3>1. cur[w] \in Tasks /\ task[cur[w]] \in TaskRow /\ ~TaskLocked(cur[w])
        BY <1>6 DEF MarkRunning, DeliveriesWellFormed, Holding, TypeOK
      <3>2. Started(task[cur[w]]) \in TaskRow /\ Started(task[cur[w]]).state = "running"
        BY <3>1, TaskRowType, RowStates
      <3>3. task'[cur[w]].state = "running" /\ \A u \in Tasks \ {cur[w]} : task'[u] = task[u]
        BY <2>1, <3>1, <3>2, OneRow
      <3>4. \A v \in Workers : pc[v] = "settling" => cur[v] \in Tasks \ {cur[w]}
        BY <3>1, SettlingNamesTask DEF TaskLocked
      <3> QED
        BY <2>1, <3>1, <3>3, <3>4
           DEF Goto, TypeOK, DeliveryMove, OthersKept, OwnMove, NeverPendingAgain, Holding
    <2> QED
      BY <1>6, <2>1, QuitMoves DEF MarkRunning
  <1>7. CASE CallReturns(w)
    <2>1. UNCHANGED task /\ cur[w] \in Tasks /\ task[cur[w]].state # "pending"
      BY <1>7 DEF CallReturns, DeliveriesWellFormed, Holding
    <2> QED
      BY <1>7, <2>1
         DEF CallReturns, TypeOK, DeliveryMove, OthersKept, OwnMove, NeverPendingAgain, Holding
  <1>8. CASE LockForSuccess(w)
    <2>1. /\ cur[w] \in Tasks /\ task[cur[w]] \in TaskRow /\ ~TaskLocked(cur[w])
          /\ result[w] = "success"
      BY <1>8 DEF LockForSuccess, DeliveriesWellFormed, Holding, TypeOK
    <2>2. CASE Again(w) /\ UNCHANGED task
      BY <2>2, AgainMoves
    <2>3. CASE Goto(w, "settling") /\ UNCHANGED <<snap, task>> /\ task[cur[w]].state = "running"
      BY <2>1, <2>3 DEF Goto, TypeOK, DeliveryMove, OthersKept, OwnMove, NeverPendingAgain
    <2>4. CASE Again(w) /\ task' = [task EXCEPT ![cur[w]].state = "succeeded"]
      <3> DEFINE done == [task[cur[w]] EXCEPT !.state = "succeeded"]
      <3>1. done \in TaskRow /\ done.state = "succeeded"
        BY <2>1, StateRowType DEF TaskStates, TaskRow
      <3>2. task'[cur[w]].state = "succeeded" /\ \A u \in Tasks \ {cur[w]} : task'[u] = task[u]
        BY <2>1, <2>4, <3>1, OneRow
      <3>3. \A v \in Workers : pc[v] = "settling" => cur[v] \in Tasks \ {cur[w]}
        BY <2>1, SettlingNamesTask DEF TaskLocked
      <3> QED
        BY <2>1, <2>4, <3>2, <3>3, AgainEffect
           DEF DeliveryMove, OthersKept, OwnMove, NeverPendingAgain
    <2> QED
      BY <1>8, <2>2, <2>3, <2>4, QuitMoves DEF LockForSuccess
  <1>9. CASE LockForFailure(w)
    <2>1. /\ cur[w] \in Tasks /\ task[cur[w]] \in TaskRow /\ ~TaskLocked(cur[w])
          /\ result[w] = "failure" /\ task[cur[w]].state # "pending" /\ UNCHANGED task
      BY <1>9 DEF LockForFailure, DeliveriesWellFormed, Holding, TypeOK
    <2>2. CASE /\ Goto(w, "settling") /\ UNCHANGED snap
               /\ task[cur[w]].state \notin TerminalTaskStates
      <3>1. task[cur[w]].state \in {"leased", "running"}
        BY <2>1, <2>2 DEF TaskRow, TaskStates, TerminalTaskStates
      <3> QED
        BY <2>1, <2>2, <3>1
           DEF Goto, TypeOK, DeliveryMove, OthersKept, OwnMove, NeverPendingAgain
    <2> QED
      BY <1>9, <2>1, <2>2, AgainMoves DEF LockForFailure
  <1>10. CASE LockForBudget(w)
    <2>1. CASE OwnsLease(w)
      <3>1. /\ cur[w] \in Tasks /\ ~TaskLocked(cur[w])
            /\ task[cur[w]].state = "leased"
            /\ pc[w] = "overbudget"
            /\ pc' = [pc EXCEPT ![w] = "settling"]
            /\ result' = [result EXCEPT ![w] = "budget"]
            /\ UNCHANGED <<cur, snap, task>>
        BY <1>10, <2>1 DEF LockForBudget, OwnsLease, DeliveriesWellFormed, Holding
      <3> QED
        BY <3>1 DEF TypeOK, DeliveryMove, OthersKept, OwnMove, NeverPendingAgain
    <2> QED
      BY <1>10, <2>1, QuitMoves DEF LockForBudget
  <1>11. CASE CommitSuccess(w)
    <2>1. pc[w] = "settling" /\ task[cur[w]] \in TaskRow
      BY <1>11, SettlingNamesTask DEF CommitSuccess, TypeOK
    <2> DEFINE done == [task[cur[w]] EXCEPT !.state = "succeeded"]
    <2>2. done \in TaskRow /\ done.state = "succeeded"
      BY <2>1, StateRowType DEF TaskStates, TaskRow
    <2> QED
      BY <1>11, <2>1, <2>2, SettleMoves DEF CommitSuccess
  <1>12. CASE CommitFailure(w)
    <2>1. pc[w] = "settling" /\ task[cur[w]] \in TaskRow
      BY <1>12, SettlingNamesTask DEF CommitFailure, TypeOK
    <2> DEFINE done == [task[cur[w]] EXCEPT !.state = "failed"]
    <2>2. done \in TaskRow /\ done.state = "failed"
      BY <2>1, StateRowType DEF TaskStates, TaskRow
    <2> QED
      BY <1>12, <2>1, <2>2, SettleMoves DEF CommitFailure
  <1>13. CASE CommitBudget(w)
    <2>1. pc[w] = "settling" /\ Started(task[cur[w]]) \in TaskRow
      BY <1>13, SettlingNamesTask, TaskRowType DEF CommitBudget, TypeOK
    <2> DEFINE done == [Started(task[cur[w]]) EXCEPT !.state = "failed"]
    <2>2. done \in TaskRow /\ done.state = "failed"
      BY <2>1, StateRowType DEF TaskStates, TaskRow
    <2> QED
      BY <1>13, <2>1, <2>2, SettleMoves DEF CommitBudget
  <1>14. CASE Crash(w) \/ Die(w) \/ AbortDelivery(w)
    BY <1>14, QuitMoves DEF Crash, Die, AbortDelivery
  <1> QED
    BY <1>1, <1>2, <1>3, <1>4, <1>5, <1>6, <1>7, <1>8, <1>9, <1>10, <1>11, <1>12,
       <1>13, <1>14 DEF Step

-----------------------------------------------------------------------------
(* What the steps of the relay, the clock and the operators do to them *)

SystemStep ==
    \/ \E t \in Tasks : LeaseExpires(t)
    \/ RelaySend \/ RelayCommit \/ RelayCrash
    \/ CancelBegin \/ CancelCommit \/ AbortCancel
    \/ Pause \/ Resume
    \/ UNCHANGED vars

SystemMove ==
    /\ UNCHANGED workerVars
    /\ \A v \in Workers : pc[v] = "settling" => task'[cur[v]].state = task[cur[v]].state
    /\ NeverPendingAgain

\* Steps of the relay, the operators and the clock move no delivery.
LEMMA SystemMoves ==
    ASSUME TypeOK, DeliveriesWellFormed, SystemStep
    PROVE  SystemMove
  <1> USE DEF runVars, dataVars, relayVars, workerVars
  <1>1. ASSUME NEW t \in Tasks, LeaseExpires(t) PROVE SystemMove
    <2>1. \A u \in Tasks : task[u] \in TaskRow
      BY DEF TypeOK
    <2>2. [task[t] EXCEPT !.expired = TRUE].state = task[t].state
      BY <2>1 DEF TaskRow
    <2>3. \A u \in Tasks : task'[u].state = task[u].state
      BY <1>1, <2>2 DEF LeaseExpires, TypeOK
    <2> QED
      BY <1>1, <2>3, SettlingNamesTask DEF LeaseExpires, SystemMove, NeverPendingAgain
  <1>2. CASE CancelCommit
    <2> DEFINE closed == [t \in Tasks |-> IF task[t].state \in {"pending", "leased"}
                                         THEN [task[t] EXCEPT !.state = "cancelled"]
                                         ELSE task[t]]
    <2>1. \A u \in Tasks : task[u] \in TaskRow
      BY DEF TypeOK
    <2>2. \A u \in Tasks : [task[u] EXCEPT !.state = "cancelled"].state = "cancelled"
      BY <2>1 DEF TaskRow
    <2>3. \A v \in Workers :
             pc[v] = "settling" => task[cur[v]].state \notin {"pending", "leased"}
      BY <1>2, SettlingNamesTask DEF CancelCommit, InState, TaskLocked
    <2>4. CASE task' = closed
      BY <1>2, <2>2, <2>3, <2>4, SettlingNamesTask DEF CancelCommit, SystemMove, NeverPendingAgain
    <2>5. CASE UNCHANGED task
      BY <1>2, <2>5 DEF CancelCommit, SystemMove, NeverPendingAgain
    <2> QED
      BY <1>2, <2>4, <2>5 DEF CancelCommit
  <1>3. CASE \/ RelaySend \/ RelayCommit \/ RelayCrash \/ CancelBegin \/ AbortCancel
             \/ Pause \/ Resume \/ UNCHANGED vars
    <2>1. UNCHANGED <<pc, cur, snap, result, task>>
      BY <1>3 DEF RelaySend, RelayCommit, RelayCrash, CancelBegin, AbortCancel, Pause, Resume, vars
    <2> QED
      BY <2>1 DEF SystemMove, NeverPendingAgain
  <1> QED
    BY <1>1, <1>2, <1>3 DEF SystemStep

\* Every step is one of a delivery or one of the system.
LEMMA StepKinds ==
    ASSUME [Next]_vars
    PROVE  \/ \E w \in Workers : Step(w) \/ Crash(w) \/ Die(w) \/ AbortDelivery(w)
           \/ SystemStep
  BY DEF Next, SystemStep

\* Either kind of step keeps deliveries well formed, their locks exclusive and
\* the test before a completion valid, and no run is started from anything but
\* a snapshot of "queued".
LEMMA GuardsKept ==
    ASSUME TypeOK, DeliveriesWellFormed, SettlementGuarded, StartersSawQueued, [Next]_vars
    PROVE  DeliveriesWellFormed' /\ SettlementGuarded' /\ StartersSawQueued'
  <1>1. ASSUME NEW w \in Workers, DeliveryMove(w)
        PROVE  DeliveriesWellFormed' /\ SettlementGuarded' /\ StartersSawQueued'
    <2>1. DeliveriesWellFormed'
      BY <1>1 DEF DeliveryMove, OthersKept, OwnMove, NeverPendingAgain,
                  DeliveriesWellFormed, Holding
    <2>2. StartersSawQueued'
      BY <1>1 DEF DeliveryMove, OthersKept, OwnMove, StartersSawQueued, Holding
    <2>3. SettlementGuarded'
      <3>1. SUFFICES ASSUME NEW u \in Workers, pc'[u] = "settling"
                     PROVE  /\ \A v \in Workers : pc'[v] = "settling" /\ cur'[v] = cur'[u] => v = u
                            /\ result'[u] = "success" => task'[cur'[u]].state = "running"
                            /\ result'[u] = "failure" =>
                                  task'[cur'[u]].state \in {"leased", "running"}
                            /\ result'[u] = "budget" => task'[cur'[u]].state = "leased"
        BY DEF SettlementGuarded
      <3>2. pc'[w] = "settling" =>
               /\ cur'[w] = cur[w] /\ task' = task
               /\ \A v \in Workers : pc[v] = "settling" => cur[v] # cur[w]
               /\ \/ result'[w] = "success" /\ task[cur[w]].state = "running"
                  \/ result'[w] = "failure" /\ task[cur[w]].state \in {"leased", "running"}
                  \/ result'[w] = "budget" /\ task[cur[w]].state = "leased"
        BY <1>1 DEF DeliveryMove, OwnMove, TaskLocked, Holding
      <3>3. CASE u = w
        BY <1>1, <3>1, <3>2, <3>3 DEF DeliveryMove, OthersKept
      <3>4. CASE u # w
        BY <1>1, <3>1, <3>2, <3>4 DEF DeliveryMove, OthersKept, SettlementGuarded
      <3> QED
        BY <3>3, <3>4
    <2> QED
      BY <2>1, <2>2, <2>3
  <1>2. ASSUME SystemMove
        PROVE  DeliveriesWellFormed' /\ SettlementGuarded' /\ StartersSawQueued'
    BY <1>2 DEF SystemMove, workerVars, NeverPendingAgain, DeliveriesWellFormed, Holding,
                SettlementGuarded, StartersSawQueued
  <1> QED
    BY <1>1, <1>2, StepKinds, DeliveryMoves, SystemMoves

-----------------------------------------------------------------------------
(* What a step does to the results: nothing, one outcome, or a cancellation *)

\* The run keeps its state or takes an edge the trigger allows.
Edge == run'.state = run.state \/ run'.state \in Guarded[run.state]

Open(s) == s \notin TerminalTaskStates

OutcomesKept ==
    \A t \in Tasks : \/ task'[t].state = task[t].state
                     \/ Open(task[t].state) /\ Open(task'[t].state)

\* No task gets an outcome and no count changes; the run is not completed.
Quiet ==
    /\ OutcomesKept
    /\ sample' = sample
    /\ run'.succ = run.succ /\ run'.failed = run.failed /\ run'.cancelled = run.cancelled
    /\ Edge
    /\ run'.state # run.state => run'.state \notin {"completed", "completed_with_errors"}

\* The run becomes cancelling and some open tasks are cancelled.
Cancels ==
    /\ \A t \in Tasks : \/ task'[t].state = task[t].state
                        \/ Open(task[t].state) /\ task'[t].state = "cancelled"
    /\ sample' = sample
    /\ run'.succ = run.succ /\ run'.failed = run.failed
    /\ run.state # "cancelling" /\ run'.state = "cancelling" /\ Edge

Add(o, p) == IF o = p THEN 1 ELSE 0

Count(s) == Cardinality(InState({s}))

\* The open task t gets the outcome o.  If that completes the run, there are
\* counts n and m, not above the true ones, that add up to the whole run.
Settles(t, o) ==
    /\ t \in Tasks /\ o \in {"succeeded", "failed"}
    /\ Open(task[t].state) /\ task'[t].state = o
    /\ \A u \in Tasks \ {t} : task'[u] = task[u]
    /\ sample' = [sample EXCEPT ![t] = o]
    /\ run'.succ = run.succ + Add(o, "succeeded")
    /\ run'.failed <= Count("failed") + Add(o, "failed")
    /\ run'.cancelled = run.cancelled
    /\ Edge
    /\ run'.state # run.state /\ run'.state \in {"completed", "completed_with_errors"} =>
          \E n, m \in Nat :
             /\ n + m = NumTasks
             /\ n <= Count("succeeded") + Add(o, "succeeded")
             /\ m <= Count("failed") + Add(o, "failed")
             /\ run'.state = "completed" <=> m = 0

\* A step that writes neither run nor sample and no outcome is quiet.
LEMMA QuietKept ==
    ASSUME run' = run, sample' = sample, OutcomesKept
    PROVE  Quiet
  BY DEF Quiet, Edge

\* A step that leaves the task rows alone leaves the outcomes alone.
LEMMA TasksKept == task' = task => OutcomesKept
  BY DEF OutcomesKept, Open

\* The end of a delivery changes no outcome.
LEMMA QuitQuiet ==
    ASSUME TypeOK, NEW w \in Workers, Quit(w), UNCHANGED <<run, sample>>
    PROVE  Quiet
  <1>1. \A t \in Tasks : task'[t].state = task[t].state
    BY QuitEffect
  <1> QED
    BY <1>1 DEF Quiet, Edge, OutcomesKept, Open

\* A transition of the run object seen writes the state it names, if any.
LEMMA MovedEffect ==
    ASSUME NEW r \in RunRow, NEW a \in RunStates, NEW b \in RunStates, NEW n \in Nat
    PROVE  /\ Moved(r, a, b, n).state = IF a = b THEN r.state ELSE b
           /\ Moved(r, a, b, n).succ = r.succ
           /\ Moved(r, a, b, n).failed = r.failed
           /\ Moved(r, a, b, n).cancelled = r.cancelled
  BY DEF Moved, RunRow

\* A completion settles its task or, rejected, nothing.
LEMMA SettleShape ==
    ASSUME TypeOK, SampleMatchesOutcome, NEW w \in Workers, cur[w] \in Tasks,
           Open(task[cur[w]].state),
           NEW seen \in RunRow, NEW row \in RunRow, NEW newTask \in TaskRow, NEW amount,
           newTask.state \in {"succeeded", "failed"},
           row.state = run.state, row.cancelled = run.cancelled,
           row.succ = run.succ + Add(newTask.state, "succeeded"),
           row.failed <= Count("failed") + Add(newTask.state, "failed"),
           seen.succ <= Count("succeeded") + Add(newTask.state, "succeeded"),
           seen.failed <= Count("failed") + Add(newTask.state, "failed"),
           seen.state = "running" => seen.cancelled = 0,
           SettleTask(w, seen, row, newTask, amount)
    PROVE  Quiet \/ Settles(cur[w], newTask.state)
  <1> DEFINE target == FinalState(seen)
             new == Moved(row, seen.state, target, seen.version)
             news == EventOf(seen.state, target)
             o == newTask.state
  <1>1. target \in RunStates /\ seen.state \in RunStates /\ seen.version \in Nat
    BY FinalStateType DEF RunRow
  <1>2. /\ new.state = IF seen.state = target THEN run.state ELSE target
        /\ new.succ = row.succ /\ new.failed = row.failed /\ new.cancelled = row.cancelled
    BY <1>1, MovedEffect
  <1>3. CASE Commits(new, news)
    <2>1. /\ run' = new
          /\ task' = [task EXCEPT ![cur[w]] = newTask]
          /\ sample' = [sample EXCEPT ![cur[w]] = IF @ = "none" THEN o ELSE @]
      BY <1>3 DEF SettleTask
    <2>2. Edge
      BY <1>3, <2>1 DEF Commits, RowAccepted, Edge
    <2>3. task'[cur[w]].state = o /\ \A u \in Tasks \ {cur[w]} : task'[u] = task[u]
      BY <2>1, OneRow
    <2>4. sample[cur[w]] = "none"
      BY DEF SampleMatchesOutcome, Open, TerminalTaskStates
    <2>5. sample' = [sample EXCEPT ![cur[w]] = o]
      BY <2>1, <2>4
    <2>6. ASSUME run'.state # run.state, run'.state \in {"completed", "completed_with_errors"}
          PROVE  /\ seen.succ \in Nat /\ seen.failed \in Nat
                 /\ seen.succ + seen.failed = NumTasks
                 /\ run'.state = "completed" <=> seen.failed = 0
      <3>1. run'.state = target /\ seen.state # target
        BY <1>2, <2>1, <2>6
      <3>2. seen.state = "running" /\ Settled(seen) = NumTasks
        BY <2>6, <3>1 DEF FinalState
      <3>3. target = IF seen.failed > 0 THEN "completed_with_errors" ELSE "completed"
        BY <3>1, <3>2 DEF FinalState
      <3>4. seen.succ \in Nat /\ seen.failed \in Nat
        BY DEF RunRow
      <3> QED
        BY <3>1, <3>2, <3>3, <3>4 DEF Settled
    <2>7. run'.state # run.state /\ run'.state \in {"completed", "completed_with_errors"} =>
            \E n, m \in Nat :
               /\ n + m = NumTasks
               /\ n <= Count("succeeded") + Add(o, "succeeded")
               /\ m <= Count("failed") + Add(o, "failed")
               /\ run'.state = "completed" <=> m = 0
      BY <2>6
    <2> QED
      BY <1>2, <2>1, <2>2, <2>3, <2>5, <2>7 DEF Settles
  <1>4. CASE ~Commits(new, news)
    <2>1. Quit(w) /\ UNCHANGED <<run, sample>>
      BY <1>4 DEF SettleTask, runVars
    <2> QED
      BY <2>1, QuitQuiet
  <1> QED
    BY <1>3, <1>4

\* The edges used below.
LEMMA SomeEdges ==
    /\ Guarded["cancelling"] = {"cancelled"} /\ Guarded["cancelled"] = {}
    /\ "queued" \in Guarded["paused"]
  BY DEF Guarded, RunStates

\* A completion works on a run object that shows nothing but old truths.
LEMMA CompletionShape ==
    ASSUME IInv, NEW w \in Workers, CommitSuccess(w) \/ CommitFailure(w) \/ CommitBudget(w)
    PROVE  Quiet \/ \E o \in {"succeeded", "failed"} : Settles(cur[w], o)
  <1> USE DEF IInv
  <1>1. /\ pc[w] = "settling" /\ cur[w] \in Tasks
        /\ task[cur[w]] \in TaskRow /\ run \in RunRow /\ snap[w] \in RunRow
    BY SettlingNamesTask DEF CommitSuccess, CommitFailure, CommitBudget, TypeOK
  <1>2. run.succ = Count("succeeded") /\ run.failed <= Count("failed")
    BY DEF SuccessCounted, FailuresNeverOvercounted, Count
  <1>3. run.state = "running" => run.cancelled = 0
    BY DEF CancelledOnlyWhenCancelling
  <1>4. Open(task[cur[w]].state)
    BY <1>1 DEF SettlementGuarded, Open, TerminalTaskStates, CommitSuccess, CommitFailure,
                CommitBudget
  <1>5. /\ run.succ \in Nat /\ run.failed \in Nat /\ run.cost \in Nat
        /\ snap[w].succ \in Nat /\ snap[w].failed \in Nat
    BY <1>1 DEF RunRow
  <1>6. Count("succeeded") \in Nat /\ Count("failed") \in Nat
    BY InStateFinite DEF Count
  <1>7. CASE CommitSuccess(w)
    <2> DEFINE seen(c) == [run EXCEPT !.succ = @ + 1, !.cost = @ + c]
               done == [task[cur[w]] EXCEPT !.state = "succeeded"]
    <2>1. PICK c \in Costs : SettleTask(w, seen(c), seen(c), done, c)
      BY <1>7 DEF CommitSuccess
    <2>2. seen(c) \in RunRow
      BY <1>1, ConstantsAssumption, CountersType
    <2>3. done \in TaskRow /\ done.state = "succeeded"
      BY <1>1, StateRowType DEF TaskStates, TaskRow
    <2>4. /\ seen(c).state = run.state /\ seen(c).cancelled = run.cancelled
          /\ seen(c).succ = run.succ + 1 /\ seen(c).failed = run.failed
      BY <1>1 DEF RunRow
    <2> HIDE DEF seen, done
    <2>5. /\ seen(c).succ = run.succ + Add(done.state, "succeeded")
          /\ seen(c).succ <= Count("succeeded") + Add(done.state, "succeeded")
          /\ seen(c).failed <= Count("failed") + Add(done.state, "failed")
      BY <1>2, <1>5, <1>6, <2>3, <2>4 DEF Add
    <2> QED
      BY <1>1, <1>3, <1>4, <2>1, <2>2, <2>3, <2>4, <2>5, SettleShape
  <1>8. CASE CommitFailure(w)
    <2> DEFINE seen == [run EXCEPT !.failed = @ + 1]
               done == [task[cur[w]] EXCEPT !.state = "failed"]
    <2>1. SettleTask(w, seen, seen, done, 0)
      BY <1>8 DEF CommitFailure
    <2>2. seen \in RunRow
      BY <1>1, CountersType
    <2>3. done \in TaskRow /\ done.state = "failed"
      BY <1>1, StateRowType DEF TaskStates, TaskRow
    <2>4. /\ seen.state = run.state /\ seen.cancelled = run.cancelled
          /\ seen.succ = run.succ /\ seen.failed = run.failed + 1
      BY <1>1 DEF RunRow
    <2> HIDE DEF seen, done
    <2>5. /\ seen.succ = run.succ + Add(done.state, "succeeded")
          /\ seen.succ <= Count("succeeded") + Add(done.state, "succeeded")
          /\ seen.failed <= Count("failed") + Add(done.state, "failed")
      BY <1>2, <1>5, <1>6, <2>3, <2>4 DEF Add
    <2> QED
      BY <1>1, <1>3, <1>4, <2>1, <2>2, <2>3, <2>4, <2>5, SettleShape
  <1>9. CASE CommitBudget(w)
    <2> DEFINE seen == [snap[w] EXCEPT !.failed = @ + 1]
               row == [run EXCEPT !.failed = seen.failed]
               started == Started(task[cur[w]])
               done == [started EXCEPT !.state = "failed"]
    <2>1. SettleTask(w, seen, row, done, 0)
      BY <1>9 DEF CommitBudget
    <2>2. seen \in RunRow /\ seen.failed = snap[w].failed + 1
      BY <1>1, CountersType DEF RunRow
    <2>2a. row \in RunRow
      <3>1. \A c \in Nat : [run EXCEPT !.failed = c] \in RunRow
        BY <1>1, CountersType
      <3>2. seen.failed \in Nat
        BY <1>5, <2>2
      <3> QED
        BY <3>1, <3>2
    <2>3. started \in TaskRow
      BY <1>1, TaskRowType
    <2>3a. done \in TaskRow /\ done.state = "failed"
      BY <2>3, StateRowType DEF TaskStates, TaskRow
    <2>4. /\ seen.state = snap[w].state /\ seen.cancelled = snap[w].cancelled
          /\ seen.succ = snap[w].succ
          /\ row.state = run.state /\ row.cancelled = run.cancelled
          /\ row.succ = run.succ /\ row.failed = seen.failed
      BY <1>1 DEF RunRow
    <2>5. /\ snap[w].succ <= Count("succeeded") /\ snap[w].failed <= Count("failed")
          /\ snap[w].state = "running" => snap[w].cancelled = 0
      BY <1>1, <1>9 DEF CommitBudget, SnapshotsAreOld, BudgetViews, Count
    <2> HIDE DEF seen, row, started, done
    <2>6. /\ row.succ = run.succ + Add(done.state, "succeeded")
          /\ row.failed <= Count("failed") + Add(done.state, "failed")
          /\ seen.succ <= Count("succeeded") + Add(done.state, "succeeded")
          /\ seen.failed <= Count("failed") + Add(done.state, "failed")
      BY <1>5, <1>6, <2>2, <2>3a, <2>4, <2>5 DEF Add
    <2> QED
      BY <1>1, <1>4, <2>1, <2>2, <2>2a, <2>3a, <2>4, <2>5, <2>6, SettleShape
  <1> QED
    BY <1>7, <1>8, <1>9

\* Every step of a delivery is quiet or settles its task.
LEMMA DeliveryShape ==
    ASSUME IInv, NEW w \in Workers, Step(w) \/ Crash(w) \/ Die(w) \/ AbortDelivery(w)
    PROVE  Quiet \/ \E o \in {"succeeded", "failed"} : Settles(cur[w], o)
  <1> USE DEF IInv, runVars, dataVars, relayVars, workerVars
  <1>1. CASE Receive(w)
    BY <1>1, QuietKept, TasksKept DEF Receive
  <1>2. CASE StartRun(w)
    <2> DEFINE new == Moved(run, snap[w].state, "running", snap[w].version)
               news == EventOf(snap[w].state, "running")
    <2>1. snap[w].state = "queued"
      BY <1>2 DEF StartRun, StartersSawQueued
    <2>2. /\ run \in RunRow /\ snap[w].state \in RunStates /\ snap[w].version \in Nat
          /\ "running" \in RunStates
      BY DEF TypeOK, RunRow, RunStates
    <2>3. /\ new.state = "running" /\ new.succ = run.succ
          /\ new.failed = run.failed /\ new.cancelled = run.cancelled
      BY <2>1, <2>2, MovedEffect
    <2>4. CASE Commits(new, news)
      <3>1. run' = new /\ task' = task /\ sample' = sample
        BY <1>2, <2>4 DEF StartRun
      <3>2. Edge
        BY <2>4, <3>1 DEF Commits, RowAccepted, Edge
      <3> HIDE DEF new
      <3> QED
        BY <2>3, <3>1, <3>2, TasksKept DEF Quiet
    <2>5. CASE ~Commits(new, news)
      <3>1. Quit(w) /\ UNCHANGED <<run, sample>>
        BY <1>2, <2>5 DEF StartRun
      <3> QED
        BY <3>1, QuitQuiet
    <2> QED
      BY <2>4, <2>5
  <1>3. CASE LoopRead(w)
    BY <1>3, QuitQuiet, QuietKept, TasksKept DEF LoopRead
  <1>4. CASE Claim(w)
    <2>1. ASSUME NEW t \in Claimable, task' = [task EXCEPT ![t] = Leased(@, w)]
          PROVE  Quiet
      <3>1. t \in Tasks /\ task[t] \in TaskRow /\ Open(task[t].state)
        BY DEF Claimable, TypeOK, Open, TerminalTaskStates
      <3>2. Leased(task[t], w) \in TaskRow /\ Leased(task[t], w).state = "leased"
        BY <3>1, TaskRowType, RowStates
      <3>3. task'[t].state = "leased" /\ \A u \in Tasks \ {t} : task'[u] = task[u]
        BY <2>1, <3>1, <3>2, OneRow
      <3>4. Open(task'[t].state)
        BY <3>3 DEF Open, TerminalTaskStates
      <3>5. run' = run /\ sample' = sample
        BY <1>4 DEF Claim
      <3> QED
        BY <3>1, <3>3, <3>4, <3>5, QuietKept DEF OutcomesKept, Open
    <2>2. CASE Quit(w)
      BY <1>4, <2>2, QuitQuiet DEF Claim
    <2> QED
      BY <1>4, <2>1, <2>2 DEF Claim
  <1>5. CASE BudgetRead(w)
    BY <1>5, QuietKept, TasksKept DEF BudgetRead
  <1>6. CASE MarkRunning(w)
    <2>1. CASE OwnsLease(w)
      <3>1. /\ cur[w] \in Tasks /\ task[cur[w]] \in TaskRow /\ Open(task[cur[w]].state)
            /\ task' = [task EXCEPT ![cur[w]] = Started(task[cur[w]])]
            /\ run' = run /\ sample' = sample
        BY <1>6, <2>1 DEF MarkRunning, OwnsLease, DeliveriesWellFormed, Holding, TypeOK,
                          Open, TerminalTaskStates
      <3>2. Started(task[cur[w]]) \in TaskRow /\ Started(task[cur[w]]).state = "running"
        BY <3>1, TaskRowType, RowStates
      <3>3. task'[cur[w]].state = "running" /\ \A u \in Tasks \ {cur[w]} : task'[u] = task[u]
        BY <3>1, <3>2, OneRow
      <3>4. Open(task'[cur[w]].state)
        BY <3>3 DEF Open, TerminalTaskStates
      <3> QED
        BY <3>1, <3>3, <3>4, QuietKept DEF OutcomesKept, Open
    <2>2. CASE Quit(w)
      BY <1>6, <2>2, QuitQuiet DEF MarkRunning
    <2> QED
      BY <1>6, <2>1, <2>2 DEF MarkRunning
  <1>7. CASE CallReturns(w)
    BY <1>7, QuietKept, TasksKept DEF CallReturns
  <1>8. CASE LockForSuccess(w)
    <2>1. cur[w] \in Tasks /\ run' = run /\ sample' = sample
      BY <1>8 DEF LockForSuccess, DeliveriesWellFormed, Holding
    <2>2. CASE UNCHANGED task
      BY <2>1, <2>2, QuietKept, TasksKept
    <2>3. CASE task[cur[w]].state = "running" /\ sample[cur[w]] # "none"
      BY <2>1, <2>3 DEF SampleMatchesOutcome
    <2>4. CASE Quit(w)
      BY <2>1, <2>4, QuitQuiet
    <2> QED
      BY <1>8, <2>2, <2>3, <2>4 DEF LockForSuccess
  <1>9. CASE LockForFailure(w)
    BY <1>9, QuietKept, TasksKept DEF LockForFailure
  <1>10. CASE LockForBudget(w)
    BY <1>10, QuitQuiet, QuietKept, TasksKept DEF LockForBudget
  <1>11. CASE CommitSuccess(w) \/ CommitFailure(w) \/ CommitBudget(w)
    BY <1>11, CompletionShape
  <1>12. CASE Crash(w) \/ Die(w) \/ AbortDelivery(w)
    BY <1>12, QuitQuiet DEF Crash, Die, AbortDelivery
  <1> QED
    BY <1>1, <1>2, <1>3, <1>4, <1>5, <1>6, <1>7, <1>8, <1>9, <1>10, <1>11, <1>12 DEF Step

\* Every step of the relay, the clock or an operator is quiet or cancels.
LEMMA SystemShape ==
    ASSUME IInv, SystemStep
    PROVE  Quiet \/ Cancels
  <1> USE DEF IInv, runVars, dataVars, relayVars, workerVars
  <1>1. ASSUME NEW t \in Tasks, LeaseExpires(t) PROVE Quiet
    <2>1. \A u \in Tasks : task[u] \in TaskRow
      BY DEF TypeOK
    <2>2. [task[t] EXCEPT !.expired = TRUE].state = task[t].state
      BY <2>1 DEF TaskRow
    <2>3. \A u \in Tasks : task'[u].state = task[u].state
      BY <1>1, <2>2 DEF LeaseExpires, TypeOK
    <2>4. run' = run /\ sample' = sample
      BY <1>1 DEF LeaseExpires
    <2> QED
      BY <2>3, <2>4, QuietKept DEF OutcomesKept, Open
  <1>2. CASE \/ RelaySend \/ RelayCommit \/ RelayCrash \/ CancelBegin \/ AbortCancel
             \/ UNCHANGED vars
    <2>1. run' = run /\ sample' = sample /\ task' = task
      BY <1>2 DEF RelaySend, RelayCommit, RelayCrash, CancelBegin, AbortCancel, vars
    <2> QED
      BY <2>1, QuietKept, TasksKept
  <1>3. CASE CancelCommit
    <2> DEFINE target == IF InState({"running"}) = {} THEN "cancelled" ELSE "cancelling"
               first == EventOf(run.state, "cancelling")
               second == EventOf("cancelling", target)
               new == [run EXCEPT !.state = target,
                                  !.version = @ + Len(first) + Len(second),
                                  !.cancelled = @ + cancel.counted]
    <2>1. run \in RunRow /\ run.state \in {"queued", "running", "pausing", "paused"}
      BY <1>3 DEF CancelCommit, CancelHoldsRun, TypeOK
    <2>2. new.state = target /\ new.succ = run.succ /\ new.failed = run.failed
      BY <2>1 DEF RunRow
    <2>3. CASE Commits(new, first \o second)
      <3>1. /\ run' = new /\ sample' = sample
            /\ task' = [t \in Tasks |-> IF task[t].state \in {"pending", "leased"}
                                        THEN [task[t] EXCEPT !.state = "cancelled"]
                                        ELSE task[t]]
        BY <1>3, <2>3 DEF CancelCommit
      <3>2. Edge
        BY <2>3, <3>1 DEF Commits, RowAccepted, Edge
      <3>3. target = "cancelling"
        <4>1. first = <<[from |-> run.state, to |-> "cancelling"]>>
          BY <2>1 DEF EventOf
        <4>2. target = "cancelled" => second = <<[from |-> "cancelling", to |-> "cancelled"]>>
          BY DEF EventOf
        <4>3. target = "cancelled" => Len(first \o second) = 2
          <5>1. first \in Seq(Event) /\ second \in Seq(Event)
            BY <2>1, EventOfType DEF RunStates
          <5>2. Len(first \o second) = Len(first) + Len(second)
            BY <5>1, ConcatProperties
          <5>3. Len(first) = 1
            BY <4>1
          <5>4. target = "cancelled" => Len(second) = 1
            BY <4>2
          <5> HIDE DEF first, second, target
          <5> QED
            BY <5>2, <5>3, <5>4
        <4> QED
          BY <2>3, <4>3 DEF Commits, EventsAccepted
      <3>4. \A t \in Tasks : \/ task'[t].state = task[t].state
                             \/ Open(task[t].state) /\ task'[t].state = "cancelled"
        <4>1. \A t \in Tasks : [task[t] EXCEPT !.state = "cancelled"].state = "cancelled"
          BY DEF TypeOK, TaskRow
        <4> HIDE DEF target, new
        <4> QED
          BY <3>1, <4>1 DEF Open, TerminalTaskStates
      <3> HIDE DEF new, target
      <3> QED
        BY <2>1, <2>2, <3>1, <3>2, <3>3, <3>4 DEF Cancels
    <2>4. CASE ~Commits(new, first \o second)
      <3>1. run' = run /\ sample' = sample /\ task' = task
        BY <1>3, <2>4 DEF CancelCommit
      <3> QED
        BY <3>1, QuietKept, TasksKept
    <2> QED
      BY <2>3, <2>4
  <1>4. CASE Pause
    <2> DEFINE target == IF InState({"leased", "running"}) = {} THEN "paused" ELSE "pausing"
               news == EventOf("running", "pausing") \o EventOf("pausing", target)
               new == [run EXCEPT !.state = target, !.version = @ + Len(news)]
    <2>1. /\ new.state = target /\ new.succ = run.succ
          /\ new.failed = run.failed /\ new.cancelled = run.cancelled
      BY DEF TypeOK, RunRow
    <2>2. CASE Commits(new, news)
      <3>1. run' = new /\ sample' = sample /\ task' = task
        BY <1>4, <2>2 DEF Pause
      <3>2. Edge
        BY <2>2, <3>1 DEF Commits, RowAccepted, Edge
      <3>3. target \notin {"completed", "completed_with_errors"}
        OBVIOUS
      <3> HIDE DEF new, target
      <3> QED
        BY <2>1, <3>1, <3>2, <3>3, TasksKept DEF Quiet
    <2>3. CASE ~Commits(new, news)
      <3>1. run' = run /\ sample' = sample /\ task' = task
        BY <1>4, <2>3 DEF Pause
      <3> QED
        BY <3>1, QuietKept, TasksKept
    <2> QED
      BY <2>2, <2>3
  <1>5. CASE Resume
    <2>1. CASE run.state = "paused"
      <3> DEFINE new == Moved(run, "paused", "queued", run.version)
      <3>1. run' = new /\ sample' = sample /\ task' = task
        BY <1>5, <2>1 DEF Resume
      <3>2. run \in RunRow /\ run.version \in Nat /\ {"paused", "queued"} \subseteq RunStates
        BY DEF TypeOK, RunRow, RunStates
      <3>3. /\ new.state = "queued" /\ new.succ = run.succ
            /\ new.failed = run.failed /\ new.cancelled = run.cancelled
        BY <3>2, MovedEffect
      <3> HIDE DEF new
      <3> QED
        BY <2>1, <3>1, <3>3, SomeEdges, TasksKept DEF Quiet, Edge
    <2>2. CASE run.state # "paused"
      <3>1. run' = run /\ sample' = sample /\ task' = task
        BY <1>5, <2>2 DEF Resume
      <3> QED
        BY <3>1, QuietKept, TasksKept
    <2> QED
      BY <2>1, <2>2
  <1> QED
    BY <1>1, <1>2, <1>3, <1>4, <1>5 DEF SystemStep

-----------------------------------------------------------------------------
(* The counts and the verdict *)

\* Counts are numbers.
LEMMA CountType == Count("succeeded") \in Nat /\ Count("failed") \in Nat
  BY InStateFinite DEF Count

\* A state that no task enters or leaves keeps its count.
LEMMA CountSame ==
    ASSUME NEW s, \A t \in Tasks : task'[t].state = s <=> task[t].state = s
    PROVE  Count(s)' = Count(s)
  <1>1. InState({s})' = InState({s})
    BY DEF InState
  <1> QED
    BY <1>1 DEF Count

\* A state that one task enters counts one more.
LEMMA CountOneMore ==
    ASSUME NEW s, NEW t \in Tasks, task[t].state # s, task'[t].state = s,
           \A u \in Tasks \ {t} : task'[u] = task[u]
    PROVE  Count(s)' = Count(s) + 1
  <1>1. InState({s})' = InState({s}) \union {t}
    BY DEF InState
  <1>2. t \notin InState({s})
    BY DEF InState
  <1>3. IsFiniteSet(InState({s}))
    BY InStateFinite
  <1>4. Cardinality(InState({s}) \union {t}) = Cardinality(InState({s})) + 1
    BY <1>2, <1>3, FS_AddElement
  <1> QED
    BY <1>1, <1>4 DEF Count

\* What one outcome does to the counts.
LEMMA SettlesCounts ==
    ASSUME NEW t, NEW o, Settles(t, o), NEW p \in {"succeeded", "failed"}
    PROVE  Count(p)' = Count(p) + Add(o, p)
  <1>1. /\ t \in Tasks /\ o \in {"succeeded", "failed"}
        /\ task[t].state \notin {"succeeded", "failed"} /\ task'[t].state = o
        /\ \A u \in Tasks \ {t} : task'[u] = task[u]
    BY DEF Settles, Open, TerminalTaskStates
  <1>2. Count(p) \in Nat
    BY InStateFinite DEF Count
  <1>3. CASE o = p
    BY <1>1, <1>3, CountOneMore DEF Add
  <1>4. CASE o # p
    <2>1. \A u \in Tasks : task'[u].state = p <=> task[u].state = p
      BY <1>1, <1>4
    <2>2. Count(p)' = Count(p)
      BY <2>1, CountSame
    <2> QED
      BY <1>2, <1>4, <2>2 DEF Add
  <1> QED
    BY <1>3, <1>4

\* Nor do the other steps change them.
LEMMA OtherCounts ==
    ASSUME Quiet \/ Cancels, NEW p \in {"succeeded", "failed"}
    PROVE  Count(p)' = Count(p)
  <1>1. \A t \in Tasks : task'[t].state = p <=> task[t].state = p
    BY DEF Quiet, Cancels, OutcomesKept, Open, TerminalTaskStates
  <1> QED
    BY <1>1, CountSame

\* If succeeded and failed tasks add up to the run, they are all its tasks.
LEMMA AllTasksDone ==
    ASSUME NEW n \in Nat, NEW m \in Nat, n + m = NumTasks,
           n <= Count("succeeded"), m <= Count("failed")
    PROVE  /\ \A t \in Tasks : task[t].state \in {"succeeded", "failed"}
           /\ m = 0 => \A t \in Tasks : task[t].state = "succeeded"
           /\ m > 0 => \E t \in Tasks : task[t].state = "failed"
  <1> DEFINE S == InState({"succeeded"})
             F == InState({"failed"})
  <1>1. IsFiniteSet(S) /\ IsFiniteSet(F) /\ Cardinality(S) \in Nat /\ Cardinality(F) \in Nat
    BY InStateFinite
  <1>2. S \cap F = {} /\ S \union F \in SUBSET Tasks /\ S \in SUBSET Tasks
    BY DEF InState
  <1>3. Cardinality(S \union F) = Cardinality(S) + Cardinality(F)
    BY <1>1, <1>2, FS_Union, FS_EmptySet
  <1>4. NumTasks \in Nat
    BY ConstantsAssumption
  <1>5. S \union F = Tasks
    BY <1>1, <1>2, <1>3, <1>4, TasksFinite, FS_Subset DEF Count
  <1>6. ASSUME m = 0 PROVE S = Tasks
    <2>1. Cardinality(S) >= NumTasks
      BY <1>1, <1>4, <1>6 DEF Count
    <2> QED
      BY <1>1, <1>2, <1>4, <2>1, TasksFinite, FS_Subset
  <1>7. ASSUME m > 0 PROVE F # {}
    BY <1>1, <1>7, FS_EmptySet DEF Count
  <1> QED
    BY <1>5, <1>6, <1>7 DEF InState

\* AllTasksDone, of the next state.
LEMMA AllTasksDoneNext ==
    ASSUME NEW n \in Nat, NEW m \in Nat, n + m = NumTasks,
           n <= Count("succeeded")', m <= Count("failed")'
    PROVE  /\ \A t \in Tasks : task'[t].state \in {"succeeded", "failed"}
           /\ m = 0 => \A t \in Tasks : task'[t].state = "succeeded"
           /\ m > 0 => \E t \in Tasks : task'[t].state = "failed"
  <1>1. (/\ n <= Count("succeeded") /\ m <= Count("failed") =>
             /\ \A t \in Tasks : task[t].state \in {"succeeded", "failed"}
             /\ m = 0 => \A t \in Tasks : task[t].state = "succeeded"
             /\ m > 0 => \E t \in Tasks : task[t].state = "failed")'
    BY AllTasksDone, PTL
  <1> QED
    BY <1>1

-----------------------------------------------------------------------------
(* The inductive invariant is inductive *)

\* Every step has one of the three shapes.
LEMMA StepShapes ==
    ASSUME IInv, [Next]_vars
    PROVE  Quiet \/ Cancels \/ \E t, o : Settles(t, o)
  <1>1. ASSUME NEW w \in Workers, Step(w) \/ Crash(w) \/ Die(w) \/ AbortDelivery(w)
        PROVE  Quiet \/ \E t, o : Settles(t, o)
    <2>1. Quiet \/ \E o \in {"succeeded", "failed"} : Settles(cur[w], o)
      BY <1>1, DeliveryShape
    <2> QED
      BY <2>1
  <1>2. CASE SystemStep
    BY <1>2, SystemShape
  <1> QED
    BY <1>1, <1>2, StepKinds

\* Counters, samples and verdict stay right.
LEMMA CountsKept ==
    ASSUME IInv, Quiet \/ Cancels \/ \E t, o : Settles(t, o)
    PROVE  /\ SuccessCounted' /\ FailuresNeverOvercounted' /\ SampleMatchesOutcome'
           /\ CancelledOnlyWhenCancelling'
           /\ Count("succeeded") <= Count("succeeded")'
           /\ Count("failed") <= Count("failed")'
  <1> USE DEF IInv
  <1>1. /\ run.succ = Count("succeeded") /\ run.failed <= Count("failed")
        /\ Count("succeeded") \in Nat /\ Count("failed") \in Nat
        /\ run.succ \in Nat /\ run.failed \in Nat
    BY InStateFinite DEF SuccessCounted, FailuresNeverOvercounted, Count, TypeOK, RunRow
  <1>2. Edge /\ run.state \in {"cancelling", "cancelled"} =>
           run'.state \in {"cancelling", "cancelled"}
    BY SomeEdges DEF Edge
  <1>3. CASE Quiet \/ Cancels
    <2>1. Count("succeeded")' = Count("succeeded") /\ Count("failed")' = Count("failed")
      BY <1>3, OtherCounts
    <2>2. sample' = sample /\ run'.succ = run.succ /\ run'.failed = run.failed
      BY <1>3 DEF Quiet, Cancels
    <2>3. SampleMatchesOutcome'
      BY <1>3, <2>2
         DEF Quiet, Cancels, OutcomesKept, SampleMatchesOutcome, Open, TerminalTaskStates
    <2>4. CancelledOnlyWhenCancelling'
      BY <1>2, <1>3 DEF Quiet, Cancels, CancelledOnlyWhenCancelling
    <2> QED
      BY <1>1, <2>1, <2>2, <2>3, <2>4 DEF SuccessCounted, FailuresNeverOvercounted, Count
  <1>4. ASSUME NEW t, NEW o, Settles(t, o)
        PROVE  /\ SuccessCounted' /\ FailuresNeverOvercounted' /\ SampleMatchesOutcome'
               /\ CancelledOnlyWhenCancelling'
               /\ Count("succeeded") <= Count("succeeded")'
               /\ Count("failed") <= Count("failed")'
    <2>1. /\ Count("succeeded")' = Count("succeeded") + Add(o, "succeeded")
          /\ Count("failed")' = Count("failed") + Add(o, "failed")
      BY <1>4, SettlesCounts
    <2>2. Add(o, "succeeded") \in Nat /\ Add(o, "failed") \in Nat
      BY DEF Add
    <2>3. /\ run'.succ = run.succ + Add(o, "succeeded")
          /\ run'.failed <= Count("failed") + Add(o, "failed")
          /\ run'.cancelled = run.cancelled /\ Edge
      BY <1>4 DEF Settles
    <2>4. SampleMatchesOutcome'
      <3>1. /\ t \in Tasks /\ task'[t].state = o /\ o \in {"succeeded", "failed"}
            /\ sample' = [sample EXCEPT ![t] = o]
            /\ \A u \in Tasks \ {t} : task'[u] = task[u]
        BY <1>4 DEF Settles
      <3> QED
        BY <3>1 DEF SampleMatchesOutcome, TypeOK
    <2>5. CancelledOnlyWhenCancelling'
      BY <1>2, <2>3 DEF CancelledOnlyWhenCancelling
    <2> QED
      BY <1>1, <2>1, <2>2, <2>3, <2>4, <2>5 DEF SuccessCounted, FailuresNeverOvercounted, Count
  <1> QED
    BY <1>3, <1>4

\* A run declared complete is.
LEMMA VerdictKept ==
    ASSUME IInv, Quiet \/ Cancels \/ \E t, o : Settles(t, o)
    PROVE  CompletionIsHonest'
  <1> USE DEF IInv
  <1>1. CASE Quiet
    BY <1>1 DEF Quiet, OutcomesKept, CompletionIsHonest, Open, TerminalTaskStates
  <1>2. CASE Cancels
    BY <1>2 DEF Cancels, CompletionIsHonest
  <1>3. ASSUME NEW t, NEW o, Settles(t, o) PROVE CompletionIsHonest'
    <2>1. CASE run'.state \notin {"completed", "completed_with_errors"}
      BY <2>1 DEF CompletionIsHonest
    <2>2. CASE run'.state = run.state /\ run'.state \in {"completed", "completed_with_errors"}
      BY <1>3, <2>2 DEF Settles, CompletionIsHonest, Open, TerminalTaskStates
    <2>3. CASE run'.state # run.state /\ run'.state \in {"completed", "completed_with_errors"}
      <3>1. PICK n, m \in Nat :
               /\ n + m = NumTasks
               /\ n <= Count("succeeded") + Add(o, "succeeded")
               /\ m <= Count("failed") + Add(o, "failed")
               /\ run'.state = "completed" <=> m = 0
        BY <1>3, <2>3 DEF Settles
      <3>2. n <= Count("succeeded")' /\ m <= Count("failed")'
        BY <1>3, <3>1, SettlesCounts
      <3>3. /\ \A u \in Tasks : task'[u].state \in {"succeeded", "failed"}
            /\ m = 0 => \A u \in Tasks : task'[u].state = "succeeded"
            /\ m > 0 => \E u \in Tasks : task'[u].state = "failed"
        BY <3>1, <3>2, AllTasksDoneNext
      <3> QED
        BY <2>3, <3>1, <3>3 DEF CompletionIsHonest
    <2> QED
      BY <2>1, <2>2, <2>3
  <1> QED
    BY <1>1, <1>2, <1>3

\* The objects of the budget path stay old.
LEMMA SnapshotsKept ==
    ASSUME IInv, [Next]_vars,
           Count("succeeded") <= Count("succeeded")', Count("failed") <= Count("failed")'
    PROVE  SnapshotsAreOld'
  <1> USE DEF IInv
  <1>1. /\ Count("succeeded") \in Nat /\ Count("succeeded")' \in Nat
        /\ Count("failed") \in Nat /\ Count("failed")' \in Nat
    <2>1. (Count("succeeded") \in Nat /\ Count("failed") \in Nat)'
      BY CountType, PTL
    <2> QED
      BY <2>1, CountType
  <1>2. \A v \in Workers : snap[v].succ \in Nat /\ snap[v].failed \in Nat
    BY DEF TypeOK, RunRow
  <1>3. /\ run.succ = Count("succeeded") /\ run.failed <= Count("failed")
        /\ run.state = "running" => run.cancelled = 0
        /\ run.succ \in Nat /\ run.failed \in Nat
    BY DEF SuccessCounted, FailuresNeverOvercounted, CancelledOnlyWhenCancelling, Count,
           TypeOK, RunRow
  <1>4. ASSUME NEW v \in Workers,
               (BudgetViews(v) /\ snap'[v] = snap[v]) \/ snap'[v] = run
        PROVE  /\ snap'[v].succ <= Count("succeeded")'
               /\ snap'[v].failed <= Count("failed")'
               /\ snap'[v].state = "running" => snap'[v].cancelled = 0
    <2>1. CASE snap'[v] = run
      BY <1>1, <1>3, <2>1
    <2>2. CASE BudgetViews(v) /\ snap'[v] = snap[v]
      <3>1. /\ snap[v].succ <= Count("succeeded") /\ snap[v].failed <= Count("failed")
            /\ snap[v].state = "running" => snap[v].cancelled = 0
        BY <2>2 DEF SnapshotsAreOld, Count
      <3> QED
        BY <1>1, <1>2, <2>2, <3>1
    <2> QED
      BY <1>4, <2>1, <2>2
  <1>5. ASSUME NEW v \in Workers, BudgetViews(v)'
        PROVE  (BudgetViews(v) /\ snap'[v] = snap[v]) \/ snap'[v] = run
    <2>1. ASSUME NEW w \in Workers, DeliveryMove(w)
          PROVE  (BudgetViews(v) /\ snap'[v] = snap[v]) \/ snap'[v] = run
      <3>1. CASE v = w
        BY <1>5, <2>1, <3>1 DEF DeliveryMove, OwnMove, BudgetViews, Holding
      <3>2. CASE v # w
        BY <1>5, <2>1, <3>2 DEF DeliveryMove, OthersKept, BudgetViews
      <3> QED
        BY <3>1, <3>2
    <2>2. CASE SystemMove
      BY <1>5, <2>2 DEF SystemMove, workerVars, BudgetViews
    <2> QED
      BY <2>1, <2>2, StepKinds, DeliveryMoves, SystemMoves
  <1> QED
    BY <1>4, <1>5 DEF SnapshotsAreOld, Count

\* Nobody changes the run while cancel_run holds its row.
LEMMA CancelHoldsRunKept ==
    ASSUME CancelHoldsRun, [Next]_vars
    PROVE  CancelHoldsRun'
  <1> USE DEF CancelHoldsRun, RunLocked, runVars, dataVars, relayVars, workerVars
  <1>1. ASSUME NEW w \in Workers, Step(w) PROVE CancelHoldsRun'
    <2>1. cancel' = cancel
      BY <1>1 DEF Step, Receive, StartRun, LoopRead, Claim, BudgetRead, MarkRunning, CallReturns,
                  LockForSuccess, LockForFailure, LockForBudget, CommitSuccess, CommitFailure,
                  CommitBudget
    <2>2. cancel.active => run' = run
      BY <1>1 DEF Step, Receive, StartRun, LoopRead, Claim, BudgetRead, MarkRunning, CallReturns,
                  LockForSuccess, LockForFailure, LockForBudget, CommitSuccess, CommitFailure,
                  CommitBudget
    <2> QED
      BY <2>1, <2>2
  <1>2. ASSUME NEW w \in Workers, Crash(w) \/ Die(w) \/ AbortDelivery(w) PROVE CancelHoldsRun'
    BY <1>2 DEF Crash, Die, AbortDelivery
  <1>3. ASSUME NEW t \in Tasks, LeaseExpires(t) PROVE CancelHoldsRun'
    BY <1>3 DEF LeaseExpires
  <1>4. CASE RelaySend \/ RelayCommit \/ RelayCrash \/ UNCHANGED vars
    BY <1>4 DEF RelaySend, RelayCommit, RelayCrash, vars
  <1>5. CASE CancelBegin \/ CancelCommit \/ AbortCancel
    BY <1>5 DEF CancelBegin, CancelCommit, AbortCancel
  <1>6. CASE Pause \/ Resume
    BY <1>6 DEF Pause, Resume
  <1> QED
    BY <1>1, <1>2, <1>3, <1>4, <1>5, <1>6 DEF Next

\* Every step of the run engine keeps the inductive invariant.
LEMMA InvariantStep == IInv /\ [Next]_vars => IInv'
  <1> SUFFICES ASSUME IInv, [Next]_vars PROVE IInv'
    OBVIOUS
  <1>1. TypeOK'
    BY TypeInductive DEF IInv
  <1>2. DeliveriesWellFormed' /\ SettlementGuarded' /\ StartersSawQueued'
    BY GuardsKept DEF IInv
  <1>3. Quiet \/ Cancels \/ \E t, o : Settles(t, o)
    BY StepShapes
  <1>4. /\ SuccessCounted' /\ FailuresNeverOvercounted' /\ SampleMatchesOutcome'
        /\ CancelledOnlyWhenCancelling'
        /\ Count("succeeded") <= Count("succeeded")'
        /\ Count("failed") <= Count("failed")'
    BY <1>3, CountsKept
  <1>5. CompletionIsHonest'
    BY <1>3, VerdictKept
  <1>6. SnapshotsAreOld'
    BY <1>4, SnapshotsKept
  <1>7. CancelHoldsRun'
    BY CancelHoldsRunKept DEF IInv
  <1> QED
    BY <1>1, <1>2, <1>4, <1>5, <1>6, <1>7 DEF IInv

\* The invariant holds when the run has been created.
LEMMA InvariantInit == Init => IInv
  <1> SUFFICES ASSUME Init PROVE IInv
    OBVIOUS
  <1>1. TypeOK
    <2>1. /\ run \in RunRow
          /\ NoRun \in RunRow
      BY DEF Init, NoRun, RunRow, RunStates
    <2>2. events \in Seq(Event)
      <3>1. /\ [from |-> "none", to |-> "draft"] \in Event
            /\ [from |-> "draft", to |-> "validating"] \in Event
            /\ [from |-> "validating", to |-> "queued"] \in Event
        BY DEF Event, RunStates
      <3> QED
        BY <3>1 DEF Init
    <2>3. task \in [Tasks -> TaskRow]
      BY DEF Init, TaskRow, TaskStates
    <2>4. env \in Allowances
      BY ConstantsAssumption DEF Init, Allowances
    <2>5. /\ pc \in [Workers -> Places] /\ cur \in [Workers -> Tasks \union {0}]
          /\ snap \in [Workers -> RunRow]
          /\ result \in [Workers -> {"none", "success", "failure", "budget"}]
      BY <2>1 DEF Init, Places
    <2>6. /\ sample \in [Tasks -> {"none", "succeeded", "failed"}]
          /\ charged \in [Tasks -> Nat]
      BY DEF Init
    <2>7. /\ outbox \in Nat /\ relay \in Nat /\ relay <= outbox /\ queue \in Nat
          /\ cancel \in [active : BOOLEAN, counted : Nat]
      BY DEF Init
    <2> HIDE DEF Init
    <2> QED
      BY <2>1, <2>2, <2>3, <2>4, <2>5, <2>6, <2>7 DEF TypeOK
  <1>2. InState({"succeeded"}) = {} /\ InState({"failed"}) = {}
    BY DEF Init, InState
  <1>3. Cardinality(InState({"succeeded"})) = 0 /\ Cardinality(InState({"failed"})) = 0
    BY <1>2, FS_EmptySet
  <1>4. SuccessCounted /\ FailuresNeverOvercounted /\ SampleMatchesOutcome
    BY <1>3 DEF Init, SuccessCounted, FailuresNeverOvercounted, SampleMatchesOutcome
  <1>5. \A w \in Workers : pc[w] = "idle"
    BY DEF Init
  <1>6. /\ SettlementGuarded /\ DeliveriesWellFormed /\ SnapshotsAreOld /\ StartersSawQueued
    BY <1>5 DEF SettlementGuarded, DeliveriesWellFormed, SnapshotsAreOld, StartersSawQueued,
                BudgetViews, Holding
  <1>7. CancelHoldsRun /\ CancelledOnlyWhenCancelling /\ CompletionIsHonest
    BY DEF Init, CancelHoldsRun, CancelledOnlyWhenCancelling, CompletionIsHonest
  <1> QED
    BY <1>1, <1>4, <1>6, <1>7 DEF IInv

-----------------------------------------------------------------------------
(* Theorems *)

\* In every reachable state the inductive invariant of RunInvariant holds:
\* tasks.py and run_repository.py keep locks, snapshots, counters, samples
\* and verdict consistent through every interleaving.
THEOREM InvariantHolds == Spec => []IInv
  BY InvariantInit, InvariantStep, PTL DEF Spec

\* Every variable keeps its type: no counter goes below zero, no row takes a
\* state the schema does not know.
THEOREM TypeCorrect == Spec => []TypeOK
  <1>1. IInv => TypeOK
    BY DEF IInv
  <1> QED
    BY <1>1, InvariantHolds, PTL

\* complete_task_success counts each succeeded task exactly once, however many
\* deliveries race, retry or die.
THEOREM SuccessesCountedOnce == Spec => []SuccessCounted
  <1>1. IInv => SuccessCounted
    BY DEF IInv
  <1> QED
    BY <1>1, InvariantHolds, PTL

\* A task has one sample exactly when it settled, with the status it settled
\* with: completions of the same task never leave a second or a contrary result.
THEOREM OneSamplePerOutcome == Spec => []SampleMatchesOutcome
  <1>1. IInv => SampleMatchesOutcome
    BY DEF IInv
  <1> QED
    BY <1>1, InvariantHolds, PTL

\* The test a completion makes of its task under the row lock is still valid
\* when it commits, and no two completions work on the same task.
THEOREM CompletionsExclusive == Spec => []SettlementGuarded
  <1>1. IInv => SettlementGuarded
    BY DEF IInv
  <1> QED
    BY <1>1, InvariantHolds, PTL

\* The stale run object of the budget path never makes failed_tasks exceed the
\* number of failed tasks.
THEOREM FailuresBounded == Spec => []FailuresNeverOvercounted
  <1>1. IInv => FailuresNeverOvercounted
    BY DEF IInv
  <1> QED
    BY <1>1, InvariantHolds, PTL

\* _finalize_if_settled never declares a run complete that is not, although it
\* may decide on a run object that is out of date.
THEOREM VerdictHonest == Spec => []CompletionIsHonest
  <1>1. IInv => CompletionIsHonest
    BY DEF IInv
  <1> QED
    BY <1>1, InvariantHolds, PTL

-----------------------------------------------------------------------------
(* Refinement of RunLifecycle *)

\* The outcome of each task, as the mapping of RunEngine defines it.
Outcome == [t \in Tasks |-> IF task[t].state \in TerminalTaskStates
                            THEN task[t].state ELSE "open"]

\* Both modules speak of the same graph.
LEMMA SameGraph == \A s \in RunStates : Guarded[s] = Lifecycle!Allowed[s]
  BY DEF Guarded, Lifecycle!Allowed, RunStates, Lifecycle!RunStates

\* A quiet step moves the run along the graph or is invisible.
LEMMA QuietRefines ==
    ASSUME IInv, Quiet
    PROVE  Lifecycle!Move \/ UNCHANGED Lifecycle!vars
  <1>1. Outcome' = Outcome
    BY DEF Quiet, OutcomesKept, Outcome, Open, TerminalTaskStates
  <1>2. run.state \in RunStates
    BY DEF IInv, TypeOK, RunRow
  <1>3. CASE run'.state = run.state
    BY <1>1, <1>3 DEF Lifecycle!vars, Outcome
  <1>4. CASE run'.state # run.state
    <2>1. run'.state \in Lifecycle!Allowed[run.state]
      BY <1>2, <1>4, SameGraph DEF Quiet, Edge
    <2>2. run'.state \notin {"completed", "completed_with_errors"}
      BY <1>4 DEF Quiet
    <2> QED
      BY <1>1, <2>1, <2>2 DEF Lifecycle!Move, Lifecycle!Justified, Outcome
  <1> QED
    BY <1>3, <1>4

\* A cancellation closes open tasks.
LEMMA CancelRefines ==
    ASSUME IInv, Cancels
    PROVE  Lifecycle!Cancel
  <1> DEFINE C == {t \in Tasks : Open(task[t].state) /\ task'[t].state = "cancelled"}
  <1>1. C \in SUBSET {t \in Tasks : Outcome[t] = "open"}
    BY DEF Outcome, Open, TerminalTaskStates
  <1>2. Outcome' = [t \in Tasks |-> IF t \in C THEN "cancelled" ELSE Outcome[t]]
    BY DEF Cancels, Outcome, Open, TerminalTaskStates
  <1>3. run.state \in RunStates
    BY DEF IInv, TypeOK, RunRow
  <1>4. run'.state = "cancelling" /\ "cancelling" \in Lifecycle!Allowed[run.state]
    BY <1>3, SameGraph DEF Cancels, Edge
  <1> HIDE DEF C
  <1>5. \E D \in SUBSET {t \in Tasks : Outcome[t] = "open"} :
           Outcome' = [t \in Tasks |-> IF t \in D THEN "cancelled" ELSE Outcome[t]]
    BY <1>1, <1>2
  <1> QED
    BY <1>4, <1>5 DEF Lifecycle!Cancel, Outcome

\* An outcome is recorded.
LEMMA SettleRefines ==
    ASSUME IInv, CompletionIsHonest', NEW t, NEW o, Settles(t, o)
    PROVE  Lifecycle!Record(t)
  <1>1. /\ t \in Tasks /\ o \in {"succeeded", "failed"}
        /\ Open(task[t].state) /\ task'[t].state = o
        /\ \A u \in Tasks \ {t} : task'[u] = task[u]
        /\ Edge
    BY DEF Settles
  <1>2. Outcome[t] = "open"
    BY <1>1 DEF Outcome, Open
  <1>3. Outcome' = [Outcome EXCEPT ![t] = o]
    BY <1>1 DEF Outcome, Open, TerminalTaskStates
  <1>4. run.state \in RunStates
    BY DEF IInv, TypeOK, RunRow
  <1>5. run'.state = run.state \/ run'.state \in Lifecycle!Allowed[run.state]
    BY <1>1, <1>4, SameGraph DEF Edge
  <1>6. /\ run'.state = "completed" => \A u \in Tasks : Outcome'[u] = "succeeded"
        /\ run'.state = "completed_with_errors" =>
              /\ \A u \in Tasks : Outcome'[u] \in {"succeeded", "failed"}
              /\ \E u \in Tasks : Outcome'[u] = "failed"
    BY DEF CompletionIsHonest, Outcome, TerminalTaskStates
  <1> QED
    BY <1>1, <1>2, <1>3, <1>5, <1>6
       DEF Lifecycle!Record, Lifecycle!MayMove, Lifecycle!Justified, Outcome

\* Every step of the engine is a step of the lifecycle, or invisible in it.
LEMMA LifecycleStep == IInv /\ IInv' /\ [Next]_vars => [Lifecycle!Next]_(Lifecycle!vars)
  <1> SUFFICES ASSUME IInv, CompletionIsHonest', [Next]_vars
               PROVE  Lifecycle!Next \/ UNCHANGED Lifecycle!vars
    BY DEF IInv
  <1>1. CASE Quiet
    BY <1>1, QuietRefines DEF Lifecycle!Next
  <1>2. CASE Cancels
    BY <1>2, CancelRefines DEF Lifecycle!Next
  <1>3. ASSUME NEW t, NEW o, Settles(t, o) PROVE Lifecycle!Next
    <2>1. Lifecycle!Record(t)
      BY <1>3, SettleRefines
    <2>2. t \in Tasks
      BY <1>3 DEF Settles
    <2> QED
      BY <2>1, <2>2 DEF Lifecycle!Next
  <1> QED
    BY <1>1, <1>2, <1>3, StepShapes

\* The rows add_run writes are an initial state of RunLifecycle.
LEMMA LifecycleInit == Init => Lifecycle!Init
  <1> SUFFICES ASSUME Init PROVE Lifecycle!Init
    OBVIOUS
  <1>1. \A t \in Tasks : task[t].state = "pending"
    BY DEF Init
  <1>2. run.state = "queued"
    BY DEF Init
  <1> QED
    BY <1>1, <1>2 DEF Lifecycle!Init, TerminalTaskStates

\* The engine implements RunLifecycle: the run moves along the graph, each task
\* gets its outcome once, and completion is only declared when it is justified.
THEOREM RefinesLifecycle == Spec => ImplementsLifecycle
  BY LifecycleInit, LifecycleStep, InvariantInit, InvariantStep, PTL
     DEF Spec, ImplementsLifecycle, Lifecycle!Spec
=============================================================================
