--------------------------- MODULE RunClaimsProofs ---------------------------
(***************************************************************************)
(* Proofs about RunEngine and RunClaims that need an invariant of their    *)
(* own on top of IInv.  Leases: a task row may be on its first attempt,    *)
(* owed one more start by the claim that leased it, and owed another       *)
(* because its lease ran out; each of these but one is paid for by an      *)
(* expiry.  The ledger: the run's cost is the sum of the cost records,     *)
(* which only a completion changes, both at once.  And what the documents  *)
(* claim of a run whose deliveries come one at a time: an object read      *)
(* before a lock still shows the run, or the run was moved on by an        *)
(* operator and the schema turns down what is made of the object.          *)
(***************************************************************************)
EXTENDS RunClaims, RunEngineProofs, Counting

-----------------------------------------------------------------------------
(* Leases: the invariant *)

\* The leases that have run out.
Used == MaxExpiries - env.expiries

\* The starts a task still gets without another expiry: one if it waits or is
\* leased, one if its lease has run out.
Owed(row) ==
    (IF row.state \in {"pending", "leased"} THEN 1 ELSE 0)
        + (IF row.state \notin TerminalTaskStates /\ row.expired THEN 1 ELSE 0)

LeasesPaid ==
    /\ env.expiries <= MaxExpiries
    /\ \A t \in Tasks : task[t].attempts + Owed(task[t]) <= 1 + Used

\* Without an expiry only waiting tasks are claimed, and no delivery names one.
LeasesFresh ==
    /\ Used = 0 => \A t \in Tasks : ~task[t].expired
    /\ \A w \in Workers : cur[w] # 0 => cur[w] \in Tasks /\ task[cur[w]].state # "pending"
    /\ ExclusiveUntilExpiry

LeaseInv == LeasesPaid /\ LeasesFresh

-----------------------------------------------------------------------------
(* What a step does to a task row *)

\* The row keeps its attempts and its lease; it may be settled.
Kept(old, new) ==
    /\ new.attempts = old.attempts /\ new.expired = old.expired
    /\ new.state = old.state \/ new.state \in TerminalTaskStates

\* claim_next_task leases a waiting task, or one whose lease ran out.
Taken(old, new) ==
    /\ new.attempts = old.attempts /\ ~new.expired /\ new.state = "leased"
    /\ old.state = "pending" \/ (old.state \in {"leased", "running"} /\ old.expired)

\* mark_task_running starts a leased task; over budget, it fails at once.
Tried(old, new) ==
    /\ new.attempts = old.attempts + 1 /\ new.expired = old.expired
    /\ old.state = "leased" /\ new.state \in {"running", "failed"}

Progress(old, new) == Kept(old, new) \/ Taken(old, new) \/ Tried(old, new)

\* None of these costs the task more than it is owed, and none makes a task wait
\* again or its lease run out.
LEMMA ProgressIsOwed ==
    ASSUME NEW old \in TaskRow, NEW new \in TaskRow, Progress(old, new)
    PROVE  /\ new.attempts + Owed(new) <= old.attempts + Owed(old)
           /\ new.expired => old.expired
           /\ old.state # "pending" => new.state # "pending"
  <1>1. /\ old.attempts \in Nat /\ new.attempts \in Nat
        /\ old.expired \in BOOLEAN /\ new.expired \in BOOLEAN
    BY DEF TaskRow
  <1>2. CASE Kept(old, new)
    BY <1>1, <1>2 DEF Kept, Owed, TerminalTaskStates
  <1>3. CASE Taken(old, new)
    BY <1>1, <1>3 DEF Taken, Owed, TerminalTaskStates
  <1>4. CASE Tried(old, new)
    BY <1>1, <1>4 DEF Tried, Owed, TerminalTaskStates
  <1> QED
    BY <1>2, <1>3, <1>4 DEF Progress

\* A lease that runs out costs the task one start.
LEMMA ExpiryIsOwed ==
    ASSUME NEW old \in TaskRow, old.state \in {"leased", "running"}, ~old.expired
    PROVE  LET new == [old EXCEPT !.expired = TRUE]
           IN  /\ new.attempts + Owed(new) = old.attempts + Owed(old) + 1
               /\ new.state = old.state
  <1> DEFINE new == [old EXCEPT !.expired = TRUE]
  <1>1. /\ new.attempts = old.attempts /\ new.state = old.state /\ new.expired
        /\ old.attempts \in Nat
    BY DEF TaskRow
  <1> HIDE DEF new
  <1>2. /\ new.attempts + Owed(new) = old.attempts + Owed(old) + 1
        /\ new.state = old.state
    BY <1>1 DEF Owed, TerminalTaskStates
  <1> QED
    BY <1>2 DEF new

-----------------------------------------------------------------------------
(* What a step does to the rows and to what the deliveries hold *)

RowsProgress == \A t \in Tasks : Progress(task[t], task'[t])

LetGo == \A w \in Workers : cur'[w] \in {cur[w], 0}

\* Nothing is claimed.
Works == env'.expiries = env.expiries /\ RowsProgress /\ LetGo

\* The delivery w claims the task t.
Claims(w, t) ==
    /\ env'.expiries = env.expiries /\ RowsProgress
    /\ Taken(task[t], task'[t])
    /\ cur' = [cur EXCEPT ![w] = t]

\* The lease of t runs out.
RunsOut(t) ==
    /\ task[t].state \in {"leased", "running"} /\ ~task[t].expired
    /\ task' = [task EXCEPT ![t].expired = TRUE]
    /\ env'.expiries = env.expiries - 1
    /\ cur' = cur

LeaseStep ==
    \/ Works
    \/ \E w \in Workers, t \in Tasks : Claims(w, t)
    \/ \E t \in Tasks : RunsOut(t)

\* Tasks left alone.
LEMMA SameRows == task' = task => RowsProgress
  BY DEF RowsProgress, Progress, Kept

\* A delivery that ends, or goes round the loop, holds no task any more.
LEMMA QuitWorks ==
    ASSUME TypeOK, NEW w \in Workers, Quit(w), env'.expiries = env.expiries
    PROVE  Works
  <1>1. \A t \in Tasks : task[t] \in TaskRow
    BY DEF TypeOK
  <1>2. \A t \in Tasks : LET gone == [task[t] EXCEPT !.owner = Nobody]
                         IN  /\ gone.state = task[t].state
                             /\ gone.expired = task[t].expired
                             /\ gone.attempts = task[t].attempts
    BY <1>1 DEF TaskRow
  <1>3. RowsProgress
    BY <1>2 DEF Quit, RowsProgress, Progress, Kept
  <1>4. LetGo
    BY DEF Quit, TypeOK, LetGo
  <1> QED
    BY <1>3, <1>4 DEF Works

LEMMA AgainWorks ==
    ASSUME TypeOK, NEW w \in Workers, Again(w), RowsProgress, env'.expiries = env.expiries
    PROVE  Works
  BY DEF Again, TypeOK, LetGo, Works

\* A step that leaves rows and holders alone.
LEMMA IdleWorks ==
    ASSUME TypeOK, task' = task, cur' = cur, env'.expiries = env.expiries
    PROVE  Works
  BY SameRows DEF LetGo, Works

\* Writing one row that progresses.
LEMMA OneRowProgress ==
    ASSUME TypeOK, NEW t \in Tasks, NEW r, task' = [task EXCEPT ![t] = r],
           Progress(task[t], r)
    PROVE  RowsProgress
  BY DEF TypeOK, RowsProgress, Progress, Kept

\* The end of a completion, or its rollback.
LEMMA SettleWorks ==
    ASSUME TypeOK, NEW w \in Workers, cur[w] \in Tasks, NEW seen, NEW row, NEW newTask,
           NEW amount, Progress(task[cur[w]], newTask),
           SettleTask(w, seen, row, newTask, amount), UNCHANGED env
    PROVE  Works
  <1>1. CASE Again(w) /\ task' = [task EXCEPT ![cur[w]] = newTask]
    BY <1>1, OneRowProgress, AgainWorks
  <1>2. CASE Quit(w)
    BY <1>2, QuitWorks
  <1> QED
    BY <1>1, <1>2 DEF SettleTask

-----------------------------------------------------------------------------
(* Every step *)

\* The fields of the rows that are written.
LEMMA WrittenRows ==
    ASSUME NEW r \in TaskRow, NEW s \in TaskStates
    PROVE  /\ [r EXCEPT !.state = s].state = s
           /\ [r EXCEPT !.state = s].expired = r.expired
           /\ [r EXCEPT !.state = s].attempts = r.attempts
           /\ Started(r).state = "running" /\ Started(r).expired = r.expired
           /\ Started(r).attempts = r.attempts + 1
  BY DEF TaskRow, Started

\* The row of a claim.
LEMMA LeasedRow ==
    ASSUME NEW r \in TaskRow, NEW w
    PROVE  /\ Leased(r, w).state = "leased" /\ ~Leased(r, w).expired
           /\ Leased(r, w).attempts = r.attempts
  BY DEF TaskRow, Leased

\* What the steps of a delivery do.
LEMMA DeliveryLeases ==
    ASSUME TypeOK, DeliveriesWellFormed, SettlementGuarded, NEW w \in Workers,
           Step(w) \/ Crash(w) \/ Die(w) \/ AbortDelivery(w)
    PROVE  LeaseStep
  <1> USE DEF runVars, dataVars, relayVars, workerVars
  <1>0. /\ \A t \in Tasks : task[t] \in TaskRow
        /\ {"succeeded", "failed"} \subseteq TaskStates
        /\ {"succeeded", "failed"} \subseteq TerminalTaskStates
    BY DEF TypeOK, TaskStates, TerminalTaskStates
  <1>1. CASE Claim(w)
    <2>1. CASE Quit(w)
      BY <1>1, <2>1, QuitWorks DEF Claim, LeaseStep
    <2>2. ASSUME NEW t \in Claimable, task' = [task EXCEPT ![t] = Leased(@, w)],
                 cur' = [cur EXCEPT ![w] = t]
          PROVE  LeaseStep
      <3>0. /\ t \in Tasks
            /\ \/ task[t].state = "pending"
               \/ task[t].state \in {"leased", "running"} /\ task[t].expired
        BY DEF Claimable
      <3>1. t \in Tasks /\ Taken(task[t], Leased(task[t], w))
        BY <1>0, <3>0, LeasedRow DEF Taken
      <3>2. RowsProgress
        BY <2>2, <3>1, OneRowProgress DEF Progress
      <3>3. task'[t] = Leased(task[t], w)
        BY <2>2, <3>1 DEF TypeOK
      <3>4. env' = env
        BY <1>1 DEF Claim
      <3>5. Claims(w, t)
        BY <2>2, <3>1, <3>2, <3>3, <3>4 DEF Claims
      <3> QED
        BY <3>1, <3>5 DEF LeaseStep
    <2> QED
      BY <1>1, <2>1, <2>2 DEF Claim
  <1>2. CASE MarkRunning(w)
    <2>1. CASE Quit(w)
      BY <1>2, <2>1, QuitWorks DEF MarkRunning, LeaseStep
    <2>2. CASE OwnsLease(w) /\ task' = [task EXCEPT ![cur[w]] = Started(@)] /\ cur' = cur
      <3>1. cur[w] \in Tasks
        BY <1>2 DEF MarkRunning, DeliveriesWellFormed, Holding
      <3>2. Tried(task[cur[w]], Started(task[cur[w]]))
        BY <1>0, <2>2, <3>1, WrittenRows DEF OwnsLease, Tried
      <3>3. RowsProgress
        BY <2>2, <3>1, <3>2, OneRowProgress DEF Progress
      <3> QED
        BY <1>2, <2>2, <3>3 DEF MarkRunning, LeaseStep, Works, LetGo
    <2> QED
      BY <1>2, <2>1, <2>2 DEF MarkRunning, Goto
  <1>3. CASE LockForSuccess(w)
    <2>1. cur[w] \in Tasks
      BY <1>3 DEF LockForSuccess, DeliveriesWellFormed, Holding
    <2>2. CASE Again(w) /\ task' = [task EXCEPT ![cur[w]].state = "succeeded"]
      <3>1. Kept(task[cur[w]], [task[cur[w]] EXCEPT !.state = "succeeded"])
        BY <1>0, <2>1, WrittenRows DEF Kept
      <3>2. RowsProgress
        BY <2>1, <2>2, <3>1, OneRowProgress DEF Progress
      <3> QED
        BY <1>3, <2>2, <3>2, AgainWorks DEF LockForSuccess, LeaseStep
    <2>3. CASE Again(w) /\ UNCHANGED task
      BY <1>3, <2>3, SameRows, AgainWorks DEF LockForSuccess, LeaseStep
    <2>4. CASE Quit(w)
      BY <1>3, <2>4, QuitWorks DEF LockForSuccess, LeaseStep
    <2>5. CASE Goto(w, "settling") /\ UNCHANGED <<snap, task>>
      BY <1>3, <2>5, IdleWorks DEF LockForSuccess, Goto, LeaseStep
    <2> QED
      BY <1>3, <2>2, <2>3, <2>4, <2>5 DEF LockForSuccess
  <1>4. CASE LockForFailure(w)
    <2>1. CASE Again(w) /\ UNCHANGED task
      BY <1>4, <2>1, SameRows, AgainWorks DEF LockForFailure, LeaseStep
    <2>2. CASE Goto(w, "settling") /\ UNCHANGED task
      BY <1>4, <2>2, IdleWorks DEF LockForFailure, Goto, LeaseStep
    <2> QED
      BY <1>4, <2>1, <2>2 DEF LockForFailure
  <1>5. CASE CommitSuccess(w)
    <2>1. cur[w] \in Tasks
      BY <1>5, SettlingNamesTask DEF CommitSuccess
    <2>2. Progress(task[cur[w]], [task[cur[w]] EXCEPT !.state = "succeeded"])
      BY <1>0, <2>1, WrittenRows DEF Progress, Kept
    <2> QED
      BY <1>5, <2>1, <2>2, SettleWorks DEF CommitSuccess, LeaseStep
  <1>6. CASE CommitFailure(w)
    <2>1. cur[w] \in Tasks
      BY <1>6, SettlingNamesTask DEF CommitFailure
    <2>2. Progress(task[cur[w]], [task[cur[w]] EXCEPT !.state = "failed"])
      BY <1>0, <2>1, WrittenRows DEF Progress, Kept
    <2> QED
      BY <1>6, <2>1, <2>2, SettleWorks DEF CommitFailure, LeaseStep
  <1>7. CASE CommitBudget(w)
    <2>1. cur[w] \in Tasks
      BY <1>7, SettlingNamesTask DEF CommitBudget
    <2>2. task[cur[w]].state = "leased"
      BY <1>7 DEF CommitBudget, SettlementGuarded
    <2> DEFINE started == Started(task[cur[w]])
    <2>3. started \in TaskRow /\ started.expired = task[cur[w]].expired
          /\ started.attempts = task[cur[w]].attempts + 1
      BY <1>0, <2>1, WrittenRows, TaskRowType DEF TaskStates
    <2> HIDE DEF started
    <2>4. Tried(task[cur[w]], [started EXCEPT !.state = "failed"])
      BY <1>0, <2>2, <2>3, WrittenRows DEF Tried
    <2> QED
      BY <1>7, <2>1, <2>4, SettleWorks DEF CommitBudget, LeaseStep, Progress, started
  <1>8. CASE StartRun(w)
    BY <1>8, SameRows, AgainWorks, QuitWorks DEF StartRun, LeaseStep
  <1>9. CASE LoopRead(w)
    <2>1. CASE Goto(w, "claiming") /\ UNCHANGED <<snap, task>>
      BY <1>9, <2>1, IdleWorks DEF LoopRead, Goto, LeaseStep
    <2> QED
      BY <1>9, <2>1, QuitWorks DEF LoopRead, LeaseStep
  <1>10. CASE LockForBudget(w)
    <2>1. CASE UNCHANGED <<cur, snap, task>>
      BY <1>10, <2>1, IdleWorks DEF LockForBudget, LeaseStep
    <2> QED
      BY <1>10, <2>1, QuitWorks DEF LockForBudget, LeaseStep
  <1>11. CASE Receive(w) \/ BudgetRead(w) \/ CallReturns(w)
    <2>1. task' = task /\ cur' = cur /\ env' = env
      BY <1>11 DEF Receive, BudgetRead, CallReturns, Goto
    <2> QED
      BY <2>1, IdleWorks DEF LeaseStep
  <1>12. CASE Crash(w) \/ Die(w) \/ AbortDelivery(w)
    <2>1. Quit(w) /\ env'.expiries = env.expiries
      BY <1>12 DEF Crash, Die, AbortDelivery, TypeOK, Allowances
    <2> QED
      BY <2>1, QuitWorks DEF LeaseStep
  <1> QED
    BY <1>1, <1>2, <1>3, <1>4, <1>5, <1>6, <1>7, <1>8, <1>9, <1>10, <1>11, <1>12 DEF Step

\* What the steps of the relay, the clock and the operators do.
LEMMA SystemLeases ==
    ASSUME TypeOK, SystemStep
    PROVE  LeaseStep
  <1> USE DEF runVars, dataVars, relayVars, workerVars
  <1>1. ASSUME NEW t \in Tasks, LeaseExpires(t) PROVE LeaseStep
    <2>1. env'.expiries = env.expiries - 1
      BY <1>1 DEF LeaseExpires, TypeOK, Allowances
    <2>2. RunsOut(t)
      BY <1>1, <2>1 DEF LeaseExpires, RunsOut
    <2> QED
      BY <2>2 DEF LeaseStep
  <1>2. CASE CancelCommit
    <2>1. \A t \in Tasks : Kept(task[t], [task[t] EXCEPT !.state = "cancelled"])
      BY DEF TypeOK, TaskRow, Kept, TerminalTaskStates
    <2>2. RowsProgress
      BY <1>2, <2>1 DEF CancelCommit, RowsProgress, Progress, Kept
    <2>3. cur' = cur /\ env' = env
      BY <1>2 DEF CancelCommit
    <2> QED
      BY <2>2, <2>3 DEF LeaseStep, Works, LetGo
  <1>3. CASE \/ RelaySend \/ RelayCommit \/ RelayCrash \/ CancelBegin \/ AbortCancel
             \/ Pause \/ Resume \/ UNCHANGED vars
    <2>1. task' = task /\ cur' = cur
      BY <1>3 DEF RelaySend, RelayCommit, RelayCrash, CancelBegin, AbortCancel, Pause, Resume, vars
    <2>2. env'.expiries = env.expiries
      BY <1>3 DEF RelaySend, RelayCommit, RelayCrash, CancelBegin, AbortCancel, Pause,
                  Resume, TakeRequest, vars, TypeOK, Allowances
    <2> QED
      BY <2>1, <2>2, IdleWorks DEF LeaseStep
  <1> QED
    BY <1>1, <1>2, <1>3 DEF SystemStep

-----------------------------------------------------------------------------
(* The invariant is kept *)

\* What a row was started and is owed is a number of starts.
LEMMA DueType ==
    ASSUME NEW row \in TaskRow
    PROVE  row.attempts + Owed(row) \in Nat
  <1>1. row.attempts \in Nat
    BY DEF TaskRow
  <1>2. Owed(row) \in Nat
    BY DEF Owed
  <1> QED
    BY <1>1, <1>2

\* A step keeps what leases may cost.
LEMMA PaidKept ==
    ASSUME TypeOK, TypeOK', LeaseInv, LeaseStep
    PROVE  LeasesPaid'
  <1>1. /\ MaxExpiries \in Nat /\ env.expiries \in Nat /\ env'.expiries \in Nat
        /\ env.expiries <= MaxExpiries
    BY ConstantsAssumption DEF TypeOK, Allowances, LeaseInv, LeasesPaid
  <1>2. \A t \in Tasks : /\ task[t] \in TaskRow /\ task'[t] \in TaskRow
                         /\ task[t].attempts + Owed(task[t]) <= 1 + Used
                         /\ task[t].attempts + Owed(task[t]) \in Nat
                         /\ task'[t].attempts + Owed(task'[t]) \in Nat
    <2>1. \A t \in Tasks : task[t] \in TaskRow /\ task'[t] \in TaskRow
      BY DEF TypeOK
    <2>2. \A t \in Tasks : task[t].attempts + Owed(task[t]) <= 1 + Used
      BY DEF LeaseInv, LeasesPaid
    <2> QED
      BY <2>1, <2>2, DueType
  <1>3. CASE env'.expiries = env.expiries /\ RowsProgress
    <2>1. \A t \in Tasks :
              task'[t].attempts + Owed(task'[t]) <= task[t].attempts + Owed(task[t])
      BY <1>2, <1>3, ProgressIsOwed DEF RowsProgress
    <2> QED
      BY <1>1, <1>2, <1>3, <2>1 DEF LeasesPaid, Used
  <1>4. ASSUME NEW t \in Tasks, RunsOut(t)
        PROVE  LeasesPaid'
    <2>1. task'[t] = [task[t] EXCEPT !.expired = TRUE]
          /\ \A u \in Tasks \ {t} : task'[u] = task[u]
      BY <1>4 DEF RunsOut, TypeOK
    <2>2. task'[t].attempts + Owed(task'[t]) = task[t].attempts + Owed(task[t]) + 1
      BY <1>2, <1>4, <2>1, ExpiryIsOwed DEF RunsOut
    <2>3. env'.expiries = env.expiries - 1
      BY <1>4 DEF RunsOut
    <2> DEFINE due(u) == task[u].attempts + Owed(task[u])
               dueNext(u) == task'[u].attempts + Owed(task'[u])
    <2>5. \A u \in Tasks : dueNext(u) \in {due(u), due(u) + 1}
      BY <2>1, <2>2
    <2>6. \A u \in Tasks : due(u) \in Nat /\ due(u) <= 1 + Used
      BY <1>2
    <2> HIDE DEF due, dueNext
    <2>7. \A u \in Tasks : dueNext(u) <= 1 + Used'
      BY <1>1, <2>3, <2>5, <2>6 DEF Used
    <2>4. \A u \in Tasks : task'[u].attempts + Owed(task'[u]) <= 1 + Used'
      BY <2>7 DEF dueNext
    <2> QED
      BY <1>1, <2>3, <2>4 DEF LeasesPaid
  <1> QED
    BY <1>3, <1>4 DEF LeaseStep, Works, Claims

\* A step keeps a task to one delivery until a lease runs out.
LEMMA FreshKept ==
    ASSUME TypeOK, TypeOK', LeaseInv, LeaseStep
    PROVE  LeasesFresh'
  <1>1. /\ MaxExpiries \in Nat /\ env.expiries \in Nat /\ env'.expiries \in Nat
        /\ env.expiries <= MaxExpiries
        /\ \A t \in Tasks : task[t] \in TaskRow /\ task'[t] \in TaskRow
    BY ConstantsAssumption DEF TypeOK, Allowances, LeaseInv, LeasesPaid
  <1>0. 0 \notin Tasks
    BY DEF Tasks
  <1>2. CASE env'.expiries = env.expiries /\ RowsProgress
    <2>1. \A t \in Tasks : /\ task'[t].expired => task[t].expired
                           /\ task[t].state # "pending" => task'[t].state # "pending"
      BY <1>1, <1>2, ProgressIsOwed DEF RowsProgress
    <2>2. Used' = 0 => \A t \in Tasks : ~task'[t].expired
      BY <1>2, <2>1 DEF LeaseInv, LeasesFresh, Used
    <2>3. CASE LetGo
      <3>1. \A v \in Workers : cur'[v] # 0 =>
                cur'[v] = cur[v] /\ cur'[v] \in Tasks /\ task'[cur'[v]].state # "pending"
        BY <2>1, <2>3 DEF LetGo, LeaseInv, LeasesFresh
      <3>2. ExclusiveUntilExpiry'
        BY <1>2, <3>1 DEF LeaseInv, LeasesFresh, ExclusiveUntilExpiry
      <3> QED
        BY <2>2, <3>1, <3>2 DEF LeasesFresh
    <2>4. ASSUME NEW w \in Workers, NEW t \in Tasks, Claims(w, t)
          PROVE  LeasesFresh'
      <3>1. cur'[w] = t /\ \A v \in Workers \ {w} : cur'[v] = cur[v]
        BY <2>4 DEF Claims, TypeOK
      <3>2. task'[t].state # "pending"
        BY <2>4 DEF Claims, Taken
      <3>3. \A v \in Workers : cur'[v] # 0 =>
                cur'[v] \in Tasks /\ task'[cur'[v]].state # "pending"
        BY <2>1, <3>1, <3>2 DEF LeaseInv, LeasesFresh
      <3>4. Used = 0 => \A v \in Workers \ {w} : cur'[v] # t
        <4>1. Used = 0 => task[t].state = "pending"
          BY <2>4 DEF Claims, Taken, LeaseInv, LeasesFresh
        <4>2. \A v \in Workers : cur[v] = t => task[t].state # "pending"
          BY <1>0 DEF LeaseInv, LeasesFresh
        <4> QED
          BY <3>1, <4>1, <4>2
      <3>5. ExclusiveUntilExpiry'
        BY <1>1, <1>2, <3>1, <3>4 DEF LeaseInv, LeasesFresh, ExclusiveUntilExpiry, Used
      <3> QED
        BY <2>2, <3>3, <3>5 DEF LeasesFresh
    <2> QED
      BY <1>1, <1>2, <2>3, <2>4 DEF LeaseStep, Works, RunsOut
  <1>3. ASSUME NEW t \in Tasks, RunsOut(t)
        PROVE  LeasesFresh'
    <2>1. task'[t] = [task[t] EXCEPT !.expired = TRUE]
          /\ \A u \in Tasks \ {t} : task'[u] = task[u]
      BY <1>3 DEF RunsOut, TypeOK
    <2>2. \A u \in Tasks : task'[u].state = task[u].state
      BY <1>1, <1>3, <2>1, ExpiryIsOwed DEF RunsOut
    <2>3. Used' # 0
      BY <1>1, <1>3 DEF RunsOut, Used
    <2> QED
      BY <1>1, <1>3, <2>2, <2>3 DEF RunsOut, LeaseInv, LeasesFresh, ExclusiveUntilExpiry, Used
  <1> QED
    BY <1>2, <1>3 DEF LeaseStep, Works, Claims

\* Initially no task is started, leased or held.
LEMMA LeaseInit == Init => LeaseInv
  <1> SUFFICES ASSUME Init PROVE LeaseInv
    OBVIOUS
  <1>1. env.expiries = MaxExpiries /\ MaxExpiries \in Nat /\ Used = 0
    BY ConstantsAssumption DEF Init, Used
  <1>2. \A t \in Tasks : /\ task[t].state = "pending" /\ ~task[t].expired
                         /\ task[t].attempts = 0
    BY DEF Init
  <1>3. \A w \in Workers : cur[w] = 0
    BY DEF Init
  <1>4. LeasesPaid
    BY <1>1, <1>2 DEF LeasesPaid, Owed
  <1>5. LeasesFresh
    BY <1>2, <1>3 DEF LeasesFresh, ExclusiveUntilExpiry
  <1> QED
    BY <1>4, <1>5 DEF LeaseInv

\* Every step of a run in the inductive invariant keeps it.
LEMMA LeaseStepKept == IInv /\ IInv' /\ LeaseInv /\ [Next]_vars => LeaseInv'
  <1> SUFFICES ASSUME IInv, IInv', LeaseInv, [Next]_vars PROVE LeaseInv'
    OBVIOUS
  <1>1. TypeOK /\ TypeOK' /\ DeliveriesWellFormed /\ SettlementGuarded
    BY DEF IInv
  <1>2. LeaseStep
    BY <1>1, StepKinds, DeliveryLeases, SystemLeases
  <1> QED
    BY <1>1, <1>2, PaidKept, FreshKept DEF LeaseInv

\* Leases are paid for and exclusive in every reachable state.
THEOREM LeasesHold == Spec => []LeaseInv
  BY InvariantHolds, LeaseInit, LeaseStepKept, PTL DEF Spec

\* mark_task_running counts no more attempts of a task than one and one for each
\* lease that ran out, whatever crashes, redeliveries and requests come between.
THEOREM AttemptsPaidFor == Spec => []AttemptsJustified
  <1>1. TypeOK /\ LeaseInv => AttemptsJustified
    <2> SUFFICES ASSUME TypeOK, LeaseInv, NEW t \in Tasks
                 PROVE  task[t].attempts <= 1 + (MaxExpiries - env.expiries)
      BY DEF AttemptsJustified
    <2>1. /\ task[t].attempts \in Nat /\ Owed(task[t]) \in Nat
          /\ MaxExpiries \in Nat /\ env.expiries \in Nat
      BY ConstantsAssumption DEF TypeOK, TaskRow, Allowances, Owed
    <2>2. task[t].attempts + Owed(task[t]) <= 1 + Used
      BY DEF LeaseInv, LeasesPaid
    <2> QED
      BY <2>1, <2>2 DEF Used
  <1> QED
    BY <1>1, LeasesHold, TypeCorrect, PTL

\* claim_next_task hands a task to one delivery at a time until a lease runs out
\* under it.
THEOREM LeasesExclusive == Spec => []ExclusiveUntilExpiry
  <1>1. LeaseInv => ExclusiveUntilExpiry
    BY DEF LeaseInv, LeasesFresh
  <1> QED
    BY <1>1, LeasesHold, PTL

-----------------------------------------------------------------------------
(* What a step does to the books: costs, failures, stamp and events *)

\* Costs and their records stay as they are.
LedgerKept == charged' = charged /\ run'.cost = run.cost

\* The run row, its events and its samples are left alone.
RunKept == run' = run /\ events' = events /\ sample' = sample

\* The run gets as many stamps as events.
Stamped == run'.version + Len(events) = run.version + Len(events')

\* The transitions _finalize_if_settled makes.
Finalizes(a, b) ==
    \/ a = "pausing" /\ b = "paused"
    \/ a = "cancelling" /\ b = "cancelled"
    \/ a = "running" /\ b \in {"completed", "completed_with_errors"}

\* A completion of w with the outcome o records the cost c.  It writes the
\* failures on top of those base shows, and a transition, if any, from the state
\* and the stamp base shows.
Records(w, o, c, base) ==
    /\ charged' = [charged EXCEPT ![cur[w]] = @ + c] /\ c \in Nat
    /\ run'.cost = run.cost + c
    /\ Count("failed")' = Count("failed") + Add(o, "failed")
    /\ run'.failed = (IF o = "failed" THEN base.failed + 1 ELSE run.failed)
    /\ \/ run'.version = run.version /\ run'.state = run.state /\ events' = events
       \/ /\ run'.version = base.version + 1 /\ Len(events') = Len(events) + 1
          /\ Finalizes(base.state, run'.state)
    /\ Edge

\* There are no others.
LEMMA FinalEdges ==
    ASSUME NEW r \in RunRow, FinalState(r) # r.state
    PROVE  Finalizes(r.state, FinalState(r))
  BY DEF FinalState, Finalizes

\* What one transaction's event adds to the events.
LEMMA EventsGrow ==
    ASSUME TypeOK, NEW a \in RunStates, NEW b \in RunStates
    PROVE  /\ events \o EventOf(a, b) \in Seq(Event)
           /\ Len(events \o EventOf(a, b)) = Len(events) + (IF a = b THEN 0 ELSE 1)
           /\ a = b => events \o EventOf(a, b) = events
  <1>1. EventOf(a, b) \in Seq(Event) /\ events \in Seq(Event)
    BY EventOfType DEF TypeOK
  <1>2. Len(EventOf(a, b)) = IF a = b THEN 0 ELSE 1
    BY DEF EventOf
  <1>3. CASE a = b
    <2>1. EventOf(a, b) = << >>
      BY <1>3 DEF EventOf
    <2> QED
      BY <1>1, <1>2, <1>3, <2>1, ConcatProperties, ConcatEmptySeq
  <1>4. CASE a # b
    BY <1>1, <1>2, <1>4, ConcatProperties
  <1> QED
    BY <1>3, <1>4

\* A transition stamps the run once and keeps its costs.
LEMMA MovedStamps ==
    ASSUME NEW r \in RunRow, NEW a \in RunStates, NEW b \in RunStates, NEW n \in Nat
    PROVE  /\ Moved(r, a, b, n).cost = r.cost
           /\ Moved(r, a, b, n).version = IF a = b THEN r.version ELSE n + 1
  BY DEF Moved, RunRow

\* A completion records its outcome, or leaves everything as it was.
LEMMA SettleRecords ==
    ASSUME TypeOK, NEW w \in Workers, cur[w] \in Tasks, Open(task[cur[w]].state),
           NEW seen \in RunRow, NEW row \in RunRow, NEW newTask \in TaskRow,
           NEW amount \in Nat, NEW base \in RunRow,
           newTask.state \in {"succeeded", "failed"},
           row.state = run.state, row.version = run.version, row.cost = run.cost + amount,
           row.failed = (IF newTask.state = "failed" THEN base.failed + 1 ELSE run.failed),
           seen.state = base.state, seen.version = base.version,
           SettleTask(w, seen, row, newTask, amount)
    PROVE  \/ RunKept /\ LedgerKept /\ Quit(w)
           \/ Records(w, newTask.state, amount, base) /\ Again(w)
  <1> DEFINE target == FinalState(seen)
             new == Moved(row, seen.state, target, seen.version)
             news == EventOf(seen.state, target)
             o == newTask.state
  <1>1. target \in RunStates /\ seen.state \in RunStates /\ seen.version \in Nat
    BY FinalStateType DEF RunRow
  <1>2. /\ new.state = IF seen.state = target THEN row.state ELSE target
        /\ new.failed = row.failed /\ new.cost = row.cost
        /\ new.version = IF seen.state = target THEN row.version ELSE seen.version + 1
    BY <1>1, MovedEffect, MovedStamps
  <1>3. CASE Commits(new, news)
    <2>1. /\ run' = new /\ events' = events \o news
          /\ task' = [task EXCEPT ![cur[w]] = newTask]
          /\ charged' = [charged EXCEPT ![cur[w]] = @ + amount]
          /\ Again(w)
      BY <1>3 DEF SettleTask
    <2>2. Edge
      BY <1>3, <2>1 DEF Commits, RowAccepted, Edge
    <2>3. task'[cur[w]].state = o /\ \A u \in Tasks \ {cur[w]} : task'[u] = task[u]
      BY <2>1, OneRow
    <2>4. Count("failed")' = Count("failed") + Add(o, "failed")
      <3>1. CASE o = "failed"
        <4>1. task[cur[w]].state # "failed" /\ task'[cur[w]].state = "failed"
          BY <2>3, <3>1 DEF Open, TerminalTaskStates
        <4>2. Count("failed")' = Count("failed") + 1
          BY <2>3, <4>1, CountOneMore
        <4> QED
          BY <3>1, <4>2 DEF Add
      <3>2. CASE o # "failed"
        <4>1. \A t \in Tasks : task'[t].state = "failed" <=> task[t].state = "failed"
          BY <2>3, <3>2 DEF Open, TerminalTaskStates
        <4>2. Count("failed")' = Count("failed")
          BY <4>1, CountSame
        <4> QED
          BY <3>2, <4>2, CountType DEF Add
      <3> QED
        BY <3>1, <3>2
    <2>5. \/ run'.version = run.version /\ run'.state = run.state /\ events' = events
          \/ /\ run'.version = base.version + 1 /\ Len(events') = Len(events) + 1
             /\ Finalizes(base.state, run'.state)
      <3>1. CASE seen.state = target
        <4>1. events' = events
          BY <1>1, <2>1, <3>1, EventsGrow
        <4>2. run'.version = run.version /\ run'.state = run.state
          BY <1>2, <2>1, <3>1
        <4> QED
          BY <4>1, <4>2
      <3>2. CASE seen.state # target
        <4>1. Len(events') = Len(events) + 1
          BY <1>1, <2>1, <3>2, EventsGrow
        <4>2. run'.version = base.version + 1 /\ run'.state = target
          BY <1>2, <2>1, <3>2
        <4>3. Finalizes(base.state, target)
          BY <3>2, FinalEdges
        <4> HIDE DEF target
        <4> QED
          BY <4>1, <4>2, <4>3
      <3> QED
        BY <3>1, <3>2
    <2>6. /\ run'.cost = run.cost + amount
          /\ run'.failed = (IF o = "failed" THEN base.failed + 1 ELSE run.failed)
      BY <1>2, <2>1
    <2> QED
      BY <2>1, <2>2, <2>4, <2>5, <2>6 DEF Records
  <1>4. CASE ~Commits(new, news)
    <2>1. Quit(w) /\ UNCHANGED <<run, events, sample, charged>>
      BY <1>4 DEF SettleTask, runVars
    <2> QED
      BY <2>1 DEF RunKept, LedgerKept
  <1> QED
    BY <1>3, <1>4

\* What the three completions record: a success what the call cost, a failure
\* nothing; over budget, the failure goes on top of those the snapshot shows.
LEMMA CompletionRecords ==
    ASSUME IInv, NEW w \in Workers
    PROVE  /\ CommitSuccess(w) =>
                 \/ RunKept /\ LedgerKept /\ Quit(w)
                 \/ \E c \in Costs : Records(w, "succeeded", c, run) /\ Again(w)
           /\ CommitFailure(w) =>
                 \/ RunKept /\ LedgerKept /\ Quit(w)
                 \/ Records(w, "failed", 0, run) /\ Again(w)
           /\ CommitBudget(w) =>
                 \/ RunKept /\ LedgerKept /\ Quit(w)
                 \/ Records(w, "failed", 0, snap[w]) /\ Again(w)
  <1> USE DEF IInv
  <1>1. ASSUME CommitSuccess(w) \/ CommitFailure(w) \/ CommitBudget(w)
        PROVE  /\ cur[w] \in Tasks /\ task[cur[w]] \in TaskRow /\ Open(task[cur[w]].state)
    <2>1. cur[w] \in Tasks
      BY <1>1, SettlingNamesTask DEF CommitSuccess, CommitFailure, CommitBudget
    <2> QED
      BY <1>1, <2>1 DEF TypeOK, SettlementGuarded, Open, TerminalTaskStates, CommitSuccess,
                        CommitFailure, CommitBudget
  <1>2. run \in RunRow /\ snap[w] \in RunRow
    BY DEF TypeOK
  <1>3. run.succ \in Nat /\ run.failed \in Nat /\ run.cost \in Nat /\ snap[w].failed \in Nat
    BY <1>2 DEF RunRow
  <1>4. ASSUME CommitSuccess(w)
        PROVE  \/ RunKept /\ LedgerKept /\ Quit(w)
               \/ \E c \in Costs : Records(w, "succeeded", c, run) /\ Again(w)
    <2> DEFINE seen(c) == [run EXCEPT !.succ = @ + 1, !.cost = @ + c]
               done == [task[cur[w]] EXCEPT !.state = "succeeded"]
    <2>1. PICK c \in Costs : SettleTask(w, seen(c), seen(c), done, c)
      BY <1>4 DEF CommitSuccess
    <2>2. seen(c) \in RunRow /\ c \in Nat
      BY <1>2, ConstantsAssumption, CountersType
    <2>3. done \in TaskRow /\ done.state = "succeeded"
      BY <1>1, <1>4, StateRowType DEF TaskStates, TaskRow
    <2>4. /\ seen(c).state = run.state /\ seen(c).version = run.version
          /\ seen(c).failed = run.failed /\ seen(c).cost = run.cost + c
      BY <1>2 DEF RunRow
    <2> HIDE DEF seen, done
    <2>5. \/ RunKept /\ LedgerKept /\ Quit(w)
          \/ Records(w, done.state, c, run) /\ Again(w)
      BY <1>1, <1>2, <1>4, <2>1, <2>2, <2>3, <2>4, SettleRecords
    <2> QED
      BY <2>3, <2>5
  <1>5. ASSUME CommitFailure(w)
        PROVE  \/ RunKept /\ LedgerKept /\ Quit(w)
               \/ Records(w, "failed", 0, run) /\ Again(w)
    <2> DEFINE seen == [run EXCEPT !.failed = @ + 1]
               done == [task[cur[w]] EXCEPT !.state = "failed"]
    <2>1. SettleTask(w, seen, seen, done, 0)
      BY <1>5 DEF CommitFailure
    <2>2. seen \in RunRow
      BY <1>2, CountersType
    <2>3. done \in TaskRow /\ done.state = "failed"
      BY <1>1, <1>5, StateRowType DEF TaskStates, TaskRow
    <2>4. /\ seen.state = run.state /\ seen.version = run.version
          /\ seen.failed = run.failed + 1 /\ seen.cost = run.cost + 0
      BY <1>2, <1>3 DEF RunRow
    <2> HIDE DEF seen, done
    <2>5. \/ RunKept /\ LedgerKept /\ Quit(w)
          \/ Records(w, done.state, 0, run) /\ Again(w)
      BY <1>1, <1>2, <1>5, <2>1, <2>2, <2>3, <2>4, SettleRecords
    <2> QED
      BY <2>3, <2>5
  <1>6. ASSUME CommitBudget(w)
        PROVE  \/ RunKept /\ LedgerKept /\ Quit(w)
               \/ Records(w, "failed", 0, snap[w]) /\ Again(w)
    <2> DEFINE seen == [snap[w] EXCEPT !.failed = @ + 1]
               row == [run EXCEPT !.failed = seen.failed]
               started == Started(task[cur[w]])
               done == [started EXCEPT !.state = "failed"]
    <2>1. SettleTask(w, seen, row, done, 0)
      BY <1>6 DEF CommitBudget
    <2>2. seen \in RunRow /\ seen.failed = snap[w].failed + 1
      BY <1>2, CountersType DEF RunRow
    <2>3. row \in RunRow
      <3>1. \A c \in Nat : [run EXCEPT !.failed = c] \in RunRow
        BY <1>2, CountersType
      <3>2. seen.failed \in Nat
        BY <1>3, <2>2
      <3> QED
        BY <3>1, <3>2
    <2>4. started \in TaskRow
      BY <1>1, <1>6, TaskRowType
    <2>5. done \in TaskRow /\ done.state = "failed"
      BY <2>4, StateRowType DEF TaskStates, TaskRow
    <2>6. seen.state = snap[w].state /\ seen.version = snap[w].version
      BY <1>2 DEF RunRow
    <2>7. /\ row.state = run.state /\ row.version = run.version
          /\ row.failed = seen.failed /\ row.cost = run.cost + 0
      BY <1>2, <1>3 DEF RunRow
    <2> HIDE DEF seen, row, started, done
    <2>8. \/ RunKept /\ LedgerKept /\ Quit(w)
          \/ Records(w, done.state, 0, snap[w]) /\ Again(w)
      BY <1>1, <1>2, <1>6, <2>1, <2>2, <2>3, <2>5, <2>6, <2>7, SettleRecords
    <2> QED
      BY <2>5, <2>8
  <1> QED
    BY <1>4, <1>5, <1>6

\* The other steps of a delivery leave the books alone, but for its start of the
\* run, which stamps the run it read.
LEMMA DeliveryBooks ==
    ASSUME IInv, NEW w \in Workers, Step(w) \/ Crash(w) \/ Die(w) \/ AbortDelivery(w)
    PROVE  \/ RunKept /\ LedgerKept
           \/ /\ StartRun(w) /\ LedgerKept /\ Again(w)
              /\ sample' = sample /\ run'.failed = run.failed
              /\ run'.state = "running" /\ "running" \in Guarded[run.state] \union {run.state}
              /\ run'.version = snap[w].version + 1 /\ Len(events') = Len(events) + 1
           \/ CommitSuccess(w) \/ CommitFailure(w) \/ CommitBudget(w)
  <1> USE DEF IInv, runVars, dataVars, relayVars, workerVars
  <1>1. CASE StartRun(w)
    <2> DEFINE new == Moved(run, snap[w].state, "running", snap[w].version)
               news == EventOf(snap[w].state, "running")
    <2>1. snap[w].state = "queued"
      BY <1>1 DEF StartRun, StartersSawQueued
    <2>2. /\ run \in RunRow /\ snap[w].state \in RunStates /\ snap[w].version \in Nat
          /\ "running" \in RunStates
      BY DEF TypeOK, RunRow, RunStates
    <2>3. /\ new.state = "running" /\ new.cost = run.cost /\ new.failed = run.failed
          /\ new.version = snap[w].version + 1
      BY <2>1, <2>2, MovedEffect, MovedStamps
    <2>4. CASE Commits(new, news)
      <3>1. /\ run' = new /\ events' = events \o news /\ Again(w)
            /\ charged' = charged /\ sample' = sample
        BY <1>1, <2>4 DEF StartRun
      <3>2. new.state = run.state \/ new.state \in Guarded[run.state]
        BY <2>4 DEF Commits, RowAccepted
      <3>3. Len(events') = Len(events) + 1
        BY <2>1, <2>2, <3>1, EventsGrow
      <3> HIDE DEF new
      <3> QED
        BY <1>1, <2>3, <3>1, <3>2, <3>3 DEF LedgerKept
    <2>5. CASE ~Commits(new, news)
      <3>1. UNCHANGED <<run, events, sample, charged>>
        BY <1>1, <2>5 DEF StartRun
      <3> QED
        BY <3>1 DEF RunKept, LedgerKept
    <2> QED
      BY <2>4, <2>5
  <1>2. CASE \/ Receive(w) \/ LoopRead(w) \/ Claim(w) \/ BudgetRead(w) \/ MarkRunning(w)
             \/ CallReturns(w) \/ LockForSuccess(w) \/ LockForFailure(w) \/ LockForBudget(w)
             \/ Crash(w) \/ Die(w) \/ AbortDelivery(w)
    <2>1. UNCHANGED <<run, events, sample, charged>>
      BY <1>2 DEF Receive, LoopRead, Claim, BudgetRead, MarkRunning, CallReturns,
                  LockForSuccess, LockForFailure, LockForBudget, Crash, Die, AbortDelivery
    <2> QED
      BY <2>1 DEF RunKept, LedgerKept
  <1> QED
    BY <1>1, <1>2 DEF Step

\* States a run comes to from s while no delivery moves it.
Overtaken(s) ==
    CASE s = "running" -> {"pausing", "paused", "queued", "cancelling", "cancelled"}
      [] s = "pausing" -> {"cancelling", "cancelled"}
      [] s = "paused"  -> {"queued", "cancelling", "cancelled"}
      [] s = "queued"  -> {"cancelling", "cancelled"}
      [] OTHER         -> {}

\* Operators stamp the run as often as they move it, and touch no count.
LEMMA SystemBooks ==
    ASSUME IInv, SystemStep
    PROVE  /\ LedgerKept
           /\ run'.failed = run.failed /\ Count("failed")' = Count("failed")
           /\ RunKept \/ (Stamped /\ run'.state \in Overtaken(run.state))
  <1> USE DEF IInv, runVars, dataVars, relayVars, workerVars
  <1>1. Quiet \/ Cancels
    BY SystemShape
  <1>2. run'.failed = run.failed /\ Count("failed")' = Count("failed")
    BY <1>1, OtherCounts DEF Quiet, Cancels
  <1>3. run \in RunRow /\ run.version \in Nat /\ run.state \in RunStates /\ events \in Seq(Event)
    BY DEF TypeOK, RunRow
  <1>4. Len(events) \in Nat
    BY <1>3, LenProperties
  <1>5. CASE \/ \E t \in Tasks : LeaseExpires(t)
             \/ RelaySend \/ RelayCommit \/ RelayCrash \/ CancelBegin \/ AbortCancel
             \/ UNCHANGED vars
    <2>1. UNCHANGED <<run, events, sample, charged>>
      BY <1>5 DEF LeaseExpires, RelaySend, RelayCommit, RelayCrash, CancelBegin, AbortCancel,
                  vars
    <2> QED
      BY <1>2, <2>1 DEF RunKept, LedgerKept
  <1>6. CASE CancelCommit
    <2> DEFINE target == IF InState({"running"}) = {} THEN "cancelled" ELSE "cancelling"
               first == EventOf(run.state, "cancelling")
               second == EventOf("cancelling", target)
               new == [run EXCEPT !.state = target,
                                  !.version = @ + Len(first) + Len(second),
                                  !.cancelled = @ + cancel.counted]
    <2>1. charged' = charged
      BY <1>6 DEF CancelCommit
    <2>2. CASE Commits(new, first \o second)
      <3>1. run' = new /\ events' = events \o first \o second
        BY <1>6, <2>2 DEF CancelCommit
      <3>2. run.state \in {"queued", "running", "pausing", "paused"}
        BY <1>6 DEF CancelCommit, CancelHoldsRun
      <3>3. target \in {"cancelled", "cancelling"}
        OBVIOUS
      <3>4. first \in Seq(Event) /\ second \in Seq(Event)
        BY <1>3, EventOfType DEF RunStates
      <3> HIDE DEF first, second, target
      <3>5. /\ new.state = target /\ new.cost = run.cost
            /\ new.version = run.version + Len(first) + Len(second)
        BY <1>3 DEF RunRow
      <3>6. Len(events') = Len(events) + Len(first) + Len(second)
        BY <1>3, <3>1, <3>4, ConcatProperties
      <3>7. Len(first) \in Nat /\ Len(second) \in Nat
        BY <3>4, LenProperties
      <3>8. Stamped
        BY <1>3, <1>4, <3>1, <3>5, <3>6, <3>7 DEF Stamped
      <3>9. run'.state \in Overtaken(run.state)
        BY <3>1, <3>2, <3>3, <3>5 DEF Overtaken
      <3> QED
        BY <1>2, <2>1, <3>1, <3>5, <3>8, <3>9 DEF LedgerKept
    <2>3. CASE ~Commits(new, first \o second)
      <3>1. UNCHANGED <<run, events, sample>>
        BY <1>6, <2>3 DEF CancelCommit
      <3> QED
        BY <1>2, <2>1, <3>1 DEF RunKept, LedgerKept
    <2> QED
      BY <2>2, <2>3
  <1>7. CASE Pause
    <2> DEFINE target == IF InState({"leased", "running"}) = {} THEN "paused" ELSE "pausing"
               news == EventOf("running", "pausing") \o EventOf("pausing", target)
               new == [run EXCEPT !.state = target, !.version = @ + Len(news)]
    <2>1. charged' = charged
      BY <1>7 DEF Pause
    <2>2. CASE Commits(new, news)
      <3>1. run' = new /\ events' = events \o news /\ run.state = "running"
        BY <1>7, <2>2 DEF Pause
      <3>2. target \in {"paused", "pausing"} /\ {"running", "paused", "pausing"} \subseteq RunStates
        BY DEF RunStates
      <3>3. EventOf("running", "pausing") \in Seq(Event) /\ EventOf("pausing", target) \in Seq(Event)
        BY <3>2, EventOfType
      <3>4. news \in Seq(Event)
        BY <3>3, ConcatProperties
      <3> HIDE DEF news, target
      <3>5. new.state = target /\ new.cost = run.cost /\ new.version = run.version + Len(news)
        BY <1>3 DEF RunRow
      <3>6. Len(events') = Len(events) + Len(news) /\ Len(news) \in Nat
        BY <1>3, <3>1, <3>4, ConcatProperties, LenProperties
      <3>7. Stamped
        BY <1>3, <1>4, <3>1, <3>5, <3>6 DEF Stamped
      <3>8. run'.state \in Overtaken(run.state)
        BY <3>1, <3>2, <3>5 DEF Overtaken
      <3> QED
        BY <1>2, <2>1, <3>1, <3>5, <3>7, <3>8 DEF LedgerKept
    <2>3. CASE ~Commits(new, news)
      <3>1. UNCHANGED <<run, events, sample>>
        BY <1>7, <2>3 DEF Pause
      <3> QED
        BY <1>2, <2>1, <3>1 DEF RunKept, LedgerKept
    <2> QED
      BY <2>2, <2>3
  <1>8. CASE Resume
    <2>1. charged' = charged
      BY <1>8 DEF Resume
    <2>2. CASE run.state = "paused"
      <3> DEFINE new == Moved(run, "paused", "queued", run.version)
      <3>1. run' = new /\ events' = events \o EventOf("paused", "queued")
        BY <1>8, <2>2 DEF Resume
      <3>2. "paused" \in RunStates /\ "queued" \in RunStates
        BY DEF RunStates
      <3>3. new.state = "queued" /\ new.cost = run.cost /\ new.version = run.version + 1
        <4>1. new.state = (IF "paused" = "queued" THEN run.state ELSE "queued")
          BY <1>3, <3>2, MovedEffect
        <4>2. /\ new.cost = run.cost
              /\ new.version = (IF "paused" = "queued" THEN run.version ELSE run.version + 1)
          BY <1>3, <3>2, MovedStamps
        <4> HIDE DEF new
        <4> QED
          BY <4>1, <4>2
      <3>4. Len(events') = Len(events) + 1
        BY <3>1, <3>2, EventsGrow
      <3> HIDE DEF new
      <3>5. run'.version = run.version + 1
        BY <3>1, <3>3
      <3>6. Stamped
        BY <1>3, <1>4, <3>4, <3>5 DEF Stamped
      <3>7. run'.state \in Overtaken(run.state)
        BY <2>2, <3>1, <3>3 DEF Overtaken
      <3> QED
        BY <1>2, <2>1, <3>1, <3>3, <3>6, <3>7 DEF LedgerKept
    <2>3. CASE run.state # "paused"
      <3>1. UNCHANGED <<run, events, sample>>
        BY <1>8, <2>3 DEF Resume
      <3> QED
        BY <1>2, <2>1, <3>1 DEF RunKept, LedgerKept
    <2> QED
      BY <2>2, <2>3
  <1> QED
    BY <1>5, <1>6, <1>7, <1>8 DEF SystemStep

-----------------------------------------------------------------------------
(* The ledger *)

\* The ledger says that the cost of the run is a Total.
LEMMA LedgerIsSum == CostLedger <=> run.cost = Total(charged, Tasks)
  BY DEF CostLedger, Total

\* It still is, in the next state.
LEMMA LedgerIsSumNext == CostLedger' <=> run'.cost = Total(charged', Tasks)
  <1>1. (CostLedger <=> run.cost = Total(charged, Tasks))'
    BY LedgerIsSum, PTL
  <1> QED
    BY <1>1

\* A record adds its amount to the sum.
LEMMA SumRecorded ==
    ASSUME NEW f \in [Tasks -> Nat], NEW t \in Tasks, NEW c \in Nat
    PROVE  /\ Total(f, Tasks) \in Nat
           /\ Total([f EXCEPT ![t] = @ + c], Tasks) = Total(f, Tasks) + c
  <1> DEFINE h == [f EXCEPT ![t] = @ + c]
  <1>1. \A u \in Tasks : f[u] \in Nat /\ h[u] \in Nat
    OBVIOUS
  <1>2. h[t] = f[t] + c /\ \A u \in Tasks \ {t} : h[u] = f[u]
    OBVIOUS
  <1> HIDE DEF h
  <1>3. Total(h, Tasks) + f[t] = Total(f, Tasks) + h[t]
    BY <1>1, <1>2, TasksFinite, TotalChange
  <1>4. Total(f, Tasks) \in Nat /\ Total(h, Tasks) \in Nat
    BY <1>1, TasksFinite, TotalType
  <1>5. Total(h, Tasks) = Total(f, Tasks) + c
    BY <1>1, <1>2, <1>3, <1>4
  <1> QED
    BY <1>4, <1>5 DEF h

\* And to the cost of the run.
LEMMA LedgerRecorded ==
    ASSUME TypeOK, CostLedger, NEW t \in Tasks, NEW c \in Nat,
           charged' = [charged EXCEPT ![t] = @ + c], run'.cost = run.cost + c
    PROVE  CostLedger'
  <1>1. charged \in [Tasks -> Nat]
    BY DEF TypeOK
  <1>2. Total(charged', Tasks) = Total(charged, Tasks) + c
    BY <1>1, SumRecorded
  <1> QED
    BY <1>2, LedgerIsSum, LedgerIsSumNext

\* Without a record the sum stays.
LEMMA LedgerUnchanged == CostLedger /\ LedgerKept => CostLedger'
  BY LedgerIsSum, LedgerIsSumNext DEF LedgerKept

\* Every step keeps the ledger.
LEMMA LedgerStep == IInv /\ IInv' /\ CostLedger /\ [Next]_vars => CostLedger'
  <1> SUFFICES ASSUME IInv, IInv', CostLedger, [Next]_vars PROVE CostLedger'
    OBVIOUS
  <1>1. TypeOK /\ TypeOK' /\ DeliveriesWellFormed
    BY DEF IInv
  <1>2. ASSUME NEW w \in Workers, NEW o, NEW c, NEW base, Records(w, o, c, base), pc[w] = "settling"
        PROVE  CostLedger'
    <2>1. cur[w] \in Tasks
      BY <1>1, <1>2, SettlingNamesTask
    <2> QED
      BY <1>1, <1>2, <2>1, LedgerRecorded DEF Records
  <1>3. ASSUME NEW w \in Workers, Step(w) \/ Crash(w) \/ Die(w) \/ AbortDelivery(w)
        PROVE  CostLedger'
    <2>1. ASSUME CommitSuccess(w) \/ CommitFailure(w) \/ CommitBudget(w) PROVE CostLedger'
      <3>1. pc[w] = "settling"
        BY <2>1 DEF CommitSuccess, CommitFailure, CommitBudget
      <3>2. LedgerKept \/ \E o, c, base : Records(w, o, c, base)
        BY <2>1, CompletionRecords
      <3> QED
        BY <1>2, <3>1, <3>2, LedgerUnchanged
    <2> QED
      BY <1>3, <2>1, DeliveryBooks, LedgerUnchanged
  <1>4. CASE SystemStep
    BY <1>4, SystemBooks, LedgerUnchanged
  <1> QED
    BY <1>3, <1>4, StepKinds

\* A new run has cost nothing.
LEMMA LedgerInit == Init => CostLedger
  <1> SUFFICES ASSUME Init PROVE CostLedger
    OBVIOUS
  <1>1. \A t \in Tasks : charged[t] = 0
    BY DEF Init
  <1>2. Total(charged, Tasks) = 0
    BY <1>1, TasksFinite, TotalOfZeros
  <1>3. run.cost = 0
    BY DEF Init
  <1> QED
    BY <1>2, <1>3, LedgerIsSum

\* actual_cost is the sum of the cost records in every state: CommitSuccess writes
\* both in one transaction under the run's lock, and the budget path, which writes
\* the run from a stale object, does not write its cost.
THEOREM LedgerBalances == Spec => []CostLedger
  BY LedgerInit, LedgerStep, InvariantHolds, PTL DEF Spec

-----------------------------------------------------------------------------
(* Deliveries one at a time *)

\* No two deliveries are under way.
OneAtATime == \A u, v \in Workers : pc[u] # "idle" /\ pc[v] # "idle" => u = v

\* The object w holds shows the run as it is, or as it was before an operator
\* moved it on.
SeesNow(w) ==
    \/ snap[w].state = run.state /\ snap[w].version = run.version
    \/ run.state \in Overtaken(snap[w].state)

\* The budget check has let the task of w through, and nothing was paid for it yet.
Cleared(w) ==
    \/ pc[w] \in {"marking", "calling", "returned"}
    \/ pc[w] = "settling" /\ result[w] # "budget"

\* What w has read still holds.
ReadsHold(w) ==
    /\ pc[w] = "starting" \/ BudgetViews(w) => SeesNow(w)
    /\ BudgetViews(w) => snap[w].failed = run.failed

\* What the claims need, and the first two of them.
ClaimInv ==
    /\ VersionCountsEvents
    /\ FailuresCounted
    /\ \A w \in Workers : ReadsHold(w)

\* The last one: whoever was cleared still fits the budget.
BudgetInv ==
    /\ BudgetRespected
    /\ \A w \in Workers : Cleared(w) => run.cost + Estimate <= BudgetLimit

\* The schema turns down a transition of a run that was overtaken.
LEMMA OvertakenRejected ==
    ASSUME NEW s, NEW r \in Overtaken(s), NEW target,
           Finalizes(s, target) \/ (s = "queued" /\ target = "running")
    PROVE  target # r /\ target \notin Guarded[r]
  <1>1. /\ Guarded["pausing"] = {"paused", "cancelling"}
        /\ Guarded["paused"] = {"queued", "cancelling"}
        /\ Guarded["queued"] = {"running", "cancelling", "failed"}
        /\ Guarded["cancelling"] = {"cancelled"} /\ Guarded["cancelled"] = {}
    BY DEF Guarded, RunStates
  <1> QED
    BY <1>1 DEF Overtaken, Finalizes

\* Being overtaken again is being overtaken.
LEMMA OvertakenTwice ==
    ASSUME NEW s, NEW r \in {s} \union Overtaken(s), NEW q \in Overtaken(r)
    PROVE  q \in Overtaken(s)
  BY DEF Overtaken

\* Steps that leave the samples alone leave the failed tasks alone.
LEMMA FailedSame ==
    ASSUME SampleMatchesOutcome, SampleMatchesOutcome', sample' = sample
    PROVE  Count("failed")' = Count("failed")
  <1>1. \A t \in Tasks : task'[t].state = "failed" <=> task[t].state = "failed"
    BY DEF SampleMatchesOutcome
  <1> QED
    BY <1>1, CountSame

\* While another delivery is under way, w can only receive its message.
LEMMA OnlyReceives ==
    ASSUME NEW w \in Workers, pc[w] = "idle",
           Step(w) \/ Crash(w) \/ Die(w) \/ AbortDelivery(w)
    PROVE  Receive(w)
  BY DEF Step, StartRun, LoopRead, Claim, BudgetRead, MarkRunning, CallReturns,
         LockForSuccess, LockForFailure, LockForBudget, CommitSuccess, CommitFailure,
         CommitBudget, Crash, Die, AbortDelivery, Deadlocked

\* So a step of one delivery finds the others idle, or leaves the run alone.
LEMMA OthersWait ==
    ASSUME IInv, OneAtATime, NEW w \in Workers,
           Step(w) \/ Crash(w) \/ Die(w) \/ AbortDelivery(w), NEW v \in Workers \ {w}
    PROVE  /\ pc'[v] = pc[v] /\ snap'[v] = snap[v] /\ result'[v] = result[v]
           /\ pc[v] # "idle" => run' = run
  <1>1. DeliveryMove(w)
    BY DeliveryMoves DEF IInv
  <1>2. ASSUME pc[v] # "idle" PROVE run' = run
    <2>1. pc[w] = "idle"
      BY <1>2 DEF OneAtATime
    <2>2. Receive(w)
      BY <2>1, OnlyReceives
    <2> QED
      BY <2>2 DEF Receive, runVars
  <1> QED
    BY <1>1, <1>2 DEF DeliveryMove, OthersKept

-----------------------------------------------------------------------------
(* Stamps and failures *)

\* What the others have read stays true.
LEMMA OthersReads ==
    ASSUME IInv, OneAtATime, ClaimInv, NEW w \in Workers,
           Step(w) \/ Crash(w) \/ Die(w) \/ AbortDelivery(w), NEW v \in Workers \ {w}
    PROVE  ReadsHold(v)'
  <1>1. /\ pc'[v] = pc[v] /\ snap'[v] = snap[v] /\ result'[v] = result[v]
        /\ pc[v] # "idle" => run' = run
    BY OthersWait
  <1>2. ReadsHold(v)
    BY DEF ClaimInv
  <1>3. CASE pc[v] = "idle"
    BY <1>1, <1>3 DEF ReadsHold, BudgetViews
  <1>4. CASE pc[v] # "idle"
    BY <1>1, <1>2, <1>4 DEF ReadsHold, BudgetViews, SeesNow
  <1> QED
    BY <1>3, <1>4

\* A delivery that leaves the run alone reads it as it is.
LEMMA OwnReads ==
    ASSUME IInv, ClaimInv, NEW w \in Workers, RunKept,
           Step(w) \/ Crash(w) \/ Die(w) \/ AbortDelivery(w)
    PROVE  ReadsHold(w)'
  <1>1. OwnMove(w)
    BY DeliveryMoves DEF IInv, DeliveryMove
  <1>2. ReadsHold(w) /\ run' = run
    BY DEF ClaimInv, RunKept
  <1>3. CASE pc'[w] = "starting" \/ pc'[w] = "overbudget"
    <2>1. snap'[w] = run /\ pc'[w] # "settling"
      BY <1>1, <1>3 DEF OwnMove, Holding
    <2> QED
      BY <1>2, <2>1 DEF ReadsHold, SeesNow
  <1>4. CASE pc'[w] = "settling" /\ result'[w] = "budget"
    <2>1. pc[w] = "overbudget" /\ snap'[w] = snap[w]
      BY <1>1, <1>4 DEF OwnMove, Holding
    <2> QED
      BY <1>2, <1>4, <2>1 DEF ReadsHold, BudgetViews, SeesNow
  <1>5. CASE ~(pc'[w] \in {"starting", "overbudget"} \/ (pc'[w] = "settling" /\ result'[w] = "budget"))
    BY <1>5 DEF ReadsHold, BudgetViews
  <1> QED
    BY <1>3, <1>4, <1>5

\* Nor does it hold an object once it goes round the loop.
LEMMA AgainReads ==
    ASSUME TypeOK, NEW w \in Workers, Again(w)
    PROVE  ReadsHold(w)'
  <1>1. pc'[w] = "loop"
    BY AgainEffect
  <1> QED
    BY <1>1 DEF ReadsHold, BudgetViews

\* A transition from what the run shows, or from what it showed before an operator
\* moved it, is the one stamp of the one event.
LEMMA TransitionStamped ==
    ASSUME VersionCountsEvents, NEW s, NEW n, NEW target,
           Finalizes(s, target) \/ (s = "queued" /\ target = "running"),
           (s = run.state /\ n = run.version) \/ run.state \in Overtaken(s),
           target \in Guarded[run.state] \/ target = run.state,
           run'.version = n + 1, Len(events') = Len(events) + 1
    PROVE  VersionCountsEvents'
  <1>1. n = run.version
    BY OvertakenRejected
  <1> QED
    BY <1>1 DEF VersionCountsEvents

\* A completion keeps stamps and failures counted.
LEMMA RecordsClaims ==
    ASSUME IInv, ClaimInv, NEW w \in Workers, NEW o \in {"succeeded", "failed"}, NEW c,
           NEW base, Records(w, o, c, base),
           base.failed = run.failed,
           (base.state = run.state /\ base.version = run.version)
              \/ run.state \in Overtaken(base.state)
    PROVE  VersionCountsEvents' /\ FailuresCounted'
  <1>1. run.failed = Count("failed") /\ Count("failed") \in Nat
    BY CountType DEF ClaimInv, FailuresCounted, Count
  <1>2. run'.failed = Count("failed")'
    BY <1>1 DEF Records, Add
  <1>3. FailuresCounted'
    BY <1>2 DEF FailuresCounted, Count
  <1>4. ASSUME run'.version = run.version /\ events' = events
        PROVE  VersionCountsEvents'
    BY <1>4 DEF ClaimInv, VersionCountsEvents
  <1>5. ASSUME /\ run'.version = base.version + 1 /\ Len(events') = Len(events) + 1
               /\ Finalizes(base.state, run'.state)
        PROVE  VersionCountsEvents'
    <2>1. run'.state \in Guarded[run.state] \/ run'.state = run.state
      BY DEF Records, Edge
    <2>2. VersionCountsEvents
      BY DEF ClaimInv
    <2> QED
      BY <1>5, <2>1, <2>2, TransitionStamped
  <1>6. VersionCountsEvents'
    BY <1>4, <1>5 DEF Records
  <1> QED
    BY <1>3, <1>6

\* The failures stay counted when neither they nor their number change.
LEMMA FailuresSame ==
    ASSUME FailuresCounted, run'.failed = run.failed, Count("failed")' = Count("failed")
    PROVE  FailuresCounted'
  <1>1. run'.failed = Count("failed")'
    BY DEF FailuresCounted, Count
  <1> QED
    BY <1>1 DEF FailuresCounted, Count

\* A step of a delivery that finds no other under way keeps the claims.
LEMMA DeliveryClaims ==
    ASSUME IInv, IInv', OneAtATime, ClaimInv, NEW w \in Workers,
           Step(w) \/ Crash(w) \/ Die(w) \/ AbortDelivery(w)
    PROVE  ClaimInv'
  <1>1. \A v \in Workers \ {w} : ReadsHold(v)'
    BY OthersReads
  <1>2. /\ VersionCountsEvents /\ FailuresCounted /\ ReadsHold(w)
        /\ TypeOK /\ SampleMatchesOutcome /\ SampleMatchesOutcome'
    BY DEF ClaimInv, IInv
  <1>3. CASE RunKept
    <2>1. VersionCountsEvents'
      BY <1>2, <1>3 DEF RunKept, VersionCountsEvents
    <2>2. FailuresCounted'
      BY <1>2, <1>3, FailedSame, FailuresSame DEF RunKept
    <2> QED
      BY <1>1, <1>3, <2>1, <2>2, OwnReads DEF ClaimInv
  <1>4. CASE /\ StartRun(w) /\ LedgerKept /\ Again(w)
             /\ sample' = sample /\ run'.failed = run.failed
             /\ run'.state = "running" /\ "running" \in Guarded[run.state] \union {run.state}
             /\ run'.version = snap[w].version + 1 /\ Len(events') = Len(events) + 1
    <2>1. snap[w].state = "queued" /\ SeesNow(w)
      BY <1>2, <1>4 DEF StartRun, IInv, StartersSawQueued, ReadsHold
    <2>2. VersionCountsEvents'
      <3>1. \/ "queued" = run.state /\ snap[w].version = run.version
            \/ run.state \in Overtaken("queued")
        BY <2>1 DEF SeesNow
      <3>2. "running" \in Guarded[run.state] \/ "running" = run.state
        BY <1>4
      <3>3. run'.version = snap[w].version + 1 /\ Len(events') = Len(events) + 1
        BY <1>4
      <3> QED
        BY <1>2, <3>1, <3>2, <3>3, TransitionStamped
    <2>3. FailuresCounted'
      BY <1>2, <1>4, FailedSame, FailuresSame
    <2> QED
      BY <1>1, <1>2, <1>4, <2>2, <2>3, AgainReads DEF ClaimInv
  <1>5. ASSUME NEW o \in {"succeeded", "failed"}, NEW c, Records(w, o, c, run), Again(w)
        PROVE  ClaimInv'
    <2>1. VersionCountsEvents' /\ FailuresCounted'
      BY <1>5, RecordsClaims
    <2> QED
      BY <1>1, <1>2, <1>5, <2>1, AgainReads DEF ClaimInv
  <1>6. ASSUME CommitBudget(w), Records(w, "failed", 0, snap[w]), Again(w)
        PROVE  ClaimInv'
    <2>1. snap[w].failed = run.failed /\ SeesNow(w)
      BY <1>2, <1>6 DEF CommitBudget, ReadsHold, BudgetViews
    <2>2. VersionCountsEvents' /\ FailuresCounted'
      BY <1>6, <2>1, RecordsClaims DEF SeesNow
    <2> QED
      BY <1>1, <1>2, <1>6, <2>2, AgainReads DEF ClaimInv
  <1>7. CASE CommitSuccess(w) \/ CommitFailure(w) \/ CommitBudget(w)
    BY <1>3, <1>5, <1>6, <1>7, CompletionRecords
  <1> QED
    BY <1>3, <1>4, <1>7, DeliveryBooks

\* So do the steps of operators, relay and clock.
LEMMA SystemClaims ==
    ASSUME IInv, IInv', ClaimInv, SystemStep
    PROVE  ClaimInv'
  <1>1. UNCHANGED workerVars
    BY SystemMoves DEF IInv, SystemMove
  <1>2. /\ run'.failed = run.failed /\ Count("failed")' = Count("failed")
        /\ RunKept \/ (Stamped /\ run'.state \in Overtaken(run.state))
    BY SystemBooks
  <1>3. /\ VersionCountsEvents /\ FailuresCounted /\ \A w \in Workers : ReadsHold(w)
        /\ run \in RunRow /\ events \in Seq(Event)
    BY DEF ClaimInv, IInv, TypeOK
  <1>4. FailuresCounted'
    BY <1>2, <1>3, FailuresSame
  <1>5. CASE RunKept
    <2>1. VersionCountsEvents' /\ \A w \in Workers : ReadsHold(w)'
      BY <1>1, <1>3, <1>5
         DEF RunKept, VersionCountsEvents, ReadsHold, BudgetViews, SeesNow, workerVars
    <2> QED
      BY <1>4, <2>1 DEF ClaimInv
  <1>6. CASE Stamped /\ run'.state \in Overtaken(run.state)
    <2>1. VersionCountsEvents'
      <3>1. run.version = Len(events) /\ Len(events) \in Nat
        BY <1>3, LenProperties DEF VersionCountsEvents
      <3>2. run'.version \in Nat /\ Len(events') \in Nat
        BY LenProperties DEF IInv, TypeOK, RunRow
      <3> QED
        BY <1>6, <3>1, <3>2 DEF Stamped, VersionCountsEvents
    <2>2. ASSUME NEW w \in Workers PROVE ReadsHold(w)'
      <3>1. ReadsHold(w) /\ pc'[w] = pc[w] /\ snap'[w] = snap[w] /\ result'[w] = result[w]
        BY <1>1, <1>3 DEF workerVars
      <3>2. SeesNow(w) => run'.state \in Overtaken(snap[w].state)
        BY <1>6, OvertakenTwice DEF SeesNow
      <3> QED
        BY <1>2, <3>1, <3>2 DEF ReadsHold, BudgetViews, SeesNow
    <2> QED
      BY <1>4, <2>1, <2>2 DEF ClaimInv
  <1> QED
    BY <1>2, <1>5, <1>6

\* A new run has three events and the stamp three, and nobody has read it.
LEMMA ClaimInit == Init => ClaimInv
  <1> SUFFICES ASSUME Init PROVE ClaimInv
    OBVIOUS
  <1>1. VersionCountsEvents
    BY DEF Init, VersionCountsEvents
  <1>2. InState({"failed"}) = {}
    BY DEF Init, InState
  <1>3. FailuresCounted
    BY <1>2, FS_EmptySet DEF Init, FailuresCounted
  <1>4. \A w \in Workers : ReadsHold(w)
    BY DEF Init, ReadsHold, BudgetViews
  <1> QED
    BY <1>1, <1>3, <1>4 DEF ClaimInv

\* Every step with at most one delivery under way keeps the claims.
LEMMA ClaimStep ==
    IInv /\ IInv' /\ OneAtATime /\ ClaimInv /\ [Next]_vars => ClaimInv'
  <1> SUFFICES ASSUME IInv, IInv', OneAtATime, ClaimInv, [Next]_vars PROVE ClaimInv'
    OBVIOUS
  <1> QED
    BY StepKinds, DeliveryClaims, SystemClaims

\* Both hold as long as deliveries come one at a time.
LEMMA ClaimsHold == Spec /\ []OneAtATime => []ClaimInv
  BY ClaimInit, ClaimStep, InvariantHolds, PTL DEF Spec

\* The stamp of a run counts its events, with deliveries one at a time: no
\* transition is stamped from a stale object without the trigger turning it down.
THEOREM StampsCountEvents == Spec /\ []OneAtATime => []VersionCountsEvents
  <1>1. ClaimInv => VersionCountsEvents
    BY DEF ClaimInv
  <1> QED
    BY <1>1, ClaimsHold, PTL

\* failed_tasks is the number of failed tasks, with deliveries one at a time: the
\* counter the budget path read is still the one it overwrites.
THEOREM FailuresExact == Spec /\ []OneAtATime => []FailuresCounted
  <1>1. ClaimInv => FailuresCounted
    BY DEF ClaimInv
  <1> QED
    BY <1>1, ClaimsHold, PTL

-----------------------------------------------------------------------------
(* The budget *)

\* A delivery is cleared by the budget check and in no other way.
LEMMA ClearedByCheck ==
    ASSUME TypeOK, NEW w \in Workers,
           Step(w) \/ Crash(w) \/ Die(w) \/ AbortDelivery(w), Cleared(w)'
    PROVE  Cleared(w) \/ run.cost + Estimate <= BudgetLimit
  <1>1. run.cost + Estimate \in Nat /\ BudgetLimit \in Nat
    BY ConstantsAssumption DEF TypeOK, RunRow
  <1>2. ASSUME Again(w) \/ Quit(w) PROVE FALSE
    <2>1. pc'[w] \in {"loop", "idle"}
      BY <1>2, AgainEffect, QuitEffect
    <2> QED
      BY <2>1 DEF Cleared
  <1>3. ASSUME UNCHANGED workerVars PROVE Cleared(w)
    BY <1>3 DEF Cleared, workerVars
  <1>4. ASSUME NEW place \in Places, Goto(w, place)
        PROVE  pc'[w] = place /\ result'[w] = result[w]
    BY <1>4 DEF TypeOK, Goto
  <1>5. CASE Receive(w)
    <2>1. ASSUME Goto(w, "starting") \/ Goto(w, "loop") PROVE FALSE
      BY <1>4, <2>1 DEF Cleared, Places
    <2> QED
      BY <1>3, <1>5, <2>1 DEF Receive
  <1>6. CASE StartRun(w)
    BY <1>2, <1>6 DEF StartRun
  <1>7. CASE LoopRead(w)
    <2>1. ASSUME Goto(w, "claiming") PROVE FALSE
      BY <1>4, <2>1 DEF Cleared, Places
    <2> QED
      BY <1>2, <1>7, <2>1 DEF LoopRead
  <1>8. CASE Claim(w)
    <2>1. ASSUME pc' = [pc EXCEPT ![w] = "leased"] PROVE FALSE
      BY <2>1 DEF TypeOK, Cleared
    <2> QED
      BY <1>2, <1>8, <2>1 DEF Claim
  <1>9. CASE BudgetRead(w)
    <2>1. ASSUME Goto(w, "overbudget") PROVE FALSE
      BY <1>4, <2>1 DEF Cleared, Places
    <2> QED
      BY <1>1, <1>9, <2>1 DEF BudgetRead
  <1>10. CASE MarkRunning(w)
    <2>1. pc[w] = "marking"
      BY <1>10 DEF MarkRunning
    <2> QED
      BY <2>1 DEF Cleared
  <1>11. CASE CallReturns(w)
    <2>1. pc[w] = "calling"
      BY <1>11 DEF CallReturns
    <2> QED
      BY <2>1 DEF Cleared
  <1>12. CASE LockForSuccess(w) \/ LockForFailure(w)
    <2>1. pc[w] = "returned"
      BY <1>12 DEF LockForSuccess, LockForFailure
    <2> QED
      BY <2>1 DEF Cleared
  <1>13. CASE LockForBudget(w)
    <2>1. ASSUME pc' = [pc EXCEPT ![w] = "settling"], result' = [result EXCEPT ![w] = "budget"]
          PROVE  FALSE
      BY <2>1 DEF TypeOK, Cleared
    <2> QED
      BY <1>2, <1>13, <2>1 DEF LockForBudget
  <1>14. CASE CommitSuccess(w) \/ CommitFailure(w) \/ CommitBudget(w)
    BY <1>2, <1>14 DEF CommitSuccess, CommitFailure, CommitBudget, SettleTask
  <1>15. CASE Crash(w) \/ Die(w) \/ AbortDelivery(w)
    BY <1>2, <1>15 DEF Crash, Die, AbortDelivery
  <1> QED
    BY <1>5, <1>6, <1>7, <1>8, <1>9, <1>10, <1>11, <1>12, <1>13, <1>14, <1>15 DEF Step

\* The step of a delivery keeps the budget, if no call costs more than estimated.
LEMMA DeliveryBudget ==
    ASSUME \A c \in Costs : c <= Estimate,
           IInv, IInv', OneAtATime, BudgetInv, NEW w \in Workers,
           Step(w) \/ Crash(w) \/ Die(w) \/ AbortDelivery(w)
    PROVE  BudgetInv'
  <1>1. /\ TypeOK /\ run.cost \in Nat /\ Estimate \in Nat /\ BudgetLimit \in Nat
        /\ run.cost <= BudgetLimit
        /\ \A v \in Workers : Cleared(v) => run.cost + Estimate <= BudgetLimit
    BY ConstantsAssumption DEF IInv, TypeOK, RunRow, BudgetInv, BudgetRespected
  <1>2. \A v \in Workers \ {w} : Cleared(v)' => run'.cost + Estimate <= BudgetLimit
    <2>1. ASSUME NEW v \in Workers \ {w}, Cleared(v)'
          PROVE  run'.cost + Estimate <= BudgetLimit
      <3>1. /\ pc'[v] = pc[v] /\ snap'[v] = snap[v] /\ result'[v] = result[v]
            /\ pc[v] # "idle" => run' = run
        BY OthersWait
      <3>2. Cleared(v) /\ pc[v] # "idle"
        BY <2>1, <3>1 DEF Cleared
      <3> QED
        BY <1>1, <3>1, <3>2
    <2> QED
      BY <2>1
  <1>3. ASSUME run'.cost = run.cost PROVE BudgetInv'
    <2>1. Cleared(w)' => run'.cost + Estimate <= BudgetLimit
      BY <1>1, <1>3, ClearedByCheck
    <2> QED
      BY <1>1, <1>2, <1>3, <2>1 DEF BudgetInv, BudgetRespected
  <1>4. ASSUME CommitSuccess(w), NEW c \in Costs, Records(w, "succeeded", c, run), Again(w)
        PROVE  BudgetInv'
    <2>1. Cleared(w)
      BY <1>4 DEF CommitSuccess, Cleared
    <2>2. run'.cost = run.cost + c /\ c \in Nat /\ c <= Estimate
      BY <1>4 DEF Records
    <2>3. run'.cost <= BudgetLimit
      BY <1>1, <2>1, <2>2
    <2>4. pc'[w] = "loop"
      BY <1>1, <1>4, AgainEffect
    <2>5. ~Cleared(w)'
      BY <2>4 DEF Cleared
    <2> QED
      BY <1>2, <2>3, <2>5 DEF BudgetInv, BudgetRespected
  <1>5. ASSUME NEW base, Records(w, "failed", 0, base) PROVE BudgetInv'
    <2>1. run'.cost = run.cost
      BY <1>1, <1>5 DEF Records
    <2> QED
      BY <1>3, <2>1
  <1> QED
    BY <1>3, <1>4, <1>5, DeliveryBooks, CompletionRecords DEF LedgerKept

\* Every step with at most one delivery under way does.
LEMMA BudgetStep ==
    ASSUME \A c \in Costs : c <= Estimate
    PROVE  IInv /\ IInv' /\ OneAtATime /\ BudgetInv /\ [Next]_vars => BudgetInv'
  <1> SUFFICES ASSUME IInv, IInv', OneAtATime, BudgetInv, [Next]_vars PROVE BudgetInv'
    OBVIOUS
  <1>1. ASSUME SystemStep PROVE BudgetInv'
    <2>1. UNCHANGED workerVars /\ run'.cost = run.cost
      BY <1>1, SystemMoves, SystemBooks DEF IInv, SystemMove, LedgerKept
    <2> QED
      BY <2>1 DEF BudgetInv, BudgetRespected, Cleared, workerVars
  <1> QED
    BY <1>1, StepKinds, DeliveryBudget

\* A new run costs nothing.
LEMMA BudgetInit == Init => BudgetInv
  BY ConstantsAssumption DEF Init, BudgetInv, BudgetRespected, Cleared

\* actual_cost stays within budget_limit when no call costs more than estimated and
\* deliveries come one at a time: what the budget check saw still holds when the
\* call it let through is paid for.
THEOREM BudgetKept ==
    ASSUME \A c \in Costs : c <= Estimate
    PROVE  Spec /\ []OneAtATime => []BudgetRespected
  <1>1. BudgetInv => BudgetRespected
    BY DEF BudgetInv
  <1>2. IInv /\ IInv' /\ OneAtATime /\ BudgetInv /\ [Next]_vars => BudgetInv'
    BY BudgetStep
  <1> QED
    BY <1>1, <1>2, BudgetInit, InvariantHolds, PTL DEF Spec

\* One worker process executes one delivery at a time.
LEMMA OneWorker == ASSUME NEW w, Workers = {w} PROVE OneAtATime
  BY DEF OneAtATime
=============================================================================
