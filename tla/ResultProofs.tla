----------------------------- MODULE ResultProofs -----------------------------
(***************************************************************************)
(* What a run reports, proved for any suite, plan, currencies and bills:   *)
(* the reports add up to what it spent and did, and a paid answer is kept. *)
(* And what a comparison of two runs and a gate on it say, for any         *)
(* histories of the runs, p-values and rules, however long they go on; and *)
(* that the statistics of two raters fit together, for any scores.         *)
(***************************************************************************)
EXTENDS RunResults, Comparisons, Agreement, Counting, FunctionTheorems

-----------------------------------------------------------------------------
(* The inductive invariant *)

MetricIds == DOMAIN Builtin \union {Unregistered}

Plan == [at : {"none", "404", "422", "created"}, suite : Seq(MetricIds),
         type : TaskTypes \union {"generation"}, records : [PlanRecords -> RecordForms],
         estimate : Nat]

Score == [metric : MetricIds, version : {"1.0.0", "unknown"},
          status : {"failed", "missing", "succeeded"}]

BillRow == [amount : Nat, money : Monies \union {"none"}, estimated : BOOLEAN]

WorkRow == [state : {"pending", "running", "succeeded", "failed"}, scores : SUBSET Score,
            bill : BillRow, failure : Failures \union {NoFailure}, paid : Nat, spoilt : Nat]

ResultsTypeOK ==
    /\ plan \in Plan
    /\ IsFiniteSet(DOMAIN work) /\ work \in [DOMAIN work -> WorkRow]
    /\ spent \in Nat
    /\ plan.at # "created" => DOMAIN work = {}

Kept(row) == IF row.state = "succeeded" THEN 1 ELSE 0

\* One result for each metric of the suite.
ScoresFit(scores, record) ==
    /\ Cardinality(scores) = Len(plan.suite)
    /\ {s.metric : s \in scores} = ToSet(plan.suite)
    /\ \A s \in scores : ~Applicable(s.metric, record) => s.status = "failed"

\* An answer to the record can be kept at all.
Savable(record) == plan.records[record] # "unreadable" /\ IsInjective(plan.suite)

\* What the row of a record tells by itself: only a success has a bill, and all its
\* results; an answer paid for and not kept could not be.
RowTells(row, record) ==
    /\ row.state = "failed" <=> row.failure # NoFailure
    /\ row.state = "succeeded" => row.bill.money \in Monies /\ ScoresFit(row.scores, record)
    /\ row.state # "succeeded" => row.bill.amount = 0
    /\ Savable(record) => row.paid = Kept(row) + row.spoilt
    /\ ~Savable(record) => row.state # "succeeded"

RowsTell == \A t \in DOMAIN work : RowTells(work[t], t[1])

Amounts == [t \in DOMAIN work |-> work[t].bill.amount]

ResultsInv == ResultsTypeOK /\ RowsTell /\ spent = Total(Amounts, DOMAIN work)

-----------------------------------------------------------------------------
(* The rows of a run *)

\* A run begins with a row for each task, none of them billed.
LEMMA RunIsCreated ==
    ASSUME ResultsInv,
           NEW permitted \in BOOLEAN, NEW secret \in BOOLEAN, NEW valid \in BOOLEAN,
           NEW suite \in Suites, NEW type \in TaskTypes,
           NEW records \in [PlanRecords -> RecordForms], NEW estimate \in Estimates,
           NEW repetitions \in RunRepetitions,
           CreateRun(permitted, secret, valid, suite, type, records, estimate, repetitions)
    PROVE  ResultsInv'
<1>1. DOMAIN work = {} /\ spent = 0 /\ spent = Total(Amounts, DOMAIN work)
  <2>1. DOMAIN work = {}
    BY DEF CreateRun, ResultsInv, ResultsTypeOK
  <2>. QED  BY <2>1, TotalOfNone DEF ResultsInv
<1>2. ASSUME NEW why \in {"404", "422"}, RefusePlan(why) PROVE ResultsInv'
  <2>1. plan' \in Plan /\ plan'.at # "created" /\ work' = work /\ spent' = spent
    <3>1. NoPlan \in Plan
      BY DEF NoPlan, Plan, RecordForms
    <3>. QED  BY <1>2, <3>1 DEF RefusePlan, Plan
  <2>2. Total(Amounts, DOMAIN work)' = Total(Amounts, DOMAIN work)
    BY <2>1 DEF Amounts
  <2>3. ResultsTypeOK' /\ RowsTell'
    BY <1>1, <2>1, FS_EmptySet DEF ResultsTypeOK, RowsTell
  <2>. QED  BY <1>1, <2>1, <2>2, <2>3 DEF ResultsInv
<1>3. ASSUME plan' = [at |-> "created", suite |-> suite, type |-> type, records |-> records,
                      estimate |-> estimate],
             work' = [t \in PlanRecords \X (1..repetitions) |-> NewWork],
             spent' = spent
      PROVE  ResultsInv'
  <2>. DEFINE D == PlanRecords \X (1..repetitions)
  <2>1. plan' \in Plan
    BY <1>3, ResultsAssumption DEF Plan, MetricIds
  <2>2. NewWork \in WorkRow
    <3>. PICK none : none = NoFailure
      OBVIOUS
    <3>. QED  BY DEF NewWork, WorkRow, BillRow
  <2>3. IsFiniteSet(D)
    <3>1. IsFiniteSet(PlanRecords) /\ IsFiniteSet(1..repetitions)
      BY ResultsAssumption, FS_Interval
    <3>. QED  BY <3>1, FS_Product
  <2>4. DOMAIN work' = D /\ work' \in [D -> WorkRow]
    BY <1>3, <2>2
  <2>5. ResultsTypeOK'
    BY <1>1, <1>3, <2>1, <2>3, <2>4 DEF ResultsTypeOK
  <2>6. RowsTell'
    BY <1>3, <2>4 DEF RowsTell, RowTells, Kept, NewWork
  <2>7. Total(Amounts, DOMAIN work)' = 0
    <3>1. Amounts' = [t \in D |-> 0] /\ DOMAIN work' = D
      BY <1>3 DEF Amounts, NewWork
    <3>. HIDE DEF D
    <3>2. Total([t \in D |-> 0], D) = 0
      BY <2>3, TotalOfZeros
    <3>. QED  BY <3>1, <3>2
  <2>. QED  BY <1>1, <1>3, <2>5, <2>6, <2>7 DEF ResultsInv
<1>. QED  BY <1>2, <1>3 DEF CreateRun

\* A row that is settled or paid for once more takes its bill along.
LEMMA RowIsSettled ==
    ASSUME ResultsInv, NEW t \in DOMAIN work, NEW row \in WorkRow, work' = [work EXCEPT ![t] = row],
           plan' = plan, RowTells(row, t[1]), work[t].state # "succeeded",
           spent' = spent + row.bill.amount
    PROVE  ResultsInv'
<1>1. DOMAIN work' = DOMAIN work /\ work' \in [DOMAIN work -> WorkRow]
  BY DEF ResultsInv, ResultsTypeOK
<1>2. \A r \in WorkRow : r.bill.amount \in Nat
  BY DEF WorkRow, BillRow
<1>3. ResultsTypeOK'
  <2>1. spent' \in Nat
    BY <1>2 DEF ResultsInv, ResultsTypeOK
  <2>. QED  BY <1>1, <2>1 DEF ResultsInv, ResultsTypeOK
<1>4. RowsTell'
  <2>1. ASSUME NEW u \in DOMAIN work PROVE RowTells(work'[u], u[1])
    BY <1>1 DEF ResultsInv, RowsTell
  <2>2. ASSUME NEW r, NEW k PROVE RowTells(r, k)' <=> RowTells(r, k)
    BY DEF RowTells, Kept, Savable, ScoresFit, Applicable, Known
  <2>3. ASSUME NEW u \in DOMAIN work PROVE RowTells(work[u], u[1])'
    <3>1. PICK r : r = work'[u]
      OBVIOUS
    <3>2. RowTells(r, u[1])'
      BY <2>1, <2>2, <3>1
    <3>. QED  BY <3>1, <3>2 DEF RowTells, Kept, Savable, ScoresFit, Applicable, Known
  <2>. QED  BY <1>1, <2>3 DEF RowsTell
<1>5. Total(Amounts, DOMAIN work)' = Total(Amounts, DOMAIN work) + row.bill.amount
  <2>1. Amounts[t] = 0 /\ Amounts'[t] = row.bill.amount
    BY <1>1 DEF ResultsInv, RowsTell, RowTells, Amounts
  <2>2. \A u \in DOMAIN work : Amounts[u] \in Nat /\ Amounts'[u] \in Nat
    BY <1>1, <1>2 DEF ResultsInv, ResultsTypeOK, Amounts
  <2>3. \A u \in DOMAIN work \ {t} : Amounts'[u] = Amounts[u]
    BY <1>1 DEF Amounts
  <2>4. IsFiniteSet(DOMAIN work)
    BY DEF ResultsInv, ResultsTypeOK
  <2>5. Total(Amounts', DOMAIN work) + Amounts[t] = Total(Amounts, DOMAIN work) + Amounts'[t]
    BY <2>2, <2>3, <2>4, TotalChange
  <2>6. Total(Amounts', DOMAIN work) \in Nat /\ Total(Amounts, DOMAIN work) \in Nat
    BY <2>2, <2>4, TotalType
  <2>. QED  BY <1>1, <2>1, <2>5, <2>6
<1>. QED  BY <1>3, <1>4, <1>5 DEF ResultsInv

\* A failure is of the task, not of its bill.
LEMMA TaskFails ==
    ASSUME ResultsInv, NEW t \in DOMAIN work, NEW failure \in Failures, FailWork(t, failure)
    PROVE  ResultsInv'
<1>. PICK old \in WorkRow : old = work[t]
  BY DEF ResultsInv, ResultsTypeOK
<1>. DEFINE row == [old EXCEPT !.state = "failed", !.failure = failure]
<1>1. row \in WorkRow
  BY DEF WorkRow
<1>2. /\ row.state = "failed" /\ row.failure = failure
      /\ row.bill = old.bill /\ row.paid = old.paid /\ row.scores = old.scores
      /\ row.spoilt = old.spoilt
  BY DEF WorkRow
<1>3. work' = [work EXCEPT ![t] = row] /\ plan' = plan /\ spent' = spent
  BY DEF FailWork
<1>4. old.state \in {"pending", "running"}
  BY DEF FailWork, Open
<1>5. RowTells(old, t[1])
  BY DEF ResultsInv, RowsTell
<1>. HIDE DEF row
<1>6. RowTells(row, t[1])
  <2>1. failure # NoFailure
    BY DEF Failures, NoFailure
  <2>. QED  BY <1>2, <1>4, <1>5, <2>1 DEF RowTells, Kept
<1>7. spent' = spent + row.bill.amount
  BY <1>2, <1>3, <1>4, <1>5 DEF RowTells, ResultsInv, ResultsTypeOK
<1>. QED  BY <1>1, <1>3, <1>4, <1>6, <1>7, RowIsSettled

\* The results of a suite that names no metric twice are one for each of its metrics.
LEMMA SuiteIsScored ==
    ASSUME ResultsInv, NEW record, NEW returned \in [DOMAIN plan.suite -> Returns],
           KeysDiffer(Scored(record, returned))
    PROVE  /\ ToSet(Scored(record, returned)) \subseteq Score
           /\ ScoresFit(ToSet(Scored(record, returned)), record)
           /\ IsInjective(plan.suite)
<1>. DEFINE scores == Scored(record, returned)
            n == Len(plan.suite)
<1>1. plan.suite \in Seq(MetricIds) /\ n \in Nat /\ DOMAIN plan.suite = 1..n
  BY DEF ResultsInv, ResultsTypeOK, Plan
<1>2. /\ DOMAIN scores = 1..n
      /\ \A i \in 1..n : scores[i] = [metric |-> plan.suite[i], version |-> ScoreVersion(plan.suite[i]),
                                      status |-> ScoreStatus(plan.suite[i], record, returned[i])]
  BY <1>1 DEF Scored
<1>3. \A i \in 1..n : scores[i] \in Score /\ scores[i].metric = plan.suite[i]
                      /\ (~Applicable(plan.suite[i], record) => scores[i].status = "failed")
  <2>. SUFFICES ASSUME NEW i \in 1..n
                PROVE  scores[i] \in Score /\ scores[i].metric = plan.suite[i]
                       /\ (~Applicable(plan.suite[i], record) => scores[i].status = "failed")
    OBVIOUS
  <2>1. plan.suite[i] \in MetricIds
    BY <1>1
  <2>2. /\ ScoreVersion(plan.suite[i]) \in {"1.0.0", "unknown"}
        /\ ScoreStatus(plan.suite[i], record, returned[i]) \in {"failed", "missing", "succeeded"}
        /\ ~Applicable(plan.suite[i], record) => ScoreStatus(plan.suite[i], record, returned[i]) = "failed"
    BY DEF ScoreVersion, ScoreStatus
  <2>. PICK version : version = ScoreVersion(plan.suite[i])
    OBVIOUS
  <2>. PICK status : status = ScoreStatus(plan.suite[i], record, returned[i])
    OBVIOUS
  <2>3. scores[i] = [metric |-> plan.suite[i], version |-> version, status |-> status]
    BY <1>2
  <2>. HIDE DEF scores
  <2>. QED  BY <2>1, <2>2, <2>3 DEF Score
<1>4. ToSet(scores) = {scores[i] : i \in 1..n}
  BY <1>2 DEF ToSet
<1>5. \A i, j \in 1..n : plan.suite[i] = plan.suite[j] => i = j
  <2>. SUFFICES ASSUME NEW i \in 1..n, NEW j \in 1..n, plan.suite[i] = plan.suite[j] PROVE i = j
    OBVIOUS
  <2>1. scores[i].metric = scores[j].metric /\ scores[i].version = scores[j].version
    <3>. HIDE DEF scores, n
    <3>. QED  BY <1>2
  <2>. QED  BY <1>2, <2>1 DEF KeysDiffer
<1>. HIDE DEF scores
<1>6. Cardinality(ToSet(scores)) = n
  <2>1. scores \in Bijection(1..n, ToSet(scores))
    <3>1. scores \in [1..n -> ToSet(scores)]
      <4>1. scores = [i \in 1..n |-> scores[i]]
        BY <1>2 DEF Scored, scores
      <4>2. \A i \in 1..n : scores[i] \in ToSet(scores)
        BY <1>4
      <4>. QED  BY <4>1, <4>2
    <3>2. \A i, j \in 1..n : scores[i] = scores[j] => i = j
      BY <1>3, <1>5
    <3>. QED  BY <1>4, <3>1, <3>2 DEF Bijection, Injection, Surjection, IsInjective
  <2>. QED  BY <1>1, <2>1, FS_CountingElements DEF ExistsBijection
<1>7. {s.metric : s \in ToSet(scores)} = ToSet(plan.suite)
  <2>1. ToSet(plan.suite) = {plan.suite[i] : i \in 1..n}
    BY <1>1 DEF ToSet
  <2>. QED  BY <1>3, <1>4, <2>1
<1>8. \A s \in ToSet(scores) : s \in Score /\ (~Applicable(s.metric, record) => s.status = "failed")
  BY <1>3, <1>4
<1>9. IsInjective(plan.suite)
  BY <1>1, <1>5 DEF IsInjective
<1>. QED  BY <1>6, <1>7, <1>8, <1>9 DEF ScoresFit, scores

\* An answer is billed as it is saved, or lost with its delivery.
LEMMA TaskIsAnswered ==
    ASSUME ResultsInv, NEW t \in DOMAIN work, NEW amount \in Bills, NEW money \in Monies,
           NEW fits \in BOOLEAN, NEW returned \in [DOMAIN plan.suite -> Returns],
           SaveWork(t, amount, money, fits, returned)
    PROVE  ResultsInv'
<1>. PICK old \in WorkRow : old = work[t]
  BY DEF ResultsInv, ResultsTypeOK
<1>1. /\ old.state \in {"pending", "running"} /\ plan' = plan /\ RowTells(old, t[1])
      /\ old.paid \in Nat /\ old.spoilt \in Nat /\ old.failure = NoFailure
  BY DEF SaveWork, Open, ResultsInv, RowsTell, RowTells, WorkRow
<1>. DEFINE saves == /\ plan.records[t[1]] # "unreadable" /\ Storable(t[1], fits, returned)
                     /\ KeysDiffer(Scored(t[1], returned))
            unfit == ~fits \/ Overlong(t[1], returned)
<1>2. CASE saves
  <2>. PICK scores : scores = ToSet(Scored(t[1], returned))
    OBVIOUS
  <2>. PICK bill : bill = BillOf(amount, money)
    OBVIOUS
  <2>. DEFINE row == [old EXCEPT !.state = "succeeded", !.scores = scores, !.bill = bill,
                                 !.paid = old.paid + 1]
  <2>1. work' = [work EXCEPT ![t] = row] /\ spent' = spent + bill.amount
    BY <1>2 DEF SaveWork, Charge
  <2>2. scores \subseteq Score /\ ScoresFit(scores, t[1]) /\ Savable(t[1])
    BY <1>2, SuiteIsScored DEF Savable
  <2>3. bill \in BillRow /\ bill.money \in Monies
    BY ResultsAssumption DEF BillOf, BillRow, ResultsInv, ResultsTypeOK, Plan
  <2>4. row \in WorkRow
    <3>. PICK paid \in Nat : paid = old.paid + 1
      BY <1>1
    <3>1. row = [old EXCEPT !.state = "succeeded", !.scores = scores, !.bill = bill, !.paid = paid]
      OBVIOUS
    <3>. HIDE DEF row
    <3>. QED  BY <2>2, <2>3, <3>1 DEF WorkRow
  <2>5. /\ row.state = "succeeded" /\ row.scores = scores /\ row.bill = bill
        /\ row.paid = old.paid + 1 /\ row.failure = old.failure /\ row.spoilt = old.spoilt
    BY DEF WorkRow
  <2>. HIDE DEF row, saves, unfit
  <2>6. RowTells(row, t[1])
    BY <1>1, <2>2, <2>3, <2>5 DEF RowTells, Kept
  <2>. QED  BY <1>1, <2>1, <2>4, <2>5, <2>6, RowIsSettled
<1>3. CASE ~saves
  <2>. PICK more \in {0, 1} : more = IF unfit THEN 1 ELSE 0
    OBVIOUS
  <2>. DEFINE row == [old EXCEPT !.state = "running", !.paid = old.paid + 1,
                                 !.spoilt = old.spoilt + more]
  <2>1. row \in WorkRow
    <3>. PICK paid \in Nat, spoilt \in Nat : paid = old.paid + 1 /\ spoilt = old.spoilt + more
      BY <1>1
    <3>1. row = [old EXCEPT !.state = "running", !.paid = paid, !.spoilt = spoilt]
      OBVIOUS
    <3>. HIDE DEF row
    <3>. QED  BY <3>1 DEF WorkRow
  <2>2. /\ row.state = "running" /\ row.paid = old.paid + 1 /\ row.spoilt = old.spoilt + more
        /\ row.bill = old.bill /\ row.failure = old.failure /\ row.scores = old.scores
    BY DEF WorkRow
  <2>3. work' = [work EXCEPT ![t] = row] /\ spent' = spent
    <3>1. ~saves => /\ work' = [work EXCEPT ![t] =
                          [@ EXCEPT !.state = "running", !.paid = work[t].paid + 1,
                                    !.spoilt = work[t].spoilt + (IF unfit THEN 1 ELSE 0)]]
                    /\ UNCHANGED spent
      BY DEF SaveWork
    <3>. QED  BY <1>3, <3>1
  <2>. HIDE DEF row
  <2>4. Savable(t[1]) => more = 1
    <3>1. IsInjective(plan.suite) => KeysDiffer(Scored(t[1], returned))
      BY DEF KeysDiffer, Scored, IsInjective
    <3>2. Storable(t[1], fits, returned) <=> ~unfit
      BY DEF Storable
    <3>. QED  BY <1>3, <3>1, <3>2 DEF Savable
  <2>. HIDE DEF saves, unfit
  <2>5. RowTells(row, t[1])
    BY <1>1, <2>2, <2>4 DEF RowTells, Kept
  <2>6. spent' = spent + row.bill.amount
    BY <1>1, <2>2, <2>3 DEF RowTells, ResultsInv, ResultsTypeOK
  <2>. QED  BY <1>1, <2>1, <2>3, <2>5, <2>6, RowIsSettled
<1>. QED  BY <1>2, <1>3

\* The invariant holds in every state of a run.
THEOREM ResultsInvHolds == ResultsSpec => []ResultsInv
<1>1. ResultsInit => ResultsInv
  <2>. SUFFICES ASSUME ResultsInit PROVE ResultsInv
    OBVIOUS
  <2>1. DOMAIN work = {} /\ work \in [DOMAIN work -> WorkRow] /\ NoPlan \in Plan
    BY DEF ResultsInit, NoPlan, Plan, RecordForms
  <2>. QED  BY <2>1, FS_EmptySet, TotalOfNone DEF ResultsInit, ResultsInv, ResultsTypeOK, RowsTell
<1>2. ResultsInv /\ [ResultsNext]_resultsVars => ResultsInv'
  <2>. SUFFICES ASSUME ResultsInv, [ResultsNext]_resultsVars PROVE ResultsInv'
    OBVIOUS
  <2>1. ASSUME NEW permitted \in BOOLEAN, NEW secret \in BOOLEAN, NEW valid \in BOOLEAN,
               NEW suite \in Suites, NEW type \in TaskTypes,
               NEW records \in [PlanRecords -> RecordForms], NEW estimate \in Estimates,
               NEW repetitions \in RunRepetitions,
               CreateRun(permitted, secret, valid, suite, type, records, estimate, repetitions)
        PROVE  ResultsInv'
    BY <2>1, RunIsCreated
  <2>2. ASSUME NEW t \in DOMAIN work, NEW f \in Failures, FailWork(t, f)
        PROVE  ResultsInv'
    BY <2>2, TaskFails
  <2>3. ASSUME NEW t \in DOMAIN work, NEW amount \in Bills, NEW money \in Monies,
               NEW fits \in BOOLEAN, NEW returned \in [DOMAIN plan.suite -> Returns],
               SaveWork(t, amount, money, fits, returned)
        PROVE  ResultsInv'
    BY <2>3, TaskIsAnswered
  <2>4. ASSUME UNCHANGED resultsVars PROVE ResultsInv'
    BY <2>4 DEF resultsVars, ResultsInv, ResultsTypeOK, RowsTell, RowTells, Kept, Savable,
                ScoresFit, Applicable, Known, Amounts
  <2>. QED  BY <2>1, <2>2, <2>3, <2>4 DEF ResultsNext
<1>. QED  BY <1>1, <1>2, PTL DEF ResultsSpec

-----------------------------------------------------------------------------
(* What the reports say *)

\* Of the answers to a readable record, scored by a suite that names no metric twice,
\* all that were paid for are kept but those no row can hold; of any other, none is.
THEOREM AnswersSurvive == ResultsSpec => []PaidAnswersSurvive
<1>1. ResultsInv => PaidAnswersSurvive
  <2>. SUFFICES ASSUME ResultsInv, NEW t \in DOMAIN work
                PROVE  IF Savable(t[1]) THEN work[t].paid = Kept(work[t]) + work[t].spoilt
                       ELSE Kept(work[t]) = 0
    BY DEF PaidAnswersSurvive, Savable, Kept
  <2>1. RowTells(work[t], t[1])
    BY DEF ResultsInv, RowsTell
  <2>. QED  BY <2>1 DEF RowTells, Kept
<1>. QED  BY <1>1, ResultsInvHolds, PTL

\* The column of the costs has a sum for each currency somebody was billed in.
LEMMA CostsAddUp ==
    ASSUME ResultsInv
    PROVE  /\ spent = Added([c \in DOMAIN Costs |-> Costs[c].actual + Costs[c].estimated])
           /\ Cardinality(In("succeeded")) = Added([c \in DOMAIN Costs |-> Costs[c].count])
<1>. DEFINE S == In("succeeded")
            D == DOMAIN work
            key == [t \in D |-> work[t].bill.money]
            P == DOMAIN Costs
            sums == [c \in P |-> Costs[c].actual + Costs[c].estimated]
            counts == [c \in P |-> Costs[c].count]
<1>1. S \in SUBSET D /\ IsFiniteSet(D) /\ IsFiniteSet(S)
  <2>1. S \in SUBSET D
    BY DEF In
  <2>2. IsFiniteSet(D)
    BY DEF ResultsInv, ResultsTypeOK
  <2>. QED  BY <2>1, <2>2, FS_Subset
<1>2. \A t \in D : Amounts[t] \in Nat /\ (t \notin S => Amounts[t] = 0)
  BY DEF Amounts, ResultsInv, ResultsTypeOK, RowsTell, RowTells, WorkRow, BillRow, In
<1>3. P = {c \in Monies : BilledIn(c) # {}}
  BY DEF Costs
<1>4. \A t \in S : key[t] \in P
  <2>1. \A t \in S : work[t].bill.money \in Monies /\ t \in BilledIn(work[t].bill.money)
    BY DEF In, BilledIn, ResultsInv, RowsTell, RowTells
  <2>. QED  BY <1>1, <1>3, <2>1
<1>5. \A c \in P : \E t \in S : key[t] = c
  BY <1>1, <1>3 DEF BilledIn
<1>6. IsFiniteSet(P)
  <2>. DEFINE money == [t \in S |-> key[t]]
  <2>1. money \in Surjection(S, P)
    <3>. HIDE DEF key, P, S
    <3>. QED  BY <1>4, <1>5 DEF Surjection
  <2>. QED  BY <1>1, <2>1, FS_Surjection
<1>7. \A c \in P : PartOf(S, key, {c}) = BilledIn(c)
  BY <1>1 DEF PartOf, BilledIn
<1>8. PartOf(S, key, P) = S
  BY <1>4 DEF PartOf
<1>9. \A c \in P : sums[c] = Total(Amounts, BilledIn(c)) /\ counts[c] = Cardinality(BilledIn(c))
  <2>. SUFFICES ASSUME NEW c \in P
                PROVE  sums[c] = Total(Amounts, BilledIn(c)) /\ counts[c] = Cardinality(BilledIn(c))
    OBVIOUS
  <2>. DEFINE part(estimated) == {t \in BilledIn(c) : work[t].bill.estimated = estimated}
  <2>1. /\ Costs[c].actual = TotalBill(part(FALSE)) /\ Costs[c].estimated = TotalBill(part(TRUE))
        /\ Costs[c].count = Cardinality(BilledIn(c))
    BY <1>3 DEF Costs
  <2>2. /\ BilledIn(c) \in SUBSET D
        /\ part(FALSE) \in SUBSET D /\ part(TRUE) \in SUBSET D
        /\ part(FALSE) \cap part(TRUE) = {}
        /\ BilledIn(c) = part(FALSE) \union part(TRUE)
    BY <1>1 DEF BilledIn, ResultsInv, ResultsTypeOK, WorkRow, BillRow
  <2>3. ASSUME NEW T \in SUBSET D PROVE TotalBill(T) = Total(Amounts, T)
    <3>. DEFINE column == [t \in T |-> work[t].bill.amount]
    <3>1. IsFiniteSet(T) /\ \A t \in T : column[t] = Amounts[t]
      BY <1>1, FS_Subset DEF Amounts
    <3>2. TotalBill(T) = Total(column, T)
      BY DEF TotalBill, Added, Total
    <3>. HIDE DEF column
    <3>3. Total(column, T) = Total(Amounts, T)
      BY <3>1, TotalSame
    <3>. QED  BY <3>2, <3>3
  <2>. HIDE DEF part
  <2>4. Total(Amounts, part(FALSE) \union part(TRUE))
           = Total(Amounts, part(FALSE)) + Total(Amounts, part(TRUE))
    <3>. DEFINE X == part(FALSE)
                Y == part(TRUE)
    <3>1. X \in SUBSET D /\ Y \in SUBSET D /\ X \cap Y = {}
      BY <2>2
    <3>2. \A t \in D : Amounts[t] \in Nat
      BY <1>2
    <3>. HIDE DEF X, Y, D
    <3>3. Total(Amounts, X \union Y) = Total(Amounts, X) + Total(Amounts, Y)
      BY <1>1, <3>1, <3>2, TotalUnion
    <3>. QED  BY <3>3 DEF X, Y
  <2>5. TotalBill(part(FALSE)) = Total(Amounts, part(FALSE)) /\ TotalBill(part(TRUE)) = Total(Amounts, part(TRUE))
    BY <2>2, <2>3
  <2>. QED  BY <2>1, <2>2, <2>4, <2>5
<1>10. Added(sums) = Total(sums, P) /\ Added(counts) = Total(counts, P)
  BY DEF Added, Total
<1>. HIDE DEF S, D, key, P, sums, counts
<1>11. spent = Total(Amounts, S)
  <2>1. Total(Amounts, D) = Total(Amounts, S) + Total(Amounts, D \ S)
    <3>. DEFINE R == D \ S
    <3>1. R \in SUBSET D /\ S \cap R = {} /\ D = S \union R
      BY <1>1
    <3>. HIDE DEF R
    <3>2. Total(Amounts, S \union R) = Total(Amounts, S) + Total(Amounts, R)
      BY <1>1, <1>2, <3>1, TotalUnion
    <3>. QED  BY <3>1, <3>2 DEF R
  <2>2. Total(Amounts, D \ S) = 0
    <3>1. IsFiniteSet(D \ S)
      BY <1>1, FS_Subset
    <3>. QED  BY <1>2, <3>1, TotalOfZeros
  <2>3. Total(Amounts, S) \in Nat
    BY <1>1, <1>2, TotalType
  <2>4. spent = Total(Amounts, D)
    BY DEF ResultsInv, D
  <2>. QED  BY <2>1, <2>2, <2>3, <2>4
<1>12. Total(Amounts, S) = Total(sums, P)
  <2>1. SumsParts(sums, Amounts, S, key, P)
    BY <1>7, <1>9 DEF SumsParts
  <2>2. \A t \in S : Amounts[t] \in Nat
    BY <1>1, <1>2
  <2>. QED  BY <1>1, <1>6, <1>8, <2>1, <2>2, TotalOfSums
<1>13. Cardinality(S) = Total(counts, P)
  <2>1. CountsParts(counts, S, key, P)
    BY <1>7, <1>9 DEF CountsParts
  <2>. QED  BY <1>1, <1>6, <1>8, <2>1, TotalOfParts
<1>. QED  BY <1>10, <1>11, <1>12, <1>13 DEF S, P, sums, counts

\* The errors are counted by category and kind.
LEMMA ErrorsAddUp ==
    ASSUME ResultsInv
    PROVE  Cardinality(In("failed")) = Added(Errors)
<1>. DEFINE D == DOMAIN work
            S == In("failed")
            key == [t \in D |-> work[t].failure]
            P == {work[t].failure : t \in DOMAIN work} \ {NoFailure}
<1>1. S \in SUBSET D /\ IsFiniteSet(S)
  <2>1. S \in SUBSET D /\ IsFiniteSet(D)
    BY DEF In, ResultsInv, ResultsTypeOK
  <2>. QED  BY <2>1, FS_Subset
<1>2. \A t \in D : t \in S <=> work[t].failure # NoFailure
  BY DEF In, ResultsInv, RowsTell, RowTells
<1>3. IsFiniteSet(P)
  <2>. DEFINE failure == [t \in S |-> key[t]]
  <2>1. \A t \in S : key[t] \in P
    BY <1>1, <1>2
  <2>2. \A c \in P : \E t \in S : key[t] = c
    BY <1>2
  <2>3. failure \in Surjection(S, P)
    <3>. HIDE DEF key, P, S
    <3>. QED  BY <2>1, <2>2 DEF Surjection
  <2>. QED  BY <1>1, <2>3, FS_Surjection
<1>4. DOMAIN Errors = P /\ \A c \in P : Errors[c] = Cardinality(FailedFor(c))
  BY DEF Errors
<1>5. \A c \in P : PartOf(S, key, {c}) = FailedFor(c)
  BY <1>1, <1>2 DEF PartOf, FailedFor
<1>6. PartOf(S, key, P) = S
  BY <1>1, <1>2 DEF PartOf
<1>7. Added(Errors) = Total(Errors, P)
  BY <1>4 DEF Added, Total
<1>. HIDE DEF S, D, key, P
<1>8. CountsParts(Errors, S, key, P)
  BY <1>4, <1>5 DEF CountsParts
<1>9. Cardinality(PartOf(S, key, P)) = Total(Errors, P)
  BY <1>1, <1>3, <1>8, TotalOfParts
<1>. QED  BY <1>6, <1>7, <1>9 DEF S

\* The reports of a run add up to what it spent and did, in any currencies.
THEOREM ReportsHold == ResultsSpec => []ReportsAddUp
<1>1. ResultsInv => ReportsAddUp
  <2>. SUFFICES ASSUME ResultsInv PROVE ReportsAddUp
    OBVIOUS
  <2>1. \A s \in Samples : (s.status = "failed") <=> (s.failure # NoFailure)
    BY DEF ResultsInv, RowsTell, RowTells, Samples, In
  <2>2. \A t \in In("succeeded") : ScoresFit(work[t].scores, t[1])
    BY DEF ResultsInv, RowsTell, RowTells, In
  <2>. QED  BY <2>1, <2>2, CostsAddUp, ErrorsAddUp DEF ReportsAddUp, ScoresFit
<1>. QED  BY <1>1, ResultsInvHolds, PTL

-----------------------------------------------------------------------------
(* Holm's adjustment *)

\* A finite set of numbers has a greatest.
LEMMA GreatestIs ==
    ASSUME NEW S \in SUBSET Nat, IsFiniteSet(S), S # {}
    PROVE  Greatest(S) \in S /\ \A y \in S : y <= Greatest(S)
<1>. PICK R : R = BySize(S)
  OBVIOUS
<1>. DEFINE n == Cardinality(S)
<1>1. Orders(R, S) /\ \A x, y \in S : <<x, y>> \in R <=> x < y
  BY NumbersOrdered
<1>2. n \in Nat /\ n # 0
  BY FS_CardinalityType, FS_EmptySet
<1>3. Placed(R, S, n - 1)
  <2>1. n - 1 \in 0..(n - 1)
    BY <1>2
  <2>. QED  BY <1>1, <2>1, RanksFill
<1>4. PICK x \in S : Rank(R, S, x) = n - 1
  BY <1>3 DEF Placed
<1>5. ASSUME NEW y \in S, x < y PROVE FALSE
  <2>1. Rank(R, S, x) < Rank(R, S, y)
    BY <1>1, <1>5, RanksFill
  <2>2. Rank(R, S, y) \in 0..(n - 1)
    BY <1>1, RanksFill
  <2>. QED  BY <1>2, <1>4, <2>1, <2>2
<1>6. \A y \in S : x >= y
  BY <1>5
<1>. QED  BY <1>6 DEF Greatest

\* The smaller of two numbers.
LEMMA LeastOfTwo ==
    ASSUME NEW a \in Nat, NEW b \in Nat
    PROVE  Least({a, b}) = IF a <= b THEN a ELSE b
<1>. DEFINE m == IF a <= b THEN a ELSE b
<1>1. m \in {a, b} /\ \A y \in {a, b} : m <= y
  OBVIOUS
<1>2. ASSUME NEW x \in {a, b}, \A y \in {a, b} : x <= y PROVE x = m
  BY <1>2
<1>. HIDE DEF m
<1>3. Least({a, b}) \in {a, b} /\ \A y \in {a, b} : Least({a, b}) <= y
  BY <1>1 DEF Least
<1>. QED  BY <1>2, <1>3 DEF m

\* What a value is scaled to, by how many times it counts.
LEMMA ScaledGrows ==
    ASSUME NEW p \in 0..PScale, NEW n \in Nat, NEW k \in 1..n, NEW j \in 1..k
    PROVE  /\ Least({PScale, p * k}) \in 0..PScale
           /\ p <= Least({PScale, p * k}) /\ Least({PScale, p * k}) <= n * p
           /\ Least({PScale, p * j}) <= Least({PScale, p * k})
<1>1. PScale \in Nat /\ p \in Nat /\ k \in Nat /\ j \in Nat
  BY ComparisonAssumption
<1>2. ASSUME NEW a \in Nat, NEW b \in Nat, a <= b
      PROVE  p * a \in Nat /\ p * b \in Nat /\ p * a <= p * b
  <2>1. p * (b - a) \in Nat /\ p * a \in Nat
    BY <1>1, <1>2
  <2>2. p * b = p * a + p * (b - a)
    BY <1>1, <1>2
  <2>. QED  BY <2>1, <2>2
<1>3. p * 1 <= p * k /\ p * k <= p * n /\ p * j <= p * k /\ p * k \in Nat /\ p * j \in Nat /\ p * n \in Nat
  BY <1>1, <1>2
<1>4. p * 1 = p /\ p * n = n * p
  BY <1>1
<1>. PICK a \in Nat, b \in Nat : a = p * k /\ b = p * j
  BY <1>3
<1>5. Least({PScale, a}) = (IF PScale <= a THEN PScale ELSE a)
      /\ Least({PScale, b}) = (IF PScale <= b THEN PScale ELSE b)
  BY <1>1, LeastOfTwo
<1>6. p <= PScale /\ p <= a /\ a <= n * p /\ b <= a /\ n * p \in Nat
  BY <1>3, <1>4
<1>. QED  BY <1>1, <1>5, <1>6

HolmFits(family) ==
    \A v \in DOMAIN family :
        /\ Holm(family)[v] \in 0..PScale
        /\ family[v] <= Holm(family)[v]
        /\ Holm(family)[v] <= Cardinality(DOMAIN family) * family[v]
        /\ \A w \in DOMAIN family :
              family[w] <= family[v] => Holm(family)[w] <= Holm(family)[v]

\* Adjusted values keep the order of the values, claim no more and exceed no Bonferroni bound.
LEMMA HolmTells ==
    ASSUME NEW D \in SUBSET Nat, IsFiniteSet(D), NEW family \in [D -> 0..PScale]
    PROVE  HolmFits(family)
<1>. DEFINE n == Cardinality(D)
            B(v) == SortedBefore(family, v)
            upTo(v) == {Scaled(family, w) : w \in B(v) \union {v}}
            k(v) == n - Cardinality(B(v))
<1>1. n \in Nat /\ DOMAIN family = D /\ \A v \in D : v \in Nat /\ family[v] \in Nat
  BY FS_CardinalityType, ComparisonAssumption
<1>2. \A v, w \in D : w \in B(v) <=> family[w] < family[v] \/ (family[w] = family[v] /\ w < v)
  BY <1>1 DEF SortedBefore
<1>3. \A v \in D : B(v) \subseteq D
  BY <1>1 DEF SortedBefore
<1>4. \A v \in D : Scaled(family, v) = Least({PScale, family[v] * k(v)})
  BY <1>1 DEF Scaled
<1>5. \A v \in D : Holm(family)[v] = Greatest(upTo(v))
  BY <1>1 DEF Holm
<1>. HIDE DEF B
<1>6. ASSUME NEW v \in D PROVE k(v) \in 1..n
  <2>1. /\ IsFiniteSet(B(v)) /\ Cardinality(B(v)) \in Nat /\ Cardinality(B(v)) <= n
        /\ Cardinality(B(v)) = n => B(v) = D
    BY <1>3, FS_Subset, FS_CardinalityType
  <2>2. v \notin B(v)
    BY <1>1, <1>2
  <2>. QED  BY <1>1, <2>1, <2>2
<1>7. \A v, w \in D : B(v) \subseteq B(w) => k(w) <= k(v)
  <2>. SUFFICES ASSUME NEW v \in D, NEW w \in D, B(v) \subseteq B(w) PROVE k(w) <= k(v)
    OBVIOUS
  <2>1. IsFiniteSet(B(w)) /\ IsFiniteSet(B(v))
    BY <1>3, FS_Subset
  <2>2. Cardinality(B(v)) <= Cardinality(B(w)) /\ Cardinality(B(v)) \in Nat /\ Cardinality(B(w)) \in Nat
    BY <2>1, FS_Subset, FS_CardinalityType
  <2>. QED  BY <1>1, <2>2
<1>. HIDE DEF k, n
<1>8. ASSUME NEW v \in D
      PROVE  /\ Scaled(family, v) \in 0..PScale /\ family[v] <= Scaled(family, v)
             /\ Scaled(family, v) <= n * family[v]
             /\ \A w \in D : family[w] = family[v] /\ B(v) \subseteq B(w)
                    => Scaled(family, w) <= Scaled(family, v)
  <2>1. family[v] \in 0..PScale /\ k(v) \in 1..n
    BY <1>6
  <2>2. k(v) \in 1..k(v)
    BY <1>1, <2>1
  <2>3. /\ Scaled(family, v) \in 0..PScale /\ family[v] <= Scaled(family, v)
        /\ Scaled(family, v) <= n * family[v]
    BY <1>1, <1>4, <2>1, <2>2, ScaledGrows
  <2>4. ASSUME NEW w \in D, family[w] = family[v], B(v) \subseteq B(w)
        PROVE  Scaled(family, w) <= Scaled(family, v)
    <3>1. k(w) \in 1..k(v)
      BY <1>1, <1>6, <1>7, <2>4
    <3>2. Least({PScale, family[v] * k(w)}) <= Least({PScale, family[v] * k(v)})
      BY <1>1, <2>1, <3>1, ScaledGrows
    <3>. QED  BY <1>4, <2>4, <3>2
  <2>. QED  BY <2>3, <2>4
<1>9. ASSUME NEW v \in D
      PROVE  /\ Greatest(upTo(v)) \in upTo(v)
             /\ \A y \in upTo(v) : y <= Greatest(upTo(v))
  <2>. DEFINE these == B(v) \union {v}
              scale == [w \in these |-> Scaled(family, w)]
  <2>1. these \subseteq D /\ IsFiniteSet(these)
    <3>1. these \subseteq D
      BY <1>3
    <3>. HIDE DEF these
    <3>. QED  BY <3>1, FS_Subset
  <2>2. scale \in Surjection(these, upTo(v))
    BY DEF Surjection
  <2>3. IsFiniteSet(upTo(v))
    BY <2>1, <2>2, FS_Surjection
  <2>4. upTo(v) # {} /\ upTo(v) \subseteq Nat
    <3>1. PScale \in Nat
      BY ComparisonAssumption
    <3>2. ASSUME NEW w \in these PROVE w \in D /\ Scaled(family, w) \in Nat
      <4>1. w \in D
        BY <2>1
      <4>2. Scaled(family, w) \in 0..PScale
        BY <1>8, <4>1
      <4>. QED  BY <3>1, <4>1, <4>2
    <3>3. v \in these
      OBVIOUS
    <3>. HIDE DEF these
    <3>4. upTo(v) = {Scaled(family, w) : w \in these}
      BY DEF these
    <3>. QED  BY <3>2, <3>3, <3>4
  <2>. HIDE DEF upTo
  <2>. QED  BY <2>3, <2>4, GreatestIs
<1>10. ASSUME NEW v \in D
       PROVE  /\ \E u \in B(v) \union {v} : Holm(family)[v] = Scaled(family, u)
              /\ \A u \in B(v) \union {v} : Scaled(family, u) <= Holm(family)[v]
  BY <1>5, <1>9
<1>. HIDE DEF upTo
<1>11. ASSUME NEW v \in D
       PROVE  /\ Holm(family)[v] \in 0..PScale /\ family[v] <= Holm(family)[v]
              /\ Holm(family)[v] <= n * family[v]
  <2>1. PICK u \in B(v) \union {v} : Holm(family)[v] = Scaled(family, u)
    BY <1>10
  <2>2. u \in D /\ family[u] <= family[v]
    <3>1. CASE u = v
      BY <1>1, <3>1
    <3>2. CASE u \in B(v)
      <4>1. u \in D
        BY <1>3, <3>2
      <4>2. family[u] < family[v] \/ family[u] = family[v]
        BY <1>2, <3>2, <4>1
      <4>3. family[u] \in Nat /\ family[v] \in Nat
        BY <1>1, <4>1
      <4>. QED  BY <4>1, <4>2, <4>3
    <3>. QED  BY <3>1, <3>2
  <2>3. Scaled(family, u) \in 0..PScale /\ Scaled(family, u) <= n * family[u]
    BY <1>8, <2>2
  <2>4. n * family[u] <= n * family[v]
    <3>. PICK a \in Nat, b \in Nat : a = family[u] /\ b = family[v] /\ a <= b
      BY <1>1, <2>2
    <3>1. n * (b - a) \in Nat /\ n * a \in Nat
      BY <1>1
    <3>2. n * b = n * a + n * (b - a)
      BY <1>1
    <3>. QED  BY <3>1, <3>2
  <2>5. family[v] <= Scaled(family, v) /\ Scaled(family, v) <= Holm(family)[v]
        /\ Scaled(family, v) \in 0..PScale
    BY <1>8, <1>10
  <2>6. n * family[u] \in Nat /\ n * family[v] \in Nat /\ PScale \in Nat
    <3>1. PScale \in Nat
      BY ComparisonAssumption
    <3>2. \A a \in Nat : n * a \in Nat
      BY <1>1
    <3>. QED  BY <1>1, <2>2, <3>1, <3>2
  <2>. QED  BY <1>1, <2>1, <2>3, <2>4, <2>5, <2>6
<1>12. ASSUME NEW v \in D, NEW w \in D, family[w] <= family[v]
       PROVE  Holm(family)[w] <= Holm(family)[v]
  <2>1. PICK u \in B(w) \union {w} : Holm(family)[w] = Scaled(family, u)
    BY <1>10
  <2>2. u \in D /\ (u \in B(w) \/ u = w)
    BY <1>3
  <2>0. \A x, y \in D : x \in Nat /\ family[x] \in Nat /\ (x \in B(y) => family[x] <= family[y])
    <3>. TAKE x, y \in D
    <3>1. x \in Nat /\ family[x] \in Nat /\ family[y] \in Nat
      BY <1>1
    <3>. QED  BY <1>2, <3>1
  <2>3. CASE u \in B(v) \union {v}
    BY <1>10, <2>1, <2>3
  <2>4. CASE u \notin B(v) \union {v}
    <3>1. family[u] = family[v] /\ v < u
      BY <1>1, <1>2, <1>12, <2>2, <2>4
    <3>2. B(v) \subseteq B(u)
      <4>. SUFFICES ASSUME NEW x \in B(v) PROVE x \in B(u)
        OBVIOUS
      <4>1. x \in D /\ x \in Nat /\ v \in Nat /\ u \in Nat
        BY <1>1, <1>3, <2>2
      <4>2. family[x] < family[v] \/ (family[x] = family[v] /\ x < v)
        BY <1>2, <4>1
      <4>3. family[x] < family[u] \/ (family[x] = family[u] /\ x < u)
        BY <3>1, <4>1, <4>2
      <4>. QED  BY <1>2, <2>2, <4>1, <4>3
    <3>3. Scaled(family, u) <= Scaled(family, v)
      BY <1>8, <2>2, <3>1, <3>2
    <3>4. Scaled(family, v) <= Holm(family)[v] /\ Scaled(family, v) \in Nat /\ Scaled(family, u) \in Nat
          /\ Holm(family)[v] \in Nat
      BY <1>8, <1>10, <1>11, <2>2, ComparisonAssumption
    <3>. QED  BY <2>1, <3>3, <3>4
  <2>. QED  BY <2>3, <2>4
<1>. QED  BY <1>1, <1>11, <1>12 DEF n, HolmFits

-----------------------------------------------------------------------------
(* What one metric of a comparison accounts for *)

Policies == {"available_pairs", "failures_as_zero"}

\* Rows of which no two are of a point.
Apart(rows) ==
    /\ IsFiniteSet(rows)
    /\ \A r, q \in rows : r.point = q.point => r = q
    /\ \A r \in rows : r.outcome \in MetricOutcomes

FailedPoints(rows) == PointsOf({r \in rows : r.outcome = MetricFailed})

InfinitePoints(rows) == PointsOf({r \in rows : r.outcome = NotFinite})

Valued(rows, policy) ==
    {r \in rows : \/ r.outcome \in Int \union {NotFinite}
                 \/ (policy = "failures_as_zero" /\ r.outcome = MetricFailed)}

\* The points of rows are finitely many, and for rows apart as many.
LEMMA PointsCount ==
    ASSUME NEW rows, Apart(rows)
    PROVE  IsFiniteSet(PointsOf(rows)) /\ Cardinality(PointsOf(rows)) = Cardinality(rows)
<1>. DEFINE at == [r \in rows |-> r.point]
<1>1. at \in Surjection(rows, PointsOf(rows))
  BY DEF Surjection, PointsOf
<1>2. at \in Injection(rows, PointsOf(rows))
  BY <1>1 DEF Apart, Injection, IsInjective, Surjection
<1>. HIDE DEF at
<1>. QED  BY <1>1, <1>2, FS_Surjection DEF Apart

\* The points that have a value, and those that failed.
LEMMA ValuesFit ==
    ASSUME NEW rows, Apart(rows), NEW policy \in Policies
    PROVE  /\ DOMAIN ValuesOf(rows, policy) = PointsOf(Valued(rows, policy))
           /\ DOMAIN ValuesOf(rows, policy) \subseteq PointsOf(rows)
           /\ Finite(ValuesOf(rows, policy)) \subseteq DOMAIN ValuesOf(rows, policy)
           /\ \A p \in Finite(ValuesOf(rows, policy)) : ValuesOf(rows, policy)[p] \in Int
           /\ DOMAIN ValuesOf(rows, policy) \ Finite(ValuesOf(rows, policy)) \subseteq InfinitePoints(rows)
           /\ InfinitePoints(rows) \subseteq PointsOf(rows)
           /\ FailedIn(rows) = Cardinality(FailedPoints(rows))
           /\ FailedPoints(rows) \subseteq PointsOf(rows)
           /\ policy = "failures_as_zero" => FailedPoints(rows) \subseteq DOMAIN ValuesOf(rows, policy)
           /\ policy = "available_pairs" => FailedPoints(rows) \cap DOMAIN ValuesOf(rows, policy) = {}
<1>. DEFINE values == ValuesOf(rows, policy)
            failed == {r \in rows : r.outcome = MetricFailed}
<1>1. values = [p \in PointsOf(Valued(rows, policy)) |->
                   IF OutcomeAt(rows, p) = MetricFailed THEN 0 ELSE OutcomeAt(rows, p)]
  <2>. DEFINE scored == {r \in rows : r.outcome \in Int \union {NotFinite}}
              zeros == {r \in rows : policy = "failures_as_zero" /\ r.outcome = MetricFailed}
  <2>1. scored \union zeros = Valued(rows, policy)
    BY DEF Valued
  <2>2. values = [p \in PointsOf(scored \union zeros) |->
                     IF OutcomeAt(rows, p) = MetricFailed THEN 0 ELSE OutcomeAt(rows, p)]
    BY DEF ValuesOf
  <2>. HIDE DEF values, scored, zeros
  <2>. QED  BY <2>1, <2>2
<1>. HIDE DEF values
<1>2. DOMAIN values = PointsOf(Valued(rows, policy)) /\ DOMAIN values \subseteq PointsOf(rows)
  BY <1>1 DEF PointsOf, Valued
<1>3. ASSUME NEW p \in DOMAIN values
      PROVE  values[p] \in Int \/ (values[p] = NotFinite /\ p \in InfinitePoints(rows))
  <2>1. PICK r \in Valued(rows, policy) : r.point = p
    BY <1>2 DEF PointsOf
  <2>2. r \in rows /\ r.outcome \in Int \union {MetricFailed, NotFinite}
    BY <2>1 DEF Valued
  <2>3. (CHOOSE q \in rows : q.point = p) = r
    BY <2>1, <2>2 DEF Apart
  <2>4. OutcomeAt(rows, p) = r.outcome
    BY <2>3 DEF OutcomeAt
  <2>5. values[p] = IF r.outcome = MetricFailed THEN 0 ELSE r.outcome
    BY <1>1, <1>2, <2>4
  <2>6. r.outcome = NotFinite => p \in InfinitePoints(rows)
    BY <2>1, <2>2 DEF InfinitePoints, PointsOf
  <2>7. MetricFailed # NotFinite
    BY ComparisonAssumption
  <2>. QED  BY <2>2, <2>5, <2>6, <2>7
<1>4. Apart(failed)
  <2>1. failed \in SUBSET rows
    OBVIOUS
  <2>2. IsFiniteSet(failed)
    BY <2>1, FS_Subset DEF Apart
  <2>. QED  BY <2>2 DEF Apart
<1>5. FailedIn(rows) = Cardinality(FailedPoints(rows))
  BY <1>4, PointsCount DEF FailedIn, FailedPoints
<1>6. FailedPoints(rows) \subseteq PointsOf(rows)
  BY DEF FailedPoints, PointsOf
<1>7. policy = "failures_as_zero" => FailedPoints(rows) \subseteq DOMAIN values
  BY <1>2 DEF FailedPoints, PointsOf, Valued
<1>8. ASSUME policy = "available_pairs", NEW p \in FailedPoints(rows), p \in DOMAIN values PROVE FALSE
  <2>1. PICK r \in rows : r.point = p /\ r.outcome = MetricFailed
    BY <1>8 DEF FailedPoints, PointsOf
  <2>2. PICK q \in rows : q.point = p /\ q.outcome \in Int \union {NotFinite}
    BY <1>2, <1>8 DEF PointsOf, Valued
  <2>3. MetricFailed \notin Int \union {NotFinite}
    BY ComparisonAssumption
  <2>. QED  BY <2>1, <2>2, <2>3 DEF Apart
<1>9. /\ Finite(values) \subseteq DOMAIN values
      /\ \A p \in Finite(values) : values[p] \in Int
      /\ DOMAIN values \ Finite(values) \subseteq InfinitePoints(rows)
  <2>1. NotFinite \notin Int
    BY ComparisonAssumption
  <2>2. Finite(values) = {p \in DOMAIN values : values[p] # NotFinite}
    BY DEF Finite
  <2>. QED  BY <1>3, <2>1, <2>2
<1>10. InfinitePoints(rows) \subseteq PointsOf(rows)
  BY DEF InfinitePoints, PointsOf
<1>. QED  BY <1>2, <1>5, <1>6, <1>7, <1>8, <1>9, <1>10 DEF values

\* The rows that give a number.
NumberPoints(rows, policy) ==
    PointsOf({r \in rows : r.outcome \in Int \/ (policy = "failures_as_zero" /\ r.outcome = MetricFailed)})

\* The finite values, and what each is.
LEMMA NumbersFit ==
    ASSUME NEW rows, Apart(rows), NEW policy \in Policies
    PROVE  /\ Finite(ValuesOf(rows, policy)) = NumberPoints(rows, policy)
           /\ \A r \in rows : r.point \in Finite(ValuesOf(rows, policy)) =>
                  ValuesOf(rows, policy)[r.point] = IF r.outcome \in Int THEN r.outcome ELSE 0
<1>. DEFINE values == ValuesOf(rows, policy)
<1>1. DOMAIN values = PointsOf(Valued(rows, policy)) /\ Finite(values) = {p \in DOMAIN values : values[p] # NotFinite}
  BY ValuesFit DEF Finite
<1>2. ASSUME NEW r \in rows, r.point \in DOMAIN values
      PROVE  values[r.point] = (IF r.outcome = MetricFailed THEN 0 ELSE r.outcome) /\ r \in Valued(rows, policy)
  <2>. DEFINE scored == {q \in rows : q.outcome \in Int \union {NotFinite}}
              zeros == {q \in rows : policy = "failures_as_zero" /\ q.outcome = MetricFailed}
  <2>1. values = [p \in PointsOf(scored \union zeros) |->
                     IF OutcomeAt(rows, p) = MetricFailed THEN 0 ELSE OutcomeAt(rows, p)]
    BY DEF ValuesOf
  <2>2. (CHOOSE q \in rows : q.point = r.point) = r
    BY DEF Apart
  <2>3. OutcomeAt(rows, r.point) = r.outcome
    BY <2>2 DEF OutcomeAt
  <2>4. r \in Valued(rows, policy)
    <3>1. PICK q \in Valued(rows, policy) : q.point = r.point
      BY <1>1, <1>2 DEF PointsOf
    <3>2. q \in rows
      BY <3>1 DEF Valued
    <3>. QED  BY <3>1, <3>2 DEF Apart
  <2>. HIDE DEF scored, zeros, values
  <2>. QED  BY <1>2, <2>1, <2>3, <2>4
<1>3. NotFinite \notin Int /\ MetricFailed \notin Int /\ MetricFailed # NotFinite
  BY ComparisonAssumption
<1>. HIDE DEF values
<1>4. ASSUME NEW r \in rows, r.point \in Finite(values)
      PROVE  /\ values[r.point] = IF r.outcome \in Int THEN r.outcome ELSE 0
             /\ r.outcome \in Int \/ (policy = "failures_as_zero" /\ r.outcome = MetricFailed)
  <2>1. r.point \in DOMAIN values /\ values[r.point] # NotFinite
    BY <1>1, <1>4
  <2>2. values[r.point] = (IF r.outcome = MetricFailed THEN 0 ELSE r.outcome) /\ r \in Valued(rows, policy)
    BY <1>2, <2>1
  <2>. QED  BY <1>3, <2>1, <2>2 DEF Valued
<1>5. ASSUME NEW r \in rows, r.outcome \in Int \/ (policy = "failures_as_zero" /\ r.outcome = MetricFailed)
      PROVE  r.point \in Finite(values)
  <2>1. r \in Valued(rows, policy)
    BY <1>5 DEF Valued
  <2>2. r.point \in DOMAIN values
    BY <1>1, <2>1 DEF PointsOf
  <2>3. values[r.point] = (IF r.outcome = MetricFailed THEN 0 ELSE r.outcome)
    BY <1>2, <2>2
  <2>4. 0 # NotFinite
    BY <1>3
  <2>5. values[r.point] # NotFinite
    BY <1>3, <1>5, <2>3, <2>4
  <2>. QED  BY <1>1, <2>2, <2>5
<1>6. ASSUME NEW p \in Finite(values) PROVE p \in NumberPoints(rows, policy)
  <2>1. PICK r \in rows : r.point = p
    BY <1>1, <1>6 DEF PointsOf, Valued
  <2>. QED  BY <1>4, <1>6, <2>1 DEF NumberPoints, PointsOf
<1>7. ASSUME NEW p \in NumberPoints(rows, policy) PROVE p \in Finite(values)
  <2>1. PICK r \in rows : r.point = p /\ (r.outcome \in Int \/ (policy = "failures_as_zero" /\ r.outcome = MetricFailed))
    BY <1>7 DEF NumberPoints, PointsOf
  <2>. QED  BY <1>5, <2>1
<1>. QED  BY <1>4, <1>6, <1>7 DEF values

\* The points U that are seen, of which the sides have values at L and R, numbers at F and
\* G, and values that are no numbers at the points O.
Lacking(U, L, R, F, G, O) ==
    /\ IsFiniteSet(U) /\ L \subseteq U /\ R \subseteq U
    /\ F \subseteq L /\ G \subseteq R /\ O \subseteq U
    /\ L \ F \subseteq O /\ R \ G \subseteq O

\* What is not in two parts of a set is missing from the one or the other, or odd.
LEMMA MissingCount ==
    ASSUME NEW U, NEW L, NEW R, NEW F, NEW G, NEW O, Lacking(U, L, R, F, G, O)
    PROVE  /\ Cardinality(U) \in Nat /\ Cardinality(U \cap F \cap G) \in Nat
           /\ Cardinality(U \ L) \in Nat /\ Cardinality(U \ R) \in Nat /\ Cardinality(O) \in Nat
           /\ Cardinality(U \ L) <= Cardinality(U) - Cardinality(U \cap F \cap G)
           /\ Cardinality(U \ R) <= Cardinality(U) - Cardinality(U \cap F \cap G)
           /\ Cardinality(U) - Cardinality(U \cap F \cap G)
                 <= Cardinality(U \ L) + Cardinality(U \ R) + Cardinality(O)
<1>. DEFINE P == U \cap F \cap G
            A == U \ L
            B == U \ R
            C == A \union B
            D == C \union O
            X == U \ P
<1>1. /\ A \in SUBSET X /\ B \in SUBSET X /\ X \in SUBSET D /\ P \in SUBSET U /\ X \in SUBSET U
      /\ A \in SUBSET U /\ B \in SUBSET U /\ C \in SUBSET U /\ D \in SUBSET U /\ U \cap P = P
      /\ C = A \union B /\ D = C \union O /\ IsFiniteSet(U) /\ O \in SUBSET U
  BY DEF Lacking
<1>. HIDE DEF A, B, C, D, X, P
<1>2. /\ IsFiniteSet(A) /\ IsFiniteSet(B) /\ IsFiniteSet(P) /\ IsFiniteSet(X)
      /\ IsFiniteSet(C) /\ IsFiniteSet(D) /\ IsFiniteSet(O)
  BY <1>1, FS_Subset
<1>3. /\ Cardinality(A) \in Nat /\ Cardinality(B) \in Nat /\ Cardinality(P) \in Nat
      /\ Cardinality(X) \in Nat /\ Cardinality(U) \in Nat /\ Cardinality(C) \in Nat
      /\ Cardinality(D) \in Nat /\ Cardinality(O) \in Nat
  BY <1>1, <1>2, FS_CardinalityType
<1>4. Cardinality(X) = Cardinality(U) - Cardinality(P)
  BY <1>1, FS_Difference DEF X
<1>5. Cardinality(A) <= Cardinality(X) /\ Cardinality(B) <= Cardinality(X) /\ Cardinality(X) <= Cardinality(D)
  BY <1>1, <1>2, FS_Subset
<1>6. ASSUME NEW S, NEW T, IsFiniteSet(S), IsFiniteSet(T)
      PROVE  Cardinality(S \union T) <= Cardinality(S) + Cardinality(T)
  <2>. DEFINE I == S \cap T
  <2>1. Cardinality(S \union T) = Cardinality(S) + Cardinality(T) - Cardinality(I)
    BY <1>6, FS_Union
  <2>2. IsFiniteSet(I)
    <3>1. I \in SUBSET S
      OBVIOUS
    <3>. HIDE DEF I
    <3>. QED  BY <1>6, <3>1, FS_Subset
  <2>. HIDE DEF I
  <2>3. Cardinality(I) \in Nat /\ Cardinality(S) \in Nat /\ Cardinality(T) \in Nat
    BY <1>6, <2>2, FS_CardinalityType
  <2>. QED  BY <2>1, <2>3
<1>7. Cardinality(C) <= Cardinality(A) + Cardinality(B) /\ Cardinality(D) <= Cardinality(C) + Cardinality(O)
  BY <1>1, <1>2, <1>6
<1>. QED  BY <1>3, <1>4, <1>5, <1>7 DEF A, B, P

\* Part of what a comparison says of a metric, that does not depend on the runs any more.
MetricTells(m, policy) ==
    /\ m.union \in Nat /\ m.paired \in Nat
    /\ m.missing.baseline \in Nat /\ m.missing.candidate \in Nat
    /\ m.missing.baseline <= m.union - m.paired
    /\ m.missing.candidate <= m.union - m.paired
    /\ \A s \in Sides :
          /\ m.failed[s] \in Nat /\ m.failed[s] <= m.union
          /\ policy = "failures_as_zero" => m.failed[s] + m.missing[s] <= m.union
          /\ policy = "available_pairs" => m.failed[s] <= m.missing[s]
    /\ m.difference \in Int /\ m.candidateSum \in Int /\ m.upper \in Int
    /\ m.reading = "regression" <=> m.upper <= -(Practical * m.paired) /\ Practical > 0

\* The failures of a side, beside what is missing there.
LEMMA FailuresCount ==
    ASSUME NEW U, IsFiniteSet(U), NEW rows, Apart(rows), PointsOf(rows) \subseteq U, NEW policy \in Policies
    PROVE  LET missing == Cardinality(U \ DOMAIN ValuesOf(rows, policy)) IN
           /\ FailedIn(rows) \in Nat /\ FailedIn(rows) <= Cardinality(U)
           /\ policy = "failures_as_zero" => FailedIn(rows) + missing <= Cardinality(U)
           /\ policy = "available_pairs" => FailedIn(rows) <= missing
<1>. DEFINE F == FailedPoints(rows)
            D == DOMAIN ValuesOf(rows, policy)
            M == U \ D
<1>1. /\ FailedIn(rows) = Cardinality(F) /\ F \in SUBSET U /\ M \in SUBSET U
      /\ policy = "failures_as_zero" => F \subseteq D
      /\ policy = "available_pairs" => F \cap D = {}
  BY ValuesFit
<1>2. policy = "failures_as_zero" => F \cap M = {}
  BY <1>1
<1>3. policy = "available_pairs" => F \in SUBSET M
  BY <1>1
<1>. HIDE DEF F, M, D
<1>4. IsFiniteSet(F) /\ IsFiniteSet(M) /\ Cardinality(F) <= Cardinality(U)
  BY <1>1, FS_Subset
<1>5. Cardinality(F) \in Nat /\ Cardinality(M) \in Nat /\ Cardinality(U) \in Nat
  BY <1>4, FS_CardinalityType
<1>6. policy = "failures_as_zero" => Cardinality(F) + Cardinality(M) <= Cardinality(U)
  <2>. HAVE policy = "failures_as_zero"
  <2>. DEFINE X == F \union M
  <2>1. X \in SUBSET U
    BY <1>1
  <2>2. Cardinality(F \union M) = Cardinality(F) + Cardinality(M) - Cardinality(F \cap M)
    BY <1>4, FS_Union
  <2>3. Cardinality(F \cap M) = 0
    BY <1>2, FS_EmptySet
  <2>4. Cardinality(F \union M) = Cardinality(F) + Cardinality(M)
    BY <1>5, <2>2, <2>3
  <2>5. Cardinality(X) <= Cardinality(U)
    <3>. HIDE DEF X
    <3>. QED  BY <2>1, FS_Subset
  <2>. QED  BY <2>4, <2>5
<1>7. policy = "available_pairs" => Cardinality(F) <= Cardinality(M)
  BY <1>3, <1>4, FS_Subset
<1>. QED  BY <1>1, <1>4, <1>5, <1>6, <1>7 DEF M, D

-----------------------------------------------------------------------------
(* Comparisons and gates, whatever the runs do meanwhile *)

MeasuredOK ==
    measured \in [Sides -> {x \in [history : Histories \union {<<>>}, done : Nat] :
                                x.done <= Len(x.history)}]

Paired(v, policy) ==
    LET left == RowsOf("baseline", v)
        right == RowsOf("candidate", v)
    IN  UnionOf(left, right) \cap Finite(ValuesOf(left, policy)) \cap Finite(ValuesOf(right, policy))

Seen(v) == UnionOf(RowsOf("baseline", v), RowsOf("candidate", v))

Odd(v) == Infinite("baseline", v) \union Infinite("candidate", v)

\* A moment of the runs that the comparison can be of.
Moment(b, c) ==
    /\ b \in 0..measured["baseline"].done /\ c \in 0..measured["candidate"].done
    /\ Common(b, c) = DOMAIN comparison.results
    /\ \A v \in DOMAIN comparison.results :
          LET m == comparison.results[v].metric
              points == Shared(b, c, v, comparison.policy)
          IN  /\ m.paired = Cardinality(points)
              /\ m.candidateSum = Given("candidate", points)
              /\ m.difference = Given("candidate", points) - Given("baseline", points)

\* What is not paired is missing somewhere or odd.
Accounted(m, odd) == m.union - m.paired <= m.missing.baseline + m.missing.candidate + odd

\* The values of a comparison and its adjusted p-values.
ChancesTell(results) ==
    \A v \in DOMAIN results :
        /\ results[v].metric.chance \in Nat /\ results[v].adjusted \in 0..PScale
        /\ results[v].metric.chance <= results[v].adjusted
        /\ results[v].adjusted <= Cardinality(DOMAIN results) * results[v].metric.chance
        /\ \A w \in DOMAIN results :
              results[w].metric.chance <= results[v].metric.chance
                  => results[w].adjusted <= results[v].adjusted

ComparisonTells ==
    comparison.at = "stored" =>
        /\ comparison.policy \in Policies
        /\ DOMAIN comparison.results # {} /\ DOMAIN comparison.results \subseteq Nat
        /\ IsFiniteSet(DOMAIN comparison.results)
        /\ ChancesTell(comparison.results)
        /\ \A v \in DOMAIN comparison.results :
              /\ MetricTells(comparison.results[v].metric, comparison.policy)
              /\ comparison.results[v].metric.paired >= 2
              /\ comparison.results[v].metric.union <= Cardinality(Seen(v))
              /\ comparison.results[v].metric.paired <= Cardinality(Paired(v, comparison.policy))
              /\ Accounted(comparison.results[v].metric, Cardinality(Odd(v)))
        /\ \E b, c : Moment(b, c)

GateTells ==
    gate.asked =>
        /\ comparison.at = "stored" /\ gate.rules \subseteq Rules
        /\ gate.passed <=> \A rule \in gate.rules : RulePasses(rule) \/ ~rule.required

ComparisonsInv == MeasuredOK /\ ComparisonTells /\ GateTells

\* What has been measured of a side.
LEMMA HistoryOf ==
    ASSUME MeasuredOK, NEW s \in Sides
    PROVE  LET h == measured[s].history IN
           /\ h \in Seq(ToSet(h)) /\ Len(h) \in Nat /\ DOMAIN h = 1..Len(h)
           /\ measured[s].done \in 0..Len(h)
           /\ \A i \in DOMAIN h :
                 /\ h[i].version \in DOMAIN VersionStrings /\ h[i].version \in Nat
                 /\ h[i].outcome \in MetricOutcomes
                 /\ \A j \in DOMAIN h : h[i].point = h[j].point => i = j
<1>. PICK h : h = measured[s].history
  OBVIOUS
<1>1. h \in Histories \union {<<>>} /\ measured[s].done \in Nat /\ measured[s].done <= Len(h)
  BY DEF MeasuredOK
<1>2. h \in Seq(ToSet(h))
  <2>1. CASE h \in Histories
    BY <2>1, ComparisonAssumption
  <2>2. \A X : <<>> \in Seq(X)
    OBVIOUS
  <2>. QED  BY <1>1, <2>1, <2>2
<1>3. Len(h) \in Nat /\ DOMAIN h = 1..Len(h)
  BY <1>2
<1>4. CASE h \in Histories
  <2>1. DOMAIN VersionStrings \subseteq Nat
    BY ComparisonAssumption
  <2>. QED  BY <1>1, <1>2, <1>3, <1>4, <2>1, ComparisonAssumption
<1>5. CASE h = <<>>
  BY <1>1, <1>2, <1>3, <1>5
<1>. QED  BY <1>1, <1>4, <1>5

\* The rows a comparison reads are apart, and all of the version asked for.
LEMMA RowsApart ==
    ASSUME MeasuredOK, NEW s \in Sides, NEW v
    PROVE  /\ Apart(RowsOf(s, v))
           /\ \A r \in RowsOf(s, v) : r \in ToSet(measured[s].history) /\ r.version = v
<1>. PICK h : h = measured[s].history
  OBVIOUS
<1>. PICK n : n = measured[s].done
  OBVIOUS
<1>1. /\ Len(h) \in Nat /\ DOMAIN h = 1..Len(h) /\ n \in 0..Len(h)
      /\ \A i \in DOMAIN h :
            /\ h[i].outcome \in MetricOutcomes
            /\ \A j \in DOMAIN h : h[i].point = h[j].point => i = j
  BY HistoryOf
<1>. DEFINE I == {j \in 1..n : h[j].version = v /\ h[j].outcome # TaskFailed}
            row == [i \in I |-> h[i]]
<1>2. RowsOf(s, v) = {h[i] : i \in I}
  BY DEF RowsOf
<1>3. I \in SUBSET (1..n) /\ I \in SUBSET (DOMAIN h) /\ IsFiniteSet(1..n)
  <2>1. n \in Nat /\ IsFiniteSet(1..n)
    <3>1. n \in Nat
      BY <1>1
    <3>. QED  BY <3>1, FS_Interval
  <2>2. I \in SUBSET (1..n)
    OBVIOUS
  <2>3. \A j \in 1..n : j \in DOMAIN h
    BY <1>1
  <2>. QED  BY <2>1, <2>2, <2>3
<1>4. row \in Surjection(I, RowsOf(s, v))
  BY <1>2 DEF Surjection
<1>5. IsFiniteSet(RowsOf(s, v))
  <2>. HIDE DEF row, I
  <2>1. IsFiniteSet(I)
    BY <1>3, FS_Subset
  <2>. QED  BY <1>4, <2>1, FS_Surjection
<1>6. \A i \in I : i \in DOMAIN h /\ h[i].version = v
  BY <1>3
<1>. HIDE DEF I
<1>7. \A r, q \in RowsOf(s, v) : r.point = q.point => r = q
  BY <1>1, <1>2, <1>6
<1>8. \A r \in RowsOf(s, v) : r.outcome \in MetricOutcomes
  BY <1>1, <1>2, <1>6
<1>9. \A r \in RowsOf(s, v) : r \in ToSet(h) /\ r.version = v
  BY <1>2, <1>6 DEF ToSet
<1>. QED  BY <1>5, <1>7, <1>8, <1>9 DEF Apart

\* What compare_metric computes accounts for the points it sees.
LEMMA MetricIs ==
    ASSUME MeasuredOK, NEW v, NEW policy \in Policies, NEW chance, NEW reach \in Int \X Int
    PROVE  LET m == ComparedMetric(v, policy, chance, reach) IN
           /\ MetricTells(m, policy) /\ m.chance = chance
           /\ IsFiniteSet(Seen(v)) /\ m.union = Cardinality(Seen(v))
           /\ m.paired = Cardinality(Paired(v, policy))
           /\ IsFiniteSet(Odd(v)) /\ Accounted(m, Cardinality(Odd(v)))
           /\ m.candidateSum = SumOver(ValuesOf(RowsOf("candidate", v), policy), Paired(v, policy))
           /\ m.difference = m.candidateSum
                               - SumOver(ValuesOf(RowsOf("baseline", v), policy), Paired(v, policy))
<1>. PICK left : left = RowsOf("baseline", v)
  OBVIOUS
<1>. PICK right : right = RowsOf("candidate", v)
  OBVIOUS
<1>1. Apart(left) /\ Apart(right)
  BY RowsApart DEF Sides
<1>. DEFINE U == PointsOf(left) \union PointsOf(right)
            L == DOMAIN ValuesOf(left, policy)
            R == DOMAIN ValuesOf(right, policy)
            F == Finite(ValuesOf(left, policy))
            G == Finite(ValuesOf(right, policy))
            O == InfinitePoints(left) \union InfinitePoints(right)
            P == U \cap F \cap G
            sum == SumOver(ValuesOf(right, policy), P)
            difference == sum - SumOver(ValuesOf(left, policy), P)
            m == ComparedMetric(v, policy, chance, reach)
<1>2. IsFiniteSet(U)
  BY <1>1, PointsCount, FS_Union
<1>3. /\ L \in SUBSET U /\ R \in SUBSET U /\ PointsOf(left) \subseteq U /\ PointsOf(right) \subseteq U
      /\ F \in SUBSET L /\ G \in SUBSET R /\ O \in SUBSET U /\ L \ F \subseteq O /\ R \ G \subseteq O
  BY <1>1, ValuesFit
<1>4. /\ m.union = Cardinality(U) /\ m.paired = Cardinality(P) /\ m.chance = chance
      /\ m.missing.baseline = Cardinality(U \ L) /\ m.missing.candidate = Cardinality(U \ R)
      /\ m.missing["baseline"] = Cardinality(U \ L) /\ m.missing["candidate"] = Cardinality(U \ R)
      /\ m.failed["baseline"] = FailedIn(left) /\ m.failed["candidate"] = FailedIn(right)
      /\ m.difference = difference /\ m.candidateSum = sum
      /\ m.upper = difference + reach[2]
      /\ m.reading = Interpretation(difference, difference + reach[1], difference + reach[2], chance,
                                    Cardinality(P))
  BY DEF ComparedMetric, UnionOf
<1>5. Seen(v) = U /\ Paired(v, policy) = P /\ Odd(v) = O
  BY DEF Seen, Paired, UnionOf, Odd, Infinite, InfinitePoints
<1>6. difference \in Int /\ sum \in Int
  <2>1. P \in SUBSET U /\ \A p \in P : ValuesOf(left, policy)[p] \in Int /\ ValuesOf(right, policy)[p] \in Int
    BY <1>1, ValuesFit
  <2>. HIDE DEF P, U
  <2>2. IsFiniteSet(P)
    BY <1>2, <2>1, FS_Subset
  <2>3. SumOver(ValuesOf(right, policy), P) = Total(ValuesOf(right, policy), P)
        /\ SumOver(ValuesOf(left, policy), P) = Total(ValuesOf(left, policy), P)
    BY DEF SumOver, Total
  <2>4. Total(ValuesOf(right, policy), P) \in Int /\ Total(ValuesOf(left, policy), P) \in Int
    BY <2>1, <2>2, TotalInt
  <2>. QED  BY <2>3, <2>4
<1>. HIDE DEF m, difference, sum
<1>7. /\ Cardinality(U) \in Nat /\ Cardinality(P) \in Nat
      /\ Cardinality(U \ L) \in Nat /\ Cardinality(U \ R) \in Nat
      /\ Cardinality(U \ L) <= Cardinality(U) - Cardinality(P)
      /\ Cardinality(U \ R) <= Cardinality(U) - Cardinality(P)
      /\ Cardinality(U) - Cardinality(P) <= Cardinality(U \ L) + Cardinality(U \ R) + Cardinality(O)
  <2>. HIDE DEF U, L, R, F, G, O
  <2>1. Lacking(U, L, R, F, G, O)
    BY <1>2, <1>3 DEF Lacking
  <2>. QED  BY <2>1, MissingCount
<1>8. /\ FailedIn(left) \in Nat /\ FailedIn(left) <= Cardinality(U)
      /\ policy = "failures_as_zero" => FailedIn(left) + Cardinality(U \ L) <= Cardinality(U)
      /\ policy = "available_pairs" => FailedIn(left) <= Cardinality(U \ L)
  <2>. HIDE DEF U
  <2>. QED  BY <1>1, <1>2, <1>3, FailuresCount
<1>9. /\ FailedIn(right) \in Nat /\ FailedIn(right) <= Cardinality(U)
      /\ policy = "failures_as_zero" => FailedIn(right) + Cardinality(U \ R) <= Cardinality(U)
      /\ policy = "available_pairs" => FailedIn(right) <= Cardinality(U \ R)
  <2>. HIDE DEF U
  <2>. QED  BY <1>1, <1>2, <1>3, FailuresCount
<1>10. IsFiniteSet(O)
  <2>. HIDE DEF U, O
  <2>. QED  BY <1>2, <1>3, FS_Subset
<1>. HIDE DEF U, L, R, P, F, G, O
<1>11. m.upper \in Int /\ (m.reading = "regression" <=> m.upper <= -(Practical * m.paired) /\ Practical > 0)
  <2>. PICK d \in Int, low \in Int, high \in Int, n \in Nat :
            d = difference /\ low = difference + reach[1] /\ high = difference + reach[2] /\ n = Cardinality(P)
    BY <1>6, <1>7
  <2>1. m.reading = Interpretation(d, low, high, chance, n) /\ m.upper = high /\ m.paired = n
    BY <1>4
  <2>2. Practical \in Nat
    BY ComparisonAssumption
  <2>3. Interpretation(d, low, high, chance, n) = "regression" <=> high <= -(Practical * n) /\ Practical > 0
    BY DEF Interpretation
  <2>. QED  BY <2>1, <2>3
<1>12. MetricTells(m, policy)
  BY <1>4, <1>6, <1>7, <1>8, <1>9, <1>11 DEF MetricTells, Sides
<1>13. Accounted(m, Cardinality(O))
  BY <1>4, <1>7 DEF Accounted
<1>14. m.candidateSum = sum /\ m.difference = m.candidateSum - SumOver(ValuesOf(left, policy), P)
  BY <1>4 DEF difference
<1>. QED  BY <1>2, <1>4, <1>5, <1>10, <1>12, <1>13, <1>14 DEF m, sum

RowsGrow == \A s \in Sides : \A v : RowsOf(s, v) \subseteq RowsOf(s, v)'

\* More is settled, of the history a run has or of the one it is given.
RunsGrow ==
    /\ RowsGrow
    /\ \A s \in Sides :
          /\ measured[s].done <= measured'[s].done
          /\ measured'[s].history = measured[s].history \/ measured[s].done = 0

\* What a run has scored so far is what a comparison would see of it now.
LEMMA ScoredIs ==
    ASSUME MeasuredOK, NEW s \in Sides, NEW v, NEW policy \in Policies
    PROVE  LET values == ValuesOf(RowsOf(s, v), policy) IN
           /\ Finite(values) = ScoredBy(s, measured[s].done, v, policy)
           /\ \A p \in Finite(values) : values[p] = ScoreAt(s, p)
           /\ RowsOf(s, v) # {} <=> Resulted(s, measured[s].done, v) # {}
<1>. PICK h : h = measured[s].history
  OBVIOUS
<1>. PICK n : n = measured[s].done
  OBVIOUS
<1>. PICK rows : rows = RowsOf(s, v)
  OBVIOUS
<1>. PICK I : I = Resulted(s, n, v)
  OBVIOUS
<1>. PICK values : values = ValuesOf(rows, policy)
  OBVIOUS
<1>1. Apart(rows) /\ \A r \in rows : r \in ToSet(h)
  BY RowsApart
<1>2. rows = {h[i] : i \in I}
  BY DEF RowsOf, Resulted
<1>3. DOMAIN h = 1..Len(h) /\ \A i, j \in DOMAIN h : h[i].point = h[j].point => i = j
  BY HistoryOf
<1>4. Finite(values) = NumberPoints(rows, policy)
      /\ \A r \in rows : r.point \in Finite(values) => values[r.point] = IF r.outcome \in Int THEN r.outcome ELSE 0
  BY <1>1, NumbersFit
<1>5. NumberPoints(rows, policy) = ScoredBy(s, n, v, policy)
  <2>. DEFINE counts(x) == x.outcome \in Int \/ (policy = "failures_as_zero" /\ x.outcome = MetricFailed)
  <2>1. NumberPoints(rows, policy) = {r.point : r \in {q \in rows : counts(q)}}
    BY DEF NumberPoints, PointsOf
  <2>2. ScoredBy(s, n, v, policy) = {h[i].point : i \in {j \in I : counts(h[j])}}
    BY DEF ScoredBy
  <2>. HIDE DEF counts
  <2>. QED  BY <1>2, <2>1, <2>2
<1>6. ASSUME NEW p \in Finite(values) PROVE values[p] = ScoreAt(s, p)
  <2>1. PICK r \in rows : r.point = p
    BY <1>4, <1>6 DEF NumberPoints, PointsOf
  <2>2. \A x \in ToSet(h) : x.point = p => x = r
    BY <1>1, <1>3, <2>1 DEF ToSet
  <2>. DEFINE at(x) == (CHOOSE y \in ToSet(x) : y.point = p).outcome
  <2>3. at(h) = r.outcome
    BY <1>1, <2>1, <2>2
  <2>4. ScoreAt(s, p) = IF at(measured[s].history) \in Int THEN at(measured[s].history) ELSE 0
    BY DEF ScoreAt
  <2>. HIDE DEF at
  <2>5. ScoreAt(s, p) = IF r.outcome \in Int THEN r.outcome ELSE 0
    BY <2>3, <2>4
  <2>. QED  BY <1>4, <1>6, <2>1, <2>5
<1>. QED  BY <1>2, <1>4, <1>5, <1>6

\* What both runs have scored so far is what a comparison would pair now, and adds up
\* to the same.
LEMMA SharedIs ==
    ASSUME MeasuredOK, NEW v, NEW policy \in Policies
    PROVE  LET points == Shared(measured["baseline"].done, measured["candidate"].done, v, policy) IN
           /\ Paired(v, policy) = points /\ IsFiniteSet(points)
           /\ \A s \in Sides : SumOver(ValuesOf(RowsOf(s, v), policy), points) = Given(s, points)
<1>. DEFINE points == Shared(measured["baseline"].done, measured["candidate"].done, v, policy)
            values(s) == ValuesOf(RowsOf(s, v), policy)
<1>1. \A s \in Sides : /\ Finite(values(s)) = ScoredBy(s, measured[s].done, v, policy)
                        /\ \A p \in Finite(values(s)) : values(s)[p] = ScoreAt(s, p)
  BY ScoredIs
<1>2. \A s \in Sides : /\ Finite(values(s)) \subseteq PointsOf(RowsOf(s, v)) /\ IsFiniteSet(PointsOf(RowsOf(s, v)))
  BY RowsApart, ValuesFit, PointsCount
<1>3. points = Finite(values("baseline")) \cap Finite(values("candidate"))
  BY <1>1 DEF Shared, Sides
<1>4. Paired(v, policy) = points
  BY <1>2, <1>3 DEF Paired, UnionOf, Sides
<1>5. IsFiniteSet(points)
  <2>. DEFINE all == PointsOf(RowsOf("baseline", v))
  <2>1. points \in SUBSET all /\ IsFiniteSet(all)
    BY <1>2, <1>3 DEF Sides
  <2>. HIDE DEF points, all
  <2>. QED  BY <2>1, FS_Subset
<1>6. ASSUME NEW s \in Sides PROVE SumOver(values(s), points) = Given(s, points)
  <2>. DEFINE score == [p \in points |-> ScoreAt(s, p)]
  <2>1. \A p \in points : values(s)[p] = score[p]
    BY <1>1, <1>3 DEF Sides
  <2>2. SumOver(values(s), points) = Total(values(s), points) /\ Given(s, points) = Total(score, points)
    BY DEF SumOver, Given, Total
  <2>. HIDE DEF points, score, values
  <2>. QED  BY <1>5, <2>1, <2>2, TotalSame
<1>. QED  BY <1>4, <1>5, <1>6 DEF points

\* The versions both have results of so far are those a comparison would compare now.
LEMMA CommonIs ==
    ASSUME MeasuredOK
    PROVE  Common(measured["baseline"].done, measured["candidate"].done) = Compared
<1>1. ASSUME NEW s \in Sides, NEW v
      PROVE  /\ Resulted(s, measured[s].done, v) # {} <=> RowsOf(s, v) # {}
             /\ RowsOf(s, v) # {} => v \in DOMAIN VersionStrings /\ v \in VersionsOf(s)
  <2>. PICK h : h = measured[s].history
    OBVIOUS
  <2>1. Resulted(s, measured[s].done, v) # {} <=> RowsOf(s, v) # {}
    BY ScoredIs DEF Policies
  <2>2. ASSUME NEW r \in RowsOf(s, v) PROVE v \in DOMAIN VersionStrings /\ v \in {h[i].version : i \in DOMAIN h}
    <3>1. r \in ToSet(h) /\ r.version = v
      BY RowsApart
    <3>2. PICK i \in DOMAIN h : r = h[i]
      BY <3>1 DEF ToSet
    <3>3. h[i].version \in DOMAIN VersionStrings
      BY HistoryOf
    <3>. QED  BY <3>1, <3>2, <3>3
  <2>. QED  BY <2>1, <2>2 DEF VersionsOf
<1>2. \A v : v \in Common(measured["baseline"].done, measured["candidate"].done) <=> v \in Compared
  BY <1>1 DEF Common, Compared, VersionsOf, Sides
<1>. QED  BY <1>2

\* A moment of the runs stays one.
LEMMA MomentStays ==
    ASSUME MeasuredOK, MeasuredOK', RunsGrow, UNCHANGED comparison, DOMAIN comparison.results # {},
           NEW b, NEW c, Moment(b, c)
    PROVE  Moment(b, c)'
<1>1. /\ b \in 0..measured["baseline"].done /\ c \in 0..measured["candidate"].done
      /\ Common(b, c) # {}
  BY DEF Moment
<1>2. \A s \in Sides : measured[s].done \in Nat /\ measured'[s].done \in Nat /\ measured[s].done <= measured'[s].done
  BY DEF MeasuredOK, RunsGrow
<1>3. \A s \in Sides : measured'[s].history = measured[s].history
  <2>1. \A s \in Sides : \A v : Resulted(s, 0, v) = {}
    BY DEF Resulted
  <2>2. b # 0 /\ c # 0
    BY <1>1, <2>1 DEF Common, Sides
  <2>. QED  BY <1>1, <1>2, <2>2 DEF RunsGrow, Sides
<1>4. b \in 0..measured'["baseline"].done /\ c \in 0..measured'["candidate"].done
  BY <1>1, <1>2 DEF Sides
<1>5. ASSUME NEW s \in Sides, NEW n, NEW v, NEW policy, NEW points
      PROVE  /\ Resulted(s, n, v)' = Resulted(s, n, v)
             /\ ScoredBy(s, n, v, policy)' = ScoredBy(s, n, v, policy)
             /\ Given(s, points)' = Given(s, points)
  <2>1. Resulted(s, n, v)' = Resulted(s, n, v)
    BY <1>3 DEF Resulted
  <2>2. ScoredBy(s, n, v, policy)' = ScoredBy(s, n, v, policy)
    BY <1>3, <2>1 DEF ScoredBy
  <2>3. ASSUME NEW p PROVE ScoreAt(s, p)' = ScoreAt(s, p)
    <3>. DEFINE at(x) == (CHOOSE y \in ToSet(x) : y.point = p).outcome
    <3>1. ScoreAt(s, p) = IF at(measured[s].history) \in Int THEN at(measured[s].history) ELSE 0
      BY DEF ScoreAt
    <3>2. ScoreAt(s, p)' = IF at(measured'[s].history) \in Int THEN at(measured'[s].history) ELSE 0
      BY DEF ScoreAt
    <3>. HIDE DEF at
    <3>. QED  BY <1>3, <3>1, <3>2
  <2>4. Given(s, points)' = Given(s, points)
    BY <2>3 DEF Given
  <2>. QED  BY <2>1, <2>2, <2>4
<1>6. Common(b, c)' = Common(b, c)
  BY <1>5 DEF Common, Sides
<1>7. \A v, policy : Shared(b, c, v, policy)' = Shared(b, c, v, policy)
  BY <1>5 DEF Shared, Sides
<1>. QED  BY <1>4, <1>5, <1>6, <1>7 DEF Moment, Sides

\* Rows are added and never removed, and histories begun are not changed.
LEMMA RunsGoOn ==
    ASSUME MeasuredOK, [ComparisonsNext]_comparisonVars
    PROVE  MeasuredOK' /\ RunsGrow
<1>1. ASSUME UNCHANGED measured
      PROVE  MeasuredOK' /\ RunsGrow
  <2>1. \A s \in Sides : measured[s].done \in Nat
    BY DEF MeasuredOK
  <2>2. MeasuredOK' /\ RowsGrow
    BY <1>1 DEF MeasuredOK, RowsOf, RowsGrow
  <2>. QED  BY <1>1, <2>1, <2>2 DEF RunsGrow
<1>2. ASSUME NEW s \in Sides, NEW x \in [history : Histories \union {<<>>}, done : Nat],
             x.done <= Len(x.history), measured' = [measured EXCEPT ![s] = x],
             measured[s].done <= x.done, measured[s].done \in Nat,
             x.history = measured[s].history \/ measured[s].done = 0
      PROVE  MeasuredOK' /\ RunsGrow
  <2>1. MeasuredOK'
    BY <1>2 DEF MeasuredOK
  <2>2. ASSUME NEW q \in Sides, NEW v PROVE RowsOf(q, v) \subseteq RowsOf(q, v)'
    <3>1. CASE q # s
      <4>1. measured'[q] = measured[q]
        BY <1>2, <3>1 DEF MeasuredOK
      <4>. QED  BY <4>1 DEF RowsOf
    <3>2. CASE q = s
      <4>. PICK old : old = measured[s]
        OBVIOUS
      <4>1. measured'[q] = x /\ measured[q] = old
        BY <1>2, <3>2 DEF MeasuredOK
      <4>2. x.done \in Nat /\ old.done \in Nat /\ old.done <= x.done
            /\ (x.history = old.history \/ old.done = 0)
        BY <1>2
      <4>3. RowsOf(q, v)' = {x.history[i] : i \in {j \in 1..x.done :
                /\ x.history[j].version = v /\ x.history[j].outcome # TaskFailed}}
        BY <4>1 DEF RowsOf
      <4>4. RowsOf(q, v) = {old.history[i] : i \in {j \in 1..old.done :
                /\ old.history[j].version = v /\ old.history[j].outcome # TaskFailed}}
        BY <4>1 DEF RowsOf
      <4>5. \A i \in 1..old.done : i \in 1..x.done /\ x.history = old.history
        BY <4>2
      <4>. QED  BY <4>3, <4>4, <4>5
    <3>. QED  BY <3>1, <3>2
  <2>3. ASSUME NEW q \in Sides
        PROVE  /\ measured[q].done <= measured'[q].done
               /\ measured'[q].history = measured[q].history \/ measured[q].done = 0
    <3>1. measured[q].done \in Nat
      BY DEF MeasuredOK
    <3>2. measured'[q] = IF q = s THEN x ELSE measured[q]
      BY <1>2 DEF MeasuredOK
    <3>. QED  BY <1>2, <3>1, <3>2
  <2>. QED  BY <2>1, <2>2, <2>3 DEF RunsGrow, RowsGrow
<1>3. ASSUME NEW s \in Sides, NEW h \in Histories, StartMeasuring(s, h)
      PROVE  MeasuredOK' /\ RunsGrow
  <2>. PICK old : old = measured[s]
    OBVIOUS
  <2>. DEFINE x == [old EXCEPT !.history = h]
  <2>1. old \in [history : Histories \union {<<>>}, done : Nat] /\ old.done <= Len(old.history)
    BY DEF MeasuredOK
  <2>2. old.done = 0
    <3>1. old.history = <<>> /\ Len(<<>>) = 0
      BY <1>3 DEF StartMeasuring
    <3>. QED  BY <2>1, <3>1
  <2>3. x \in [history : Histories \union {<<>>}, done : Nat] /\ x.done = 0 /\ x.history = h
    BY <2>1, <2>2
  <2>4. h \in Seq(ToSet(h))
    BY ComparisonAssumption
  <2>5. x.done <= Len(x.history)
    BY <2>3, <2>4
  <2>6. measured' = [measured EXCEPT ![s] = x]
    BY <1>3 DEF StartMeasuring
  <2>7. measured[s].done = 0 /\ measured[s].done <= x.done /\ measured[s].done \in Nat
    BY <2>2, <2>3
  <2>. HIDE DEF x
  <2>. QED  BY <1>2, <2>3, <2>5, <2>6, <2>7
<1>4. ASSUME NEW s \in Sides, Measure(s)
      PROVE  MeasuredOK' /\ RunsGrow
  <2>. PICK old : old = measured[s]
    OBVIOUS
  <2>. DEFINE x == [old EXCEPT !.done = old.done + 1]
  <2>1. old \in [history : Histories \union {<<>>}, done : Nat]
    BY DEF MeasuredOK
  <2>2. x \in [history : Histories \union {<<>>}, done : Nat] /\ x.done = old.done + 1
        /\ x.history = old.history
    BY <2>1
  <2>3. old.done < Len(old.history) /\ measured' = [measured EXCEPT ![s] = x]
    BY <1>4 DEF Measure
  <2>4. Len(old.history) \in Nat
    BY HistoryOf
  <2>. HIDE DEF x
  <2>5. x.done <= Len(x.history) /\ old.done <= x.done /\ old.done \in Nat
    BY <2>1, <2>2, <2>3, <2>4
  <2>. QED  BY <1>2, <2>2, <2>3, <2>5
<1>. QED  BY <1>1, <1>3, <1>4 DEF ComparisonsNext, comparisonVars, RefuseComparison,
                                   CreateComparison, EvaluateGate

\* The rows a comparison reads are apart, for every side and version.
RowsTold == \A s \in Sides : \A v : Apart(RowsOf(s, v))

\* They are, whatever has been measured.
LEMMA RowsAreTold == MeasuredOK => RowsTold
  BY RowsApart DEF RowsTold

\* More rows pair no fewer points.
LEMMA PairsGrow ==
    ASSUME MeasuredOK, MeasuredOK', RowsGrow, NEW v, NEW policy \in Policies
    PROVE  /\ Cardinality(Seen(v)) \in Nat /\ Cardinality(Seen(v))' \in Nat
           /\ Cardinality(Seen(v)) <= Cardinality(Seen(v))'
           /\ Cardinality(Paired(v, policy)) \in Nat /\ Cardinality(Paired(v, policy))' \in Nat
           /\ Cardinality(Paired(v, policy)) <= Cardinality(Paired(v, policy))'
           /\ Cardinality(Odd(v)) \in Nat /\ Cardinality(Odd(v))' \in Nat
           /\ Cardinality(Odd(v)) <= Cardinality(Odd(v))'
<1>. PICK left, right : left = RowsOf("baseline", v) /\ right = RowsOf("candidate", v)
  OBVIOUS
<1>. PICK more, rest : more = RowsOf("baseline", v)' /\ rest = RowsOf("candidate", v)'
  OBVIOUS
<1>0. RowsTold /\ RowsTold'
  BY RowsAreTold, PTL
<1>1. Apart(left) /\ Apart(right) /\ left \subseteq more /\ right \subseteq rest
  BY <1>0 DEF Sides, RowsTold, RowsGrow
<1>2. Apart(more) /\ Apart(rest)
  BY <1>0 DEF Sides, RowsTold, RowsOf
<1>. DEFINE dom(rows) == Finite(ValuesOf(rows, policy))
            odd(l, r) == InfinitePoints(l) \union InfinitePoints(r)
            seen(l, r) == PointsOf(l) \union PointsOf(r)
            pairs(l, r) == seen(l, r) \cap dom(l) \cap dom(r)
<1>3. ASSUME NEW a, NEW b, a \subseteq b, Apart(a), Apart(b)
      PROVE  PointsOf(a) \subseteq PointsOf(b) /\ dom(a) \subseteq dom(b)
             /\ InfinitePoints(a) \subseteq InfinitePoints(b)
  <2>1. dom(a) = NumberPoints(a, policy) /\ dom(b) = NumberPoints(b, policy)
    BY <1>3, NumbersFit
  <2>. QED  BY <1>3, <2>1 DEF PointsOf, NumberPoints, InfinitePoints
<1>. HIDE DEF dom
<1>4. /\ seen(left, right) \subseteq seen(more, rest) /\ pairs(left, right) \subseteq pairs(more, rest)
      /\ odd(left, right) \subseteq odd(more, rest)
  BY <1>1, <1>2, <1>3
<1>5. /\ IsFiniteSet(seen(more, rest)) /\ pairs(more, rest) \in SUBSET seen(more, rest)
      /\ odd(more, rest) \in SUBSET seen(more, rest)
  <2>1. /\ InfinitePoints(more) \subseteq PointsOf(more) /\ InfinitePoints(rest) \subseteq PointsOf(rest)
        /\ IsFiniteSet(PointsOf(more)) /\ IsFiniteSet(PointsOf(rest))
    BY <1>2, PointsCount, ValuesFit
  <2>. QED  BY <2>1, FS_Union
<1>. DEFINE A == seen(left, right)
            B == seen(more, rest)
            C == pairs(left, right)
            D == pairs(more, rest)
            E == odd(left, right)
            O == odd(more, rest)
<1>6. /\ A \in SUBSET B /\ C \in SUBSET D /\ D \in SUBSET B /\ IsFiniteSet(B)
      /\ E \in SUBSET O /\ O \in SUBSET B
  BY <1>4, <1>5
<1>7. /\ Seen(v) = A /\ Seen(v)' = B /\ Paired(v, policy) = C /\ Paired(v, policy)' = D
      /\ Odd(v) = E /\ Odd(v)' = O
  BY DEF Seen, Paired, UnionOf, dom, Odd, Infinite, InfinitePoints
<1>. HIDE DEF A, B, C, D, E, O
<1>8. IsFiniteSet(A) /\ IsFiniteSet(D) /\ IsFiniteSet(O)
  BY <1>6, FS_Subset
<1>9. /\ IsFiniteSet(C) /\ Cardinality(C) <= Cardinality(D) /\ Cardinality(A) <= Cardinality(B)
      /\ IsFiniteSet(E) /\ Cardinality(E) <= Cardinality(O)
  BY <1>6, <1>8, FS_Subset
<1>10. /\ Cardinality(A) \in Nat /\ Cardinality(B) \in Nat /\ Cardinality(C) \in Nat
       /\ Cardinality(D) \in Nat /\ Cardinality(E) \in Nat /\ Cardinality(O) \in Nat
  BY <1>6, <1>8, <1>9, FS_CardinalityType
<1>. QED  BY <1>7, <1>9, <1>10

\* The versions both runs have rows of: finitely many numbers.
LEMMA ComparedFinite ==
    ASSUME MeasuredOK
    PROVE  Compared \subseteq Nat /\ IsFiniteSet(Compared)
<1>. PICK h : h = measured["baseline"].history
  OBVIOUS
<1>1. /\ Len(h) \in Nat /\ DOMAIN h = 1..Len(h) /\ \A i \in DOMAIN h : h[i].version \in Nat
  BY HistoryOf DEF Sides
<1>. DEFINE all == {h[i].version : i \in DOMAIN h}
            stamp == [i \in DOMAIN h |-> h[i].version]
<1>2. stamp \in Surjection(DOMAIN h, all)
  BY DEF Surjection
<1>3. IsFiniteSet(DOMAIN h)
  BY <1>1, FS_Interval
<1>4. Compared \in SUBSET all /\ all \in SUBSET Nat
  BY <1>1 DEF Compared, VersionsOf
<1>. HIDE DEF all, stamp
<1>5. IsFiniteSet(all)
  BY <1>2, <1>3, FS_Surjection
<1>. QED  BY <1>4, <1>5, FS_Subset

\* A comparison that is stored tells what it saw.
LEMMA CreatedTells ==
    ASSUME ComparisonsInv, NEW policy \in Policies, NEW chances \in [Compared -> Chances],
           NEW reaches \in [Compared -> Reaches], CreateComparison(policy, chances, reaches)
    PROVE  ComparisonTells'
<1>. DEFINE metric(v) == ComparedMetric(v, policy, chances[v], reaches[v])
            family == [v \in Compared |-> chances[v]]
            adjusted == Holm(family)
            results == [v \in Compared |-> [metric |-> metric(v), adjusted |-> adjusted[v]]]
<1>1. Compared \subseteq Nat /\ IsFiniteSet(Compared)
  BY ComparedFinite DEF ComparisonsInv
<1>2. family \in [Compared -> 0..PScale] /\ DOMAIN family = Compared
  BY ComparisonAssumption
<1>3. HolmFits(family)
  <2>. HIDE DEF family
  <2>. QED  BY <1>1, <1>2, HolmTells
<1>4. SUFFICES ASSUME comparison'.at = "stored"
               PROVE  ComparisonTells'
  BY DEF ComparisonTells
<1>5. /\ Compared # {} /\ \A v \in Compared : metric(v).paired >= 2
      /\ comparison' = [at |-> "stored", policy |-> policy, results |-> results]
  <2>1. /\ [NoComparison EXCEPT !.at = "422"].at = "422"
        /\ [NoComparison EXCEPT !.at = "500"].at = "500"
    BY DEF NoComparison
  <2>2. CASE Compared = {}
    BY <1>4, <2>1, <2>2 DEF CreateComparison
  <2>. DEFINE found == [v \in Compared |-> metric(v)]
  <2>0. \A v \in Compared : reaches[v] \in Int \X Int
    BY ComparisonAssumption
  <2>3. CASE Compared # {} /\ \E v \in Compared : found[v].paired < 2
    BY <1>4, <2>1, <2>3 DEF CreateComparison
  <2>4. CASE Compared # {} /\ ~\E v \in Compared : found[v].paired < 2
    <3>1. \A v \in Compared : metric(v).paired \in Nat
      BY <2>0, MetricIs DEF ComparisonsInv, MetricTells
    <3>2. \A v \in Compared : found[v] = metric(v)
      OBVIOUS
    <3>3. comparison' = [at |-> "stored", policy |-> policy,
                         results |-> [v \in Compared |-> [metric |-> found[v], adjusted |-> adjusted[v]]]]
      BY <2>4 DEF CreateComparison
    <3>. HIDE DEF metric, adjusted
    <3>4. comparison' = [at |-> "stored", policy |-> policy, results |-> results]
      BY <3>2, <3>3
    <3>. HIDE DEF results, found
    <3>5. \A v \in Compared : metric(v).paired >= 2
      BY <2>4, <3>1, <3>2
    <3>. QED  BY <2>4, <3>4, <3>5
  <2>. QED  BY <2>2, <2>3, <2>4
<1>6. comparison'.policy = policy /\ comparison'.results = results
  BY <1>5
<1>7. /\ DOMAIN results = Compared
      /\ \A v \in Compared : results[v].metric = metric(v) /\ results[v].adjusted = adjusted[v]
  OBVIOUS
<1>8. \A v \in Compared :
        /\ MetricTells(metric(v), policy) /\ metric(v).chance = chances[v]
        /\ metric(v).union = Cardinality(Seen(v)) /\ metric(v).paired = Cardinality(Paired(v, policy))
        /\ Cardinality(Seen(v)) \in Nat /\ Cardinality(Paired(v, policy)) \in Nat
        /\ Accounted(metric(v), Cardinality(Odd(v)))
        /\ metric(v).candidateSum = SumOver(ValuesOf(RowsOf("candidate", v), policy), Paired(v, policy))
        /\ metric(v).difference = metric(v).candidateSum
                                    - SumOver(ValuesOf(RowsOf("baseline", v), policy), Paired(v, policy))
  <2>1. \A v \in Compared : reaches[v] \in Int \X Int
    BY ComparisonAssumption
  <2>2. MeasuredOK
    BY DEF ComparisonsInv
  <2>. TAKE v \in Compared
  <2>. PICK reach \in Int \X Int : reach = reaches[v]
    BY <2>1
  <2>3. LET m == ComparedMetric(v, policy, chances[v], reach) IN
        /\ MetricTells(m, policy) /\ m.chance = chances[v]
        /\ m.union = Cardinality(Seen(v)) /\ m.paired = Cardinality(Paired(v, policy))
        /\ Accounted(m, Cardinality(Odd(v)))
        /\ m.candidateSum = SumOver(ValuesOf(RowsOf("candidate", v), policy), Paired(v, policy))
        /\ m.difference = m.candidateSum
                            - SumOver(ValuesOf(RowsOf("baseline", v), policy), Paired(v, policy))
    BY <2>2, MetricIs
  <2>4. ComparedMetric(v, policy, chances[v], reach) = metric(v)
    OBVIOUS
  <2>. HIDE DEF metric
  <2>5. metric(v).union \in Nat /\ metric(v).paired \in Nat
    BY <2>3, <2>4 DEF MetricTells
  <2>. QED  BY <2>3, <2>4, <2>5
<1>9. measured' = measured
  BY DEF CreateComparison
<1>10. ASSUME NEW v \in Compared
       PROVE  Seen(v)' = Seen(v) /\ Paired(v, policy)' = Paired(v, policy) /\ Odd(v)' = Odd(v)
  BY <1>9 DEF Seen, Paired, Odd, Infinite, RowsOf
<1>. HIDE DEF metric, adjusted, results
<1>11. ChancesTell(results)
  <2>. SUFFICES ASSUME NEW v \in Compared
                PROVE  /\ results[v].metric.chance \in Nat /\ results[v].adjusted \in 0..PScale
                       /\ results[v].metric.chance <= results[v].adjusted
                       /\ results[v].adjusted <= Cardinality(Compared) * results[v].metric.chance
                       /\ \A w \in Compared :
                             results[w].metric.chance <= results[v].metric.chance
                                 => results[w].adjusted <= results[v].adjusted
    BY <1>7 DEF ChancesTell
  <2>1. \A w \in Compared : results[w].metric.chance = family[w] /\ results[w].adjusted = Holm(family)[w]
    BY <1>7, <1>8 DEF adjusted
  <2>2. family[v] \in Nat
    BY <1>2, ComparisonAssumption
  <2>. HIDE DEF family
  <2>. QED  BY <1>2, <1>3, <2>1, <2>2 DEF HolmFits
<1>12. ASSUME NEW v \in DOMAIN results
       PROVE  /\ MetricTells(results[v].metric, policy)
              /\ results[v].metric.paired >= 2
              /\ results[v].metric.union <= Cardinality(Seen(v))'
              /\ results[v].metric.paired <= Cardinality(Paired(v, policy))'
              /\ Accounted(results[v].metric, Cardinality(Odd(v))')
  <2>1. v \in Compared /\ results[v].metric = metric(v)
    BY <1>7
  <2>2. Accounted(metric(v), Cardinality(Odd(v))) /\ Odd(v)' = Odd(v)
    BY <1>8, <1>10, <2>1
  <2>. QED  BY <1>5, <1>8, <1>10, <2>1, <2>2
<1>. PICK told : told = results
  OBVIOUS
<1>13. /\ comparison'.policy = policy /\ comparison'.results = told /\ ChancesTell(told)
       /\ DOMAIN told = Compared
       /\ \A v \in DOMAIN told :
              /\ MetricTells(told[v].metric, policy)
              /\ told[v].metric.paired >= 2
              /\ told[v].metric.union <= Cardinality(Seen(v))'
              /\ told[v].metric.paired <= Cardinality(Paired(v, policy))'
              /\ Accounted(told[v].metric, Cardinality(Odd(v)))'
  <2>1. told' = told
    OBVIOUS
  <2>2. \A v \in DOMAIN told : Accounted(told[v].metric, Cardinality(Odd(v))')
    BY <1>12
  <2>3. \A v \in DOMAIN told : Accounted(told[v].metric, Cardinality(Odd(v)))'
    BY <2>1, <2>2 DEF Accounted
  <2>4. comparison'.results = told
    BY <1>6
  <2>. QED  BY <1>6, <1>7, <1>11, <1>12, <2>3, <2>4
<1>14. \E b, c : Moment(b, c)'
  <2>. PICK b, c : b = measured["baseline"].done /\ c = measured["candidate"].done
    OBVIOUS
  <2>1. b \in 0..b /\ c \in 0..c
    BY DEF ComparisonsInv, MeasuredOK, Sides
  <2>2. Common(b, c) = Compared
    BY CommonIs DEF ComparisonsInv
  <2>3. ASSUME NEW v \in Compared
        PROVE  /\ told[v].metric.paired = Cardinality(Shared(b, c, v, policy))
               /\ told[v].metric.candidateSum = Given("candidate", Shared(b, c, v, policy))
               /\ told[v].metric.difference = Given("candidate", Shared(b, c, v, policy))
                                                - Given("baseline", Shared(b, c, v, policy))
    <3>1. Paired(v, policy) = Shared(b, c, v, policy)
      BY SharedIs DEF ComparisonsInv
    <3>2. \A s \in Sides : SumOver(ValuesOf(RowsOf(s, v), policy), Shared(b, c, v, policy))
                               = Given(s, Shared(b, c, v, policy))
      BY SharedIs DEF ComparisonsInv
    <3>3. told[v].metric = metric(v)
      BY <1>7
    <3>. QED  BY <1>8, <3>1, <3>2, <3>3 DEF Sides
  <2>4. /\ measured'["baseline"].done = b /\ measured'["candidate"].done = c
        /\ Common(b, c)' = Common(b, c)
        /\ \A v : Shared(b, c, v, policy)' = Shared(b, c, v, policy)
        /\ \A s, points : Given(s, points)' = Given(s, points)
    BY <1>9 DEF Common, Resulted, Shared, ScoredBy, Given, ScoreAt
  <2>5. Moment(b, c)'
    BY <1>13, <2>1, <2>2, <2>3, <2>4 DEF Moment
  <2>. QED  BY <2>5
<1>. QED  BY <1>1, <1>5, <1>13, <1>14 DEF ComparisonTells

\* Every step of runs, comparisons and gates.
LEMMA ComparisonsKept ==
    ASSUME ComparisonsInv, [ComparisonsNext]_comparisonVars
    PROVE  ComparisonsInv'
<1>1. MeasuredOK' /\ RunsGrow /\ RowsGrow
  BY RunsGoOn DEF ComparisonsInv, RunsGrow
<1>2. ASSUME UNCHANGED comparison PROVE ComparisonTells'
  <2>. SUFFICES ASSUME comparison.at = "stored" PROVE ComparisonTells'
    BY <1>2 DEF ComparisonTells
  <2>. PICK results, policy : results = comparison.results /\ policy = comparison.policy
    OBVIOUS
  <2>1. /\ policy \in Policies /\ DOMAIN results # {} /\ DOMAIN results \subseteq Nat
        /\ IsFiniteSet(DOMAIN results) /\ ChancesTell(results)
        /\ \A v \in DOMAIN results :
              /\ MetricTells(results[v].metric, policy)
              /\ results[v].metric.paired >= 2
              /\ results[v].metric.union <= Cardinality(Seen(v))
              /\ results[v].metric.paired <= Cardinality(Paired(v, policy))
              /\ Accounted(results[v].metric, Cardinality(Odd(v)))
    BY DEF ComparisonsInv, ComparisonTells
  <2>2. ASSUME NEW v \in DOMAIN results
        PROVE  /\ results[v].metric.union <= Cardinality(Seen(v))'
               /\ results[v].metric.paired <= Cardinality(Paired(v, policy))'
               /\ Accounted(results[v].metric, Cardinality(Odd(v)))'
    <3>. PICK m : m = results[v].metric
      OBVIOUS
    <3>1. /\ m.union \in Nat /\ m.paired \in Nat
          /\ m.missing.baseline \in Nat /\ m.missing.candidate \in Nat
      BY <2>1 DEF MetricTells
    <3>2. /\ Cardinality(Seen(v)) \in Nat /\ Cardinality(Seen(v))' \in Nat
          /\ Cardinality(Seen(v)) <= Cardinality(Seen(v))'
          /\ Cardinality(Paired(v, policy)) \in Nat /\ Cardinality(Paired(v, policy))' \in Nat
          /\ Cardinality(Paired(v, policy)) <= Cardinality(Paired(v, policy))'
          /\ Cardinality(Odd(v)) \in Nat /\ Cardinality(Odd(v))' \in Nat
          /\ Cardinality(Odd(v)) <= Cardinality(Odd(v))'
      BY <1>1, <2>1, PairsGrow DEF ComparisonsInv
    <3>3. Accounted(m, Cardinality(Odd(v))')
      BY <2>1, <3>1, <3>2 DEF Accounted
    <3>4. Accounted(results[v].metric, Cardinality(Odd(v)))'
      <4>1. results' = results
        OBVIOUS
      <4>. QED  BY <3>3, <4>1 DEF Accounted
    <3>. QED  BY <2>1, <3>1, <3>2, <3>4
  <2>3. comparison'.policy = policy /\ comparison'.results = results
    BY <1>2
  <2>4. \E b, c : Moment(b, c)'
    <3>1. PICK b, c : Moment(b, c)
      BY DEF ComparisonsInv, ComparisonTells
    <3>2. Moment(b, c)'
      BY <1>1, <1>2, <2>1, <3>1, MomentStays DEF ComparisonsInv
    <3>. QED  BY <3>2
  <2>. QED  BY <2>1, <2>2, <2>3, <2>4 DEF ComparisonTells
<1>3. ASSUME UNCHANGED <<comparison, gate>> PROVE GateTells'
  BY <1>3 DEF ComparisonsInv, GateTells, RulePasses, Judged
<1>4. ASSUME comparison.at # "stored", UNCHANGED gate PROVE GateTells'
  BY <1>4 DEF ComparisonsInv, GateTells
<1>5. CASE UNCHANGED <<comparison, gate>>
  BY <1>1, <1>2, <1>3, <1>5 DEF ComparisonsInv
<1>6. CASE RefuseComparison
  <2>1. comparison'.at = "409"
    BY <1>6 DEF RefuseComparison, NoComparison
  <2>. QED  BY <1>1, <1>4, <1>6, <2>1 DEF ComparisonsInv, ComparisonTells, RefuseComparison
<1>7. ASSUME NEW policy \in Policies, NEW chances \in [Compared -> Chances],
             NEW reaches \in [Compared -> Reaches], CreateComparison(policy, chances, reaches)
      PROVE  ComparisonsInv'
  <2>1. ComparisonTells'
    BY <1>7, CreatedTells
  <2>2. comparison.at # "stored" /\ gate' = gate
    BY <1>7 DEF CreateComparison
  <2>. QED  BY <1>1, <1>4, <2>1, <2>2 DEF ComparisonsInv
<1>8. ASSUME NEW rules \in SUBSET Rules, EvaluateGate(rules) PROVE ComparisonsInv'
  <2>1. comparison' = comparison /\ comparison.at = "stored"
    BY <1>8 DEF EvaluateGate
  <2>2. gate'.rules = rules /\ (gate'.passed <=> \A rule \in rules : RulePasses(rule) \/ ~rule.required)
    BY <1>8 DEF EvaluateGate
  <2>3. \A rule : RulePasses(rule)' <=> RulePasses(rule)
    BY <2>1 DEF RulePasses, Judged
  <2>4. GateTells'
    BY <2>1, <2>2, <2>3 DEF GateTells
  <2>. QED  BY <1>1, <1>2, <2>1, <2>4 DEF ComparisonsInv
<1>9. ASSUME NEW s \in Sides, Measure(s) \/ \E h \in Histories : StartMeasuring(s, h)
      PROVE  UNCHANGED <<comparison, gate>>
  BY <1>9 DEF Measure, StartMeasuring
<1>. QED  BY <1>5, <1>6, <1>7, <1>8, <1>9 DEF ComparisonsNext, comparisonVars, Policies

\* What holds of the measurements, the comparison and the gate at all times.
LEMMA ComparisonsHold == ComparisonsSpec => []ComparisonsInv
<1>1. ComparisonsInit => ComparisonsInv
  <2>. SUFFICES ASSUME ComparisonsInit PROVE ComparisonsInv
    OBVIOUS
  <2>1. MeasuredOK
    BY DEF ComparisonsInit, MeasuredOK
  <2>. QED  BY <2>1 DEF ComparisonsInit, ComparisonsInv, ComparisonTells, GateTells, NoComparison, NoGate
<1>2. ComparisonsInv /\ [ComparisonsNext]_comparisonVars => ComparisonsInv'
  BY ComparisonsKept
<1>. QED  BY <1>1, <1>2, PTL DEF ComparisonsSpec

\* compare_metric and adjust_p_values: a stored comparison accounts for every point it
\* saw, whatever is measured later, and its adjusted p-values keep their order, claim no
\* more than the tests did and exceed no Bonferroni bound.
THEOREM ComparisonsHaveAccounted == ComparisonsSpec => []ComparisonsAccount
<1>1. ASSUME ComparisonsInv PROVE ComparisonsAccount
  <2>. PICK results, policy : results = comparison.results /\ policy = comparison.policy
    OBVIOUS
  <2>. SUFFICES ASSUME comparison.at = "stored", NEW v \in DOMAIN results
                PROVE
            LET m == results[v].metric
                a == results[v].adjusted
                excluded == m.union - m.paired
            IN
            /\ m.paired >= 2 /\ m.union <= Cardinality(PointsOf(RowsOf("baseline", v))
                                                         \union PointsOf(RowsOf("candidate", v)))
            /\ Greatest({m.missing.baseline, m.missing.candidate}) <= excluded
            /\ excluded <= m.missing.baseline + m.missing.candidate
                             + Cardinality(Infinite("baseline", v) \union Infinite("candidate", v))
            /\ \A s \in Sides :
                  /\ m.failed[s] <= m.union
                  /\ policy = "failures_as_zero" => m.failed[s] + m.missing[s] <= m.union
                  /\ policy = "available_pairs" => m.failed[s] <= m.missing[s]
            /\ Now(v).paired >= m.paired /\ Now(v).union >= m.union
            /\ m.chance <= a /\ a <= PScale
            /\ a <= Cardinality(DOMAIN results) * m.chance
            /\ \A w \in DOMAIN results :
                  results[w].metric.chance <= m.chance => results[w].adjusted <= a
    BY DEF ComparisonsAccount
  <2>. PICK m : m = results[v].metric
    OBVIOUS
  <2>1. /\ policy \in Policies /\ MetricTells(m, policy) /\ m.paired >= 2
        /\ m.union <= Cardinality(Seen(v)) /\ m.paired <= Cardinality(Paired(v, policy))
        /\ ChancesTell(results)
    BY <1>1 DEF ComparisonsInv, ComparisonTells
  <2>2. Now(v).paired = Cardinality(Paired(v, policy)) /\ Now(v).union = Cardinality(Seen(v))
        /\ Now(v).paired \in Nat /\ Now(v).union \in Nat
    <3>1. <<0, 0>> \in Int \X Int
      OBVIOUS
    <3>. QED  BY <1>1, <2>1, <3>1, MetricIs DEF ComparisonsInv, Now, MetricTells
  <2>3. Seen(v) = PointsOf(RowsOf("baseline", v)) \union PointsOf(RowsOf("candidate", v))
    BY DEF Seen, UnionOf
  <2>4. m.union \in Nat /\ m.paired \in Nat /\ m.missing.baseline \in Nat /\ m.missing.candidate \in Nat
        /\ m.missing.baseline <= m.union - m.paired /\ m.missing.candidate <= m.union - m.paired
        /\ m.union - m.paired <= m.missing.baseline + m.missing.candidate
                                   + Cardinality(Infinite("baseline", v) \union Infinite("candidate", v))
    <3>1. Accounted(m, Cardinality(Odd(v)))
      BY <1>1 DEF ComparisonsInv, ComparisonTells
    <3>. QED  BY <2>1, <3>1 DEF MetricTells, Accounted, Odd
  <2>5. Greatest({m.missing.baseline, m.missing.candidate}) <= m.union - m.paired
    <3>. PICK a \in Nat, b \in Nat : a = m.missing.baseline /\ b = m.missing.candidate
      BY <2>4
    <3>. DEFINE S == {a, b}
    <3>1. S \in SUBSET Nat /\ S # {}
      OBVIOUS
    <3>2. IsFiniteSet(S)
      <4>. DEFINE A == {a}
                  B == {b}
      <4>1. IsFiniteSet(A) /\ IsFiniteSet(B) /\ S = A \union B
        BY FS_Singleton
      <4>. HIDE DEF A, B, S
      <4>. QED  BY <4>1, FS_Union
    <3>. HIDE DEF S
    <3>3. Greatest(S) \in S
      BY <3>1, <3>2, GreatestIs
    <3>. QED  BY <2>4, <3>3 DEF S
  <2>6. \A s \in Sides :
          /\ m.failed[s] <= m.union
          /\ policy = "failures_as_zero" => m.failed[s] + m.missing[s] <= m.union
          /\ policy = "available_pairs" => m.failed[s] <= m.missing[s]
    BY <2>1 DEF MetricTells
  <2>7. PScale \in Nat
    BY ComparisonAssumption
  <2>8. /\ m.chance <= results[v].adjusted /\ results[v].adjusted <= PScale
        /\ results[v].adjusted <= Cardinality(DOMAIN results) * m.chance
        /\ \A w \in DOMAIN results :
              results[w].metric.chance <= m.chance => results[w].adjusted <= results[v].adjusted
    BY <2>1, <2>7 DEF ChancesTell
  <2>9. Now(v).paired >= m.paired /\ Now(v).union >= m.union
    BY <2>1, <2>2, <2>4
  <2>10. m.union <= Cardinality(PointsOf(RowsOf("baseline", v)) \union PointsOf(RowsOf("candidate", v)))
    BY <2>1, <2>3
  <2>. QED  BY <2>1, <2>4, <2>5, <2>6, <2>8, <2>9, <2>10
<1>. QED  BY <1>1, ComparisonsHold, PTL

\* evaluate_gate: a gate passes exactly if its required rules are met by what both runs
\* had scored, at one moment, with the version that sorts last.
THEOREM GatesHaveEvidence == ComparisonsSpec => []GatesJudgeEvidence
<1>1. ASSUME ComparisonsInv PROVE GatesJudgeEvidence
  <2>. SUFFICES ASSUME gate.asked PROVE GatesJudgeEvidence
    BY DEF GatesJudgeEvidence
  <2>. PICK results, policy : results = comparison.results /\ policy = comparison.policy
    OBVIOUS
  <2>1. /\ comparison.at = "stored" /\ gate.rules \subseteq Rules
        /\ gate.passed <=> \A rule \in gate.rules : RulePasses(rule) \/ ~rule.required
        /\ policy \in Policies /\ DOMAIN results # {} /\ DOMAIN results \subseteq Nat
        /\ IsFiniteSet(DOMAIN results)
        /\ \A v \in DOMAIN results : MetricTells(results[v].metric, policy)
    BY <1>1 DEF ComparisonsInv, ComparisonTells, GateTells
  <2>2. PICK b, c : Moment(b, c)
    BY <1>1, <2>1 DEF ComparisonsInv, ComparisonTells
  <2>3. /\ b \in 0..measured["baseline"].done /\ c \in 0..measured["candidate"].done
        /\ Common(b, c) = DOMAIN results
        /\ \A v \in DOMAIN results :
              LET m == results[v].metric
                  points == Shared(b, c, v, policy)
              IN  /\ m.paired = Cardinality(points)
                  /\ m.candidateSum = Given("candidate", points)
                  /\ m.difference = Given("candidate", points) - Given("baseline", points)
    BY <2>2 DEF Moment
  <2>. DEFINE last == CHOOSE v \in DOMAIN results : \A w \in DOMAIN results : w <= v
  <2>4. Judged \in DOMAIN results /\ \A w \in DOMAIN results : w <= Judged
    BY <2>1, GreatestIs DEF Judged
  <2>5. last = Judged
    <3>1. last \in DOMAIN results /\ \A w \in DOMAIN results : w <= last
      BY <2>4
    <3>. HIDE DEF last
    <3>. PICK x \in Nat, y \in Nat : x = last /\ y = Judged /\ x <= y /\ y <= x
      BY <2>1, <2>4, <3>1
    <3>. QED  OBVIOUS
  <2>. PICK m : m = results[Judged].metric
    OBVIOUS
  <2>. PICK points : points = Shared(b, c, Judged, policy)
    OBVIOUS
  <2>6. /\ m.paired = Cardinality(points) /\ m.candidateSum = Given("candidate", points)
        /\ m.difference = Given("candidate", points) - Given("baseline", points)
        /\ m.paired \in Nat /\ m.difference \in Int /\ m.upper \in Int
        /\ (m.reading = "regression" <=> m.upper <= -(Practical * m.paired) /\ Practical > 0)
    BY <2>1, <2>3, <2>4 DEF MetricTells
  <2>7. ASSUME NEW rule \in gate.rules PROVE RulePasses(rule) <=> Meets(rule, b, c)
    <3>1. rule.operator \in Operators /\ rule.threshold \in Int
      BY <2>1, ComparisonAssumption
    <3>. PICK n \in Nat : n = m.paired
      BY <2>6
    <3>. PICK sum : sum = Given("candidate", points)
      OBVIOUS
    <3>. PICK gain \in Int : gain = Given("candidate", points) - Given("baseline", points)
      BY <2>6
    <3>2. Meets(rule, b, c) <=>
            /\ rule.metric = "compared" /\ n >= rule.minimum
            /\ rule.operator = "minimum" => sum >= rule.threshold * n
            /\ rule.operator = "maximum" => sum <= rule.threshold * n
            /\ rule.operator = "maximum_regression" => gain + Magnitude(rule.threshold) * n >= 0
            /\ rule.operator = "lower_confidence_minimum" => m.lower >= rule.threshold * n
            /\ rule.operator = "no_meaningful_regression" => Practical = 0 \/ m.upper > -Practical * n
      <4>1. (CHOOSE v \in Common(b, c) : \A w \in Common(b, c) : w <= v) = Judged
        BY <2>3, <2>5
      <4>. QED  BY <2>6, <4>1 DEF Meets
    <3>3. RulePasses(rule) <=>
            /\ rule.metric = "compared" /\ n >= rule.minimum
            /\ rule.operator = "minimum" => sum >= rule.threshold * n
            /\ rule.operator = "maximum" => sum <= rule.threshold * n
            /\ rule.operator = "maximum_regression" => gain >= -Magnitude(rule.threshold) * n
            /\ rule.operator = "lower_confidence_minimum" => m.lower >= rule.threshold * n
            /\ rule.operator = "no_meaningful_regression" => m.reading # "regression"
      BY <2>6, <3>1 DEF RulePasses, Operators
    <3>4. gain + Magnitude(rule.threshold) * n >= 0 <=> gain >= -Magnitude(rule.threshold) * n
      <4>1. Magnitude(rule.threshold) \in Nat
        BY <3>1 DEF Magnitude
      <4>2. \A g \in Int, a \in Nat, k \in Nat : g + a * k >= 0 <=> g >= -a * k
        OBVIOUS
      <4>. QED  BY <4>1, <4>2
    <3>5. (Practical = 0 \/ m.upper > -Practical * n) <=> m.reading # "regression"
      <4>1. Practical \in Nat
        BY ComparisonAssumption
      <4>2. \A u \in Int, a \in Nat, k \in Nat : (a = 0 \/ u > -a * k) <=> ~(u <= -(a * k) /\ a > 0)
        OBVIOUS
      <4>. QED  BY <2>6, <4>1, <4>2
    <3>. QED  BY <3>2, <3>3, <3>4, <3>5
  <2>8. gate.passed <=> \A rule \in gate.rules : rule.required => Meets(rule, b, c)
    BY <2>1, <2>7
  <2>. QED  BY <2>3, <2>8 DEF GatesJudgeEvidence
<1>. QED  BY <1>1, ComparisonsHold, PTL

-----------------------------------------------------------------------------
(* Raters *)

\* The ratings of some samples.
Rated(r) == r # <<>> /\ r \in Seq((Scores \union {NoRating}) \X (Scores \union {NoRating}))

\* What has been rated.
LEMMA RatedShape ==
    ASSUME NEW r, Rated(r)
    PROVE  /\ DOMAIN r = 1..Len(r) /\ Len(r) \in Nat \ {0}
           /\ IsFiniteSet(DOMAIN r) /\ Cardinality(DOMAIN r) = Len(r)
           /\ \A i \in DOMAIN r : r[i] = <<r[i][1], r[i][2]>>
           /\ Complete(r) => \A i \in DOMAIN r : r[i][1] \in Scores /\ r[i][2] \in Scores
           /\ Complete(r) => ScoresSeen(r) \in SUBSET Scores /\ Pairable(r) = DOMAIN r
<1>1. DOMAIN r = 1..Len(r) /\ Len(r) \in Nat \ {0}
  BY DEF Rated
<1>2. IsFiniteSet(DOMAIN r) /\ Cardinality(DOMAIN r) = Len(r)
  <2>1. IsFiniteSet(1..Len(r)) /\ Cardinality(1..Len(r)) = Len(r)
    BY <1>1, FS_Interval
  <2>. QED  BY <1>1, <2>1
<1>3. ASSUME NEW i \in DOMAIN r
      PROVE  /\ r[i] = <<r[i][1], r[i][2]>>
             /\ Complete(r) => r[i][1] \in Scores /\ r[i][2] \in Scores
  <2>1. r[i] \in (Scores \union {NoRating}) \X (Scores \union {NoRating})
    BY <1>1 DEF Rated
  <2>. QED  BY <2>1 DEF Complete
<1>4. Complete(r) => ScoresSeen(r) \in SUBSET Scores /\ Pairable(r) = DOMAIN r
  BY <1>3 DEF ScoresSeen, Pairable, Complete
<1>. QED  BY <1>1, <1>2, <1>3, <1>4

\* How often scores are given, alone and together.
LEMMA CountsType ==
    ASSUME NEW r, Rated(r), NEW a, NEW b
    PROVE  /\ Gives(r, 1, a) \in Nat /\ Gives(r, 2, a) \in Nat /\ Both(r, a, b) \in Nat
           /\ Both(r, a, b) # 0 => Gives(r, 1, a) # 0 /\ Gives(r, 2, b) # 0
           /\ Both(r, a, b) # 0 <=> \E i \in DOMAIN r : r[i] = <<a, b>>
<1>. DEFINE First == {i \in DOMAIN r : r[i][1] = a}
            Second(x) == {i \in DOMAIN r : r[i][2] = x}
            Cell == {i \in DOMAIN r : r[i] = <<a, b>>}
<1>1. IsFiniteSet(First) /\ IsFiniteSet(Second(a)) /\ IsFiniteSet(Second(b)) /\ IsFiniteSet(Cell)
  BY RatedShape, FS_Subset
<1>2. /\ Cardinality(First) \in Nat /\ Cardinality(Second(a)) \in Nat
      /\ Cardinality(Second(b)) \in Nat /\ Cardinality(Cell) \in Nat
  BY <1>1, FS_CardinalityType
<1>3. /\ Cardinality(First) = 0 <=> First = {}
      /\ Cardinality(Second(b)) = 0 <=> Second(b) = {}
      /\ Cardinality(Cell) = 0 <=> Cell = {}
  BY <1>1, FS_EmptySet
<1>4. Cell # {} => First # {} /\ Second(b) # {}
  OBVIOUS
<1>5. /\ Gives(r, 1, a) = Cardinality(First) /\ Gives(r, 2, a) = Cardinality(Second(a))
      /\ Gives(r, 2, b) = Cardinality(Second(b)) /\ Both(r, a, b) = Cardinality(Cell)
  BY DEF Gives, Both
<1>6. Cell # {} <=> \E i \in DOMAIN r : r[i] = <<a, b>>
  OBVIOUS
<1>. HIDE DEF First, Second, Cell
<1>. QED  BY <1>2, <1>3, <1>4, <1>5, <1>6

\* The samples on which the raters differ.
Differing(r) == {i \in DOMAIN r : r[i][1] # r[i][2]}

\* All counts of single scores add up to the samples, and so do those of the cells off the
\* diagonal and those on it to the samples on which the raters differ and agree.
LEMMA CountsAddUp ==
    ASSUME NEW r, Rated(r), NEW S, IsFiniteSet(S), ScoresSeen(r) \subseteq S
    PROVE  /\ Total([s \in S |-> Gives(r, 1, s)], S) = Len(r)
           /\ Total([s \in S |-> Gives(r, 2, s)], S) = Len(r)
           /\ Total([s \in S |-> Both(r, s, s)], S) = Len(r) - Cardinality(Differing(r))
           /\ Total([c \in Unlike(S) |-> Both(r, c[1], c[2])], Unlike(S)) = Cardinality(Differing(r))
           /\ Cardinality(Differing(r)) \in 0..Len(r)
<1>. DEFINE D == DOMAIN r
            left == [i \in D |-> r[i][1]]
            right == [i \in D |-> r[i][2]]
            same == {i \in D : r[i][1] = r[i][2]}
            differ == Differing(r)
            U == Unlike(S)
<1>1. IsFiniteSet(D) /\ Cardinality(D) = Len(r) /\ Len(r) \in Nat
  BY RatedShape
<1>2. \A i \in D : r[i][1] \in S /\ r[i][2] \in S /\ r[i] = <<r[i][1], r[i][2]>>
  BY RatedShape DEF ScoresSeen
<1>3. /\ IsFiniteSet(same) /\ IsFiniteSet(differ) /\ Cardinality(same) \in Nat
      /\ Cardinality(differ) \in Nat /\ Cardinality(D) = Cardinality(same) + Cardinality(differ)
  <2>1. same \in SUBSET D /\ differ \in SUBSET D /\ same \cap differ = {} /\ same \union differ = D
    BY DEF Differing
  <2>. HIDE DEF same, differ
  <2>2. IsFiniteSet(same) /\ IsFiniteSet(differ)
    BY <1>1, <2>1, FS_Subset
  <2>3. Cardinality(same \union differ) = Cardinality(same) + Cardinality(differ) - Cardinality(same \cap differ)
    BY <2>2, FS_Union
  <2>4. Cardinality(same \cap differ) = 0
    BY <2>1, FS_EmptySet
  <2>5. Cardinality(same) \in Nat /\ Cardinality(differ) \in Nat
    BY <2>2, FS_CardinalityType
  <2>. QED  BY <2>1, <2>2, <2>3, <2>4, <2>5
<1>4. IsFiniteSet(U)
  <2>1. IsFiniteSet(S \X S) /\ U \in SUBSET (S \X S)
    BY FS_Product DEF Unlike
  <2>. QED  BY <2>1, FS_Subset
<1>5. Total([s \in S |-> Gives(r, 1, s)], S) = Cardinality(D)
  <2>. DEFINE f == [s \in S |-> Gives(r, 1, s)]
  <2>1. PartOf(D, left, S) = D
    BY <1>2 DEF PartOf
  <2>2. CountsParts(f, D, left, S)
    <3>. SUFFICES ASSUME NEW s \in S PROVE f[s] = Cardinality(PartOf(D, left, {s}))
      BY DEF CountsParts
    <3>1. PartOf(D, left, {s}) = {i \in DOMAIN r : r[i][1] = s}
      BY DEF PartOf
    <3>. QED  BY <3>1 DEF Gives
  <2>. HIDE DEF f, left, D
  <2>. QED  BY <1>1, <2>1, <2>2, TotalOfParts DEF f
<1>6. Total([s \in S |-> Gives(r, 2, s)], S) = Cardinality(D)
  <2>. DEFINE f == [s \in S |-> Gives(r, 2, s)]
  <2>1. PartOf(D, right, S) = D
    BY <1>2 DEF PartOf
  <2>2. CountsParts(f, D, right, S)
    <3>. SUFFICES ASSUME NEW s \in S PROVE f[s] = Cardinality(PartOf(D, right, {s}))
      BY DEF CountsParts
    <3>1. PartOf(D, right, {s}) = {i \in DOMAIN r : r[i][2] = s}
      BY DEF PartOf
    <3>. QED  BY <3>1 DEF Gives
  <2>. HIDE DEF f, right, D
  <2>. QED  BY <1>1, <2>1, <2>2, TotalOfParts DEF f
<1>7. Total([s \in S |-> Both(r, s, s)], S) = Cardinality(same)
  <2>. DEFINE f == [s \in S |-> Both(r, s, s)]
  <2>1. PartOf(same, left, S) = same
    BY <1>2 DEF PartOf
  <2>2. CountsParts(f, same, left, S)
    <3>. SUFFICES ASSUME NEW s \in S PROVE f[s] = Cardinality(PartOf(same, left, {s}))
      BY DEF CountsParts
    <3>1. PartOf(same, left, {s}) = {i \in DOMAIN r : r[i] = <<s, s>>}
      BY <1>2 DEF PartOf
    <3>. QED  BY <3>1 DEF Both
  <2>. HIDE DEF f, left, same
  <2>. QED  BY <1>3, <2>1, <2>2, TotalOfParts DEF f
<1>8. Total([c \in U |-> Both(r, c[1], c[2])], U) = Cardinality(differ)
  <2>. DEFINE f == [c \in U |-> Both(r, c[1], c[2])]
  <2>1. PartOf(differ, r, U) = differ
    BY <1>2 DEF PartOf, Differing, Unlike
  <2>2. CountsParts(f, differ, r, U)
    <3>. SUFFICES ASSUME NEW c \in U PROVE f[c] = Cardinality(PartOf(differ, r, {c}))
      BY DEF CountsParts
    <3>1. c = <<c[1], c[2]>> /\ c[1] # c[2]
      BY DEF Unlike
    <3>2. PartOf(differ, r, {c}) = {i \in DOMAIN r : r[i] = <<c[1], c[2]>>}
      BY <3>1 DEF PartOf, Differing
    <3>. QED  BY <3>2 DEF Both
  <2>. HIDE DEF f, differ, U
  <2>. QED  BY <1>3, <1>4, <2>1, <2>2, TotalOfParts DEF f
<1>9. Cardinality(same) = Len(r) - Cardinality(differ) /\ Cardinality(differ) \in 0..Len(r)
  <2>. HIDE DEF same, differ
  <2>. QED  BY <1>1, <1>3
<1>. QED  BY <1>1, <1>5, <1>6, <1>7, <1>8, <1>9

\* Exchanging the raters exchanges what they gave.
LEMMA SwapCounts ==
    ASSUME NEW r, Rated(r), NEW w, w = Swapped(r)
    PROVE  /\ Rated(w) /\ Len(w) = Len(r) /\ DOMAIN w = DOMAIN r
           /\ \A i \in DOMAIN r : w[i][1] = r[i][2] /\ w[i][2] = r[i][1]
           /\ Complete(w) <=> Complete(r)
           /\ ScoresSeen(w) = ScoresSeen(r) /\ Pairable(w) = Pairable(r)
           /\ Differing(w) = Differing(r)
           /\ \A a : PlaceOf(w, a) = PlaceOf(r, a)
           /\ \A a : Gives(w, 1, a) = Gives(r, 2, a) /\ Gives(w, 2, a) = Gives(r, 1, a)
           /\ \A a, b : Both(w, a, b) = Both(r, b, a)
<1>1. DOMAIN w = DOMAIN r /\ \A i \in DOMAIN r : w[i] = <<r[i][2], r[i][1]>>
  BY DEF Swapped
<1>2. DOMAIN r = 1..Len(r) /\ Len(r) \in Nat \ {0} /\ \A i \in DOMAIN r : r[i] = <<r[i][1], r[i][2]>>
  BY RatedShape
<1>3. Rated(w) /\ Len(w) = Len(r)
  <2>. DEFINE R == Scores \union {NoRating}
  <2>1. \A i \in DOMAIN r : w[i] \in R \X R
    <3>1. \A i \in DOMAIN r : r[i] \in R \X R
      BY <1>2 DEF Rated
    <3>. QED  BY <1>1, <3>1
  <2>2. w = [i \in 1..Len(r) |-> <<r[i][2], r[i][1]>>]
    BY <1>2 DEF Swapped
  <2>3. w \in [1..Len(r) -> R \X R]
    BY <1>1, <1>2, <2>1, <2>2
  <2>4. w \in Seq(R \X R) /\ Len(w) = Len(r)
    BY <1>2, <2>3
  <2>. QED  BY <1>2, <2>4 DEF Rated
<1>4. \A i \in DOMAIN r : w[i][1] = r[i][2] /\ w[i][2] = r[i][1]
  BY <1>1
<1>5. Complete(w) <=> Complete(r)
  BY <1>1, <1>4 DEF Complete
<1>6. ScoresSeen(w) = ScoresSeen(r)
  BY <1>1, <1>4 DEF ScoresSeen
<1>7. Pairable(w) = Pairable(r) /\ Differing(w) = Differing(r)
  BY <1>1, <1>4 DEF Pairable, Differing
<1>8. ASSUME NEW a PROVE PlaceOf(w, a) = PlaceOf(r, a)
  BY <1>6 DEF PlaceOf
<1>9. ASSUME NEW a PROVE Gives(w, 1, a) = Gives(r, 2, a) /\ Gives(w, 2, a) = Gives(r, 1, a)
  <2>1. /\ {i \in DOMAIN w : w[i][1] = a} = {i \in DOMAIN r : r[i][2] = a}
        /\ {i \in DOMAIN w : w[i][2] = a} = {i \in DOMAIN r : r[i][1] = a}
    BY <1>1, <1>4
  <2>. QED  BY <2>1 DEF Gives
<1>10. ASSUME NEW a, NEW b PROVE Both(w, a, b) = Both(r, b, a)
  <2>1. {i \in DOMAIN w : w[i] = <<a, b>>} = {i \in DOMAIN r : r[i] = <<b, a>>}
    BY <1>1, <1>2
  <2>. QED  BY <2>1 DEF Both
<1>. QED  BY <1>1, <1>3, <1>4, <1>5, <1>6, <1>7, <1>8, <1>9, <1>10

-----------------------------------------------------------------------------
(* Kappas *)

\* Weighted disagreement, as found and as by chance.
Cells(r) == ScoresSeen(r) \X ScoresSeen(r)
Found(r, weighting) == [c \in Cells(r) |-> Weigh(r, c, weighting) * Both(r, c[1], c[2])]
ByChance(r, weighting) ==
    [c \in Cells(r) |-> Weigh(r, c, weighting) * (Gives(r, 1, c[1]) * Gives(r, 2, c[2]))]
Disagreed(r, weighting) == Total(Found(r, weighting), Cells(r))
Expected(r, weighting) == Total(ByChance(r, weighting), Cells(r))

\* Weighted kappa, of these parts.
LEMMA KappaIs ==
    ASSUME NEW r, NEW weighting
    PROVE  WeightedKappa(r, weighting) =
             IF Expected(r, weighting) = 0
             THEN (IF Len(r) * Disagreed(r, weighting) = 0 THEN One ELSE Undefined)
             ELSE Complement(<<Len(r) * Disagreed(r, weighting), Expected(r, weighting)>>)
  BY DEF WeightedKappa, SumOf, Total, Found, ByChance, Cells, Disagreed, Expected

\* Scores that differ have places that differ, by one if there are but two.
LEMMA PlacesDiffer ==
    ASSUME NEW r, Rated(r), Complete(r), NEW a \in ScoresSeen(r), NEW b \in ScoresSeen(r)
    PROVE  /\ IsFiniteSet(ScoresSeen(r)) /\ ScoresSeen(r) \subseteq Nat
           /\ PlaceOf(r, a) \in Nat /\ PlaceOf(r, a) < Cardinality(ScoresSeen(r))
           /\ a < b => PlaceOf(r, a) < PlaceOf(r, b)
<1>. DEFINE S == ScoresSeen(r)
            A == {x \in S : x < a}
            B == {x \in S : x < b}
<1>1. IsFiniteSet(S) /\ S \subseteq Nat
  <2>1. S \in SUBSET Scores
    BY RatedShape
  <2>. QED  BY <2>1, AgreementAssumption, FS_Subset
<1>. HIDE DEF S
<1>2. A \in SUBSET (S \ {a}) /\ a \in S /\ b \in S /\ S \ {a} \in SUBSET S
  BY <1>1 DEF S
<1>3. /\ IsFiniteSet(S \ {a}) /\ Cardinality(S \ {a}) = Cardinality(S) - 1
      /\ Cardinality(S) \in Nat
  BY <1>1, <1>2, FS_RemoveElement, FS_CardinalityType, FS_Subset
<1>4. Cardinality(A) \in Nat /\ Cardinality(A) <= Cardinality(S \ {a})
  BY <1>2, <1>3, FS_Subset, FS_CardinalityType
<1>5. ASSUME a < b PROVE Cardinality(A) < Cardinality(B)
  <2>1. /\ B \in SUBSET S /\ a \in B
        /\ \A x \in S : x < a => x < b /\ x # a
    BY <1>1, <1>2, <1>5
  <2>4. A \in SUBSET (B \ {a})
    BY <2>1
  <2>5. IsFiniteSet(B)
    BY <1>1, <2>1, FS_Subset
  <2>. HIDE DEF A, B
  <2>2. IsFiniteSet(B \ {a}) /\ Cardinality(B \ {a}) = Cardinality(B) - 1 /\ Cardinality(B) \in Nat
    BY <2>1, <2>5, FS_RemoveElement, FS_CardinalityType, FS_Subset
  <2>3. Cardinality(A) <= Cardinality(B \ {a})
    BY <2>2, <2>4, FS_Subset
  <2>. QED  BY <1>4, <2>2, <2>3
<1>6. PlaceOf(r, a) = Cardinality(A) /\ PlaceOf(r, b) = Cardinality(B)
  BY DEF PlaceOf, S
<1>. QED  BY <1>1, <1>3, <1>4, <1>5, <1>6 DEF S

\* What a cell weighs.
LEMMA CellsWeigh ==
    ASSUME NEW r, Rated(r), Complete(r), NEW c \in Cells(r), NEW weighting
    PROVE  /\ Weigh(r, c, weighting) \in Nat
           /\ Weigh(r, c, weighting) = 0 <=> c[1] = c[2]
           /\ Cardinality(ScoresSeen(r)) <= 2 /\ c[1] # c[2] => Weigh(r, c, weighting) = 1
           /\ Weigh(r, <<c[2], c[1]>>, weighting) = Weigh(r, c, weighting)
<1>. DEFINE p == PlaceOf(r, c[1])
            q == PlaceOf(r, c[2])
            d == Distance(p, q)
<1>1. c[1] \in ScoresSeen(r) /\ c[2] \in ScoresSeen(r)
  BY DEF Cells
<1>2. /\ p \in Nat /\ q \in Nat /\ c[1] \in Nat /\ c[2] \in Nat
      /\ p < Cardinality(ScoresSeen(r)) /\ q < Cardinality(ScoresSeen(r))
  <2>1. ScoresSeen(r) \subseteq Nat
    BY <1>1, PlacesDiffer
  <2>. QED  BY <1>1, <2>1, PlacesDiffer
<1>3. Cardinality(ScoresSeen(r)) \in Nat
  BY <1>1, PlacesDiffer, FS_CardinalityType
<1>4. c[1] < c[2] => p < q
  BY <1>1, PlacesDiffer
<1>5. c[2] < c[1] => q < p
  BY <1>1, PlacesDiffer
<1>6. c[1] = c[2] => p = q
  OBVIOUS
<1>. HIDE DEF p, q
<1>7. /\ d \in Nat
      /\ d = 0 <=> c[1] = c[2]
      /\ Cardinality(ScoresSeen(r)) <= 2 /\ c[1] # c[2] => d = 1
      /\ Distance(q, p) = d
  BY <1>2, <1>3, <1>4, <1>5, <1>6 DEF Distance
<1>. HIDE DEF d
<1>8. d * d \in Nat /\ (d * d = 0 <=> d = 0) /\ (d = 1 => d * d = 1)
  <2>1. \A x \in Nat : x * x \in Nat /\ (x * x = 0 <=> x = 0) /\ (x = 1 => x * x = 1)
    OBVIOUS
  <2>. QED  BY <1>7, <2>1
<1>9. Weigh(r, c, weighting) = IF weighting = "quadratic" THEN d * d ELSE d
  BY DEF Weigh, d, p, q
<1>10. Weigh(r, <<c[2], c[1]>>, weighting) =
          IF weighting = "quadratic" THEN Distance(q, p) * Distance(q, p) ELSE Distance(q, p)
  BY DEF Weigh, p, q
<1>. QED  BY <1>7, <1>8, <1>9, <1>10

\* The sums are numbers; without disagreement expected, none is found, and none is found
\* exactly when the raters do not differ.
LEMMA DisagreementTells ==
    ASSUME NEW r, Rated(r), Complete(r), NEW weighting
    PROVE  /\ IsFiniteSet(Cells(r))
           /\ Disagreed(r, weighting) \in Nat /\ Expected(r, weighting) \in Nat
           /\ \A c \in Cells(r) : Found(r, weighting)[c] \in Nat /\ ByChance(r, weighting)[c] \in Nat
           /\ Expected(r, weighting) = 0 => Disagreed(r, weighting) = 0
           /\ Disagreed(r, weighting) = 0 <=> Cardinality(Differing(r)) = 0
<1>. DEFINE C == Cells(r)
            f == Found(r, weighting)
            g == ByChance(r, weighting)
            W(c) == Weigh(r, c, weighting)
<1>1. IsFiniteSet(C)
  <2>1. 1 \in DOMAIN r
    BY RatedShape
  <2>3. r[1][1] \in ScoresSeen(r)
    BY <2>1 DEF ScoresSeen
  <2>2. IsFiniteSet(ScoresSeen(r))
    BY <2>3, PlacesDiffer
  <2>. QED  BY <2>2, FS_Product DEF Cells
<1>2. \A a, b \in Nat : a * b \in Nat /\ (a * b = 0 <=> a = 0 \/ b = 0)
  OBVIOUS
<1>3. ASSUME NEW c \in C
      PROVE  /\ f[c] \in Nat /\ g[c] \in Nat
             /\ f[c] = 0 <=> c[1] = c[2] \/ Both(r, c[1], c[2]) = 0
             /\ g[c] = 0 => f[c] = 0
  <2>1. /\ W(c) \in Nat /\ (W(c) = 0 <=> c[1] = c[2])
    BY CellsWeigh
  <2>4. /\ Both(r, c[1], c[2]) \in Nat /\ Gives(r, 1, c[1]) \in Nat /\ Gives(r, 2, c[2]) \in Nat
        /\ Both(r, c[1], c[2]) # 0 => Gives(r, 1, c[1]) # 0 /\ Gives(r, 2, c[2]) # 0
    BY CountsType
  <2>2. /\ f[c] = W(c) * Both(r, c[1], c[2])
        /\ g[c] = W(c) * (Gives(r, 1, c[1]) * Gives(r, 2, c[2]))
    BY DEF Found, ByChance
  <2>3. /\ Gives(r, 1, c[1]) * Gives(r, 2, c[2]) \in Nat
        /\ Gives(r, 1, c[1]) * Gives(r, 2, c[2]) = 0
             <=> Gives(r, 1, c[1]) = 0 \/ Gives(r, 2, c[2]) = 0
    BY <1>2, <2>4
  <2>. HIDE DEF W
  <2>5. /\ f[c] \in Nat /\ (f[c] = 0 <=> W(c) = 0 \/ Both(r, c[1], c[2]) = 0)
        /\ g[c] \in Nat
        /\ g[c] = 0 <=> W(c) = 0 \/ Gives(r, 1, c[1]) * Gives(r, 2, c[2]) = 0
    BY <1>2, <2>1, <2>2, <2>3, <2>4
  <2>. QED  BY <2>1, <2>3, <2>4, <2>5
<1>. HIDE DEF C, f, g
<1>4. Total(f, C) \in Nat /\ Total(g, C) \in Nat
  BY <1>1, <1>3, TotalType
<1>5. Total(f, C) = 0 <=> \A c \in C : f[c] = 0
  <2>1. \A x \in C : f[x] \in Nat /\ f[x] <= f[x]
    BY <1>3
  <2>. QED  BY <1>1, <2>1, TotalMonotone
<1>6. Total(g, C) = 0 <=> \A c \in C : g[c] = 0
  <2>1. \A x \in C : g[x] \in Nat /\ g[x] <= g[x]
    BY <1>3
  <2>. QED  BY <1>1, <2>1, TotalMonotone
<1>7. (\A c \in C : f[c] = 0) <=> Differing(r) = {}
  <2>1. ASSUME NEW c \in C, f[c] # 0 PROVE Differing(r) # {}
    <3>1. c[1] # c[2] /\ \E i \in DOMAIN r : r[i] = <<c[1], c[2]>>
      BY <1>3, <2>1, CountsType
    <3>. QED  BY <3>1 DEF Differing
  <2>2. ASSUME NEW i \in Differing(r) PROVE \E c \in C : f[c] # 0
    <3>1. i \in DOMAIN r /\ r[i][1] # r[i][2] /\ r[i] = <<r[i][1], r[i][2]>>
      BY RatedShape DEF Differing
    <3>2. r[i] \in C
      BY <3>1 DEF C, Cells, ScoresSeen
    <3>3. Both(r, r[i][1], r[i][2]) # 0
      BY <3>1, CountsType
    <3>. QED  BY <1>3, <3>1, <3>2, <3>3
  <2>. QED  BY <2>1, <2>2
<1>8. Cardinality(Differing(r)) = 0 <=> Differing(r) = {}
  <2>1. IsFiniteSet(Differing(r))
    BY RatedShape, FS_Subset DEF Differing
  <2>. QED  BY <2>1, FS_EmptySet
<1>. QED
  BY <1>1, <1>3, <1>4, <1>5, <1>6, <1>7, <1>8 DEF C, f, g, Disagreed, Expected

\* Who is first does not matter to weighted kappa.
LEMMA KappaSwaps ==
    ASSUME NEW r, Rated(r), Complete(r), NEW weighting
    PROVE  WeightedKappa(Swapped(r), weighting) = WeightedKappa(r, weighting)
<1>. DEFINE w == Swapped(r)
            C == Cells(r)
            turn == [c \in C |-> <<c[2], c[1]>>]
<1>1. /\ Cells(w) = C /\ Len(w) = Len(r)
      /\ \A c \in C : Weigh(w, c, weighting) = Weigh(r, c, weighting)
      /\ \A a : Gives(w, 1, a) = Gives(r, 2, a) /\ Gives(w, 2, a) = Gives(r, 1, a)
      /\ \A a, b : Both(w, a, b) = Both(r, b, a)
  <2>1. \A c \in C : Weigh(w, c, weighting) = Weigh(r, c, weighting)
    BY SwapCounts DEF Weigh
  <2>. QED  BY <2>1, SwapCounts DEF Cells
<1>2. ASSUME NEW c \in C
      PROVE  /\ turn[c] \in C /\ turn[turn[c]] = c
             /\ Found(r, weighting)[c] \in Nat /\ ByChance(r, weighting)[c] \in Nat
             /\ Found(w, weighting)[c] = Found(r, weighting)[turn[c]]
             /\ ByChance(w, weighting)[c] = ByChance(r, weighting)[turn[c]]
  <2>1. turn[c] = <<c[2], c[1]>> /\ turn[c] \in C /\ turn[turn[c]] = c
    BY DEF Cells
  <2>2. Weigh(r, turn[c], weighting) = Weigh(r, c, weighting)
    BY <2>1, CellsWeigh
  <2>3. /\ Found(w, weighting)[c] = Weigh(r, c, weighting) * Both(r, c[2], c[1])
        /\ ByChance(w, weighting)[c] = Weigh(r, c, weighting) * (Gives(r, 2, c[1]) * Gives(r, 1, c[2]))
    BY <1>1 DEF Found, ByChance
  <2>4. turn[c][1] = c[2] /\ turn[c][2] = c[1]
    BY <2>1
  <2>. HIDE DEF turn
  <2>5. /\ Found(r, weighting)[turn[c]] = Weigh(r, turn[c], weighting) * Both(r, c[2], c[1])
        /\ ByChance(r, weighting)[turn[c]] =
              Weigh(r, turn[c], weighting) * (Gives(r, 1, c[2]) * Gives(r, 2, c[1]))
    BY <2>1, <2>4 DEF Found, ByChance
  <2>6. Gives(r, 2, c[1]) * Gives(r, 1, c[2]) = Gives(r, 1, c[2]) * Gives(r, 2, c[1])
    <3>1. \A a, b \in Nat : a * b = b * a
      OBVIOUS
    <3>. QED  BY <3>1, CountsType
  <2>. QED  BY <2>1, <2>2, <2>3, <2>5, <2>6, DisagreementTells
<1>. HIDE DEF w, turn
<1>3. IsFiniteSet(C)
  BY DisagreementTells
<1>4. Disagreed(w, weighting) = Disagreed(r, weighting)
  <2>1. Carries(Found(w, weighting), Found(r, weighting), C, C, turn, turn)
    BY <1>2 DEF Carries
  <2>. QED  BY <1>1, <1>3, <2>1, TotalRenamed DEF Disagreed
<1>5. Expected(w, weighting) = Expected(r, weighting)
  <2>1. Carries(ByChance(w, weighting), ByChance(r, weighting), C, C, turn, turn)
    BY <1>2 DEF Carries
  <2>. QED  BY <1>1, <1>3, <2>1, TotalRenamed DEF Expected
<1>6. WeightedKappa(w, weighting) = WeightedKappa(r, weighting)
  BY <1>1, <1>4, <1>5, KappaIs
<1>. QED  BY <1>6 DEF w

\* A ratio of whole numbers is one exactly when nothing is missing from it.
LEMMA OneIsFull ==
    ASSUME NEW found \in Nat, NEW expected \in Nat \ {0}
    PROVE  /\ Equal(Complement(<<found, expected>>), One) <=> found = 0
           /\ Equal(One, One)
<1>1. Equal(Complement(<<found, expected>>), One)
        <=> (expected - found) * 1 = 1 * expected /\ (expected = 0 <=> 1 = 0)
  BY DEF Equal, Complement, One
<1>2. Equal(One, One)
  BY DEF Equal, One
<1>. QED  BY <1>1, <1>2

\* A ratio equals itself.
LEMMA SameIsEqual == ASSUME NEW x, NEW y, x = y PROVE Equal(x, y)
  BY DEF Equal

\* Perfect agreement, and nothing else, is a kappa of 1.
LEMMA KappaOne ==
    ASSUME NEW r, Rated(r), Complete(r), NEW weighting
    PROVE  Equal(WeightedKappa(r, weighting), One) <=> Disagreement(r)[1] = 0
<1>. DEFINE o == Disagreed(r, weighting)
            e == Expected(r, weighting)
            n == Len(r)
<1>1. /\ o \in Nat /\ e \in Nat /\ n \in Nat \ {0}
      /\ e = 0 => o = 0
      /\ o = 0 <=> Disagreement(r)[1] = 0
  BY DisagreementTells, RatedShape DEF Disagreement, Differing
<1>2. n * o \in Nat /\ (n * o = 0 <=> o = 0)
  <2>1. \A a \in Nat \ {0}, b \in Nat : a * b \in Nat /\ (a * b = 0 <=> b = 0)
    OBVIOUS
  <2>. QED  BY <1>1, <2>1
<1>3. WeightedKappa(r, weighting) =
        IF e = 0 THEN (IF n * o = 0 THEN One ELSE Undefined) ELSE Complement(<<n * o, e>>)
  BY KappaIs
<1>. HIDE DEF o, e, n
<1>4. CASE e = 0
  <2>1. WeightedKappa(r, weighting) = One
    BY <1>1, <1>2, <1>3, <1>4
  <2>. QED  BY <1>1, <1>4, <2>1, SameIsEqual
<1>5. CASE e # 0
  <2>1. e \in Nat \ {0} /\ WeightedKappa(r, weighting) = Complement(<<n * o, e>>)
    BY <1>1, <1>3, <1>5
  <2>. QED  BY <1>1, <1>2, <2>1, OneIsFull
<1>. QED  BY <1>4, <1>5

\* A sum over all pairs is one over the pairs of different elements, if the others add nothing.
LEMMA DiagonalAddsNothing ==
    ASSUME NEW S, IsFiniteSet(S), NEW f, NEW g, \A c \in S \X S : f[c] \in Nat,
           \A c \in S \X S : c[1] = c[2] => f[c] = 0,
           \A c \in Unlike(S) : g[c] = f[c]
    PROVE  Total(f, S \X S) = Total(g, Unlike(S))
<1>. DEFINE C == S \X S
            U == Unlike(S)
            E == {c \in C : c[1] = c[2]}
<1>1. /\ IsFiniteSet(C) /\ U \in SUBSET C /\ E \in SUBSET C /\ U \cap E = {} /\ U \union E = C
      /\ \A c \in E : f[c] = 0
  BY FS_Product DEF Unlike
<1>2. \A c \in C : f[c] \in Nat
  OBVIOUS
<1>3. IsFiniteSet(U) /\ IsFiniteSet(E)
  BY <1>1, FS_Subset
<1>4. Total(g, U) = Total(f, U)
  BY <1>3, TotalSame
<1>. HIDE DEF C, U, E
<1>5. Total(f, E) = 0
  BY <1>1, <1>3, TotalOfZeros
<1>6. Total(f, C) = Total(f, U) + Total(f, E)
  BY <1>1, <1>2, TotalUnion
<1>7. Total(f, U) \in Nat
  BY <1>1, <1>2, <1>3, TotalType
<1>8. Total(f, C) = Total(g, U)
  BY <1>4, <1>5, <1>6, <1>7
<1>. QED  BY <1>8 DEF C, U

\* By two scores, the weighted kappas are Cohen's.
LEMMA KappaOfTwo ==
    ASSUME NEW r, Rated(r), Complete(r), NEW weighting, Cardinality(ScoresSeen(r)) <= 2
    PROVE  Equal(WeightedKappa(r, weighting), CohenKappa(r))
<1>. DEFINE S == ScoresSeen(r)
            U == Unlike(S)
            n == Len(r)
            dis == Cardinality(Differing(r))
            left == [s \in S |-> Gives(r, 1, s)]
            right == [s \in S |-> Gives(r, 2, s)]
            both == [c \in U |-> Both(r, c[1], c[2])]
            products == [c \in S \X S |-> Gives(r, 1, c[1]) * Gives(r, 2, c[2])]
            diagonal == [s \in S |-> Gives(r, 1, s) * Gives(r, 2, s)]
            o == Disagreed(r, weighting)
            e == Expected(r, weighting)
            chance == Total(diagonal, S)
<1>1. IsFiniteSet(S)
  <2>1. 1 \in DOMAIN r
    BY RatedShape
  <2>2. r[1][1] \in S
    BY <2>1 DEF ScoresSeen
  <2>. QED  BY <2>2, PlacesDiffer
<1>2. /\ Total(left, S) = n /\ Total(right, S) = n
      /\ Total([s \in S |-> Both(r, s, s)], S) = n - dis
      /\ Total(both, U) = dis /\ dis \in 0..n /\ n \in Nat
  BY <1>1, CountsAddUp, RatedShape
<1>3. ASSUME NEW c \in S \X S
      PROVE  /\ c \in Cells(r)
             /\ Weigh(r, c, weighting) = IF c[1] = c[2] THEN 0 ELSE 1
             /\ Both(r, c[1], c[2]) \in Nat /\ products[c] \in Nat
  <2>1. c \in Cells(r)
    BY DEF Cells
  <2>2. Both(r, c[1], c[2]) \in Nat /\ Gives(r, 1, c[1]) \in Nat /\ Gives(r, 2, c[2]) \in Nat
    BY CountsType
  <2>3. \A a, b \in Nat : a * b \in Nat
    OBVIOUS
  <2>4. products[c] \in Nat
    BY <2>2, <2>3
  <2>5. Weigh(r, c, weighting) = IF c[1] = c[2] THEN 0 ELSE 1
    BY <2>1, CellsWeigh
  <2>. QED  BY <2>1, <2>2, <2>4, <2>5
<1>4. \A a \in Nat : 1 * a = a /\ 0 * a = 0
  OBVIOUS
<1>5. o = dis
  <2>. DEFINE f == Found(r, weighting)
  <2>1. ASSUME NEW c \in S \X S
        PROVE  /\ f[c] \in Nat /\ (c[1] = c[2] => f[c] = 0)
               /\ c[1] # c[2] => f[c] = Both(r, c[1], c[2])
    BY <1>3, <1>4 DEF Found
  <2>2. \A c \in U : both[c] = f[c]
    BY <2>1 DEF Unlike
  <2>. HIDE DEF f, both
  <2>3. Total(f, S \X S) = Total(both, U)
    BY <1>1, <2>1, <2>2, DiagonalAddsNothing
  <2>. QED  BY <1>2, <2>3 DEF Disagreed, Cells, f
<1>6. e + chance = n * n /\ e \in Nat /\ chance \in Nat
  <2>. DEFINE f == ByChance(r, weighting)
              off == [c \in U |-> products[c]]
  <2>1. ASSUME NEW c \in S \X S
        PROVE  /\ f[c] \in Nat /\ (c[1] = c[2] => f[c] = 0)
               /\ c[1] # c[2] => f[c] = products[c]
    BY <1>3, <1>4 DEF ByChance
  <2>2. \A c \in U : off[c] = f[c] /\ off[c] = products[c]
    BY <2>1 DEF Unlike
  <2>3. Products(products, left, right, S)
    BY CountsType DEF Products
  <2>4. \A s \in S : diagonal[s] = left[s] * right[s]
    OBVIOUS
  <2>. HIDE DEF f, off, products, diagonal, left, right
  <2>5. Total(f, S \X S) = Total(off, U)
    BY <1>1, <2>1, <2>2, DiagonalAddsNothing
  <2>6. /\ Total(off, U) + Total(diagonal, S) = Total(left, S) * Total(right, S)
        /\ Total(off, U) \in Nat /\ Total(diagonal, S) \in Nat
    BY <1>1, <2>2, <2>3, <2>4, TotalUnlike
  <2>. QED  BY <1>2, <2>5, <2>6 DEF Expected, Cells, f
<1>7. Accuracy(r)[1] = n - dis
  BY <1>2 DEF Accuracy, SumOf, Total
<1>8. CohenKappa(r) =
        IF chance = n * n THEN (IF n - dis = n THEN One ELSE Undefined)
        ELSE <<(n - dis) * n - chance, n * n - chance>>
  BY <1>7 DEF CohenKappa, SumOf, Total
<1>9. WeightedKappa(r, weighting) =
        IF e = 0 THEN (IF n * dis = 0 THEN One ELSE Undefined)
        ELSE <<e - n * dis, e>>
  BY <1>5, KappaIs DEF Complement
<1>10. n * dis = 0 <=> n - dis = n
  <2>1. n \in Nat \ {0}
    BY RatedShape
  <2>2. \A a \in Nat \ {0}, b \in Nat : a * b = 0 <=> a - b = a
    OBVIOUS
  <2>. QED  BY <1>2, <2>1, <2>2
<1>11. (n - dis) * n = n * n - n * dis
  <2>1. \A a, b \in Int : (a - b) * a = a * a - a * b
    OBVIOUS
  <2>. QED  BY <1>2, <2>1
<1>12. n * n \in Nat /\ n * dis \in Nat
  <2>1. \A a, b \in Nat : a * b \in Nat
    OBVIOUS
  <2>. QED  BY <1>2, <2>1
<1>. DEFINE nn == n * n
            nd == n * dis
            nx == (n - dis) * n
<1>. HIDE DEF chance, e, n, dis, nn, nd, nx
<1>13. /\ nn \in Nat /\ nd \in Nat /\ nx = nn - nd /\ e + chance = nn /\ e \in Nat /\ chance \in Nat
       /\ nd = 0 <=> n - dis = n
  BY <1>6, <1>10, <1>11, <1>12 DEF nn, nd, nx
<1>14. (e = 0 <=> chance = nn) /\ e - nd = nx - chance /\ e = nn - chance
  BY <1>13
<1>15. WeightedKappa(r, weighting) = CohenKappa(r)
  BY <1>8, <1>9, <1>13, <1>14 DEF nn, nd, nx
<1>. QED  BY <1>15, SameIsEqual

\* What StatisticsFit says of the kappas.
LEMMA KappasHold == ASSUME NEW r, Rated(r), Complete(r) PROVE KappasFit(r)
<1>. DEFINE w == Swapped(r)
            n == Len(r)
            dis == Cardinality(Differing(r))
<1>1. ASSUME NEW weighting
      PROVE  LET kappa == WeightedKappa(r, weighting)
             IN  /\ Equal(kappa, WeightedKappa(w, weighting))
                 /\ Equal(kappa, One) <=> Disagreement(r)[1] = 0
                 /\ Cardinality(ScoresSeen(r)) <= 2 => Equal(kappa, CohenKappa(r))
  BY KappaSwaps, KappaOne, KappaOfTwo, SameIsEqual
<1>. USE SwapCounts
<1>2. Accuracy(w) = Accuracy(r)
  BY DEF Accuracy
<1>3. CohenKappa(w) = CohenKappa(r)
  <2>1. \A s : Gives(r, 2, s) * Gives(r, 1, s) = Gives(r, 1, s) * Gives(r, 2, s)
    <3>1. \A a, b \in Nat : a * b = b * a
      OBVIOUS
    <3>. QED  BY <3>1, CountsType
  <2>2. \A s : Gives(w, 1, s) * Gives(w, 2, s) = Gives(r, 1, s) * Gives(r, 2, s)
    BY <2>1
  <2>. QED  BY <1>2, <2>2 DEF CohenKappa
<1>4. Equal(Accuracy(r), Complement(Disagreement(r)))
  <2>1. ScoresSeen(r) \in SUBSET Scores /\ n \in Nat \ {0}
    BY RatedShape
  <2>2. IsFiniteSet(ScoresSeen(r))
    BY <2>1, AgreementAssumption, FS_Subset
  <2>3. Total([s \in ScoresSeen(r) |-> Both(r, s, s)], ScoresSeen(r)) = n - dis
    BY <2>2, CountsAddUp
  <2>4. Accuracy(r) = <<n - dis, n>>
    BY <2>3 DEF Accuracy, SumOf, Total
  <2>5. Disagreement(r) = <<dis, n>>
    BY DEF Disagreement, Differing
  <2>6. Complement(Disagreement(r)) = Accuracy(r)
    BY <2>4, <2>5 DEF Complement
  <2>. QED  BY <2>6, SameIsEqual
<1>5. \A s \in Scores : Precision(r, s) = Recall(w, s)
  BY DEF Precision, Recall
<1>. QED  BY <1>1, <1>3, <1>4, <1>5, SameIsEqual DEF KappasFit

\* The sum of a function is that over its domain.
LEMMA SumIsTotal == ASSUME NEW f, NEW S, DOMAIN f = S PROVE SumOf(f) = Total(f, S)
  BY DEF SumOf, Total

\* How often both raters together give a score.
Mass(r) == [v \in Scores |-> Gives(r, 1, v) + Gives(r, 2, v)]
Squares(r) == [v \in Scores |-> Mass(r)[v] * Mass(r)[v]]
PairsOfMass(r) == [c \in Unlike(Scores) |-> Mass(r)[c[1]] * Mass(r)[c[2]]]

\* The scores drawn from, and the pairs of like ones among them.
Drawn(r) == Total(Mass(r), Scores)
LikeByChance(r) == Total([v \in Scores |-> Mass(r)[v] * (Mass(r)[v] - 1)], Scores)

\* Alpha as it is computed, of these parts.
LEMMA AlphaIs ==
    ASSUME NEW r
    PROVE  KrippendorffAlpha(r) =
             LET paired == Pairable(r)
                 dis == Cardinality({i \in paired : r[i][1] # r[i][2]})
                 chance == Drawn(r) * (Drawn(r) - 1) - LikeByChance(r)
             IN  IF paired = {} THEN Undefined
                 ELSE IF chance = 0 THEN (IF dis = 0 THEN One ELSE Undefined)
                 ELSE Complement(<<dis * (Drawn(r) * (Drawn(r) - 1)), Cardinality(paired) * chance>>)
<1>1. [v \in Scores |-> (Gives(r, 1, v) + Gives(r, 2, v)) * ((Gives(r, 1, v) + Gives(r, 2, v)) - 1)]
        = [v \in Scores |-> Mass(r)[v] * (Mass(r)[v] - 1)]
  BY DEF Mass
<1>2. SumOf([v \in Scores |-> (Gives(r, 1, v) + Gives(r, 2, v))]) = Drawn(r)
  BY DEF Drawn, Mass, SumOf, Total
<1>3. SumOf([v \in Scores |->
               (Gives(r, 1, v) + Gives(r, 2, v)) * ((Gives(r, 1, v) + Gives(r, 2, v)) - 1)])
        = LikeByChance(r)
  <2>. DEFINE f == [v \in Scores |-> Mass(r)[v] * (Mass(r)[v] - 1)]
  <2>1. DOMAIN f = Scores
    OBVIOUS
  <2>2. LikeByChance(r) = Total(f, Scores)
    BY DEF LikeByChance
  <2>. HIDE DEF f
  <2>3. SumOf(f) = LikeByChance(r)
    BY <2>1, <2>2, SumIsTotal
  <2>. QED  BY <1>1, <2>3 DEF f
<1>. QED  BY <1>2, <1>3 DEF KrippendorffAlpha

\* What chance leaves unlike is a sum of products, and zero only if all ratings are alike.
LEMMA ChanceLeaves ==
    ASSUME NEW r, Rated(r), Complete(r)
    PROVE  /\ Drawn(r) = 2 * Len(r)
           /\ Total(PairsOfMass(r), Unlike(Scores)) = Drawn(r) * (Drawn(r) - 1) - LikeByChance(r)
           /\ Total(PairsOfMass(r), Unlike(Scores)) \in Nat
           /\ Total(PairsOfMass(r), Unlike(Scores)) = 0 => Cardinality(Differing(r)) = 0
<1>. DEFINE S == Scores
            U == Unlike(S)
            M == Mass(r)
            n == Len(r)
            dis == Cardinality(Differing(r))
            left == [s \in S |-> Gives(r, 1, s)]
            right == [s \in S |-> Gives(r, 2, s)]
            like == [v \in S |-> M[v] * (M[v] - 1)]
            products == [c \in S \X S |-> M[c[1]] * M[c[2]]]
            off == PairsOfMass(r)
<1>1. IsFiniteSet(S) /\ ScoresSeen(r) \subseteq S /\ n \in Nat \ {0}
  BY AgreementAssumption, RatedShape
<1>2. \A v \in S : /\ left[v] \in Nat /\ right[v] \in Nat /\ M[v] = left[v] + right[v] /\ M[v] \in Nat
                   /\ M[v] # 0 <=> Gives(r, 1, v) # 0 \/ Gives(r, 2, v) # 0
  BY CountsType DEF Mass
<1>3. Total(left, S) = n /\ Total(right, S) = n
  BY <1>1, CountsAddUp
<1>. HIDE DEF left, right, M
<1>4. Drawn(r) = 2 * n
  <2>1. Adds(M, left, right, S)
    BY <1>2 DEF Adds
  <2>2. Total(M, S) = Total(left, S) + Total(right, S)
    BY <1>1, <2>1, TotalAdds
  <2>. QED  BY <1>1, <1>3, <2>2 DEF Drawn, M
<1>5. \A a \in Nat : a * a \in Nat /\ a * (a - 1) \in Int /\ a * a = a * (a - 1) + a
  OBVIOUS
<1>6. Total(Squares(r), S) = Total(like, S) + Total(M, S)
  <2>1. ASSUME NEW v \in S
        PROVE  Squares(r)[v] = M[v] * M[v] /\ like[v] = M[v] * (M[v] - 1)
    BY DEF Squares, M
  <2>2. Adds(Squares(r), like, M, S)
    BY <1>2, <1>5, <2>1 DEF Adds
  <2>. HIDE DEF like
  <2>. QED  BY <1>1, <2>2, TotalAdds
<1>7. /\ Total(off, U) + Total(Squares(r), S) = Total(M, S) * Total(M, S)
      /\ Total(off, U) \in Nat /\ Total(Squares(r), S) \in Nat /\ Total(M, S) \in Nat
  <2>1. Products(products, M, M, S)
    BY <1>2 DEF Products
  <2>2. \A c \in U : off[c] = products[c]
    BY DEF PairsOfMass, Unlike, M
  <2>3. \A v \in S : Squares(r)[v] = M[v] * M[v]
    BY DEF Squares, M
  <2>. HIDE DEF off, products
  <2>. QED  BY <1>1, <2>1, <2>2, <2>3, TotalUnlike
<1>8. Total(like, S) \in Int
  <2>1. \A v \in S : like[v] \in Int
    BY <1>2, <1>5
  <2>. HIDE DEF like
  <2>. QED  BY <1>1, <2>1, TotalInt
<1>9. Total(M, S) = Drawn(r) /\ Total(like, S) = LikeByChance(r)
  BY DEF Drawn, LikeByChance, M
<1>10. Total(off, U) = Drawn(r) * (Drawn(r) - 1) - LikeByChance(r)
  <2>1. Drawn(r) \in Nat /\ Drawn(r) * Drawn(r) = Drawn(r) * (Drawn(r) - 1) + Drawn(r)
        /\ Drawn(r) * (Drawn(r) - 1) \in Int
    BY <1>5, <1>7, <1>9
  <2>. DEFINE square == Drawn(r) * Drawn(r)
              rest == Drawn(r) * (Drawn(r) - 1)
  <2>2. /\ square = rest + Drawn(r) /\ rest \in Int /\ Drawn(r) \in Nat
        /\ Total(off, U) + Total(Squares(r), S) = square
    BY <1>7, <1>9, <2>1
  <2>. HIDE DEF off, like, square, rest
  <2>3. Total(off, U) = rest - LikeByChance(r)
    BY <1>6, <1>7, <1>8, <1>9, <2>2
  <2>. QED  BY <2>3 DEF rest
<1>11. ASSUME Total(off, U) = 0 PROVE Differing(r) = {}
  <2>. SUFFICES ASSUME NEW i \in Differing(r) PROVE FALSE
    OBVIOUS
  <2>. DEFINE a == r[i][1]
              b == r[i][2]
  <2>1. i \in DOMAIN r /\ a # b /\ r[i] = <<a, b>> /\ a \in S /\ b \in S
    BY RatedShape DEF Differing
  <2>2. Both(r, a, b) # 0
    BY <2>1, CountsType
  <2>3. Gives(r, 1, a) # 0 /\ Gives(r, 2, b) # 0
    BY <2>2, CountsType
  <2>4. M[a] \in Nat \ {0} /\ M[b] \in Nat \ {0}
    BY <1>2, <2>1, <2>3
  <2>5. <<a, b>> \in U
    BY <2>1 DEF Unlike
  <2>6. off[<<a, b>>] = M[a] * M[b]
    BY <2>5 DEF PairsOfMass, M
  <2>7. off[<<a, b>>] # 0
    <3>1. \A x, y \in Nat \ {0} : x * y # 0
      OBVIOUS
    <3>. HIDE DEF a, b, off
    <3>. QED  BY <2>4, <2>6, <3>1
  <2>8. IsFiniteSet(U)
    <3>1. IsFiniteSet(S \X S) /\ U \in SUBSET (S \X S)
      BY <1>1, FS_Product DEF Unlike
    <3>. QED  BY <3>1, FS_Subset
  <2>9. \A c \in U : off[c] \in Nat
    <3>1. \A x, y \in Nat : x * y \in Nat
      OBVIOUS
    <3>2. \A c \in U : c[1] \in S /\ c[2] \in S /\ off[c] = M[c[1]] * M[c[2]]
      BY DEF PairsOfMass, Unlike, M
    <3>. HIDE DEF off
    <3>. QED  BY <1>2, <3>1, <3>2
  <2>10. \A c \in U : off[c] \in Nat /\ off[c] <= off[c]
    BY <2>9
  <2>. HIDE DEF off, U, a, b
  <2>. QED  BY <1>11, <2>5, <2>7, <2>8, <2>10, TotalMonotone
<1>12. Differing(r) = {} => dis = 0
  BY FS_EmptySet
<1>. QED  BY <1>4, <1>7, <1>10, <1>11, <1>12

\* By coincidences, each rating is paired with the other of its sample.
LEMMA CoincidencesAre ==
    ASSUME NEW r, Rated(r), Complete(r)
    PROVE  LET chance == Total(PairsOfMass(r), Unlike(Scores))
               dis == Cardinality(Differing(r))
           IN  AlphaByCoincidences(r) =
                 IF Drawn(r) = 0 THEN Undefined
                 ELSE IF chance = 0 THEN One
                 ELSE Complement(<<2 * dis * (Drawn(r) - 1), chance>>)
<1>. DEFINE S == Scores
            U == Unlike(S)
            Coincide(a, b) == Both(r, a, b) + Both(r, b, a)
            Marginal(a) == SumOf([b \in S |-> Coincide(a, b)])
            dis == Cardinality(Differing(r))
<1>1. /\ IsFiniteSet(S) /\ ScoresSeen(r) \subseteq S /\ Len(r) \in Nat /\ Pairable(r) = DOMAIN r
      /\ \A i \in DOMAIN r : r[i] = <<r[i][1], r[i][2]>> /\ r[i][1] \in S /\ r[i][2] \in S
  BY AgreementAssumption, RatedShape
<1>2. Restrict(r, Pairable(r)) = r
  <2>1. r = [i \in DOMAIN r |-> r[i]]
    BY DEF Rated
  <2>. QED  BY <1>1, <2>1 DEF Restrict
<1>3. ASSUME NEW a PROVE Marginal(a) = Gives(r, 1, a) + Gives(r, 2, a)
  <2>. DEFINE f == [b \in S |-> Both(r, a, b)]
              g == [b \in S |-> Both(r, b, a)]
              h == [b \in S |-> Coincide(a, b)]
              A == {i \in DOMAIN r : r[i][1] = a}
              B == {i \in DOMAIN r : r[i][2] = a}
              left == [i \in DOMAIN r |-> r[i][1]]
              right == [i \in DOMAIN r |-> r[i][2]]
  <2>1. IsFiniteSet(A) /\ IsFiniteSet(B)
    BY RatedShape, FS_Subset
  <2>2. Adds(h, f, g, S)
    BY CountsType DEF Adds
  <2>3. CountsParts(f, A, right, S) /\ PartOf(A, right, S) = A
    <3>1. PartOf(A, right, S) = A
      BY <1>1 DEF PartOf
    <3>2. ASSUME NEW b \in S PROVE f[b] = Cardinality(PartOf(A, right, {b}))
      <4>1. PartOf(A, right, {b}) = {i \in DOMAIN r : r[i] = <<a, b>>}
        BY <1>1 DEF PartOf
      <4>. QED  BY <4>1 DEF Both
    <3>. QED  BY <3>1, <3>2 DEF CountsParts
  <2>4. CountsParts(g, B, left, S) /\ PartOf(B, left, S) = B
    <3>1. PartOf(B, left, S) = B
      BY <1>1 DEF PartOf
    <3>2. ASSUME NEW b \in S PROVE g[b] = Cardinality(PartOf(B, left, {b}))
      <4>1. PartOf(B, left, {b}) = {i \in DOMAIN r : r[i] = <<b, a>>}
        BY <1>1 DEF PartOf
      <4>. QED  BY <4>1 DEF Both
    <3>. QED  BY <3>1, <3>2 DEF CountsParts
  <2>5. Marginal(a) = Total(h, S)
    BY DEF SumOf, Total
  <2>6. Cardinality(A) = Gives(r, 1, a) /\ Cardinality(B) = Gives(r, 2, a)
    BY DEF Gives
  <2>. HIDE DEF f, g, h, A, B, left, right, Marginal
  <2>7. Total(f, S) = Cardinality(A) /\ Total(g, S) = Cardinality(B)
    BY <1>1, <2>1, <2>3, <2>4, TotalOfParts
  <2>8. Total(h, S) = Total(f, S) + Total(g, S)
    BY <1>1, <2>2, TotalAdds
  <2>. QED  BY <2>5, <2>6, <2>7, <2>8
<1>4. SumOf([a \in S |-> Marginal(a)]) = Drawn(r)
  <2>1. [a \in S |-> Marginal(a)] = Mass(r)
    <3>. HIDE DEF Marginal
    <3>. QED  BY <1>3 DEF Mass
  <2>2. DOMAIN Mass(r) = S
    BY DEF Mass
  <2>3. SumOf(Mass(r)) = Drawn(r)
    BY <2>2, SumIsTotal DEF Drawn
  <2>. HIDE DEF Marginal
  <2>. QED  BY <2>1, <2>3
<1>5. SumOf([c \in U |-> Marginal(c[1]) * Marginal(c[2])]) = Total(PairsOfMass(r), U)
  <2>. HIDE DEF Marginal
  <2>1. [c \in U |-> Marginal(c[1]) * Marginal(c[2])] = PairsOfMass(r)
    <3>1. ASSUME NEW c \in U PROVE Marginal(c[1]) * Marginal(c[2]) = Mass(r)[c[1]] * Mass(r)[c[2]]
      <4>1. c[1] \in S /\ c[2] \in S
        BY DEF Unlike
      <4>. QED  BY <1>3, <4>1 DEF Mass
    <3>. QED  BY <3>1 DEF PairsOfMass
  <2>2. DOMAIN PairsOfMass(r) = U
    BY DEF PairsOfMass
  <2>. QED  BY <2>1, <2>2, SumIsTotal
<1>6. SumOf([c \in U |-> Coincide(c[1], c[2])]) = 2 * dis
  <2>. DEFINE f == [c \in U |-> Both(r, c[1], c[2])]
              g == [c \in U |-> Both(r, c[2], c[1])]
              h == [c \in U |-> Coincide(c[1], c[2])]
              turn == [c \in U |-> <<c[2], c[1]>>]
  <2>1. IsFiniteSet(U)
    <3>1. IsFiniteSet(S \X S) /\ U \in SUBSET (S \X S)
      BY <1>1, FS_Product DEF Unlike
    <3>. QED  BY <3>1, FS_Subset
  <2>2. Adds(h, f, g, U)
    BY CountsType DEF Adds
  <2>3. Total(f, U) = dis /\ dis \in 0..Len(r)
    BY <1>1, CountsAddUp
  <2>4. Carries(g, f, U, U, turn, turn)
    <3>1. ASSUME NEW c \in U
          PROVE  turn[c] \in U /\ turn[turn[c]] = c /\ f[c] \in Nat /\ g[c] = f[turn[c]]
      <4>1. turn[c] = <<c[2], c[1]>> /\ turn[c] \in U /\ turn[turn[c]] = c
        BY DEF Unlike
      <4>2. turn[c][1] = c[2] /\ turn[c][2] = c[1]
        BY <4>1
      <4>. HIDE DEF turn
      <4>. QED  BY <4>1, <4>2, CountsType
    <3>. QED  BY <3>1 DEF Carries
  <2>5. SumOf([c \in U |-> Coincide(c[1], c[2])]) = Total(h, U)
    BY DEF SumOf, Total
  <2>. HIDE DEF f, g, h, turn, U
  <2>6. Total(g, U) = Total(f, U)
    BY <2>1, <2>4, TotalRenamed
  <2>7. Total(h, U) = Total(f, U) + Total(g, U)
    BY <2>1, <2>2, TotalAdds
  <2>8. Total(h, U) = 2 * dis
    BY <1>1, <2>3, <2>6, <2>7
  <2>. QED  BY <2>5, <2>8 DEF U
<1>7. U = {cell \in S \X S : cell[1] # cell[2]}
  BY DEF Unlike
<1>8. AlphaByCoincidences(r) =
        LET n == SumOf([a \in S |-> Marginal(a)])
            observed == SumOf([c \in U |-> Coincide(c[1], c[2])])
            expected == SumOf([c \in U |-> Marginal(c[1]) * Marginal(c[2])])
        IN  IF n = 0 THEN Undefined
            ELSE IF expected = 0 THEN One
            ELSE Complement(<<observed * (n - 1), expected>>)
  BY <1>2, <1>7, Zenon DEF AlphaByCoincidences
<1>. QED  BY <1>4, <1>5, <1>6, <1>8

\* Both forms of alpha are the same ratio.
LEMMA SameAlpha ==
    ASSUME NEW n \in Nat \ {0}, NEW chance \in Nat \ {0}, NEW dis \in Nat, NEW drawn, drawn = 2 * n
    PROVE  Equal(Complement(<<dis * (drawn * (drawn - 1)), n * chance>>),
                 Complement(<<2 * dis * (drawn - 1), chance>>))
<1>. DEFINE k == drawn - 1
            a == 2 * dis * k
<1>1. k \in Nat /\ a \in Nat
  <2>1. \A x, y \in Nat : 2 * x * y \in Nat
    OBVIOUS
  <2>2. k \in Nat
    OBVIOUS
  <2>. QED  BY <2>1, <2>2
<1>2. dis * (drawn * k) = n * a
  <2>1. \A x, y, z \in Nat : x * ((2 * y) * z) = y * (2 * x * z)
    OBVIOUS
  <2>. HIDE DEF k
  <2>. QED  BY <1>1, <2>1
<1>. HIDE DEF a, k
<1>3. (n * chance - n * a) * chance = (chance - a) * (n * chance)
  <2>1. \A x, y, z \in Nat : (x * y - x * z) * y = (y - z) * (x * y)
    OBVIOUS
  <2>. QED  BY <1>1, <2>1
<1>4. n * chance # 0
  <2>1. \A x, y \in Nat \ {0} : x * y # 0
    OBVIOUS
  <2>. QED  BY <2>1
<1>5. Equal(Complement(<<n * a, n * chance>>), Complement(<<a, chance>>))
  BY <1>3, <1>4 DEF Equal, Complement
<1>. QED  BY <1>2, <1>5 DEF a, k

\* What StatisticsFit says of alpha.
LEMMA AlphaHolds == ASSUME NEW r, Rated(r) PROVE AlphaFits(r)
<1>. DEFINE w == Swapped(r)
            chance == Total(PairsOfMass(r), Unlike(Scores))
            n == Len(r)
<1>1. KrippendorffAlpha(w) = KrippendorffAlpha(r)
  <2>1. Mass(w) = Mass(r)
    <3>1. \A v : Gives(r, 2, v) + Gives(r, 1, v) = Gives(r, 1, v) + Gives(r, 2, v)
      BY CountsType
    <3>. QED  BY <3>1, SwapCounts DEF Mass
  <2>2. Drawn(w) = Drawn(r) /\ LikeByChance(w) = LikeByChance(r)
    BY <2>1 DEF Drawn, LikeByChance
  <2>3. Pairable(w) = Pairable(r)
    BY SwapCounts
  <2>4. {i \in Pairable(w) : w[i][1] # w[i][2]} = {i \in Pairable(r) : r[i][1] # r[i][2]}
    BY <2>3, SwapCounts DEF Pairable
  <2>. HIDE DEF w
  <2>. QED  BY <2>2, <2>3, <2>4, AlphaIs
<1>2. ASSUME Complete(r) PROVE Equal(KrippendorffAlpha(r), AlphaByCoincidences(r))
  <2>. DEFINE dis == Cardinality(Differing(r))
  <2>1. /\ Pairable(r) = DOMAIN r /\ Cardinality(DOMAIN r) = n /\ n \in Nat \ {0} /\ DOMAIN r # {}
    <3>1. /\ Pairable(r) = DOMAIN r /\ Cardinality(DOMAIN r) = n /\ n \in Nat \ {0}
      BY <1>2, RatedShape
    <3>. QED  BY <3>1, FS_EmptySet
  <2>2. /\ Drawn(r) = 2 * n /\ chance = Drawn(r) * (Drawn(r) - 1) - LikeByChance(r)
        /\ chance \in Nat /\ (chance = 0 => dis = 0)
    BY <1>2, ChanceLeaves
  <2>3. dis \in Nat
    <3>1. IsFiniteSet(Differing(r))
      BY RatedShape, FS_Subset DEF Differing
    <3>. QED  BY <3>1, FS_CardinalityType
  <2>4. {i \in Pairable(r) : r[i][1] # r[i][2]} = Differing(r)
    BY <2>1 DEF Differing
  <2>5. KrippendorffAlpha(r) =
          IF chance = 0 THEN (IF dis = 0 THEN One ELSE Undefined)
          ELSE Complement(<<dis * (Drawn(r) * (Drawn(r) - 1)), n * chance>>)
    <3>. HIDE DEF chance, dis
    <3>. QED  BY <2>1, <2>2, <2>4, AlphaIs DEF dis
  <2>6. AlphaByCoincidences(r) =
          IF Drawn(r) = 0 THEN Undefined
          ELSE IF chance = 0 THEN One
          ELSE Complement(<<2 * dis * (Drawn(r) - 1), chance>>)
    BY <1>2, CoincidencesAre
  <2>. HIDE DEF chance, dis, n
  <2>7. CASE chance = 0
    <3>1. KrippendorffAlpha(r) = AlphaByCoincidences(r)
      BY <2>1, <2>2, <2>5, <2>6, <2>7
    <3>. QED  BY <3>1, SameIsEqual
  <2>8. CASE chance # 0
    <3>1. /\ KrippendorffAlpha(r) = Complement(<<dis * (Drawn(r) * (Drawn(r) - 1)), n * chance>>)
          /\ AlphaByCoincidences(r) = Complement(<<2 * dis * (Drawn(r) - 1), chance>>)
      BY <2>1, <2>2, <2>5, <2>6, <2>8
    <3>2. chance \in Nat \ {0} /\ Drawn(r) = 2 * n /\ dis \in Nat
      BY <2>2, <2>3, <2>8
    <3>. QED  BY <2>1, <3>1, <3>2, SameAlpha
  <2>. QED  BY <2>7, <2>8
<1>3. Equal(KrippendorffAlpha(r), KrippendorffAlpha(w))
  BY <1>1, SameIsEqual
<1>. QED  BY <1>2, <1>3 DEF AlphaFits

-----------------------------------------------------------------------------
(* Effects *)

\* Verdicts drift no further than the raters disagree.
LEMMA DriftIsBounded ==
    ASSUME NEW r, Rated(r), Complete(r)
    PROVE  TotalVariation(r)[1] <= 2 * Disagreement(r)[1]
<1>. DEFINE S == ScoresSeen(r)
            D == Differing(r)
            left == [i \in D |-> r[i][1]]
            right == [i \in D |-> r[i][2]]
            drift == [s \in S |-> Distance(Gives(r, 1, s), Gives(r, 2, s))]
            onlyLeft == [s \in S |-> Cardinality(PartOf(D, left, {s}))]
            onlyRight == [s \in S |-> Cardinality(PartOf(D, right, {s}))]
            only == [s \in S |-> onlyLeft[s] + onlyRight[s]]
<1>1. IsFiniteSet(S) /\ IsFiniteSet(D) /\ IsFiniteSet(DOMAIN r)
  <2>1. S \in SUBSET Scores /\ IsFiniteSet(DOMAIN r) /\ D \in SUBSET DOMAIN r
    BY RatedShape DEF Differing
  <2>. QED  BY <2>1, AgreementAssumption, FS_Subset
<1>2. ASSUME NEW s \in S
      PROVE  /\ Gives(r, 1, s) = Both(r, s, s) + onlyLeft[s] /\ onlyLeft[s] \in Nat
             /\ Gives(r, 2, s) = Both(r, s, s) + onlyRight[s] /\ onlyRight[s] \in Nat
             /\ Both(r, s, s) \in Nat
  <2>. DEFINE A == {i \in DOMAIN r : r[i] = <<s, s>>}
              L == PartOf(D, left, {s})
              R == PartOf(D, right, {s})
  <2>1. \A i \in DOMAIN r : r[i] = <<r[i][1], r[i][2]>>
    BY RatedShape
  <2>2. /\ A \in SUBSET DOMAIN r /\ L \in SUBSET DOMAIN r /\ R \in SUBSET DOMAIN r
        /\ A \cap L = {} /\ A \cap R = {}
        /\ A \union L = {i \in DOMAIN r : r[i][1] = s}
        /\ A \union R = {i \in DOMAIN r : r[i][2] = s}
    BY <2>1 DEF PartOf, Differing
  <2>3. onlyLeft[s] = Cardinality(L) /\ onlyRight[s] = Cardinality(R) /\ Both(r, s, s) = Cardinality(A)
    BY DEF Both
  <2>4. Gives(r, 1, s) = Cardinality(A \union L) /\ Gives(r, 2, s) = Cardinality(A \union R)
    BY <2>2 DEF Gives
  <2>. HIDE DEF A, L, R, onlyLeft, onlyRight
  <2>5. IsFiniteSet(A) /\ IsFiniteSet(L) /\ IsFiniteSet(R)
    BY <1>1, <2>2, FS_Subset
  <2>6. /\ Cardinality(A \union L) = Cardinality(A) + Cardinality(L) - Cardinality(A \cap L)
        /\ Cardinality(A \union R) = Cardinality(A) + Cardinality(R) - Cardinality(A \cap R)
    BY <2>5, FS_Union
  <2>7. Cardinality(A \cap L) = 0 /\ Cardinality(A \cap R) = 0
    BY <2>2, FS_EmptySet
  <2>8. Cardinality(A) \in Nat /\ Cardinality(L) \in Nat /\ Cardinality(R) \in Nat
    BY <2>5, FS_CardinalityType
  <2>. QED  BY <2>3, <2>4, <2>6, <2>7, <2>8
<1>3. /\ PartOf(D, left, S) = D /\ CountsParts(onlyLeft, D, left, S)
      /\ PartOf(D, right, S) = D /\ CountsParts(onlyRight, D, right, S)
  BY DEF PartOf, CountsParts, Differing, ScoresSeen
<1>4. ASSUME NEW s \in S
      PROVE  /\ drift[s] \in Nat /\ only[s] \in Nat /\ drift[s] <= only[s]
             /\ only[s] = onlyLeft[s] + onlyRight[s]
  <2>1. drift[s] = Distance(Gives(r, 1, s), Gives(r, 2, s)) /\ only[s] = onlyLeft[s] + onlyRight[s]
    OBVIOUS
  <2>. HIDE DEF drift, only, onlyLeft, onlyRight
  <2>. QED  BY <1>2, <2>1 DEF Distance
<1>5. TotalVariation(r)[1] = Total(drift, S)
  BY SumIsTotal DEF TotalVariation
<1>6. Disagreement(r)[1] = Cardinality(D) /\ Cardinality(D) \in Nat
  BY <1>1, FS_CardinalityType DEF Disagreement, Differing
<1>7. Adds(only, onlyLeft, onlyRight, S)
  BY <1>2, <1>4 DEF Adds
<1>. HIDE DEF drift, only, onlyLeft, onlyRight, S, D, left, right
<1>8. Total(onlyLeft, S) = Cardinality(D) /\ Total(onlyRight, S) = Cardinality(D)
  BY <1>1, <1>3, TotalOfParts
<1>9. Total(only, S) = Total(onlyLeft, S) + Total(onlyRight, S)
  BY <1>1, <1>7, TotalAdds
<1>10. Total(drift, S) <= Total(only, S) /\ Total(drift, S) \in Nat
  BY <1>1, <1>4, TotalMonotone
<1>. QED  BY <1>5, <1>6, <1>8, <1>9, <1>10

\* What StatisticsFit says of effects.
LEMMA EffectsHold == ASSUME NEW r, Rated(r), Complete(r) PROVE EffectsFit(r)
<1>. DEFINE w == Swapped(r)
            D == DOMAIN r
            n == Len(r)
            first == [i \in D |-> r[i][1]]
            second == [i \in D |-> r[i][2]]
            change == [i \in D |-> r[i][2] - r[i][1]]
            back == [i \in D |-> r[i][1] - r[i][2]]
            A == {i \in D : r[i][2] > r[i][1]}
            B == {i \in D : r[i][2] < r[i][1]}
            L == {i \in D : r[i][2] = r[i][1]}
<1>1. /\ IsFiniteSet(D) /\ Cardinality(D) = n /\ n \in Nat \ {0}
      /\ \A i \in D : r[i][1] \in Nat /\ r[i][2] \in Nat
  BY RatedShape, AgreementAssumption
<1>2. /\ DOMAIN w = D /\ Len(w) = n
      /\ \A i \in D : w[i][1] = r[i][2] /\ w[i][2] = r[i][1]
  BY SwapCounts
<1>3. /\ MeanShift(r) = <<Total(second, D) - Total(first, D), n>>
      /\ MeanDifference(r) = <<Total(change, D), n>>
      /\ MeanDifference(w)[1] = Total(back, D)
  <2>1. [i \in DOMAIN w |-> w[i][2] - w[i][1]] = back
    BY <1>2
  <2>2. DOMAIN first = D /\ DOMAIN second = D /\ DOMAIN change = D /\ DOMAIN back = D
    OBVIOUS
  <2>3. /\ MeanShift(r) = <<SumOf(second) - SumOf(first), n>>
        /\ MeanDifference(r) = <<SumOf(change), n>>
    BY DEF MeanShift, MeanDifference
  <2>4. MeanDifference(w)[1] = SumOf(back)
    <3>1. MeanDifference(w)[1] = SumOf([i \in DOMAIN w |-> w[i][2] - w[i][1]])
      BY DEF MeanDifference
    <3>. QED  BY <2>1, <3>1
  <2>. HIDE DEF first, second, change, back
  <2>. QED  BY <2>2, <2>3, <2>4, SumIsTotal
<1>4. /\ Total(second, D) = Total(first, D) + Total(change, D)
      /\ Total(first, D) = Total(second, D) + Total(back, D)
      /\ Total(first, D) \in Int /\ Total(second, D) \in Int
      /\ Total(change, D) \in Int /\ Total(back, D) \in Int
  <2>1. \A i \in D : /\ first[i] \in Int /\ second[i] \in Int /\ change[i] \in Int /\ back[i] \in Int
                     /\ second[i] = first[i] + change[i] /\ first[i] = second[i] + back[i]
    BY <1>1
  <2>. HIDE DEF first, second, change, back, D
  <2>2. Adds(second, first, change, D) /\ Adds(first, second, back, D)
    BY <2>1 DEF Adds
  <2>. QED  BY <1>1, <2>1, <2>2, TotalAdds, TotalInt
<1>5. Equal(MeanShift(r), MeanDifference(r)) /\ MeanDifference(w)[1] = -MeanDifference(r)[1]
  <2>. HIDE DEF first, second, change, back, D, w, n
  <2>1. Total(second, D) - Total(first, D) = Total(change, D) /\ Total(back, D) = -Total(change, D)
    BY <1>4
  <2>2. MeanShift(r) = MeanDifference(r)
    BY <1>3, <2>1
  <2>. QED  BY <1>3, <2>1, <2>2, SameIsEqual
<1>6. /\ Cardinality(A) \in Nat /\ Cardinality(B) \in Nat /\ Cardinality(L) \in Nat
      /\ n = Cardinality(A) + Cardinality(B) + Cardinality(L)
  <2>1. /\ A \in SUBSET D /\ B \in SUBSET D /\ L \in SUBSET D
        /\ A \cap B = {} /\ (A \union B) \cap L = {} /\ (A \union B) \union L = D
    <3>1. \A x, y \in Nat : /\ x > y \/ x < y \/ x = y
                            /\ ~(x > y /\ x < y) /\ ~(x > y /\ x = y) /\ ~(x < y /\ x = y)
      OBVIOUS
    <3>2. \A i \in D : /\ i \in A \/ i \in B \/ i \in L
                     /\ ~(i \in A /\ i \in B) /\ ~(i \in A /\ i \in L) /\ ~(i \in B /\ i \in L)
      BY <1>1, <3>1
    <3>3. A \in SUBSET D /\ B \in SUBSET D /\ L \in SUBSET D
      OBVIOUS
    <3>. HIDE DEF A, B, L
    <3>. QED  BY <3>2, <3>3
  <2>. DEFINE Q == A \union B
  <2>. HIDE DEF A, B, L, D
  <2>2. IsFiniteSet(A) /\ IsFiniteSet(B) /\ IsFiniteSet(L) /\ IsFiniteSet(Q)
    BY <1>1, <2>1, FS_Subset
  <2>3. Cardinality(A \union B) = Cardinality(A) + Cardinality(B) - Cardinality(A \cap B)
    BY <2>2, FS_Union
  <2>4. Q \cap L = {} /\ Q \union L = D
    BY <2>1
  <2>5. Cardinality(Q) = Cardinality(A \union B)
    OBVIOUS
  <2>. HIDE DEF Q
  <2>6. Cardinality(Q \union L) = Cardinality(Q) + Cardinality(L) - Cardinality(Q \cap L)
    BY <2>2, FS_Union
  <2>7. Cardinality(A \cap B) = 0 /\ Cardinality(Q \cap L) = 0
    BY <2>1, <2>4, FS_EmptySet
  <2>8. Cardinality(A) \in Nat /\ Cardinality(B) \in Nat /\ Cardinality(L) \in Nat
    BY <2>2, FS_CardinalityType
  <2>9. n = Cardinality(Q \union L)
    BY <1>1, <2>4
  <2>. QED  BY <2>3, <2>5, <2>6, <2>7, <2>8, <2>9
<1>7. /\ Above(r) = Cardinality(A) /\ Below(r) = Cardinality(B) /\ Level(r) = Cardinality(L)
      /\ Above(w) = Cardinality(B) /\ Level(w) = Cardinality(L)
  <2>1. /\ {i \in DOMAIN w : w[i][2] > w[i][1]} = B
        /\ {i \in DOMAIN w : w[i][2] = w[i][1]} = L
    BY <1>1, <1>2
  <2>. QED  BY <2>1 DEF Above, Below, Level
<1>. DEFINE a == Cardinality(A)
            b == Cardinality(B)
            l == Cardinality(L)
<1>8. Superiority(r) = WinRate(Above(r), Below(r), Level(r))
  <2>. HIDE DEF A, B, L, n
  <2>1. 2 * n = 2 * (a + b + l)
    BY <1>6
  <2>. QED  BY <1>7, <2>1 DEF Superiority, WinRate, n
<1>9. Equal(Superiority(w), Complement(Superiority(r)))
  <2>1. Superiority(w) = <<2 * b + l, 2 * n>> /\ Superiority(r) = <<2 * a + l, 2 * n>>
    BY <1>2, <1>7 DEF Superiority
  <2>. HIDE DEF A, B, L, n, w
  <2>2. 2 * n - (2 * a + l) = 2 * b + l
    BY <1>1, <1>6
  <2>3. Superiority(w) = Complement(Superiority(r))
    BY <2>1, <2>2 DEF Complement
  <2>. QED  BY <2>3, SameIsEqual
<1>10. ASSUME NEW bar \in Scores
       PROVE  Rate(r, 2, bar)[1] - Rate(r, 1, bar)[1] = OnlyBy(r, 2, bar) - OnlyBy(r, 1, bar)
  <2>. DEFINE P == {i \in D : r[i][1] >= bar}
              Q == {i \in D : r[i][2] >= bar}
              X == {i \in D : r[i][1] >= bar /\ r[i][2] < bar}
              Y == {i \in D : r[i][2] >= bar /\ r[i][1] < bar}
              Z == P \cap Q
  <2>1. bar \in Nat
    BY AgreementAssumption
  <2>2. /\ X \in SUBSET D /\ Y \in SUBSET D /\ Z \in SUBSET D
        /\ X \cap Z = {} /\ Y \cap Z = {} /\ P = X \union Z /\ Q = Y \union Z
    BY <1>1, <2>1
  <2>3. /\ Rate(r, 2, bar)[1] = Cardinality(Q) /\ Rate(r, 1, bar)[1] = Cardinality(P)
        /\ OnlyBy(r, 2, bar) = Cardinality(Y) /\ OnlyBy(r, 1, bar) = Cardinality(X)
    <3>1. 3 - 1 = 2 /\ 3 - 2 = 1
      OBVIOUS
    <3>. QED  BY <3>1 DEF Rate, OnlyBy
  <2>. HIDE DEF X, Y, Z, P, Q, D
  <2>4. IsFiniteSet(X) /\ IsFiniteSet(Y) /\ IsFiniteSet(Z)
    BY <1>1, <2>2, FS_Subset
  <2>5. /\ Cardinality(X \union Z) = Cardinality(X) + Cardinality(Z) - Cardinality(X \cap Z)
        /\ Cardinality(Y \union Z) = Cardinality(Y) + Cardinality(Z) - Cardinality(Y \cap Z)
    BY <2>4, FS_Union
  <2>6. Cardinality(X \cap Z) = 0 /\ Cardinality(Y \cap Z) = 0
    BY <2>2, FS_EmptySet
  <2>7. Cardinality(X) \in Nat /\ Cardinality(Y) \in Nat /\ Cardinality(Z) \in Nat
    BY <2>4, FS_CardinalityType
  <2>. QED  BY <2>2, <2>3, <2>5, <2>6, <2>7
<1>. QED  BY <1>5, <1>8, <1>9, <1>10, DriftIsBounded DEF EffectsFit

-----------------------------------------------------------------------------

\* The statistics of two raters fit together, for any scale and any number of samples.
THEOREM StatisticsHold == AgreementSpec => []StatisticsFit
<1>. DEFINE R == Scores \union {NoRating}
            Inv == ratings \in Seq(R \X R)
<1>1. AgreementInit => Inv
  BY DEF AgreementInit
<1>2. Inv /\ [AgreementNext]_ratings => Inv'
  <2>. SUFFICES ASSUME Inv, [AgreementNext]_ratings PROVE Inv'
    OBVIOUS
  <2>1. CASE UNCHANGED ratings
    BY <2>1
  <2>2. CASE AgreementNext
    <3>1. PICK a, b \in R : RateSample(a, b)
      BY <2>2 DEF AgreementNext
    <3>2. <<a, b>> \in R \X R /\ ratings' = Append(ratings, <<a, b>>)
      BY <3>1 DEF RateSample
    <3>. HIDE DEF R
    <3>. QED  BY <3>2
  <2>. QED  BY <2>1, <2>2
<1>3. Inv => StatisticsFit
  <2>. SUFFICES ASSUME Inv, ratings # << >>
                PROVE  /\ AlphaFits(ratings)
                       /\ Complete(ratings) => KappasFit(ratings) /\ EffectsFit(ratings)
    BY DEF StatisticsFit
  <2>1. Rated(ratings)
    BY DEF Rated
  <2>. QED  BY <2>1, AlphaHolds, KappasHold, EffectsHold
<1>. HIDE DEF Inv
<1>. QED  BY <1>1, <1>2, <1>3, PTL DEF AgreementSpec
=============================================================================
