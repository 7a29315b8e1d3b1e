----------------------------- MODULE Judgments ------------------------------
(***************************************************************************)
(* The requests of a pairwise study (routes/analysis.py): they define      *)
(* rubrics, judge configurations and slices, draw a design, and submit     *)
(* judgments of its assignments, each row once under a unique key.  A      *)
(* request looks up what its row refers to, inserts the row, appends an    *)
(* audit event and answers; its session commits after the answer, so an    *)
(* INSERT of the same key waits in between.  pair_aggregate counts what is *)
(* committed.  The design has one pair, in both orders; another design is  *)
(* as if it were the same, its judgments being of other assignments.       *)
(***************************************************************************)
EXTENDS Verdicts

CONSTANTS
    Submissions,  \* how many requests there are; each begins after the one before
    Judges     \* judge_identifier, which a request names itself

ASSUME JudgmentsAssumption == Submissions \in Nat /\ IsFiniteSet(Judges)

VARIABLES
    stored,  \* the committed rows
    asked    \* [1..Submissions -> what it inserts, and how far it is]

judgmentVars == <<stored, asked>>

-----------------------------------------------------------------------------
(* Rows *)

\* The assignment, and its reversed duplicate.
Assignments == {"original", "reversed"}

DesignRow == [kind |-> "design"]
JudgmentRows ==
    [kind : {"judgment"}, assignment : Assignments, judge : Judges, verdict : Verdict]
DefinitionRows == [kind : {"rubric", "configuration", "slice"}] \union {[kind |-> "subslice"]}

Rows == {DesignRow} \union JudgmentRows \union DefinitionRows

\* Mutant: the verdict is part of the key.
UniqueKeyOfVerdict(row) ==
    IF row.kind = "judgment" THEN <<"judgment", row.assignment, row.judge, row.verdict>>
    ELSE <<row.kind>>

\* The unique constraint of the row's table.
UniqueKey(row) ==
    IF row.kind = "judgment" THEN <<"judgment", row.assignment, row.judge>> ELSE <<row.kind>>

\* Rows that the constraint keeps from being stored both: pair_designs has none.
Clash(r, s) ==
    /\ r.kind # "design" /\ s.kind # "design"
    /\ UniqueKey(r) = UniqueKey(s)

\* The kind of row a request looks up before it inserts.
Refers(row) ==
    CASE row.kind = "judgment" -> {"design"}
      [] row.kind = "configuration" -> {"rubric"}
      [] row.kind = "subslice" -> {"slice"}
      [] OTHER -> {}

-----------------------------------------------------------------------------
(* Requests *)

Waiting == [at |-> "waiting", row |-> DesignRow]

JudgmentsInit ==
    /\ stored \in {{}, {DesignRow}}
    /\ asked = [q \in 1..Submissions |-> Waiting]

Moves(q, at) == asked' = [asked EXCEPT ![q].at = at]

\* The end of a request that leaves no row, refused or rolled back.
Ended == [Waiting EXCEPT !.at = "ended"]

\* _authorize and the validation of the body: dimensions twice in a rubric, an unsupported
\* predicate, variants or records a design cannot be drawn from.
RefuseBody(q) ==
    /\ asked[q].at = "waiting"
    /\ q > 1 => asked[q - 1].at # "waiting"
    /\ asked' = [asked EXCEPT ![q] = Ended]
    /\ UNCHANGED stored

\* The lookup sees what is committed.
LookUp(q, row) ==
    /\ asked[q].at = "waiting"
    /\ q > 1 => asked[q - 1].at # "waiting"
    /\ asked' = [asked EXCEPT ![q] =
          IF \A kind \in Refers(row) : \E r \in stored : r.kind = kind
          THEN [at |-> "checked", row |-> row] ELSE Ended]
    /\ UNCHANGED stored

Pending == {p \in 1..Submissions : asked[p].at = "inserted"}

\* session.flush(): waits while an uncommitted row has the key; a committed one refuses.
\* _audit appends the event of the same transaction, and the request is answered.
Insert(q) ==
    /\ asked[q].at = "checked"
    /\ \A p \in Pending : ~Clash(asked[p].row, asked[q].row)
    /\ IF \E r \in stored : Clash(r, asked[q].row)
       THEN asked' = [asked EXCEPT ![q] = Ended]
       ELSE Moves(q, "inserted")
    /\ UNCHANGED stored

\* After the response.
CommitRow(q) ==
    /\ asked[q].at = "inserted"
    /\ Moves(q, "created")
    /\ stored' = stored \union {asked[q].row}

\* The process dies or the database fails: the transaction is rolled back.
RollBack(q) ==
    /\ asked[q].at \in {"checked", "inserted"}
    /\ asked' = [asked EXCEPT ![q] = Ended]
    /\ UNCHANGED stored

JudgmentsNext ==
    \E q \in 1..Submissions :
        \/ RefuseBody(q)
        \/ \E row \in Rows : LookUp(q, row)
        \/ Insert(q)
        \/ CommitRow(q)
        \/ RollBack(q)

JudgmentsSpec == JudgmentsInit /\ [][JudgmentsNext]_judgmentVars

-----------------------------------------------------------------------------
(* pair_aggregate *)

Judgment == stored \cap JudgmentRows

CountOf(verdicts, assignments) ==
    Cardinality({r \in Judgment : r.verdict \in verdicts /\ r.assignment \in assignments})

UsableCount == CountOf(Decided, Assignments)

\* Twice tie_adjusted_a_win_rate, over usable_count.
TwiceWins(verdict) == 2 * CountOf({verdict}, Assignments) + CountOf({"tie"}, Assignments)

\* Per judged assignment, the usable judgments that are not of its most frequent verdict.
Dissent ==
    [a \in {a \in Assignments : CountOf(Decided, {a}) > 0} |->
        CountOf(Decided, {a}) - Max({CountOf({v}, {a}) : v \in Decided})]

-----------------------------------------------------------------------------
(* Properties *)

\* The variant a judgment is for: the reversed assignment shows them the other way round.
VariantOf(row) ==
    IF row.assignment = "original" THEN row.verdict ELSE Mirror(row.verdict)

\* A study counts each judge once per assignment, whatever requests raced for it or were sent
\* again; every row refers to committed ones, and is there exactly for the requests that
\* committed.  The counts make up the judgments, dissent is none exactly when the usable
\* judgments of each assignment agree, and the displayed positions win equally often when every
\* judge who chose a variant chose it in both orders.
\* routes/analysis.py:71-443.
JudgmentsCounted ==
    /\ \A r, s \in Judgment : r.assignment = s.assignment /\ r.judge = s.judge => r = s
    /\ \A r \in stored : \A kind \in Refers(r) : \E s \in stored : s.kind = kind
    /\ \A q \in 1..Submissions : asked[q].at = "created" => asked[q].row \in stored
    /\ Cardinality(stored \ {DesignRow})
          <= Cardinality({q \in 1..Submissions : asked[q].at = "created"})
    /\ UsableCount + CountOf({"abstain"}, Assignments) = Cardinality(Judgment)
    /\ TwiceWins("A") + TwiceWins("B") = 2 * UsableCount
    /\ (\A a \in DOMAIN Dissent : Dissent[a] = 0) <=>
          \A r, s \in Judgment : /\ r.assignment = s.assignment
                                 /\ {r.verdict, s.verdict} \subseteq Decided
                                 => r.verdict = s.verdict
    /\ (\A r \in Judgment : r.verdict \in {"A", "B"} =>
            \E s \in Judgment : /\ s.judge = r.judge /\ s.assignment # r.assignment
                                /\ VariantOf(s) = VariantOf(r))
          => TwiceWins("A") = TwiceWins("B")
=============================================================================
