------------------------------ MODULE Verdicts ------------------------------
(***************************************************************************)
(* The two aggregations of judgements: aggregate_judge_responses over the  *)
(* repetitions of one judge (evaluators/execution.py) and                  *)
(* aggregate_judgments over the judgements of one comparison               *)
(* (evaluators/pairwise.py).                                               *)
(* Scores, confidences and rates follow from what is counted; left out.    *)
(***************************************************************************)
EXTENDS Integers, Sequences, FiniteSets, FiniteSetsExt

Verdict == {"A", "B", "tie", "abstain"}

Decided == Verdict \ {"abstain"}

\* How often a verdict occurs in a sequence of verdicts.
Votes(s, v) == Cardinality({i \in DOMAIN s : s[i] = v})

Usable(s) == Len(s) - Votes(s, "abstain")

The(S) == CHOOSE v \in S : TRUE

-----------------------------------------------------------------------------
(* aggregate_judge_responses counts the verdicts that occur. *)

Occurring(s) == {s[i] : i \in DOMAIN s} \ {"abstain"}

JudgeHighest(s) == Max({Votes(s, v) : v \in Occurring(s)})

JudgeLeaders(s) == {v \in Occurring(s) : Votes(s, v) = JudgeHighest(s)}

\* Mutant: the first of several leaders wins.
JudgeVerdictOfFirst(s) ==
    IF Occurring(s) = {} THEN "abstain"
    ELSE IF "A" \in JudgeLeaders(s) THEN "A"
    ELSE IF Cardinality(JudgeLeaders(s)) = 1 THEN The(JudgeLeaders(s))
    ELSE "tie"

\* Mutant: a verdict must outnumber the abstentions.
JudgeVerdictOfAll(s) ==
    IF Occurring(s) = {} \/ Votes(s, "abstain") >= JudgeHighest(s) THEN "abstain"
    ELSE IF Cardinality(JudgeLeaders(s)) = 1 THEN The(JudgeLeaders(s))
    ELSE "tie"

JudgeVerdict(s) ==
    IF Occurring(s) = {} THEN "abstain"
    ELSE IF Cardinality(JudgeLeaders(s)) = 1 THEN The(JudgeLeaders(s))
    ELSE "tie"

-----------------------------------------------------------------------------
(* aggregate_judgments compares all three counts, zeros included. *)

Highest(s) == Max({Votes(s, v) : v \in Decided})

Leaders(s) == {v \in Decided : Votes(s, v) = Highest(s)}

PairVerdict(s) ==
    IF Cardinality(Leaders(s)) = 1 /\ Usable(s) > 0 THEN The(Leaders(s)) ELSE "tie"

-----------------------------------------------------------------------------

\* The same answers with the two candidates shown in the other order.
Mirror(v) == CASE v = "A" -> "B" [] v = "B" -> "A" [] OTHER -> v

Mirrored(s) == [i \in DOMAIN s |-> Mirror(s[i])]
=============================================================================
