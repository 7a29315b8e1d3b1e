--------------------------- MODULE JudgeExecution ---------------------------
(***************************************************************************)
(* evaluate_with_judge (evaluators/execution.py): the repetitions of one   *)
(* judge, each a loop of provider calls under three limits, attempts,      *)
(* repairs and cost.  One action is one call and everything the loop does  *)
(* with its result; the delay before the next call changes nothing.        *)
(* An answer is its verdict and what was billed for it; messages, nonces   *)
(* and evidence only decide whether parse_judge_response accepts it.       *)
(***************************************************************************)
EXTENDS Verdicts

CONSTANTS
    Repetitions, MaxAttempts, MaxRepairs,     \* of the configuration
    CostLimit,                                \* cost_limit_usd
    Prices,                                   \* what a call may cost
    Unpriced,                                 \* usage without an actual cost
    Currencies

ASSUME JudgeAssumption ==
    /\ Repetitions \in 1..20 /\ MaxAttempts \in 1..5 /\ MaxRepairs \in 0..2
    /\ CostLimit \in Nat /\ Prices \subseteq Nat /\ Prices # {}
    /\ Unpriced \notin Prices

VARIABLES
    place,      \* [repetition, attempt, repairs] of the next call
    answers,    \* the attempts list: an accepted answer for each repetition
    tally,      \* cost, reported_cost and currencies accumulated so far
    calls,      \* every call made, in order (history)
    judgement   \* how evaluate_with_judge ended, "asking" before

judgeVars == <<place, answers, tally, calls, judgement>>

Outcomes == {"asking", "done", "cost_limit", "invalid", "provider", "currencies"}

JudgeInit ==
    /\ place = [repetition |-> 1, attempt |-> 1, repairs |-> 0]
    /\ answers = << >>
    /\ tally = [cost |-> 0, reported |-> FALSE, currencies |-> {}]
    /\ calls = << >>
    /\ judgement = "asking"

\* The identity of a call, from which its idempotency key is derived.
Key == <<place.repetition, place.attempt>>

Called(kind, price, currency) ==
    calls' = Append(calls, [key |-> Key, kind |-> kind, price |-> price,
                            currency |-> currency])

\* Mutant: the costs of earlier attempts are forgotten when an answer arrives.
ChargedAnew(price, currency) ==
    [cost |-> IF price = Unpriced THEN tally.cost ELSE price,
     reported |-> tally.reported \/ price # Unpriced,
     currencies |-> tally.currencies \union {currency}]

\* The usage of a response is accounted before anything else is looked at.
Charged(price, currency) ==
    [cost |-> IF price = Unpriced THEN tally.cost ELSE tally.cost + price,
     reported |-> tally.reported \/ price # Unpriced,
     currencies |-> tally.currencies \union {currency}]

OverLimit(new) == new.cost > CostLimit

\* Mutant: repairs are not limited by themselves.
RepairOrGiveUpLate ==
    IF place.attempt >= MaxAttempts
    THEN judgement' = "invalid" /\ UNCHANGED place
    ELSE /\ place' = [place EXCEPT !.attempt = @ + 1, !.repairs = @ + 1]
         /\ UNCHANGED judgement

\* A timeout or an invalid answer: one more repair, if both limits allow it.
RepairOrGiveUp ==
    IF place.repairs >= MaxRepairs \/ place.attempt >= MaxAttempts
    THEN judgement' = "invalid" /\ UNCHANGED place
    ELSE /\ place' = [place EXCEPT !.attempt = @ + 1, !.repairs = @ + 1]
         /\ UNCHANGED judgement

\* Mutant: the currencies are not compared.
ConcludedOnLast(new) == "done"

\* After the last repetition: usage in several currencies is refused.
Concluded(new) == IF Cardinality(new.currencies) = 1 THEN "done" ELSE "currencies"

\* The provider returns an answer that validates.
AnswerAccepted(verdict, price, currency) ==
    /\ judgement = "asking"
    /\ Called("accepted", price, currency)
    /\ tally' = Charged(price, currency)
    /\ IF OverLimit(tally')
       THEN judgement' = "cost_limit" /\ UNCHANGED <<place, answers>>
       ELSE /\ answers' = Append(answers, verdict)
            /\ IF place.repetition = Repetitions
               THEN judgement' = Concluded(tally') /\ UNCHANGED place
               ELSE /\ place' = [repetition |-> place.repetition + 1,
                                 attempt |-> 1, repairs |-> 0]
                    /\ UNCHANGED judgement

\* It returns one that does not.
AnswerRejected(price, currency) ==
    /\ judgement = "asking"
    /\ Called("rejected", price, currency)
    /\ tally' = Charged(price, currency)
    /\ UNCHANGED answers
    /\ IF OverLimit(tally')
       THEN judgement' = "cost_limit" /\ UNCHANGED place
       ELSE RepairOrGiveUp

\* Nothing arrives within timeout_seconds; what it cost is not known.
CallTimesOut ==
    /\ judgement = "asking"
    /\ Called("timeout", Unpriced, "none")
    /\ RepairOrGiveUp
    /\ UNCHANGED <<answers, tally>>

\* A ProviderError: retried on its own budget, repairs are not touched.
ProviderFails(retryable) ==
    /\ judgement = "asking"
    /\ Called("error", Unpriced, "none")
    /\ IF ~retryable \/ place.attempt >= MaxAttempts
       THEN judgement' = "provider" /\ UNCHANGED place
       ELSE /\ place' = [place EXCEPT !.attempt = @ + 1]
            /\ UNCHANGED judgement
    /\ UNCHANGED <<answers, tally>>

JudgeNext ==
    \/ \E p \in Prices \union {Unpriced}, c \in Currencies :
          \/ AnswerRejected(p, c)
          \/ \E v \in Verdict : AnswerAccepted(v, p, c)
    \/ CallTimesOut
    \/ \E r \in BOOLEAN : ProviderFails(r)

JudgeSpec == JudgeInit /\ [][JudgeNext]_judgeVars

-----------------------------------------------------------------------------
(* Properties *)

\* The answers that arrived with a price of S, by their place among the calls.
Received(S) ==
    {i \in DOMAIN calls : calls[i].kind \in {"accepted", "rejected"} /\ calls[i].price \in S}

\* What the provider billed for the answers that arrived.
Billed ==
    LET price == [i \in DOMAIN calls |-> calls[i].price]
    IN  MapThenSumSet(LAMBDA i : price[i], Received(Prices))

\* The calls of a repetition, and those without a usable answer.
CallsOf(r) == {i \in DOMAIN calls : calls[i].key[1] = r}
Unusable(r) == {i \in CallsOf(r) : calls[i].kind \in {"rejected", "timeout"}}

\* Every variable has its shape.
JudgeTypeOK ==
    /\ place \in [repetition : 1..Repetitions, attempt : 1..MaxAttempts,
                  repairs : 0..MaxRepairs]
    /\ answers \in Seq(Verdict)
    /\ tally \in [cost : Nat, reported : BOOLEAN, currencies : SUBSET Currencies]
    /\ judgement \in Outcomes

\* The limits together: a repetition never makes more calls than attempts, never
\* sees more unusable answers than repairs and one, never shares a key between two
\* calls, and never goes on after an answer was accepted; and a judge is stopped by the
\* first answer that takes it over its cost limit, and by no other, so the bill without
\* that answer is within the limit.
LimitsRespected ==
    /\ \A r \in 1..Repetitions :
          /\ Cardinality(CallsOf(r)) <= MaxAttempts
          /\ Cardinality(Unusable(r)) <= MaxRepairs + 1
          /\ \A i, j \in CallsOf(r) :
                /\ calls[i].key = calls[j].key => i = j
                /\ calls[i].kind = "accepted" => j <= i
    /\ Billed > CostLimit <=> judgement = "cost_limit"
    /\ judgement = "cost_limit" =>
          /\ Len(calls) \in Received(Prices)
          /\ Billed - calls[Len(calls)].price <= CostLimit

\* The usage of a finished evaluation covers every answer that was billed, the
\* ones that were rejected and repaired included, all in one currency, and it
\* has an answer for each repetition.
UsageIsComplete ==
    judgement = "done" =>
        /\ tally.cost = Billed
        /\ tally.reported <=> Received(Prices) # {}
        /\ \A i, j \in Received(Prices \union {Unpriced}) :
              calls[i].currency = calls[j].currency
        /\ Len(answers) = Repetitions

\* The judge's repetitions and a comparison's judgements are aggregated by two
\* functions, one over the verdicts that occur, one over all three: with a usable
\* judgement they agree, the number of votes for the leader included.
AggregationsAgree ==
    Usable(answers) > 0 =>
        /\ JudgeVerdict(answers) = PairVerdict(answers)
        /\ JudgeHighest(answers) = Highest(answers)

\* No aggregation favours a candidate: the same answers with the candidates
\* exchanged give the other candidate, a tie or an abstention as before.
AggregationIsNeutral ==
    /\ JudgeVerdict(Mirrored(answers)) = Mirror(JudgeVerdict(answers))
    /\ PairVerdict(Mirrored(answers)) = Mirror(PairVerdict(answers))

\* "without converting abstentions into ties" (pairwise.py:170): judgements that
\* all abstain do not aggregate to a tie.
AbstentionsAreNoTie ==
    answers # << >> /\ Usable(answers) = 0 => PairVerdict(answers) # "tie"
=============================================================================
