----------------------------- MODULE JudgeProofs -----------------------------
(***************************************************************************)
(* Judges and the designs they judge.  The aggregations of verdicts agree  *)
(* and are neutral for judgements of any length; a judge stays within its  *)
(* limits on attempts, repairs and cost whatever the provider does, and    *)
(* reports what its answers cost.  The judgments of a study are counted    *)
(* once, whatever requests race for them.  A pairwise design is balanced,  *)
(* and its counts and identities are those of the assignments made, for    *)
(* any number of records, slots and variants, any order of the cells and   *)
(* any sample size.                                                        *)
(***************************************************************************)
EXTENDS JudgeExecution, Judgments, PairDesign, Counting

-----------------------------------------------------------------------------
(* Verdicts and judges *)

\* A vote count is a number, positive exactly for the verdicts that occur, and
\* the length exactly when no other does.
LEMMA VotesCount ==
    ASSUME NEW s \in Seq(Verdict), NEW v \in Verdict
    PROVE  /\ Votes(s, v) \in Nat
           /\ Votes(s, v) > 0 <=> \E i \in DOMAIN s : s[i] = v
           /\ Votes(s, v) <= Len(s)
           /\ Votes(s, v) = Len(s) <=> \A i \in DOMAIN s : s[i] = v
<1>. DEFINE D == 1..Len(s)
            W == {i \in DOMAIN s : s[i] = v}
<1>1. DOMAIN s = D /\ Len(s) \in Nat
  OBVIOUS
<1>2. IsFiniteSet(D) /\ Cardinality(D) = Len(s)
  BY <1>1, FS_Interval
<1>3. W \subseteq D
  BY <1>1
<1>4. /\ IsFiniteSet(W) /\ Cardinality(W) <= Cardinality(D)
      /\ Cardinality(W) = Cardinality(D) => W = D
  BY <1>2, <1>3, FS_Subset
<1>5. Cardinality(W) \in Nat /\ (Cardinality(W) = 0 <=> W = {})
  BY <1>4, FS_CardinalityType, FS_EmptySet
<1>6. Votes(s, v) = Cardinality(W)
  BY DEF Votes
<1>7. W = {} <=> ~ \E i \in DOMAIN s : s[i] = v
  OBVIOUS
<1>8. W = D <=> \A i \in DOMAIN s : s[i] = v
  BY <1>1
<1>9. Cardinality(W) > 0 <=> \E i \in DOMAIN s : s[i] = v
  BY <1>5, <1>7
<1>10. Cardinality(W) = Len(s) <=> \A i \in DOMAIN s : s[i] = v
  BY <1>2, <1>4, <1>8
<1>. QED  BY <1>2, <1>4, <1>5, <1>6, <1>9, <1>10

\* Among the votes of some of the decided verdicts one number is the largest.
LEMMA LargestOf ==
    ASSUME NEW S, NEW f \in [Decided -> Nat], S \subseteq Decided, S # {}
    PROVE  \E v \in S : \A u \in S : f[v] >= f[u]
<1>1. Decided = {"A", "B", "tie"}
  BY DEF Decided, Verdict
<1>. DEFINE over(v, u) == u \in S => v \in S /\ f[v] >= f[u]
<1>2. \A v \in Decided : f[v] \in Nat
  OBVIOUS
<1>3. \E v \in {"A", "B", "tie"} : over(v, "A") /\ over(v, "B") /\ over(v, "tie")
  BY <1>1, <1>2
<1>4. PICK v \in Decided : \A u \in S : v \in S /\ f[v] >= f[u]
  BY <1>1, <1>3
<1>5. v \in S
  BY <1>4
<1>. QED  BY <1>4, <1>5

\* So Max over those votes is a number of votes that nothing exceeds.
LEMMA MaxOfVotes ==
    ASSUME NEW s \in Seq(Verdict), NEW S, S \subseteq Decided, S # {}
    PROVE  /\ \E v \in S : Max({Votes(s, u) : u \in S}) = Votes(s, v)
           /\ \A v \in S : Votes(s, v) <= Max({Votes(s, u) : u \in S})
<1>. DEFINE f == [v \in Decided |-> Votes(s, v)]
            T == {Votes(s, u) : u \in S}
<1>1. \A v \in Decided : f[v] = Votes(s, v) /\ f[v] \in Nat
  BY VotesCount DEF Decided
<1>2. f \in [Decided -> Nat]
  BY <1>1
<1>. HIDE DEF f
<1>3. PICK v \in S : \A u \in S : f[v] >= f[u]
  BY <1>2, LargestOf
<1>4. Votes(s, v) \in T /\ \A y \in T : Votes(s, v) >= y
  BY <1>1, <1>3
<1>5. Max(T) \in T /\ \A y \in T : Max(T) >= y
  BY <1>4 DEF Max
<1>6. T \subseteq Nat
  BY <1>1
<1>7. \A u \in S : Votes(s, u) <= Max(T)
  BY <1>5, <1>6
<1>. QED  BY <1>5, <1>7

-----------------------------------------------------------------------------
(* Agreement *)

\* The verdicts that occur are the decided ones with a vote, and there are some
\* exactly if a judgement is usable.
LEMMA OccurringHasVotes ==
    ASSUME NEW s \in Seq(Verdict)
    PROVE  /\ Occurring(s) \subseteq Decided
           /\ \A v \in Decided : v \in Occurring(s) <=> Votes(s, v) > 0
           /\ Usable(s) \in Nat
           /\ Usable(s) > 0 <=> Occurring(s) # {}
<1>1. \A i \in DOMAIN s : s[i] \in Verdict
  OBVIOUS
<1>2. Occurring(s) \subseteq Decided
  BY <1>1 DEF Occurring, Decided
<1>3. \A v \in Decided : v \in Occurring(s) <=> \E i \in DOMAIN s : s[i] = v
  BY DEF Occurring, Decided
<1>4. \A v \in Decided : v \in Occurring(s) <=> Votes(s, v) > 0
  BY <1>3, VotesCount DEF Decided
<1>5. Len(s) \in Nat /\ "abstain" \in Verdict
  BY DEF Verdict
<1>6. /\ Votes(s, "abstain") \in Nat /\ Votes(s, "abstain") <= Len(s)
      /\ Votes(s, "abstain") = Len(s) <=> \A i \in DOMAIN s : s[i] = "abstain"
  BY <1>5, VotesCount
<1>7. Occurring(s) = {} <=> \A i \in DOMAIN s : s[i] = "abstain"
  BY DEF Occurring
<1>8. Usable(s) \in Nat /\ (Usable(s) > 0 <=> Votes(s, "abstain") # Len(s))
  BY <1>5, <1>6 DEF Usable
<1>9. Usable(s) > 0 <=> Occurring(s) # {}
  BY <1>6, <1>7, <1>8
<1>. QED  BY <1>2, <1>4, <1>8, <1>9

\* With a usable judgement the two aggregations have the same leaders.
LEMMA SameLeaders ==
    ASSUME NEW s \in Seq(Verdict), Occurring(s) # {}
    PROVE  JudgeHighest(s) = Highest(s) /\ JudgeLeaders(s) = Leaders(s)
<1>1. Occurring(s) \subseteq Decided /\ \A v \in Decided : v \in Occurring(s) <=> Votes(s, v) > 0
  BY OccurringHasVotes
<1>2. \A v \in Decided : Votes(s, v) \in Nat
  BY VotesCount DEF Decided
<1>3. /\ \E v \in Occurring(s) : JudgeHighest(s) = Votes(s, v)
      /\ \A v \in Occurring(s) : Votes(s, v) <= JudgeHighest(s)
  BY <1>1, MaxOfVotes DEF JudgeHighest
<1>4. Decided \subseteq Decided /\ Decided # {}
  BY <1>1
<1>5. /\ \E v \in Decided : Highest(s) = Votes(s, v)
      /\ \A v \in Decided : Votes(s, v) <= Highest(s)
  BY <1>4, MaxOfVotes DEF Highest
<1>6. PICK u \in Occurring(s) : JudgeHighest(s) = Votes(s, u)
  BY <1>3
<1>7. PICK v \in Decided : Highest(s) = Votes(s, v)
  BY <1>5
<1>8. Votes(s, u) <= Votes(s, v) /\ Votes(s, u) > 0
  BY <1>1, <1>5, <1>6, <1>7
<1>9. v \in Occurring(s)
  BY <1>1, <1>2, <1>6, <1>7, <1>8
<1>10. JudgeHighest(s) = Highest(s)
  BY <1>1, <1>2, <1>3, <1>6, <1>7, <1>8, <1>9
<1>11. \A w \in Decided : Votes(s, w) = Highest(s) => w \in Occurring(s)
  BY <1>1, <1>2, <1>7, <1>9
<1>12. JudgeLeaders(s) = Leaders(s)
  BY <1>1, <1>10, <1>11 DEF JudgeLeaders, Leaders
<1>. QED  BY <1>10, <1>12

\* The two aggregations of the platform agree whenever a judgement is usable.
THEOREM VerdictsAgree ==
    ASSUME NEW s \in Seq(Verdict), Usable(s) > 0
    PROVE  JudgeVerdict(s) = PairVerdict(s) /\ JudgeHighest(s) = Highest(s)
<1>1. Occurring(s) # {}
  BY OccurringHasVotes
<1>2. JudgeHighest(s) = Highest(s) /\ JudgeLeaders(s) = Leaders(s)
  BY <1>1, SameLeaders
<1>. QED  BY <1>1, <1>2 DEF JudgeVerdict, PairVerdict

-----------------------------------------------------------------------------
(* Neutrality *)

\* Mirroring is its own inverse and moves each vote to the mirrored verdict.
LEMMA MirrorVotes ==
    ASSUME NEW s \in Seq(Verdict)
    PROVE  /\ Mirrored(s) \in Seq(Verdict) /\ Len(Mirrored(s)) = Len(s)
           /\ \A v \in Verdict : Mirror(v) \in Verdict /\ Mirror(Mirror(v)) = v
           /\ \A v \in Decided : Mirror(v) \in Decided
           /\ \A v \in Verdict : Votes(Mirrored(s), Mirror(v)) = Votes(s, v)
<1>1. \A v \in Verdict : Mirror(v) \in Verdict /\ Mirror(Mirror(v)) = v
  BY DEF Verdict, Mirror
<1>2. \A v \in Decided : Mirror(v) \in Decided
  BY DEF Verdict, Decided, Mirror
<1>3. DOMAIN s = 1..Len(s) /\ Len(s) \in Nat /\ \A i \in DOMAIN s : s[i] \in Verdict
  OBVIOUS
<1>4. Mirrored(s) \in [1..Len(s) -> Verdict]
  BY <1>1, <1>3 DEF Mirrored
<1>5. Mirrored(s) \in Seq(Verdict) /\ Len(Mirrored(s)) = Len(s)
  BY <1>3, <1>4
<1>6. ASSUME NEW v \in Verdict
      PROVE  Votes(Mirrored(s), Mirror(v)) = Votes(s, v)
  <2>1. \A i \in DOMAIN s : Mirror(s[i]) = Mirror(v) <=> s[i] = v
    BY <1>1, <1>3
  <2>2. {i \in DOMAIN Mirrored(s) : Mirrored(s)[i] = Mirror(v)} = {i \in DOMAIN s : s[i] = v}
    BY <2>1 DEF Mirrored
  <2>. QED  BY <2>2 DEF Votes
<1>. QED  BY <1>1, <1>2, <1>5, <1>6

\* The leaders of the mirrored judgements are the mirrored leaders.
LEMMA MirrorLeaders ==
    ASSUME NEW s \in Seq(Verdict)
    PROVE  Leaders(Mirrored(s)) = {Mirror(v) : v \in Leaders(s)}
<1>. DEFINE t == Mirrored(s)
<1>1. /\ \A v \in Decided : Mirror(v) \in Decided /\ Mirror(Mirror(v)) = v
      /\ \A v \in Decided : Votes(t, Mirror(v)) = Votes(s, v)
  BY MirrorVotes DEF Decided
<1>. HIDE DEF t
<1>2. {Votes(t, u) : u \in Decided} = {Votes(s, v) : v \in Decided}
  <2>1. \A u \in Decided : \E v \in Decided : Votes(t, u) = Votes(s, v)
    BY <1>1
  <2>2. \A v \in Decided : \E u \in Decided : Votes(t, u) = Votes(s, v)
    BY <1>1
  <2>. QED  BY <2>1, <2>2
<1>3. Highest(t) = Highest(s)
  BY <1>2 DEF Highest
<1>4. \A u \in Decided : u \in Leaders(t) <=> Mirror(u) \in Leaders(s)
  BY <1>1, <1>3 DEF Leaders
<1>5. Leaders(t) \subseteq Decided /\ Leaders(s) \subseteq Decided
  BY DEF Leaders
<1>6. Leaders(t) = {Mirror(v) : v \in Leaders(s)}
  <2>1. ASSUME NEW u \in Leaders(t) PROVE \E v \in Leaders(s) : u = Mirror(v)
    BY <1>1, <1>4, <1>5
  <2>2. ASSUME NEW v \in Leaders(s) PROVE Mirror(v) \in Leaders(t)
    BY <1>1, <1>4, <1>5
  <2>. QED  BY <2>1, <2>2
<1>. QED  BY <1>6 DEF t

\* A set of one element holds what The picks from it.
LEMMA OneElement ==
    ASSUME NEW S, IsFiniteSet(S)
    PROVE  /\ Cardinality(S) = 1 <=> \E x : S = {x}
           /\ \A x : S = {x} => The(S) = x
<1>1. Cardinality(S) = 1 <=> \E x : S = {x}
  BY FS_Singleton
<1>2. \A x : S = {x} => The(S) = x
  BY DEF The
<1>. QED  BY <1>1, <1>2

\* Leaders are verdicts, so finitely many.
LEMMA LeadersFinite ==
    ASSUME NEW s \in Seq(Verdict)
    PROVE  IsFiniteSet(Leaders(s)) /\ Leaders(s) \subseteq Verdict
<1>1. Verdict = ({"A"} \union {"B"}) \union ({"tie"} \union {"abstain"})
  BY DEF Verdict
<1>2. IsFiniteSet(Verdict)
  BY <1>1, FS_Singleton, FS_Union
<1>3. Leaders(s) \subseteq Verdict
  BY DEF Leaders, Decided
<1>. QED  BY <1>2, <1>3, FS_Subset

\* Exchanging the candidates exchanges the verdict of a comparison.
LEMMA PairNeutral ==
    ASSUME NEW s \in Seq(Verdict)
    PROVE  PairVerdict(Mirrored(s)) = Mirror(PairVerdict(s))
<1>. DEFINE t == Mirrored(s)
<1>1. /\ t \in Seq(Verdict) /\ Leaders(t) = {Mirror(v) : v \in Leaders(s)}
      /\ IsFiniteSet(Leaders(s)) /\ IsFiniteSet(Leaders(t))
      /\ Leaders(s) \subseteq Verdict
      /\ \A v \in Verdict : Mirror(Mirror(v)) = v
  BY MirrorVotes, MirrorLeaders, LeadersFinite
<1>2. Usable(t) = Usable(s)
  <2>1. "abstain" \in Verdict /\ Mirror("abstain") = "abstain"
    BY DEF Verdict, Mirror
  <2>. QED  BY <2>1, MirrorVotes DEF Usable
<1>3. Mirror("tie") = "tie"
  BY DEF Mirror
<1>. HIDE DEF t
<1>4. CASE \E x : Leaders(s) = {x}
  <2>1. PICK x : Leaders(s) = {x}
    BY <1>4
  <2>2. Leaders(t) = {Mirror(x)}
    BY <1>1, <2>1
  <2>3. /\ Cardinality(Leaders(s)) = 1 /\ Cardinality(Leaders(t)) = 1
        /\ The(Leaders(s)) = x /\ The(Leaders(t)) = Mirror(x)
    BY <1>1, <2>1, <2>2, OneElement
  <2>. QED  BY <1>2, <1>3, <2>3 DEF PairVerdict, t
<1>5. CASE ~ \E x : Leaders(s) = {x}
  <2>1. Cardinality(Leaders(s)) # 1
    BY <1>1, <1>5, OneElement
  <2>2. ASSUME NEW y, Leaders(t) = {y} PROVE Leaders(s) = {Mirror(y)}
    <3>1. \A v \in Leaders(s) : Mirror(v) = y /\ v = Mirror(y)
      BY <1>1, <2>2
    <3>2. Leaders(s) # {}
      BY <1>1, <2>2
    <3>. QED  BY <3>1, <3>2
  <2>3. Cardinality(Leaders(t)) # 1
    BY <1>1, <1>5, <2>2, OneElement
  <2>. QED  BY <1>3, <2>1, <2>3 DEF PairVerdict, t
<1>. QED  BY <1>4, <1>5

\* Neither aggregation favours a candidate.
THEOREM VerdictsNeutral ==
    ASSUME NEW s \in Seq(Verdict)
    PROVE  /\ JudgeVerdict(Mirrored(s)) = Mirror(JudgeVerdict(s))
           /\ PairVerdict(Mirrored(s)) = Mirror(PairVerdict(s))
<1>1. Mirrored(s) \in Seq(Verdict)
  BY MirrorVotes
<1>2. Usable(Mirrored(s)) = Usable(s)
  <2>1. "abstain" \in Verdict /\ Mirror("abstain") = "abstain"
    BY DEF Verdict, Mirror
  <2>. QED  BY <2>1, MirrorVotes DEF Usable
<1>3. PairVerdict(Mirrored(s)) = Mirror(PairVerdict(s))
  BY PairNeutral
<1>4. CASE Usable(s) > 0
  BY <1>1, <1>2, <1>3, <1>4, VerdictsAgree
<1>5. CASE ~ (Usable(s) > 0)
  <2>1. Occurring(s) = {} /\ Occurring(Mirrored(s)) = {}
    BY <1>1, <1>2, <1>5, OccurringHasVotes
  <2>2. Mirror("abstain") = "abstain"
    BY DEF Mirror
  <2>. QED  BY <1>3, <2>1, <2>2 DEF JudgeVerdict
<1>. QED  BY <1>3, <1>4, <1>5

-----------------------------------------------------------------------------
(* The judge *)

\* Every call, whatever comes of it, leaves the counters within their limits.
LEMMA JudgeTypeKept ==
    JudgeTypeOK /\ [JudgeNext]_judgeVars => JudgeTypeOK'
<1>. SUFFICES ASSUME JudgeTypeOK, [JudgeNext]_judgeVars PROVE JudgeTypeOK'
  OBVIOUS
<1>. USE JudgeAssumption
<1>. DEFINE Bounds == [repetition : 1..Repetitions, attempt : 1..MaxAttempts,
                       repairs : 0..MaxRepairs]
            Tallies == [cost : Nat, reported : BOOLEAN, currencies : SUBSET Currencies]
<1>1. ASSUME NEW price \in Prices \union {Unpriced}, NEW currency \in Currencies
      PROVE  Charged(price, currency) \in Tallies
  BY DEF JudgeTypeOK, Charged
<1>2. ASSUME RepairOrGiveUp PROVE place' \in Bounds /\ judgement' \in Outcomes
  <2>1. CASE place.repairs >= MaxRepairs \/ place.attempt >= MaxAttempts
    BY <1>2, <2>1 DEF RepairOrGiveUp, JudgeTypeOK, Outcomes
  <2>2. CASE ~ (place.repairs >= MaxRepairs \/ place.attempt >= MaxAttempts)
    <3>1. /\ place' = [place EXCEPT !.attempt = @ + 1, !.repairs = @ + 1]
          /\ judgement' = judgement
      BY <1>2, <2>2 DEF RepairOrGiveUp
    <3>2. place \in Bounds /\ judgement \in Outcomes
      BY DEF JudgeTypeOK
    <3>3. place.attempt + 1 \in 1..MaxAttempts /\ place.repairs + 1 \in 0..MaxRepairs
      BY <2>2, <3>2
    <3>. QED  BY <3>1, <3>2, <3>3
  <2>. QED  BY <2>1, <2>2
<1>3. ASSUME NEW v \in Verdict, NEW p \in Prices \union {Unpriced}, NEW c \in Currencies,
             AnswerAccepted(v, p, c)
      PROVE  JudgeTypeOK'
  <2>1. tally' \in Tallies
    BY <1>1, <1>3 DEF AnswerAccepted
  <2>2. CASE OverLimit(tally')
    BY <1>3, <2>1, <2>2 DEF AnswerAccepted, JudgeTypeOK, Outcomes
  <2>3. CASE ~ OverLimit(tally')
    <3>1. answers' = Append(answers, v) /\ answers' \in Seq(Verdict)
      <4>1. answers' = Append(answers, v)
        BY <1>3, <2>3 DEF AnswerAccepted
      <4>2. answers \in Seq(Verdict)
        BY DEF JudgeTypeOK
      <4>. QED  BY <4>1, <4>2
    <3>2. CASE place.repetition = Repetitions
      <4>1. judgement' = Concluded(tally') /\ place' = place
        BY <1>3, <2>3, <3>2 DEF AnswerAccepted
      <4>2. Concluded(tally') \in Outcomes
        BY DEF Concluded, Outcomes
      <4>. QED  BY <2>1, <3>1, <4>1, <4>2 DEF JudgeTypeOK
    <3>3. CASE place.repetition # Repetitions
      <4>1. /\ judgement' = judgement
            /\ place' = [repetition |-> place.repetition + 1, attempt |-> 1, repairs |-> 0]
        BY <1>3, <2>3, <3>3 DEF AnswerAccepted
      <4>2. place' \in Bounds
        BY <3>3, <4>1 DEF JudgeTypeOK
      <4>. QED  BY <2>1, <3>1, <4>1, <4>2 DEF JudgeTypeOK
    <3>. QED  BY <3>2, <3>3
  <2>. QED  BY <2>2, <2>3
<1>4. ASSUME NEW p \in Prices \union {Unpriced}, NEW c \in Currencies, AnswerRejected(p, c)
      PROVE  JudgeTypeOK'
  <2>1. tally' \in Tallies /\ answers' = answers
    BY <1>1, <1>4 DEF AnswerRejected
  <2>2. place' \in Bounds /\ judgement' \in Outcomes
    BY <1>2, <1>4 DEF AnswerRejected, JudgeTypeOK, Outcomes
  <2>. QED  BY <2>1, <2>2 DEF JudgeTypeOK
<1>5. ASSUME CallTimesOut PROVE JudgeTypeOK'
  <2>1. place' \in Bounds /\ judgement' \in Outcomes
    BY <1>2, <1>5 DEF CallTimesOut
  <2>. QED  BY <1>5, <2>1 DEF CallTimesOut, JudgeTypeOK
<1>6. ASSUME NEW r \in BOOLEAN, ProviderFails(r) PROVE JudgeTypeOK'
  <2>1. CASE ~r \/ place.attempt >= MaxAttempts
    BY <1>6, <2>1 DEF ProviderFails, JudgeTypeOK, Outcomes
  <2>2. CASE ~ (~r \/ place.attempt >= MaxAttempts)
    BY <1>6, <2>2 DEF ProviderFails, JudgeTypeOK
  <2>. QED  BY <2>1, <2>2
<1>7. CASE UNCHANGED judgeVars
  BY <1>7 DEF JudgeTypeOK, judgeVars
<1>. QED  BY <1>3, <1>4, <1>5, <1>6, <1>7 DEF JudgeNext

\* Whatever the provider answers, fails or costs, a judge makes no more attempts
\* and repairs than configured, and gets no further than its last repetition.
THEOREM JudgeTypeCorrect == JudgeSpec => []JudgeTypeOK
<1>1. JudgeInit => JudgeTypeOK
  BY JudgeAssumption DEF JudgeInit, JudgeTypeOK, Outcomes
<1>. QED  BY <1>1, JudgeTypeKept, PTL DEF JudgeSpec

\* What the two aggregations would say of a judge's answers, at any moment.
THEOREM JudgementsAgree == JudgeSpec => []AggregationsAgree
<1>1. JudgeTypeOK => AggregationsAgree
  BY VerdictsAgree DEF JudgeTypeOK, AggregationsAgree
<1>. QED  BY <1>1, JudgeTypeCorrect, PTL

\* And they say it of the candidates whichever is called A.
THEOREM JudgementsNeutral == JudgeSpec => []AggregationIsNeutral
<1>1. JudgeTypeOK => AggregationIsNeutral
  BY VerdictsNeutral DEF JudgeTypeOK, AggregationIsNeutral
<1>. QED  BY <1>1, JudgeTypeCorrect, PTL

-----------------------------------------------------------------------------
(* The limits of a judge: the invariant *)

\* How a call may end.
CallKinds == {"accepted", "rejected", "timeout", "error"}

\* A call of the history.
Call == [key : (1..Repetitions) \X (1..MaxAttempts), kind : CallKinds,
         price : Prices \union {Unpriced}, currency : Currencies \union {"none"}]

\* The tally is that of the answers that arrived.
TallyTells ==
    /\ tally.cost = Billed
    /\ tally.reported <=> Received(Prices) # {}
    /\ tally.currencies = {calls[i].currency : i \in Received(Prices \union {Unpriced})}

\* While the judge asks, the place counts the calls of its repetition, none of them
\* accepted, and the answers are those of the repetitions before.
PlaceTells ==
    /\ \A i \in DOMAIN calls : calls[i].key[1] <= place.repetition
    /\ judgement = "asking" =>
          /\ \A i \in CallsOf(place.repetition) :
                calls[i].key[2] < place.attempt /\ calls[i].kind # "accepted"
          /\ Cardinality(Unusable(place.repetition)) = place.repairs
          /\ Len(answers) = place.repetition - 1

\* A judge that is done has all its answers, in one currency.
DoneTells ==
    judgement = "done" => Len(answers) = Repetitions /\ Cardinality(tally.currencies) = 1

JudgeInv ==
    JudgeTypeOK /\ calls \in Seq(Call) /\ TallyTells /\ PlaceTells /\ DoneTells /\ LimitsRespected

-----------------------------------------------------------------------------
(* One more call *)

\* The new call comes after all others and leaves them as they are.
LEMMA CallAppended ==
    ASSUME calls \in Seq(Call), NEW c \in Call, calls' = Append(calls, c),
           NEW n, n = Len(calls) + 1
    PROVE  /\ calls' \in Seq(Call) /\ n \in Nat /\ Len(calls') = n
           /\ DOMAIN calls' = DOMAIN calls \union {n} /\ n \notin DOMAIN calls
           /\ calls'[n] = c
           /\ \A i \in DOMAIN calls : calls'[i] = calls[i] /\ i \in Nat /\ i < n
OBVIOUS

\* So the sets of calls get the new one or stay as they are.
LEMMA SetsGrow ==
    ASSUME calls \in Seq(Call), NEW c \in Call, calls' = Append(calls, c),
           NEW n, n = Len(calls) + 1, NEW r, NEW S
    PROVE  /\ CallsOf(r)' = CallsOf(r) \union {i \in {n} : c.key[1] = r}
           /\ Unusable(r)' = Unusable(r) \union
                 {i \in {n} : c.key[1] = r /\ c.kind \in {"rejected", "timeout"}}
           /\ Received(S)' = Received(S) \union
                 {i \in {n} : c.kind \in {"accepted", "rejected"} /\ c.price \in S}
<1>1. CallsOf(r)' = CallsOf(r) \union {i \in {n} : c.key[1] = r}
  BY CallAppended DEF CallsOf
<1>2. Unusable(r)' = Unusable(r) \union
         {i \in {n} : c.key[1] = r /\ c.kind \in {"rejected", "timeout"}}
  BY <1>1, CallAppended DEF CallsOf, Unusable
<1>3. Received(S)' = Received(S) \union
         {i \in {n} : c.kind \in {"accepted", "rejected"} /\ c.price \in S}
  BY CallAppended DEF Received
<1>. QED  BY <1>1, <1>2, <1>3

\* The sets of calls are finite.
LEMMA CallsFinite ==
    ASSUME calls \in Seq(Call), NEW r, NEW S
    PROVE  /\ IsFiniteSet(DOMAIN calls) /\ IsFiniteSet(CallsOf(r))
           /\ IsFiniteSet(Unusable(r)) /\ IsFiniteSet(Received(S))
<1>1. IsFiniteSet(DOMAIN calls)
  <2>1. DOMAIN calls = 1..Len(calls) /\ Len(calls) \in Int
    OBVIOUS
  <2>. QED  BY <2>1, FS_Interval
<1>2. /\ CallsOf(r) \in SUBSET DOMAIN calls /\ Unusable(r) \in SUBSET DOMAIN calls
      /\ Received(S) \in SUBSET DOMAIN calls
  BY DEF CallsOf, Unusable, Received
<1>. QED  BY <1>1, <1>2, FS_Subset

\* The prices of the calls.
PricesOf(s) == [i \in DOMAIN s |-> s[i].price]

\* The bill is their sum over the priced answers.
LEMMA BillIsSum == Billed = Total(PricesOf(calls), Received(Prices))
BY DEF Billed, Total, PricesOf

\* In the next state, too.
LEMMA BillIsSumNext == Billed' = Total(PricesOf(calls'), Received(Prices)')
<1>1. (Billed = Total(PricesOf(calls), Received(Prices)))'
  BY BillIsSum, PTL
<1>. QED  BY <1>1 DEF PricesOf

\* A priced answer is added to the bill, and nothing else is.
LEMMA BillGrows ==
    ASSUME calls \in Seq(Call), NEW c \in Call, calls' = Append(calls, c)
    PROVE  /\ Billed \in Nat
           /\ c.kind \in {"accepted", "rejected"} /\ c.price \in Prices
                 => Billed' = Billed + c.price
           /\ ~(c.kind \in {"accepted", "rejected"} /\ c.price \in Prices)
                 => Billed' = Billed
<1>. DEFINE n == Len(calls) + 1
            old == PricesOf(calls)
            new == PricesOf(calls')
            R == Received(Prices)
<1>1. IsFiniteSet(R) /\ R \subseteq DOMAIN calls /\ n \notin R
  BY CallsFinite, CallAppended DEF Received
<1>2. /\ \A i \in R : old[i] = new[i] /\ old[i] \in Nat
      /\ new[n] = c.price /\ n \in DOMAIN calls'
  <2>1. \A i \in R : calls[i].price \in Nat
    BY JudgeAssumption DEF Received
  <2>2. \A i \in DOMAIN calls : i \in DOMAIN calls' /\ calls'[i] = calls[i]
    BY CallAppended
  <2>3. n \in DOMAIN calls' /\ calls'[n] = c
    BY CallAppended
  <2>. QED  BY <1>1, <2>1, <2>2, <2>3 DEF PricesOf
<1>3. Billed = Total(old, R) /\ Total(old, R) = Total(new, R) /\ Total(old, R) \in Nat
  <2>. HIDE DEF old, new, R
  <2>1. Total(old, R) = Total(new, R) /\ Total(old, R) \in Nat
    <3>1. Total(old, R) = Total(new, R)
      BY <1>1, <1>2, TotalSame
    <3>2. Total(old, R) \in Nat
      BY <1>1, <1>2, TotalType
    <3>. QED  BY <3>1, <3>2
  <2>. QED  BY <2>1, BillIsSum DEF old, R
<1>4. CASE c.kind \in {"accepted", "rejected"} /\ c.price \in Prices
  <2>1. Received(Prices)' = R \union {n}
    <3>1. {i \in {n} : c.kind \in {"accepted", "rejected"} /\ c.price \in Prices} = {n}
      BY <1>4
    <3>. HIDE DEF n
    <3>2. Received(Prices)' = R \union
             {i \in {n} : c.kind \in {"accepted", "rejected"} /\ c.price \in Prices}
      BY SetsGrow DEF n
    <3>. QED  BY <3>1, <3>2
  <2>2. Billed' = Total(new, R \union {n})
    BY <2>1, BillIsSumNext
  <2>3. Total(new, R \union {n}) = new[n] + Total(new, (R \union {n}) \ {n})
    <3>1. IsFiniteSet(R \union {n})
      BY <1>1, FS_AddElement
    <3>2. \A i \in R \union {n} : new[i] \in Nat
      BY <1>2, <1>4, JudgeAssumption
    <3>. HIDE DEF old, new, R, n
    <3>. QED  BY <3>1, <3>2, TotalRemove
  <2>4. (R \union {n}) \ {n} = R
    BY <1>1
  <2>5. c.price \in Nat
    BY <1>4, JudgeAssumption
  <2>6. Total(new, R \union {n}) = c.price + Total(new, R)
    BY <1>2, <2>3, <2>4
  <2>. HIDE DEF old, new, R, n
  <2>. QED  BY <1>3, <1>4, <2>2, <2>5, <2>6
<1>5. CASE ~(c.kind \in {"accepted", "rejected"} /\ c.price \in Prices)
  <2>1. Received(Prices)' = R
    <3>1. {i \in {n} : c.kind \in {"accepted", "rejected"} /\ c.price \in Prices} = {}
      BY <1>5
    <3>. HIDE DEF n
    <3>2. Received(Prices)' = R \union
             {i \in {n} : c.kind \in {"accepted", "rejected"} /\ c.price \in Prices}
      BY SetsGrow DEF n
    <3>. QED  BY <3>1, <3>2
  <2>2. Billed' = Total(new, R)
    BY <2>1, BillIsSumNext
  <2>. HIDE DEF old, new, R, n
  <2>. QED  BY <1>3, <1>5, <2>2
<1>. QED  BY <1>3, <1>4, <1>5

\* Calls of one repetition with keys of their own are no more than there are attempts.
LEMMA KeysBound ==
    ASSUME NEW s \in Seq(Call), NEW r, NEW C \in SUBSET DOMAIN s,
           \A i \in C : s[i].key[1] = r,
           \A i, j \in C : s[i].key = s[j].key => i = j
    PROVE  Cardinality(C) <= MaxAttempts
<1>. DEFINE f == [i \in C |-> s[i].key[2]]
<1>1. \A i \in C : s[i].key = <<r, s[i].key[2]>> /\ s[i].key[2] \in 1..MaxAttempts
  <2>. TAKE i \in C
  <2>1. s[i] \in Call
    OBVIOUS
  <2>2. s[i].key \in (1..Repetitions) \X (1..MaxAttempts)
    BY <2>1 DEF Call
  <2>. QED  BY <2>2
<1>2. f \in Injection(C, 1..MaxAttempts)
  <2>1. f \in [C -> 1..MaxAttempts]
    BY <1>1
  <2>2. ASSUME NEW i \in C, NEW j \in C, f[i] = f[j] PROVE i = j
    <3>1. s[i].key = s[j].key
      BY <1>1, <2>2
    <3>. QED  BY <3>1
  <2>. HIDE DEF f
  <2>. QED  BY <2>1, <2>2 DEF Injection, IsInjective
<1>3. MaxAttempts \in Nat /\ MaxAttempts >= 1
  BY JudgeAssumption
<1>4. IsFiniteSet(1..MaxAttempts) /\ Cardinality(1..MaxAttempts) = MaxAttempts
  BY <1>3, FS_Interval
<1>5. Cardinality(C) <= Cardinality(1..MaxAttempts)
  BY <1>2, <1>4, FS_Injection
<1>. QED  BY <1>4, <1>5
-----------------------------------------------------------------------------
(* What comes of a call *)

\* The new call, and what the loop makes of it while it is within the cost limit: one more
\* attempt of the repetition, the end of the judge, the next repetition, or its conclusion.
Asked(c) == c \in Call /\ c.key = Key /\ calls' = Append(calls, c)

Again(c) ==
    /\ c.kind # "accepted" /\ judgement' = "asking" /\ answers' = answers
    /\ place'.repetition = place.repetition /\ place'.attempt = place.attempt + 1
    /\ place'.repairs = place.repairs + (IF c.kind \in {"rejected", "timeout"} THEN 1 ELSE 0)

GivesUp(c) == c.kind # "accepted" /\ judgement' \in {"invalid", "provider"} /\ place' = place

Advances(c) ==
    /\ c.kind = "accepted" /\ judgement' = "asking"
    /\ place' = [repetition |-> place.repetition + 1, attempt |-> 1, repairs |-> 0]
    /\ Len(answers') = place.repetition

Concludes(c) ==
    /\ c.kind = "accepted" /\ judgement' \in {"done", "currencies"} /\ place' = place
    /\ Len(answers') = Repetitions
    /\ judgement' = "done" => Cardinality(tally'.currencies) = 1

Stops(c) ==
    /\ judgement' = "cost_limit" /\ place' = place
    /\ c.kind \in {"accepted", "rejected"} /\ c.price \in Prices
    /\ tally'.cost > CostLimit

Goes(c) ==
    \/ tally'.cost <= CostLimit /\ (Again(c) \/ GivesUp(c) \/ Advances(c) \/ Concludes(c))
    \/ Stops(c)

\* The tally takes the usage of an answer, and nothing of a call without one.
Pays(c) ==
    IF c.kind \in {"accepted", "rejected"} THEN tally' = Charged(c.price, c.currency)
    ELSE tally' = tally

\* A call whose usage is paid keeps the tally.
LEMMA TallyKept ==
    ASSUME JudgeInv, NEW c, Asked(c), Pays(c)
    PROVE  TallyTells'
<1>1. calls \in Seq(Call) /\ c \in Call /\ calls' = Append(calls, c) /\ TallyTells /\ JudgeTypeOK
  BY DEF JudgeInv, Asked
<1>. DEFINE n == Len(calls) + 1
            arrived == c.kind \in {"accepted", "rejected"}
            All == Prices \union {Unpriced}
<1>2. c.price \in All
  BY <1>1 DEF Call
<1>3. tally.cost \in Nat
  BY <1>1 DEF JudgeTypeOK
<1>4. tally'.cost = Billed'
  <2>1. CASE arrived /\ c.price \in Prices
    <3>1. tally'.cost = tally.cost + c.price
      BY <2>1, JudgeAssumption DEF Pays, Charged
    <3>. QED  BY <1>1, <2>1, <3>1, BillGrows DEF TallyTells
  <2>2. CASE ~(arrived /\ c.price \in Prices)
    <3>1. tally'.cost = tally.cost
      BY <1>2, <2>2 DEF Pays, Charged
    <3>. QED  BY <1>1, <2>2, <3>1, BillGrows DEF TallyTells
  <2>. QED  BY <2>1, <2>2
<1>5. tally'.reported <=> Received(Prices)' # {}
  <2>1. Received(Prices)' = Received(Prices) \union {i \in {n} : arrived /\ c.price \in Prices}
    BY <1>1, SetsGrow
  <2>2. tally'.reported <=> tally.reported \/ (arrived /\ c.price \in Prices)
    <3>1. CASE arrived
      <4>1. tally'.reported = (tally.reported \/ c.price # Unpriced)
        BY <3>1 DEF Pays, Charged
      <4>2. c.price # Unpriced <=> c.price \in Prices
        BY <1>2, JudgeAssumption
      <4>. QED  BY <3>1, <4>1, <4>2
    <3>2. CASE ~arrived
      BY <3>2 DEF Pays
    <3>. QED  BY <3>1, <3>2
  <2>. QED  BY <1>1, <2>1, <2>2 DEF TallyTells
<1>6. tally'.currencies = {calls'[i].currency : i \in Received(All)'}
  <2>1. Received(All)' = Received(All) \union {i \in {n} : arrived /\ c.price \in All}
    BY <1>1, CallAppended DEF Received
  <2>2. \A i \in Received(All) : calls'[i] = calls[i]
    BY <1>1, CallAppended DEF Received
  <2>3. calls'[n] = c
    BY <1>1, CallAppended
  <2>4. tally.currencies = {calls[i].currency : i \in Received(All)}
    BY <1>1 DEF TallyTells
  <2>5. {calls'[i].currency : i \in Received(All)} = {calls[i].currency : i \in Received(All)}
    BY <2>2
  <2>6. CASE arrived
    <3>1. tally'.currencies = tally.currencies \union {c.currency}
      BY <2>6 DEF Pays, Charged
    <3>2. Received(All)' = Received(All) \union {n}
      BY <1>2, <2>1, <2>6
    <3>. HIDE DEF n, All
    <3>3. {calls'[i].currency : i \in Received(All) \union {n}}
             = {calls'[i].currency : i \in Received(All)} \union {c.currency}
      BY <2>3
    <3>. QED  BY <2>4, <2>5, <3>1, <3>2, <3>3
  <2>7. CASE ~arrived
    <3>1. tally' = tally
      BY <2>7 DEF Pays
    <3>2. Received(All)' = Received(All)
      BY <2>1, <2>7
    <3>. QED  BY <2>4, <2>5, <3>1, <3>2
  <2>. QED  BY <2>6, <2>7
<1>. QED  BY <1>4, <1>5, <1>6 DEF TallyTells
\* A judge that stopped at its cost limit was within it before the last answer.
LEMMA CostKept ==
    ASSUME JudgeInv, judgement = "asking", NEW c, Asked(c), Goes(c), TallyTells'
    PROVE  /\ (Billed > CostLimit <=> judgement = "cost_limit")'
           /\ judgement' = "cost_limit" =>
                 /\ Len(calls') \in Received(Prices)'
                 /\ Billed' - calls'[Len(calls')].price <= CostLimit
<1>1. /\ calls \in Seq(Call) /\ c \in Call /\ calls' = Append(calls, c)
      /\ Billed <= CostLimit /\ Billed' = tally'.cost /\ CostLimit \in Nat
  <2>1. ~(Billed > CostLimit) /\ calls \in Seq(Call)
    BY DEF JudgeInv, LimitsRespected
  <2>2. Billed \in Nat
    BY <2>1, BillGrows DEF Asked
  <2>. QED  BY <2>1, <2>2, JudgeAssumption DEF Asked, TallyTells
<1>2. Billed \in Nat /\ Billed' \in Nat
  <2>1. c.price \in Prices => c.price \in Nat
    BY JudgeAssumption
  <2>. QED  BY <1>1, <2>1, BillGrows
<1>3. CASE Stops(c)
  <2>1. judgement' = "cost_limit" /\ Billed' > CostLimit
    BY <1>1, <1>3 DEF Stops
  <2>2. Billed' = Billed + c.price /\ c.price \in Nat
    BY <1>1, <1>3, BillGrows, JudgeAssumption DEF Stops
  <2>3. Len(calls') \in Received(Prices)' /\ calls'[Len(calls')] = c
    BY <1>1, <1>3, CallAppended DEF Stops, Received
  <2>. QED  BY <1>1, <1>2, <2>1, <2>2, <2>3
<1>4. CASE ~Stops(c)
  <2>1. Billed' <= CostLimit /\ judgement' # "cost_limit"
    BY <1>1, <1>4 DEF Goes, Again, GivesUp, Advances, Concludes
  <2>. QED  BY <1>1, <1>2, <2>1
<1>. QED  BY <1>3, <1>4

\* Its repetitions keep to their attempts and repairs, with keys of their own.
LEMMA RepetitionKept ==
    ASSUME JudgeInv, judgement = "asking", NEW c, Asked(c), NEW r \in 1..Repetitions
    PROVE  /\ Cardinality(CallsOf(r)') <= MaxAttempts
           /\ Cardinality(Unusable(r)') <= MaxRepairs + 1
           /\ \A i, j \in CallsOf(r)' :
                 /\ calls'[i].key = calls'[j].key => i = j
                 /\ calls'[i].kind = "accepted" => j <= i
<1>. DEFINE n == Len(calls) + 1
<1>1. /\ calls \in Seq(Call) /\ c \in Call /\ calls' = Append(calls, c)
      /\ c.key = <<place.repetition, place.attempt>>
      /\ c.key[1] = place.repetition /\ c.key[2] = place.attempt
      /\ LimitsRespected /\ PlaceTells
      /\ place.repetition \in Nat /\ place.attempt \in Nat
      /\ place.repairs \in Nat /\ place.repairs <= MaxRepairs /\ MaxRepairs \in Nat
  BY JudgeAssumption DEF JudgeInv, Asked, Key, JudgeTypeOK
<1>2. /\ DOMAIN calls' = DOMAIN calls \union {n} /\ n \in Nat /\ n \notin DOMAIN calls
      /\ calls'[n] = c /\ calls' \in Seq(Call)
      /\ \A i \in DOMAIN calls : calls'[i] = calls[i] /\ i \in Nat /\ i < n
  BY <1>1, CallAppended
<1>. HIDE DEF n
<1>3. \A i, j \in CallsOf(r)' :
         /\ calls'[i].key = calls'[j].key => i = j
         /\ calls'[i].kind = "accepted" => j <= i
  <2>0. \A i, j \in CallsOf(r) :
           /\ calls[i].key = calls[j].key => i = j
           /\ calls[i].kind = "accepted" => j <= i
    BY <1>1 DEF LimitsRespected
  <2>1. \A i \in CallsOf(r)' : i = n \/ i \in CallsOf(r)
    BY <1>2 DEF CallsOf
  <2>2. \A i \in CallsOf(r) : i \in DOMAIN calls /\ calls'[i] = calls[i] /\ i < n /\ i \in Nat
    BY <1>2 DEF CallsOf
  <2>3. ASSUME n \in CallsOf(r)', NEW i \in CallsOf(r)
        PROVE  calls[i].key # c.key /\ calls[i].kind # "accepted"
    <3>1. r = place.repetition
      BY <1>1, <1>2, <2>3 DEF CallsOf
    <3>2. calls[i].key[2] < place.attempt /\ calls[i].kind # "accepted"
      BY <1>1, <2>3, <3>1 DEF PlaceTells
    <3>. QED  BY <1>1, <3>2
  <2>. QED  BY <1>2, <2>0, <2>1, <2>2, <2>3
<1>4. Cardinality(CallsOf(r)') <= MaxAttempts
  <2>. DEFINE C == {i \in DOMAIN calls' : calls'[i].key[1] = r}
  <2>1. C = CallsOf(r)'
    BY DEF CallsOf
  <2>2. C \in SUBSET DOMAIN calls' /\ \A i \in C : calls'[i].key[1] = r
    OBVIOUS
  <2>3. \A i, j \in C : calls'[i].key = calls'[j].key => i = j
    BY <1>3, <2>1
  <2>. HIDE DEF C
  <2>4. Cardinality(C) <= MaxAttempts
    BY <1>2, <2>2, <2>3, KeysBound
  <2>. QED  BY <2>1, <2>4
<1>5. Cardinality(Unusable(r)') <= MaxRepairs + 1
  <2>1. CASE r = place.repetition
    <3>1. Unusable(r)' \in SUBSET (Unusable(r) \union {n})
      BY <1>2 DEF Unusable, CallsOf
    <3>2. IsFiniteSet(Unusable(r)) /\ Cardinality(Unusable(r)) = place.repairs
      BY <1>1, <2>1, CallsFinite DEF PlaceTells
    <3>3. /\ IsFiniteSet(Unusable(r) \union {n})
          /\ Cardinality(Unusable(r) \union {n}) <= place.repairs + 1
      <4>1. /\ IsFiniteSet(Unusable(r) \union {n})
            /\ Cardinality(Unusable(r) \union {n}) =
                  IF n \in Unusable(r) THEN place.repairs ELSE place.repairs + 1
        BY <3>2, FS_AddElement
      <4>. QED  BY <1>1, <4>1
    <3>4. IsFiniteSet(Unusable(r)') /\ Cardinality(Unusable(r)') <= Cardinality(Unusable(r) \union {n})
      BY <3>1, <3>3, FS_Subset
    <3>5. /\ Cardinality(Unusable(r)') \in Nat /\ Cardinality(Unusable(r) \union {n}) \in Nat
      BY <3>3, <3>4, FS_CardinalityType
    <3>. QED  BY <1>1, <3>3, <3>4, <3>5
  <2>2. CASE r # place.repetition
    <3>1. Unusable(r)' = Unusable(r)
      BY <1>1, <1>2, <2>2 DEF Unusable, CallsOf
    <3>. QED  BY <1>1, <3>1 DEF LimitsRespected
  <2>. QED  BY <2>1, <2>2
<1>. QED  BY <1>3, <1>4, <1>5

\* The place goes with the calls.
LEMMA PlaceKept ==
    ASSUME JudgeInv, judgement = "asking", NEW c, Asked(c), Goes(c)
    PROVE  PlaceTells'
<1>. DEFINE n == Len(calls) + 1
            rep == place.repetition
<1>1. /\ calls \in Seq(Call) /\ c \in Call /\ calls' = Append(calls, c)
      /\ c.key[1] = rep /\ c.key[2] = place.attempt
      /\ rep \in Nat /\ place.attempt \in Nat /\ place.repairs \in Nat
      /\ \A i \in DOMAIN calls : calls[i].key[1] <= rep
      /\ \A i \in CallsOf(rep) : calls[i].key[2] < place.attempt /\ calls[i].kind # "accepted"
      /\ Cardinality(Unusable(rep)) = place.repairs
      /\ Len(answers) = rep - 1
  BY JudgeAssumption DEF JudgeInv, Asked, Key, JudgeTypeOK, PlaceTells
<1>2. /\ DOMAIN calls' = DOMAIN calls \union {n} /\ n \in Nat /\ n \notin DOMAIN calls
      /\ calls'[n] = c
      /\ \A i \in DOMAIN calls : calls'[i] = calls[i]
  BY <1>1, CallAppended
<1>3. \A i \in DOMAIN calls' : calls'[i].key[1] <= rep /\ calls'[i].key[1] \in Nat
  <2>1. c.key[1] <= rep /\ c.key[1] \in Nat
    BY <1>1
  <2>2. \A i \in DOMAIN calls : calls[i].key[1] \in Nat
    <3>. TAKE i \in DOMAIN calls
    <3>1. calls[i] \in Call
      BY <1>1
    <3>. QED  BY <3>1 DEF Call
  <2>. QED  BY <1>1, <1>2, <2>1, <2>2
<1>. HIDE DEF n
<1>4. CASE judgement' # "asking"
  <2>1. place' = place
    BY <1>4 DEF Goes, Again, GivesUp, Advances, Concludes, Stops
  <2>. QED  BY <1>3, <1>4, <2>1 DEF PlaceTells
<1>5. CASE Again(c)
  <2>1. /\ judgement' = "asking" /\ place'.repetition = rep /\ place'.attempt = place.attempt + 1
        /\ answers' = answers /\ c.kind # "accepted"
    BY <1>5 DEF Again
  <2>2. \A i \in CallsOf(rep)' :
           calls'[i].key[2] < place.attempt + 1 /\ calls'[i].kind # "accepted"
    <3>. SUFFICES ASSUME NEW i \in CallsOf(rep)'
                  PROVE  calls'[i].key[2] < place.attempt + 1 /\ calls'[i].kind # "accepted"
      OBVIOUS
    <3>1. CASE i = n
      BY <1>1, <1>2, <2>1, <3>1
    <3>2. CASE i # n
      <4>1. i \in CallsOf(rep) /\ calls'[i] = calls[i] /\ i \in DOMAIN calls
        BY <1>2, <2>1, <3>2 DEF CallsOf
      <4>2. calls[i].key[2] \in Nat
        <5>1. calls[i] \in Call
          BY <1>1, <4>1
        <5>. QED  BY <5>1, JudgeAssumption DEF Call
      <4>. QED  BY <1>1, <4>1, <4>2
    <3>. QED  BY <3>1, <3>2
  <2>3. Cardinality(Unusable(rep)') = place'.repairs
    <3>1. IsFiniteSet(Unusable(rep)) /\ n \notin Unusable(rep)
      BY <1>1, <1>2, CallsFinite DEF Unusable, CallsOf
    <3>2. CASE c.kind \in {"rejected", "timeout"}
      <4>1. Unusable(rep)' = Unusable(rep) \union {n}
        BY <1>1, <1>2, <2>1, <3>2 DEF Unusable, CallsOf
      <4>2. place'.repairs = place.repairs + 1
        BY <1>5, <3>2 DEF Again
      <4>. QED  BY <1>1, <3>1, <4>1, <4>2, FS_AddElement
    <3>3. CASE c.kind \notin {"rejected", "timeout"}
      <4>1. Unusable(rep)' = Unusable(rep)
        BY <1>1, <1>2, <2>1, <3>3 DEF Unusable, CallsOf
      <4>2. place'.repairs = place.repairs
        BY <1>1, <1>5, <3>3 DEF Again
      <4>. QED  BY <1>1, <4>1, <4>2
    <3>. QED  BY <3>2, <3>3
  <2>4. PlaceTells' <=>
          /\ \A i \in DOMAIN calls' : calls'[i].key[1] <= rep
          /\ \A i \in CallsOf(rep)' :
                calls'[i].key[2] < place.attempt + 1 /\ calls'[i].kind # "accepted"
          /\ Cardinality(Unusable(rep)') = place'.repairs
          /\ Len(answers') = rep - 1
    BY <2>1 DEF PlaceTells, CallsOf, Unusable
  <2>. QED  BY <1>1, <1>3, <2>1, <2>2, <2>3, <2>4
<1>6. CASE Advances(c)
  <2>1. /\ judgement' = "asking" /\ place' = [repetition |-> rep + 1, attempt |-> 1, repairs |-> 0]
        /\ Len(answers') = rep
    BY <1>6 DEF Advances
  <2>2. \A i \in DOMAIN calls' : calls'[i].key[1] # rep + 1 /\ calls'[i].key[1] <= rep + 1
    BY <1>1, <1>3
  <2>3. {i \in DOMAIN calls' : calls'[i].key[1] = rep + 1} = {}
    BY <2>2
  <2>4. place'.repetition = rep + 1 /\ place'.attempt = 1 /\ place'.repairs = 0
    BY <2>1
  <2>5. CallsOf(place.repetition)' = {} /\ Unusable(place.repetition)' = {}
    BY <2>3, <2>4 DEF CallsOf, Unusable
  <2>6. Cardinality(Unusable(place.repetition)') = 0
    BY <2>5, FS_EmptySet
  <2>7. \A i \in DOMAIN calls' : calls'[i].key[1] <= place'.repetition
    BY <2>2, <2>4
  <2>8. Len(answers') = place'.repetition - 1
    BY <1>1, <2>1, <2>4
  <2>. QED  BY <2>4, <2>5, <2>6, <2>7, <2>8 DEF PlaceTells
<1>. QED  BY <1>4, <1>5, <1>6 DEF Goes, GivesUp, Concludes, Stops
\* Every step that is not idle is a call that is paid and goes one of these ways.
LEMMA EveryCallGoes ==
    ASSUME JudgeInv, JudgeNext
    PROVE  judgement = "asking" /\ \E c \in Call : Asked(c) /\ Pays(c) /\ Goes(c)
<1>1. /\ JudgeTypeOK /\ Key \in (1..Repetitions) \X (1..MaxAttempts)
      /\ tally.cost \in Nat /\ CostLimit \in Nat
      /\ place.repetition \in Nat /\ place.attempt \in Nat /\ place.repairs \in Nat
  BY JudgeAssumption DEF JudgeInv, JudgeTypeOK, Key
<1>2. judgement = "asking"
  BY DEF JudgeNext, AnswerAccepted, AnswerRejected, CallTimesOut, ProviderFails
<1>3. tally.cost <= CostLimit /\ Len(answers) = place.repetition - 1
  <2>1. ~(Billed > CostLimit) /\ tally.cost = Billed
    BY <1>2 DEF JudgeInv, LimitsRespected, TallyTells
  <2>. QED  BY <1>1, <1>2, <2>1 DEF JudgeInv, PlaceTells
<1>4. ASSUME NEW p \in Prices \union {Unpriced}, NEW cur
      PROVE  /\ Charged(p, cur).cost \in Nat
             /\ Charged(p, cur).cost > CostLimit => p \in Prices
  BY <1>1, <1>3, JudgeAssumption DEF Charged
<1>5. ASSUME NEW c, RepairOrGiveUp, answers' = answers, c.kind \in {"rejected", "timeout"}
      PROVE  Again(c) \/ GivesUp(c)
  <2>1. CASE place.repairs >= MaxRepairs \/ place.attempt >= MaxAttempts
    BY <1>5, <2>1 DEF RepairOrGiveUp, GivesUp
  <2>2. CASE ~ (place.repairs >= MaxRepairs \/ place.attempt >= MaxAttempts)
    <3>1. /\ place' = [place EXCEPT !.attempt = @ + 1, !.repairs = @ + 1]
          /\ judgement' = judgement
      BY <1>5, <2>2 DEF RepairOrGiveUp
    <3>2. /\ place'.repetition = place.repetition /\ place'.attempt = place.attempt + 1
          /\ place'.repairs = place.repairs + 1
      BY <1>1, <3>1 DEF JudgeTypeOK
    <3>. QED  BY <1>2, <1>5, <3>1, <3>2 DEF Again
  <2>. QED  BY <2>1, <2>2
<1>6. ASSUME NEW p \in Prices \union {Unpriced}, NEW cur \in Currencies, NEW v \in Verdict,
             AnswerAccepted(v, p, cur)
      PROVE  \E c \in Call : Asked(c) /\ Pays(c) /\ Goes(c)
  <2>. DEFINE c == [key |-> Key, kind |-> "accepted", price |-> p, currency |-> cur]
  <2>1. c \in Call /\ c.key = Key /\ c.kind = "accepted" /\ c.price = p /\ c.currency = cur
    BY <1>1 DEF Call, CallKinds
  <2>2. calls' = Append(calls, c) /\ tally' = Charged(p, cur)
    BY <1>6 DEF AnswerAccepted, Called
  <2>. HIDE DEF c
  <2>3. Asked(c) /\ Pays(c) /\ tally'.cost \in Nat
    BY <1>4, <2>1, <2>2 DEF Asked, Pays
  <2>4. CASE OverLimit(tally')
    BY <1>4, <1>6, <2>1, <2>2, <2>3, <2>4 DEF AnswerAccepted, OverLimit, Goes, Stops
  <2>5. CASE ~OverLimit(tally')
    <3>1. answers' = Append(answers, v) /\ Len(answers') = place.repetition
      BY <1>1, <1>3, <1>6, <2>5 DEF AnswerAccepted, JudgeTypeOK
    <3>2. CASE place.repetition = Repetitions
      <4>1. judgement' = Concluded(tally') /\ place' = place
        BY <1>6, <2>5, <3>2 DEF AnswerAccepted
      <4>2. Concludes(c)
        BY <2>1, <3>1, <3>2, <4>1 DEF Concludes, Concluded
      <4>. QED  BY <1>1, <2>1, <2>3, <2>5, <4>2 DEF Goes, OverLimit
    <3>3. CASE place.repetition # Repetitions
      <4>1. /\ judgement' = judgement
            /\ place' = [repetition |-> place.repetition + 1, attempt |-> 1, repairs |-> 0]
        BY <1>6, <2>5, <3>3 DEF AnswerAccepted
      <4>2. Advances(c)
        BY <1>2, <2>1, <3>1, <4>1 DEF Advances
      <4>. QED  BY <1>1, <2>1, <2>3, <2>5, <4>2 DEF Goes, OverLimit
    <3>. QED  BY <3>2, <3>3
  <2>. QED  BY <2>4, <2>5
<1>7. ASSUME NEW p \in Prices \union {Unpriced}, NEW cur \in Currencies, AnswerRejected(p, cur)
      PROVE  \E c \in Call : Asked(c) /\ Pays(c) /\ Goes(c)
  <2>. DEFINE c == [key |-> Key, kind |-> "rejected", price |-> p, currency |-> cur]
  <2>1. c \in Call /\ c.key = Key /\ c.kind = "rejected" /\ c.price = p /\ c.currency = cur
    BY <1>1 DEF Call, CallKinds
  <2>2. calls' = Append(calls, c) /\ tally' = Charged(p, cur)
    BY <1>7 DEF AnswerRejected, Called
  <2>. HIDE DEF c
  <2>3. Asked(c) /\ Pays(c) /\ tally'.cost \in Nat
    BY <1>4, <2>1, <2>2 DEF Asked, Pays
  <2>4. CASE OverLimit(tally')
    BY <1>4, <1>7, <2>1, <2>2, <2>3, <2>4 DEF AnswerRejected, OverLimit, Goes, Stops
  <2>5. CASE ~OverLimit(tally')
    <3>1. RepairOrGiveUp /\ answers' = answers
      BY <1>7, <2>5 DEF AnswerRejected
    <3>. QED  BY <1>1, <1>5, <2>1, <2>3, <2>5, <3>1 DEF Goes, OverLimit
  <2>. QED  BY <2>4, <2>5
<1>8. ASSUME CallTimesOut
      PROVE  \E c \in Call : Asked(c) /\ Pays(c) /\ Goes(c)
  <2>. DEFINE c == [key |-> Key, kind |-> "timeout", price |-> Unpriced, currency |-> "none"]
  <2>1. c \in Call /\ c.key = Key /\ c.kind = "timeout"
    BY <1>1 DEF Call, CallKinds
  <2>2. calls' = Append(calls, c) /\ tally' = tally /\ answers' = answers /\ RepairOrGiveUp
    BY <1>8 DEF CallTimesOut, Called
  <2>. HIDE DEF c
  <2>3. Asked(c) /\ Pays(c)
    BY <2>1, <2>2 DEF Asked, Pays
  <2>. QED  BY <1>3, <1>5, <2>1, <2>2, <2>3 DEF Goes
<1>9. ASSUME NEW r \in BOOLEAN, ProviderFails(r)
      PROVE  \E c \in Call : Asked(c) /\ Pays(c) /\ Goes(c)
  <2>. DEFINE c == [key |-> Key, kind |-> "error", price |-> Unpriced, currency |-> "none"]
  <2>1. c \in Call /\ c.key = Key /\ c.kind = "error"
    BY <1>1 DEF Call, CallKinds
  <2>2. calls' = Append(calls, c) /\ tally' = tally /\ answers' = answers
    BY <1>9 DEF ProviderFails, Called
  <2>. HIDE DEF c
  <2>3. Asked(c) /\ Pays(c)
    BY <2>1, <2>2 DEF Asked, Pays
  <2>4. CASE ~r \/ place.attempt >= MaxAttempts
    <3>1. GivesUp(c)
      BY <1>9, <2>1, <2>4 DEF ProviderFails, GivesUp
    <3>. QED  BY <1>3, <2>1, <2>2, <2>3, <3>1 DEF Goes
  <2>5. CASE ~ (~r \/ place.attempt >= MaxAttempts)
    <3>1. place' = [place EXCEPT !.attempt = @ + 1] /\ judgement' = judgement
      BY <1>9, <2>5 DEF ProviderFails
    <3>2. /\ place'.repetition = place.repetition /\ place'.attempt = place.attempt + 1
          /\ place'.repairs = place.repairs + 0
      BY <1>1, <3>1 DEF JudgeTypeOK
    <3>3. Again(c)
      BY <1>2, <2>1, <2>2, <3>1, <3>2 DEF Again
    <3>. QED  BY <1>3, <2>1, <2>2, <2>3, <3>3 DEF Goes
  <2>. QED  BY <2>4, <2>5
<1>. QED  BY <1>2, <1>6, <1>7, <1>8, <1>9 DEF JudgeNext

\* At first there are no calls.
LEMMA JudgeStarts == JudgeInit => JudgeInv
<1>. SUFFICES ASSUME JudgeInit PROVE JudgeInv
  OBVIOUS
<1>1. /\ calls = << >> /\ answers = << >> /\ judgement = "asking"
      /\ place = [repetition |-> 1, attempt |-> 1, repairs |-> 0]
      /\ tally = [cost |-> 0, reported |-> FALSE, currencies |-> {}]
  BY DEF JudgeInit
<1>2. JudgeTypeOK
  BY <1>1, JudgeAssumption DEF JudgeTypeOK, Outcomes
<1>0. DOMAIN calls = {}
  BY <1>1
<1>3. \A S : Received(S) = {}
  BY <1>0 DEF Received
<1>4. \A r : CallsOf(r) = {} /\ Unusable(r) = {}
  BY <1>0 DEF CallsOf, Unusable
<1>5. Billed = 0
  BY <1>3, BillIsSum, TotalOfNone
<1>6. Cardinality({}) = 0
  BY FS_EmptySet
<1>7. TallyTells
  BY <1>1, <1>3, <1>5 DEF TallyTells
<1>8. PlaceTells /\ DoneTells
  <2>1. place.repetition = 1 /\ place.repairs = 0 /\ Len(answers) = 0 /\ judgement # "done"
    BY <1>1
  <2>2. CallsOf(place.repetition) = {} /\ Cardinality(Unusable(place.repetition)) = 0
    BY <1>4, <1>6
  <2>. QED  BY <1>0, <2>1, <2>2 DEF PlaceTells, DoneTells
<1>9. LimitsRespected
  <2>1. MaxAttempts >= 0 /\ MaxRepairs + 1 >= 0 /\ ~(0 > CostLimit)
    BY JudgeAssumption
  <2>2. ASSUME NEW r \in 1..Repetitions
        PROVE  /\ Cardinality(CallsOf(r)) <= MaxAttempts
               /\ Cardinality(Unusable(r)) <= MaxRepairs + 1
               /\ CallsOf(r) = {}
    <3>1. Cardinality(CallsOf(r)) = 0 /\ Cardinality(Unusable(r)) = 0
      BY <1>4, <1>6
    <3>. QED  BY <1>4, <2>1, <3>1
  <2>. QED  BY <1>1, <1>5, <2>1, <2>2 DEF LimitsRespected
<1>10. calls \in Seq(Call)
  BY <1>1
<1>. QED  BY <1>2, <1>7, <1>8, <1>9, <1>10 DEF JudgeInv

\* And every call keeps the invariant.
LEMMA JudgeKept == JudgeInv /\ [JudgeNext]_judgeVars => JudgeInv'
<1>. SUFFICES ASSUME JudgeInv, [JudgeNext]_judgeVars PROVE JudgeInv'
  OBVIOUS
<1>1. JudgeTypeOK'
  BY JudgeTypeKept DEF JudgeInv
<1>2. CASE JudgeNext
  <2>1. judgement = "asking" /\ \E c \in Call : Asked(c) /\ Pays(c) /\ Goes(c)
    BY <1>2, EveryCallGoes
  <2>2. PICK c \in Call : Asked(c) /\ Pays(c) /\ Goes(c)
    BY <2>1
  <2>3. TallyTells'
    BY <2>2, TallyKept
  <2>4. PlaceTells'
    BY <2>1, <2>2, PlaceKept
  <2>5. calls' \in Seq(Call)
    BY <2>2, CallAppended DEF Asked, JudgeInv
  <2>6. DoneTells'
    BY <2>2 DEF DoneTells, Goes, Again, GivesUp, Advances, Concludes, Stops
  <2>7. LimitsRespected'
    <3>1. /\ (Billed > CostLimit <=> judgement = "cost_limit")'
          /\ judgement' = "cost_limit" =>
                /\ Len(calls') \in Received(Prices)'
                /\ Billed' - calls'[Len(calls')].price <= CostLimit
      BY <2>1, <2>2, <2>3, CostKept
    <3>2. \A r \in 1..Repetitions :
             /\ Cardinality(CallsOf(r)') <= MaxAttempts
             /\ Cardinality(Unusable(r)') <= MaxRepairs + 1
             /\ \A i, j \in CallsOf(r)' :
                   /\ calls'[i].key = calls'[j].key => i = j
                   /\ calls'[i].kind = "accepted" => j <= i
      BY <2>1, <2>2, RepetitionKept DEF CallsOf, Unusable
    <3>. QED  BY <3>1, <3>2 DEF LimitsRespected
  <2>. QED  BY <1>1, <2>3, <2>4, <2>5, <2>6, <2>7 DEF JudgeInv
<1>3. CASE UNCHANGED judgeVars
  <2>1. /\ place' = place /\ answers' = answers /\ tally' = tally /\ calls' = calls
        /\ judgement' = judgement
    BY <1>3 DEF judgeVars
  <2>2. Received(Prices)' = Received(Prices) /\ Billed' = Billed
    <3>1. Received(Prices)' = Received(Prices)
      BY <2>1 DEF Received
    <3>. QED  BY <2>1, <3>1, BillIsSum, BillIsSumNext
  <2>3. TallyTells'
    BY <2>1, <2>2 DEF JudgeInv, TallyTells, Received
  <2>4. PlaceTells' /\ DoneTells'
    BY <2>1 DEF JudgeInv, PlaceTells, DoneTells, CallsOf, Unusable
  <2>5. LimitsRespected'
    <3>1. LimitsRespected
      BY DEF JudgeInv
    <3>2. ASSUME NEW r \in 1..Repetitions
          PROVE  /\ Cardinality(CallsOf(r)') <= MaxAttempts
                 /\ Cardinality(Unusable(r)') <= MaxRepairs + 1
                 /\ \A i, j \in CallsOf(r)' :
                       /\ calls'[i].key = calls'[j].key => i = j
                       /\ calls'[i].kind = "accepted" => j <= i
      <4>1. CallsOf(r)' = CallsOf(r)
        BY <2>1 DEF CallsOf
      <4>2. Unusable(r)' = Unusable(r)
        BY <2>1 DEF CallsOf, Unusable
      <4>. QED  BY <2>1, <3>1, <4>1, <4>2 DEF LimitsRespected
    <3>. QED  BY <2>1, <2>2, <3>1, <3>2 DEF LimitsRespected
  <2>. QED  BY <1>1, <2>1, <2>3, <2>4, <2>5 DEF JudgeInv
<1>. QED  BY <1>2, <1>3

\* However the calls of a judge end and whatever they cost, attempts, repairs and keys
\* stay within the configuration, and the bill, but for the last answer, within the limit.
THEOREM LimitsHold == JudgeSpec => []LimitsRespected
<1>1. JudgeInv => LimitsRespected
  BY DEF JudgeInv
<1>. QED  BY <1>1, JudgeStarts, JudgeKept, PTL DEF JudgeSpec

\* A finished evaluation reports what all its answers cost, in one currency.
THEOREM UsageReported == JudgeSpec => []UsageIsComplete
<1>1. JudgeInv => UsageIsComplete
  <2>. SUFFICES ASSUME JudgeInv, judgement = "done" PROVE UsageIsComplete
    BY DEF UsageIsComplete
  <2>1. TallyTells /\ Len(answers) = Repetitions /\ Cardinality(tally.currencies) = 1
    BY DEF JudgeInv, DoneTells
  <2>. DEFINE All == Received(Prices \union {Unpriced})
              Used == {calls[i].currency : i \in All}
  <2>2. IsFiniteSet(Used)
    <3>1. IsFiniteSet(All)
      BY CallsFinite DEF JudgeInv
    <3>2. [i \in All |-> calls[i].currency] \in Surjection(All, Used)
      BY DEF Surjection
    <3>. HIDE DEF All, Used
    <3>. QED  BY <3>1, <3>2, FS_Surjection
  <2>3. tally.currencies = Used
    BY <2>1 DEF TallyTells
  <2>4. \E x : Used = {x}
    <3>. HIDE DEF Used
    <3>. QED  BY <2>1, <2>2, <2>3, FS_Singleton
  <2>5. \A i, j \in All : calls[i].currency = calls[j].currency
    BY <2>4
  <2>. QED  BY <2>1, <2>5 DEF UsageIsComplete, TallyTells
<1>. QED  BY <1>1, JudgeStarts, JudgeKept, PTL DEF JudgeSpec

-----------------------------------------------------------------------------
(* Judgments: the invariant *)

Requests == 1..Submissions

\* How far a request is.
RequestStages == {"waiting", "checked", "inserted", "created", "ended"}

JudgmentsTypeOK ==
    /\ stored \in SUBSET Rows /\ IsFiniteSet(stored)
    /\ asked \in [Requests -> [at : RequestStages, row : Rows]]

\* Rows that are stored or about to be have keys of their own.
KeysUnique ==
    /\ \A r, s \in stored : Clash(r, s) => r = s
    /\ \A p \in Pending :
          /\ \A r \in stored : ~Clash(r, asked[p].row)
          /\ \A q \in Pending : Clash(asked[p].row, asked[q].row) => p = q

\* What a row that was looked up refers to is there, and stays there.
RefersToStored ==
    /\ \A r \in stored : \A kind \in Refers(r) : \E s \in stored : s.kind = kind
    /\ \A q \in Requests :
          asked[q].at \in {"checked", "inserted"} =>
              \A kind \in Refers(asked[q].row) : \E s \in stored : s.kind = kind

\* The rows are those of the requests that committed.
RowsAreCreations ==
    /\ \A q \in Requests : asked[q].at = "created" => asked[q].row \in stored
    /\ \A r \in stored :
          r = DesignRow \/ \E q \in Requests : asked[q].at = "created" /\ asked[q].row = r

JudgmentsInv == JudgmentsTypeOK /\ KeysUnique /\ RefersToStored /\ RowsAreCreations

\* The rows of a study have the fields of their kind.
LEMMA RowFields ==
    /\ DesignRow \in Rows /\ Waiting \in [at : RequestStages, row : Rows]
    /\ Ended \in [at : RequestStages, row : Rows] /\ Ended.at = "ended" /\ Waiting.at = "waiting"
    /\ \A r \in JudgmentRows :
          /\ r.kind = "judgment" /\ r.assignment \in Assignments /\ r.judge \in Judges
          /\ r.verdict \in Verdict
          /\ UniqueKey(r) = <<"judgment", r.assignment, r.judge>>
<1>1. DesignRow \in Rows
  BY DEF Rows
<1>2. Waiting \in [at : RequestStages, row : Rows] /\ Waiting.at = "waiting"
  BY <1>1 DEF Waiting, RequestStages
<1>3. Ended = [at |-> "ended", row |-> DesignRow]
  BY DEF Ended, Waiting
<1>4. Ended \in [at : RequestStages, row : Rows] /\ Ended.at = "ended"
  BY <1>1, <1>3 DEF RequestStages
<1>5. \A r \in JudgmentRows :
         /\ r.kind = "judgment" /\ r.assignment \in Assignments /\ r.judge \in Judges
         /\ r.verdict \in Verdict
         /\ UniqueKey(r) = <<"judgment", r.assignment, r.judge>>
  BY DEF JudgmentRows, UniqueKey
<1>. QED  BY <1>1, <1>2, <1>4, <1>5

\* At first there is nothing but a design, or not even that.
LEMMA JudgmentsStart == JudgmentsInit => JudgmentsInv
<1>. SUFFICES ASSUME JudgmentsInit PROVE JudgmentsInv
  OBVIOUS
<1>1. stored \in {{}, {DesignRow}} /\ \A q \in Requests : asked[q] = Waiting
  BY DEF JudgmentsInit, Requests
<1>2. asked \in [Requests -> [at : RequestStages, row : Rows]]
  BY RowFields DEF JudgmentsInit, Requests
<1>3. IsFiniteSet(stored) /\ stored \in SUBSET Rows
  <2>1. IsFiniteSet({}) /\ IsFiniteSet({DesignRow})
    BY FS_EmptySet, FS_Singleton
  <2>. QED  BY <1>1, <2>1, RowFields
<1>4. Pending = {} /\ \A q \in Requests : asked[q].at = "waiting"
  BY <1>1, RowFields DEF Pending, Requests
<1>5. Refers(DesignRow) = {}
  BY DEF Refers, DesignRow
<1>6. KeysUnique /\ RowsAreCreations
  BY <1>1, <1>4 DEF KeysUnique, RowsAreCreations
<1>7. RefersToStored
  BY <1>1, <1>4, <1>5 DEF RefersToStored
<1>. QED  BY <1>2, <1>3, <1>6, <1>7 DEF JudgmentsInv, JudgmentsTypeOK

\* A request that ends without a row, or has looked up, or waits on: a change of one
\* request that stores nothing, and inserts nothing but what is new, keeps the invariant.
LEMMA RequestKept ==
    ASSUME JudgmentsInv, NEW q \in Requests, stored' = stored, asked[q].at # "created",
           NEW e \in [at : RequestStages, row : Rows], asked' = [asked EXCEPT ![q] = e],
           e.at # "created",
           e.at \in {"checked", "inserted"} =>
               \A kind \in Refers(e.row) : \E s \in stored : s.kind = kind,
           e.at = "inserted" =>
               /\ \A r \in stored : ~Clash(r, e.row)
               /\ \A p \in Pending : ~Clash(asked[p].row, e.row)
    PROVE  JudgmentsInv'
<1>1. /\ JudgmentsTypeOK /\ KeysUnique /\ RefersToStored /\ RowsAreCreations
      /\ asked'[q] = e /\ \A p \in Requests \ {q} : asked'[p] = asked[p]
      /\ asked' \in [Requests -> [at : RequestStages, row : Rows]]
  BY DEF JudgmentsInv, JudgmentsTypeOK
<1>2. JudgmentsTypeOK'
  BY <1>1 DEF JudgmentsTypeOK
<1>3. RefersToStored'
  BY <1>1 DEF RefersToStored
<1>4. RowsAreCreations'
  BY <1>1 DEF RowsAreCreations
<1>5. \A p \in Pending' :
         \/ p = q /\ e.at = "inserted"
         \/ p # q /\ p \in Pending /\ asked'[p] = asked[p]
  BY <1>1 DEF Pending, Requests
<1>6. KeysUnique'
  <2>1. \A p \in Pending' : \A r \in stored : ~Clash(r, asked'[p].row)
    BY <1>1, <1>5 DEF KeysUnique
  <2>2. \A p, u \in Pending' : Clash(asked'[p].row, asked'[u].row) => p = u
    BY <1>1, <1>5 DEF KeysUnique, Clash
  <2>. QED  BY <1>1, <2>1, <2>2 DEF KeysUnique
<1>. QED  BY <1>2, <1>3, <1>4, <1>6 DEF JudgmentsInv

\* A commit stores the row whose key was kept for it.
LEMMA CommitKept ==
    ASSUME JudgmentsInv, NEW q \in Requests, CommitRow(q)
    PROVE  JudgmentsInv'
<1>. DEFINE row == asked[q].row
            e == [asked[q] EXCEPT !.at = "created"]
<1>1. /\ JudgmentsTypeOK /\ KeysUnique /\ RefersToStored /\ RowsAreCreations
      /\ asked[q].at = "inserted" /\ stored' = stored \union {row}
      /\ asked \in [Requests -> [at : RequestStages, row : Rows]]
  BY DEF JudgmentsInv, JudgmentsTypeOK, CommitRow
<1>2. /\ asked' = [asked EXCEPT ![q] = e]
      /\ e \in [at : RequestStages, row : Rows] /\ e.at = "created" /\ e.row = row
  BY <1>1 DEF CommitRow, Moves, RequestStages
<1>3. /\ asked'[q] = e /\ \A p \in Requests \ {q} : asked'[p] = asked[p]
      /\ asked' \in [Requests -> [at : RequestStages, row : Rows]]
  BY <1>1, <1>2
<1>4. q \in Pending /\ row \in Rows
  BY <1>1 DEF Pending, Requests
<1>. HIDE DEF row, e
<1>5. JudgmentsTypeOK'
  BY <1>1, <1>3, <1>4, FS_AddElement DEF JudgmentsTypeOK
<1>6. RowsAreCreations'
  BY <1>1, <1>2, <1>3 DEF RowsAreCreations
<1>7. RefersToStored'
  <2>1. \A kind \in Refers(row) : \E s \in stored : s.kind = kind
    BY <1>1 DEF RefersToStored, row
  <2>. QED  BY <1>1, <1>2, <1>3, <2>1 DEF RefersToStored
<1>8. \A p \in Pending' : p # q /\ p \in Pending /\ asked'[p] = asked[p]
  BY <1>1, <1>2, <1>3 DEF Pending, Requests
<1>9. KeysUnique'
  <2>1. \A r \in stored : ~Clash(r, row)
    BY <1>1, <1>4 DEF KeysUnique, row
  <2>2. \A p \in Pending : p # q => ~Clash(asked[p].row, row)
    BY <1>1, <1>4 DEF KeysUnique, row
  <2>3. \A r, s \in stored' : Clash(r, s) => r = s
    BY <1>1, <2>1 DEF KeysUnique, Clash
  <2>4. \A p \in Pending' : \A r \in stored' : ~Clash(r, asked'[p].row)
    BY <1>1, <1>8, <2>2 DEF KeysUnique, Clash
  <2>5. \A p, u \in Pending' : Clash(asked'[p].row, asked'[u].row) => p = u
    BY <1>1, <1>8 DEF KeysUnique
  <2>. QED  BY <2>3, <2>4, <2>5 DEF KeysUnique
<1>. QED  BY <1>5, <1>6, <1>7, <1>9 DEF JudgmentsInv

\* Every step of the requests keeps the invariant.
LEMMA JudgmentsKept == JudgmentsInv /\ [JudgmentsNext]_judgmentVars => JudgmentsInv'
<1>. SUFFICES ASSUME JudgmentsInv, [JudgmentsNext]_judgmentVars PROVE JudgmentsInv'
  OBVIOUS
<1>0. /\ RefersToStored /\ asked \in [Requests -> [at : RequestStages, row : Rows]]
      /\ Ended.at \notin {"created", "checked", "inserted"}
      /\ Ended \in [at : RequestStages, row : Rows]
  BY RowFields DEF JudgmentsInv, JudgmentsTypeOK
<1>1. ASSUME NEW q \in Requests, asked[q].at # "created", stored' = stored,
             asked' = [asked EXCEPT ![q] = Ended]
      PROVE  JudgmentsInv'
  BY <1>0, <1>1, RequestKept
<1>2. ASSUME NEW q \in Requests, RefuseBody(q) \/ RollBack(q)
      PROVE  JudgmentsInv'
  BY <1>1, <1>2 DEF RefuseBody, RollBack
<1>3. ASSUME NEW q \in Requests, NEW row \in Rows, LookUp(q, row) PROVE JudgmentsInv'
  <2>1. CASE \A kind \in Refers(row) : \E r \in stored : r.kind = kind
    <3>. DEFINE e == [at |-> "checked", row |-> row]
    <3>1. asked' = [asked EXCEPT ![q] = e] /\ stored' = stored /\ asked[q].at = "waiting"
      BY <1>3, <2>1 DEF LookUp
    <3>2. e \in [at : RequestStages, row : Rows] /\ e.at = "checked" /\ e.row = row
      BY DEF RequestStages
    <3>. HIDE DEF e
    <3>. QED  BY <2>1, <3>1, <3>2, RequestKept
  <2>2. CASE ~ \A kind \in Refers(row) : \E r \in stored : r.kind = kind
    <3>1. asked' = [asked EXCEPT ![q] = Ended] /\ stored' = stored /\ asked[q].at = "waiting"
      BY <1>3, <2>2 DEF LookUp
    <3>. QED  BY <1>1, <3>1
  <2>. QED  BY <2>1, <2>2
<1>4. ASSUME NEW q \in Requests, Insert(q) PROVE JudgmentsInv'
  <2>0. /\ asked[q].at = "checked" /\ stored' = stored
        /\ \A p \in Pending : ~Clash(asked[p].row, asked[q].row)
    BY <1>4 DEF Insert
  <2>1. CASE \E r \in stored : Clash(r, asked[q].row)
    <3>1. asked' = [asked EXCEPT ![q] = Ended]
      BY <1>4, <2>1 DEF Insert
    <3>. QED  BY <1>1, <2>0, <3>1
  <2>2. CASE ~ \E r \in stored : Clash(r, asked[q].row)
    <3>. DEFINE e == [asked[q] EXCEPT !.at = "inserted"]
    <3>1. asked' = [asked EXCEPT ![q] = e]
      BY <1>4, <2>2 DEF Insert, Moves
    <3>2. e \in [at : RequestStages, row : Rows] /\ e.at = "inserted" /\ e.row = asked[q].row
      BY <1>0 DEF RequestStages
    <3>3. \A kind \in Refers(e.row) : \E s \in stored : s.kind = kind
      BY <1>0, <2>0, <3>2 DEF RefersToStored
    <3>4. /\ \A r \in stored : ~Clash(r, e.row)
          /\ \A p \in Pending : ~Clash(asked[p].row, e.row)
      BY <2>0, <2>2, <3>2
    <3>. HIDE DEF e
    <3>. QED  BY <2>0, <3>1, <3>2, <3>3, <3>4, RequestKept
  <2>. QED  BY <2>1, <2>2
<1>5. ASSUME NEW q \in Requests, CommitRow(q) PROVE JudgmentsInv'
  BY <1>5, CommitKept
<1>6. CASE UNCHANGED judgmentVars
  BY <1>6 DEF judgmentVars, JudgmentsInv, JudgmentsTypeOK, KeysUnique, RefersToStored,
              RowsAreCreations, Pending
<1>. QED  BY <1>2, <1>3, <1>4, <1>5, <1>6 DEF JudgmentsNext, Requests
-----------------------------------------------------------------------------
(* Judgments: the counts *)

\* The judgments with some verdicts of some assignments.
Those(verdicts, some) ==
    {r \in Judgment : r.verdict \in verdicts /\ r.assignment \in some}

\* A count is a number; sets of verdicts that share none are counted apart, and counting
\* more verdicts or assignments finds no fewer.
LEMMA CountsAdd ==
    ASSUME JudgmentsInv, NEW V, NEW W, NEW S
    PROVE  /\ IsFiniteSet(Judgment) /\ IsFiniteSet(Those(V, S))
           /\ CountOf(V, S) = Cardinality(Those(V, S)) /\ CountOf(V, S) \in Nat
           /\ V \cap W = {} => CountOf(V \union W, S) = CountOf(V, S) + CountOf(W, S)
           /\ V \subseteq W => CountOf(V, S) <= CountOf(W, S)
           /\ V \subseteq W => (CountOf(V, S) = CountOf(W, S) <=> Those(V, S) = Those(W, S))
<1>1. IsFiniteSet(Judgment)
  <2>1. IsFiniteSet(stored) /\ Judgment \in SUBSET stored
    BY DEF JudgmentsInv, JudgmentsTypeOK, Judgment
  <2>. QED  BY <2>1, FS_Subset
<1>2. \A X : IsFiniteSet(Those(X, S))
  <2>. TAKE X
  <2>1. Those(X, S) \in SUBSET Judgment
    BY DEF Those
  <2>. QED  BY <1>1, <2>1, FS_Subset
<1>3. \A X : CountOf(X, S) = Cardinality(Those(X, S))
  BY DEF CountOf, Those
<1>4. \A X : CountOf(X, S) \in Nat
  BY <1>2, <1>3, FS_CardinalityType
<1>5. ASSUME V \cap W = {} PROVE CountOf(V \union W, S) = CountOf(V, S) + CountOf(W, S)
  <2>1. Those(V \union W, S) = Those(V, S) \union Those(W, S)
    BY DEF Those
  <2>2. Those(V, S) \cap Those(W, S) = {}
    BY <1>5 DEF Those
  <2>3. IsFiniteSet(Those(V, S)) /\ IsFiniteSet(Those(W, S))
    BY <1>2
  <2>. DEFINE A == Those(V, S)
              B == Those(W, S)
  <2>4. A \cap B = {} /\ IsFiniteSet(A) /\ IsFiniteSet(B)
    BY <2>2, <2>3
  <2>5. Cardinality(A) \in Nat /\ Cardinality(B) \in Nat /\ Cardinality({}) = 0
    BY <2>4, FS_CardinalityType, FS_EmptySet
  <2>. HIDE DEF A, B
  <2>6. Cardinality(A \union B) = Cardinality(A) + Cardinality(B) - Cardinality(A \cap B)
    BY <2>4, FS_Union
  <2>7. Cardinality(A \cap B) = 0
    BY <2>4, <2>5
  <2>8. Cardinality(A \union B) = Cardinality(A) + Cardinality(B)
    BY <2>5, <2>6, <2>7
  <2>. QED  BY <1>3, <2>1, <2>8 DEF A, B
<1>6. ASSUME V \subseteq W
      PROVE  /\ CountOf(V, S) <= CountOf(W, S)
             /\ CountOf(V, S) = CountOf(W, S) <=> Those(V, S) = Those(W, S)
  <2>1. Those(V, S) \in SUBSET Those(W, S) /\ IsFiniteSet(Those(W, S))
    BY <1>2, <1>6 DEF Those
  <2>2. /\ Cardinality(Those(V, S)) <= Cardinality(Those(W, S))
        /\ Cardinality(Those(V, S)) = Cardinality(Those(W, S)) => Those(V, S) = Those(W, S)
    BY <2>1, FS_Subset
  <2>. QED  BY <1>3, <2>2
<1>. QED  BY <1>1, <1>2, <1>3, <1>4, <1>5, <1>6

\* Usable judgments and abstentions are all there are, and each usable one is a win of a
\* displayed position or a tie.
LEMMA CountsMakeUp ==
    ASSUME JudgmentsInv
    PROVE  /\ UsableCount + CountOf({"abstain"}, Assignments) = Cardinality(Judgment)
           /\ TwiceWins("A") + TwiceWins("B") = 2 * UsableCount
<1>1. Decided = {"A", "B", "tie"} /\ Verdict = Decided \union {"abstain"}
  BY DEF Decided, Verdict
<1>2. CountOf(Verdict, Assignments) = UsableCount + CountOf({"abstain"}, Assignments)
  <2>1. Decided \cap {"abstain"} = {}
    BY <1>1
  <2>. QED  BY <1>1, <2>1, CountsAdd DEF UsableCount
<1>3. CountOf(Verdict, Assignments) = Cardinality(Judgment)
  <2>1. Those(Verdict, Assignments) = Judgment
    BY RowFields DEF Those, Judgment
  <2>. QED  BY <2>1, CountsAdd
<1>4. UsableCount = CountOf({"A"}, Assignments) + CountOf({"B"}, Assignments)
                       + CountOf({"tie"}, Assignments)
  <2>1. {"A"} \cap {"B"} = {} /\ ({"A"} \union {"B"}) \cap {"tie"} = {}
    OBVIOUS
  <2>2. Decided = ({"A"} \union {"B"}) \union {"tie"}
    BY <1>1
  <2>3. UsableCount = CountOf(({"A"} \union {"B"}) \union {"tie"}, Assignments)
    BY <2>2 DEF UsableCount
  <2>4. CountOf({"A"} \union {"B"}, Assignments)
           = CountOf({"A"}, Assignments) + CountOf({"B"}, Assignments)
    BY <2>1, CountsAdd
  <2>5. CountOf(({"A"} \union {"B"}) \union {"tie"}, Assignments)
           = CountOf({"A"} \union {"B"}, Assignments) + CountOf({"tie"}, Assignments)
    BY <2>1, CountsAdd
  <2>. QED  BY <2>3, <2>4, <2>5
<1>5. /\ CountOf({"A"}, Assignments) \in Nat /\ CountOf({"B"}, Assignments) \in Nat
      /\ CountOf({"tie"}, Assignments) \in Nat
  BY CountsAdd
<1>6. /\ TwiceWins("A") = 2 * CountOf({"A"}, Assignments) + CountOf({"tie"}, Assignments)
      /\ TwiceWins("B") = 2 * CountOf({"B"}, Assignments) + CountOf({"tie"}, Assignments)
  BY DEF TwiceWins
<1>7. TwiceWins("A") + TwiceWins("B") = 2 * UsableCount
  BY <1>4, <1>5, <1>6
<1>. QED  BY <1>2, <1>3, <1>7

\* The most frequent verdict of an assignment leaves no dissent exactly if it is the only one.
LEMMA DissentTells ==
    ASSUME JudgmentsInv, NEW a \in Assignments, CountOf(Decided, {a}) > 0
    PROVE  Dissent[a] = 0 <=>
              \A r, s \in Those(Decided, {a}) : r.verdict = s.verdict
<1>. DEFINE most == Max({CountOf({v}, {a}) : v \in Decided})
            f == [v \in Decided |-> CountOf({v}, {a})]
<1>1. Dissent[a] = CountOf(Decided, {a}) - most
  BY DEF Dissent
<1>2. f \in [Decided -> Nat]
  BY CountsAdd
<1>3. PICK v \in Decided : \A u \in Decided : f[v] >= f[u]
  <2>1. Decided \subseteq Decided /\ Decided # {}
    BY DEF Decided, Verdict
  <2>. HIDE DEF f
  <2>. QED  BY <1>2, <2>1, LargestOf
<1>4. most = CountOf({v}, {a})
  <2>1. \A u \in Decided : CountOf({u}, {a}) \in Nat
    BY CountsAdd
  <2>2. \A u \in Decided : CountOf({v}, {a}) >= CountOf({u}, {a})
    BY <1>3
  <2>. DEFINE T == {CountOf({u}, {a}) : u \in Decided}
  <2>3. CountOf({v}, {a}) \in T /\ \A y \in T : CountOf({v}, {a}) >= y /\ y \in Nat
    BY <1>3, <2>1, <2>2
  <2>. HIDE DEF T
  <2>4. Max(T) \in T /\ \A y \in T : Max(T) >= y
    BY <2>3 DEF Max
  <2>5. Max(T) = CountOf({v}, {a})
    BY <2>3, <2>4
  <2>. QED  BY <2>5 DEF T
<1>5. CountOf({v}, {a}) \in Nat /\ CountOf(Decided, {a}) \in Nat
  BY CountsAdd
<1>6. {v} \subseteq Decided
  BY <1>3
<1>7. Dissent[a] = 0 <=> Those({v}, {a}) = Those(Decided, {a})
  <2>1. Dissent[a] = 0 <=> CountOf({v}, {a}) = CountOf(Decided, {a})
    BY <1>1, <1>4, <1>5
  <2>2. CountOf({v}, {a}) = CountOf(Decided, {a}) <=> Those({v}, {a}) = Those(Decided, {a})
    BY <1>6, CountsAdd
  <2>. QED  BY <2>1, <2>2
<1>8. ASSUME Those({v}, {a}) = Those(Decided, {a})
      PROVE  \A r, s \in Those(Decided, {a}) : r.verdict = s.verdict
  BY <1>8 DEF Those
<1>9. ASSUME \A r, s \in Those(Decided, {a}) : r.verdict = s.verdict
      PROVE  Those({v}, {a}) = Those(Decided, {a})
  <2>1. Those(Decided, {a}) # {}
    <3>1. CountOf(Decided, {a}) = Cardinality(Those(Decided, {a}))
      BY CountsAdd
    <3>. QED  BY <3>1, FS_EmptySet
  <2>2. PICK r \in Those(Decided, {a}) : TRUE
    BY <2>1
  <2>3. r.verdict \in Decided /\ Those({r.verdict}, {a}) = Those(Decided, {a})
    BY <1>9, <2>2 DEF Those
  <2>4. CountOf({r.verdict}, {a}) = CountOf(Decided, {a})
    BY <2>3, CountsAdd
  <2>5. CountOf({v}, {a}) >= CountOf({r.verdict}, {a}) /\ CountOf({v}, {a}) <= CountOf(Decided, {a})
    BY <1>3, <1>6, <2>3, CountsAdd
  <2>6. CountOf({v}, {a}) = CountOf(Decided, {a})
    BY <1>5, <2>4, <2>5
  <2>7. CountOf({v}, {a}) = CountOf(Decided, {a}) <=> Those({v}, {a}) = Those(Decided, {a})
    BY <1>6, CountsAdd
  <2>. QED  BY <2>6, <2>7
<1>. QED  BY <1>7, <1>8, <1>9
\* Every row but the design is the creation of a request of its own.
LEMMA RowsHaveRequests ==
    ASSUME JudgmentsInv
    PROVE  Cardinality(stored \ {DesignRow})
              <= Cardinality({q \in 1..Submissions : asked[q].at = "created"})
<1>. DEFINE Created == {q \in 1..Submissions : asked[q].at = "created"}
            New == stored \ {DesignRow}
            f == [q \in Created |-> asked[q].row]
            Made == {asked[q].row : q \in Created}
<1>1. IsFiniteSet(Created)
  <2>1. IsFiniteSet(1..Submissions)
    BY JudgmentsAssumption, FS_Interval
  <2>. QED  BY <2>1, FS_Subset
<1>2. New \in SUBSET Made
  BY DEF JudgmentsInv, RowsAreCreations, Requests
<1>3. f \in Surjection(Created, Made)
  BY DEF Surjection
<1>. HIDE DEF Created, New, f, Made
<1>4. IsFiniteSet(Made) /\ Cardinality(Made) <= Cardinality(Created)
  BY <1>1, <1>3, FS_Surjection
<1>5. IsFiniteSet(New) /\ Cardinality(New) <= Cardinality(Made)
  BY <1>2, <1>4, FS_Subset
<1>6. Cardinality(Created) \in Nat /\ Cardinality(Made) \in Nat /\ Cardinality(New) \in Nat
  BY <1>1, <1>4, <1>5, FS_CardinalityType
<1>7. Cardinality(New) <= Cardinality(Created)
  BY <1>4, <1>5, <1>6
<1>. QED  BY <1>7 DEF Created, New

\* A judge has one judgment of an assignment.
LEMMA OneJudgment ==
    ASSUME JudgmentsInv, NEW r \in Judgment, NEW s \in Judgment,
           r.assignment = s.assignment, r.judge = s.judge
    PROVE  r = s
<1>1. r \in stored /\ s \in stored /\ r \in JudgmentRows /\ s \in JudgmentRows
  BY DEF Judgment
<1>2. r.kind = "judgment" /\ s.kind = "judgment" /\ UniqueKey(r) = UniqueKey(s)
  BY <1>1, RowFields
<1>3. Clash(r, s)
  BY <1>2 DEF Clash
<1>. QED  BY <1>1, <1>3 DEF JudgmentsInv, KeysUnique

\* Whoever chose a variant chose it in both orders.
BothOrders ==
    \A r \in Judgment : r.verdict \in {"A", "B"} =>
        \E s \in Judgment : /\ s.judge = r.judge /\ s.assignment # r.assignment
                            /\ VariantOf(s) = VariantOf(r)

\* Then each win of one position has a win of the other by the same judge.
LEMMA WinsPairUp ==
    ASSUME JudgmentsInv, BothOrders, NEW v \in {"A", "B"}
    PROVE  CountOf({v}, Assignments) <= CountOf({Mirror(v)}, Assignments)
<1>. DEFINE Wins == Those({v}, Assignments)
            Others == Those({Mirror(v)}, Assignments)
            pairs(r, s) == s.judge = r.judge /\ s.assignment # r.assignment
            f == [r \in Wins |-> CHOOSE s \in Others : pairs(r, s)]
<1>1. ASSUME NEW r \in Wins PROVE \E s \in Others : pairs(r, s)
  <2>1. r \in Judgment /\ r.verdict = v /\ r \in JudgmentRows
    BY DEF Those, Judgment
  <2>2. PICK s \in Judgment : /\ s.judge = r.judge /\ s.assignment # r.assignment
                              /\ VariantOf(s) = VariantOf(r)
    BY <2>1 DEF BothOrders
  <2>3. s \in JudgmentRows
    BY DEF Judgment
  <2>4. /\ r.assignment \in {"original", "reversed"} /\ s.assignment \in {"original", "reversed"}
        /\ s.verdict \in {"A", "B", "tie", "abstain"}
    BY <2>1, <2>3, RowFields DEF Assignments, Verdict
  <2>5. s.verdict = Mirror(v)
    <3>1. CASE s.assignment = "original"
      <4>1. s.verdict = VariantOf(s) /\ VariantOf(r) = Mirror(v)
        BY <2>1, <2>2, <2>4, <3>1 DEF VariantOf
      <4>. QED  BY <2>2, <4>1
    <3>2. CASE s.assignment # "original"
      <4>1. Mirror(s.verdict) = v
        BY <2>1, <2>2, <2>4, <3>2 DEF VariantOf
      <4>. QED  BY <2>4, <4>1 DEF Mirror
    <3>. QED  BY <3>1, <3>2
  <2>. QED  BY <2>2, <2>4, <2>5 DEF Those, Assignments
<1>2. \A r \in Wins : f[r] \in Others /\ pairs(r, f[r])
  BY <1>1
<1>3. f \in [Wins -> Others]
  BY <1>2
<1>. HIDE DEF f
<1>4. ASSUME NEW r \in Wins, NEW s \in Wins, f[r] = f[s] PROVE r = s
  <2>1. r \in Judgment /\ s \in Judgment /\ r \in JudgmentRows /\ s \in JudgmentRows
    BY DEF Those, Judgment
  <2>2. f[r] \in JudgmentRows
    BY <1>2 DEF Those, Judgment
  <2>3. r.judge = s.judge /\ r.assignment # f[r].assignment /\ s.assignment # f[r].assignment
    BY <1>2, <1>4
  <2>4. /\ r.assignment \in {"original", "reversed"} /\ s.assignment \in {"original", "reversed"}
        /\ f[r].assignment \in {"original", "reversed"}
    BY <2>1, <2>2, RowFields DEF Assignments
  <2>5. r.assignment = s.assignment
    BY <2>3, <2>4
  <2>. QED  BY <2>1, <2>3, <2>5, OneJudgment
<1>5. IsFiniteSet(Others) /\ IsFiniteSet(Wins)
  BY CountsAdd
<1>. HIDE DEF Wins, Others
<1>6. f \in Injection(Wins, Others)
  BY <1>3, <1>4 DEF Injection, IsInjective
<1>7. Cardinality(Wins) <= Cardinality(Others)
  BY <1>5, <1>6, FS_Injection
<1>8. CountOf({v}, Assignments) = Cardinality(Wins) /\ CountOf({Mirror(v)}, Assignments) = Cardinality(Others)
  BY CountsAdd DEF Wins, Others
<1>. QED  BY <1>7, <1>8

\* A study counts each judge once per assignment, and what its aggregate says of the
\* judgments is true, however many requests raced, were refused or were rolled back.
THEOREM StudiesCount == JudgmentsSpec => []JudgmentsCounted
<1>1. ASSUME JudgmentsInv PROVE JudgmentsCounted
  <2>1. \A r, s \in Judgment : r.assignment = s.assignment /\ r.judge = s.judge => r = s
    BY <1>1, OneJudgment
  <2>2. /\ \A r \in stored : \A kind \in Refers(r) : \E s \in stored : s.kind = kind
        /\ \A q \in 1..Submissions : asked[q].at = "created" => asked[q].row \in stored
    BY <1>1 DEF JudgmentsInv, RefersToStored, RowsAreCreations, Requests
  <2>3. Cardinality(stored \ {DesignRow})
            <= Cardinality({q \in 1..Submissions : asked[q].at = "created"})
    BY <1>1, RowsHaveRequests
  <2>4. /\ UsableCount + CountOf({"abstain"}, Assignments) = Cardinality(Judgment)
        /\ TwiceWins("A") + TwiceWins("B") = 2 * UsableCount
    BY <1>1, CountsMakeUp
  <2>5. (\A a \in DOMAIN Dissent : Dissent[a] = 0) <=>
          \A r, s \in Judgment : /\ r.assignment = s.assignment
                                 /\ {r.verdict, s.verdict} \subseteq Decided
                                 => r.verdict = s.verdict
    <3>0. DOMAIN Dissent = {a \in Assignments : CountOf(Decided, {a}) > 0}
      BY DEF Dissent
    <3>1. ASSUME NEW a \in Assignments, NEW r \in Those(Decided, {a})
          PROVE  a \in DOMAIN Dissent
      <4>1. IsFiniteSet(Those(Decided, {a})) /\ CountOf(Decided, {a}) = Cardinality(Those(Decided, {a}))
        BY <1>1, CountsAdd
      <4>2. Cardinality(Those(Decided, {a})) # 0
        BY <4>1, FS_EmptySet
      <4>3. CountOf(Decided, {a}) \in Nat
        BY <1>1, CountsAdd
      <4>. QED  BY <3>0, <4>1, <4>2, <4>3
    <3>2. \A a \in DOMAIN Dissent :
             Dissent[a] = 0 <=> \A r, s \in Those(Decided, {a}) : r.verdict = s.verdict
      BY <1>1, <3>0, DissentTells
    <3>3. (\A a \in DOMAIN Dissent : Dissent[a] = 0) <=>
             \A a \in Assignments : \A r, s \in Those(Decided, {a}) : r.verdict = s.verdict
      BY <3>0, <3>1, <3>2
    <3>4. \A r \in Judgment : r.assignment \in Assignments
      BY RowFields DEF Judgment
    <3>5. (\A a \in Assignments : \A r, s \in Those(Decided, {a}) : r.verdict = s.verdict)
            <=> \A r, s \in Judgment : /\ r.assignment = s.assignment
                                       /\ {r.verdict, s.verdict} \subseteq Decided
                                       => r.verdict = s.verdict
      BY <3>4 DEF Those
    <3>. QED  BY <3>3, <3>5
  <2>6. BothOrders => TwiceWins("A") = TwiceWins("B")
    <3>. SUFFICES ASSUME BothOrders PROVE TwiceWins("A") = TwiceWins("B")
      OBVIOUS
    <3>1. Mirror("A") = "B" /\ Mirror("B") = "A"
      BY DEF Mirror
    <3>2. /\ CountOf({"A"}, Assignments) <= CountOf({"B"}, Assignments)
          /\ CountOf({"B"}, Assignments) <= CountOf({"A"}, Assignments)
      BY <1>1, <3>1, WinsPairUp
    <3>3. CountOf({"A"}, Assignments) \in Nat /\ CountOf({"B"}, Assignments) \in Nat
      BY <1>1, CountsAdd
    <3>4. CountOf({"A"}, Assignments) = CountOf({"B"}, Assignments)
      BY <3>2, <3>3
    <3>. QED  BY <3>4 DEF TwiceWins
  <2>. QED  BY <2>1, <2>2, <2>3, <2>4, <2>5, <2>6 DEF JudgmentsCounted, BothOrders
<1>. QED  BY <1>1, JudgmentsStart, JudgmentsKept, PTL DEF JudgmentsSpec

-----------------------------------------------------------------------------
(* Designs *)

\* The originals that show p[side] first.
Showing(p, side) == {a \in Originals : a.cell.pair = p /\ a.shown[1] = p[side]}

\* Every assignment is of a cell already taken.
TakenOnce == \A a \in assignments : a.cell \notin cells

DesignInv ==
    /\ DesignTypeOK
    /\ IsFiniteSet(assignments)
    /\ Balanced
    /\ TakenOnce
    /\ CountsAreOfTheDesign

-----------------------------------------------------------------------------

\* A pair is of two different variants.
LEMMA PairsDiffer ==
    ASSUME NEW p \in Pairs, NEW side \in {1, 2}, NEW other \in {1, 2}
    PROVE  /\ p[side] = p[other] <=> side = other
           /\ 3 - side \in {1, 2}
           /\ Shown(p, side)[1] = p[side]
<1>1. p[1] \in Variants /\ p[2] \in Variants /\ p[1] < p[2]
  BY DEF Pairs
<1>2. p[1] # p[2]
  BY <1>1 DEF Variants
<1>3. p[side] = p[other] <=> side = other
  BY <1>2
<1>4. Shown(p, side)[1] = p[side]
  BY DEF Shown
<1>. QED  BY <1>3, <1>4

\* The design with nothing assigned yet.
LEMMA DesignStarts == DesignInit => DesignInv
<1>. SUFFICES ASSUME DesignInit PROVE DesignInv
  OBVIOUS
<1>1. firsts = [p \in Pairs |-> [side \in {1, 2} |-> 0]] /\ assignments = {}
      /\ cells = Cells /\ reversed \in BOOLEAN
  BY DEF DesignInit
<1>2. DesignTypeOK /\ Balanced /\ TakenOnce
  BY <1>1 DEF DesignTypeOK, Balanced, TakenOnce
<1>3. IsFiniteSet(assignments)
  BY <1>1, FS_EmptySet
<1>4. CountsAreOfTheDesign
  <2>1. ASSUME NEW p \in Pairs, NEW side \in {1, 2}
        PROVE  firsts[p][side] = Cardinality(Showing(p, side))
    <3>1. Showing(p, side) = {}
      BY <1>1 DEF Showing, Originals
    <3>. QED  BY <1>1, <3>1, FS_EmptySet
  <2>. QED  BY <1>1, <2>1 DEF CountsAreOfTheDesign, Showing
<1>. QED  BY <1>2, <1>3, <1>4 DEF DesignInv

\* What assigning a cell changes.
LEMMA AssignShape ==
    ASSUME DesignTypeOK, NEW cell \in cells, NEW side \in {1, 2}, Assign(cell, side)
    PROVE  /\ cell \in Cells /\ cell.pair \in Pairs
           /\ cells' = cells \ {cell} /\ reversed' = reversed
           /\ firsts' \in [Pairs -> [{1, 2} -> Nat]]
           /\ firsts'[cell.pair][side] = firsts[cell.pair][side] + 1
           /\ \A p \in Pairs, s \in {1, 2} :
                 (p # cell.pair \/ s # side) => firsts'[p][s] = firsts[p][s]
           /\ firsts[cell.pair][side] <= firsts[cell.pair][3 - side]
<1>1. cell \in Cells /\ cell.pair \in Pairs
  BY DEF DesignTypeOK, Cells
<1>2. firsts' = [firsts EXCEPT ![cell.pair][side] = @ + 1]
  BY DEF Assign
<1>3. firsts \in [Pairs -> [{1, 2} -> Nat]]
  BY DEF DesignTypeOK
<1>. QED  BY <1>1, <1>2, <1>3 DEF Assign, SideFor

\* The comparison of the two counts keeps them within one of each other.
LEMMA BalanceKept ==
    ASSUME DesignTypeOK, Balanced, NEW cell \in cells, NEW side \in {1, 2},
           Assign(cell, side)
    PROVE  Balanced'
<1>. DEFINE p == cell.pair
<1>1. /\ p \in Pairs /\ firsts'[p][side] = firsts[p][side] + 1
      /\ firsts'[p][3 - side] = firsts[p][3 - side]
      /\ firsts[p][side] <= firsts[p][3 - side]
  BY AssignShape
<1>2. \A q \in Pairs \ {p} : firsts'[q][1] = firsts[q][1] /\ firsts'[q][2] = firsts[q][2]
  BY AssignShape
<1>3. firsts[p][1] \in Nat /\ firsts[p][2] \in Nat
  BY <1>1 DEF DesignTypeOK
<1>4. firsts[p][1] - firsts[p][2] \in {-1, 0, 1}
  BY <1>1 DEF Balanced
<1>. HIDE DEF p
<1>5. firsts'[p][1] - firsts'[p][2] \in {-1, 0, 1}
  <2>1. CASE side = 1
    BY <1>1, <1>3, <1>4, <2>1
  <2>2. CASE side = 2
    BY <1>1, <1>3, <1>4, <2>2
  <2>. QED  BY <2>1, <2>2
<1>. QED  BY <1>2, <1>5 DEF Balanced

\* The assignments of one cell are new, and one of them is an original.
LEMMA AssignedShape ==
    ASSUME NEW cell \in cells, NEW side \in {1, 2}, Assign(cell, side)
    PROVE  \E new :
              /\ assignments' = assignments \union new
              /\ IsFiniteSet(new)
              /\ \A a \in new : a.cell = cell /\ a.orientation \in {0, 1}
              /\ \A a, b \in new : a.orientation = b.orientation => a = b
              /\ {a \in new : a.orientation = 0} =
                    {Assignment(cell, Shown(cell.pair, side), 0)}
<1>. DEFINE a0 == Assignment(cell, Shown(cell.pair, side), 0)
            a1 == Assignment(cell, Shown(cell.pair, 3 - side), 1)
            new == {a0} \union Duplicate(cell, side)
<1>1. assignments' = assignments \union new
  BY DEF Assign
<1>2. Duplicate(cell, side) = {a1} \/ Duplicate(cell, side) = {}
  BY DEF Duplicate
<1>3. /\ a0.cell = cell /\ a0.orientation = 0
      /\ a1.cell = cell /\ a1.orientation = 1
  BY DEF Assignment
<1>4. IsFiniteSet(new)
  BY <1>2, FS_Singleton, FS_EmptySet, FS_Union
<1>. HIDE DEF a0, a1
<1>5. /\ \A a \in new : a.cell = cell /\ a.orientation \in {0, 1}
      /\ \A a, b \in new : a.orientation = b.orientation => a = b
      /\ {a \in new : a.orientation = 0} = {a0}
  BY <1>2, <1>3
<1>. QED  BY <1>1, <1>4, <1>5 DEF a0

\* The counts and identities stay those of the assignments.
LEMMA CountsKeptByAssign ==
    ASSUME DesignInv, NEW cell \in cells, NEW side \in {1, 2}, Assign(cell, side)
    PROVE  CountsAreOfTheDesign' /\ TakenOnce' /\ IsFiniteSet(assignments)'
<1>0. /\ DesignTypeOK /\ IsFiniteSet(assignments) /\ TakenOnce /\ CountsAreOfTheDesign
  BY DEF DesignInv
<1>. DEFINE a0 == Assignment(cell, Shown(cell.pair, side), 0)
<1>1. PICK new :
         /\ assignments' = assignments \union new /\ IsFiniteSet(new)
         /\ \A a \in new : a.cell = cell /\ a.orientation \in {0, 1}
         /\ \A a, b \in new : a.orientation = b.orientation => a = b
         /\ {a \in new : a.orientation = 0} = {a0}
  BY AssignedShape
<1>2. /\ cell \in Cells /\ cell.pair \in Pairs /\ cells' = cells \ {cell}
      /\ firsts'[cell.pair][side] = firsts[cell.pair][side] + 1
      /\ \A p \in Pairs, s \in {1, 2} :
            (p # cell.pair \/ s # side) => firsts'[p][s] = firsts[p][s]
  BY <1>0, AssignShape
<1>3. \A a \in assignments : a.cell # cell
  BY <1>0 DEF TakenOnce
<1>4. a0.cell = cell /\ a0.orientation = 0 /\ a0.shown[1] = cell.pair[side]
  BY <1>2, PairsDiffer DEF Assignment
<1>. HIDE DEF a0
<1>5. IsFiniteSet(assignments)'
  BY <1>0, <1>1, FS_Union
<1>6. TakenOnce'
  BY <1>0, <1>1, <1>2 DEF TakenOnce
<1>7. \A a, b \in assignments' : Id(a) = Id(b) => a = b
  <2>1. \A a, b \in assignments : Id(a) = Id(b) => a = b
    BY <1>0 DEF CountsAreOfTheDesign
  <2>. QED  BY <1>1, <1>3, <2>1 DEF Id
<1>8. Originals' = Originals \union {a0} /\ a0 \notin Originals
  BY <1>1, <1>3, <1>4 DEF Originals
<1>9. ASSUME NEW p \in Pairs, NEW s \in {1, 2}
      PROVE  firsts'[p][s] = Cardinality(Showing(p, s)')
  <2>1. firsts[p][s] = Cardinality(Showing(p, s))
    BY <1>0 DEF CountsAreOfTheDesign, Showing
  <2>2. IsFiniteSet(Showing(p, s)) /\ a0 \notin Showing(p, s)
    BY <1>0, <1>8, FS_Subset DEF Showing, Originals
  <2>3. CASE p = cell.pair /\ s = side
    <3>1. Showing(p, s)' = Showing(p, s) \union {a0}
      BY <1>4, <1>8, <2>3 DEF Showing
    <3>2. Cardinality(Showing(p, s) \union {a0}) = Cardinality(Showing(p, s)) + 1
      BY <2>2, FS_AddElement
    <3>. QED  BY <1>2, <2>1, <2>3, <3>1, <3>2
  <2>4. CASE p # cell.pair \/ s # side
    <3>1. ~ (a0.cell.pair = p /\ a0.shown[1] = p[s])
      BY <1>2, <1>4, <2>4, PairsDiffer
    <3>2. Showing(p, s)' = Showing(p, s)
      BY <1>8, <3>1 DEF Showing
    <3>. QED  BY <1>2, <2>1, <2>4, <3>2
  <2>. QED  BY <2>3, <2>4
<1>10. CountsAreOfTheDesign'
  BY <1>7, <1>9 DEF CountsAreOfTheDesign, Showing
<1>. QED  BY <1>5, <1>6, <1>10

\* Every assignment keeps the invariant.
LEMMA DesignKept == DesignInv /\ [DesignNext]_designVars => DesignInv'
<1>. SUFFICES ASSUME DesignInv, [DesignNext]_designVars PROVE DesignInv'
  OBVIOUS
<1>0. DesignTypeOK /\ Balanced
  BY DEF DesignInv
<1>1. ASSUME NEW cell \in cells, NEW side \in {1, 2}, Assign(cell, side)
      PROVE  DesignInv'
  <2>1. CountsAreOfTheDesign' /\ TakenOnce' /\ IsFiniteSet(assignments)'
    BY <1>1, CountsKeptByAssign
  <2>2. Balanced'
    BY <1>0, <1>1, BalanceKept
  <2>3. PICK new :
           /\ assignments' = assignments \union new
           /\ \A a \in new : a.cell = cell /\ a.orientation \in {0, 1}
    BY <1>1, AssignedShape
  <2>4. /\ cell \in Cells /\ cells' = cells \ {cell} /\ reversed' = reversed
        /\ firsts' \in [Pairs -> [{1, 2} -> Nat]]
    BY <1>0, <1>1, AssignShape
  <2>5. DesignTypeOK'
    BY <1>0, <2>3, <2>4 DEF DesignTypeOK
  <2>. QED  BY <2>1, <2>2, <2>5 DEF DesignInv
<1>2. CASE UNCHANGED designVars
  BY <1>2 DEF DesignInv, DesignTypeOK, Balanced, TakenOnce, CountsAreOfTheDesign,
              Originals, designVars
<1>. QED  BY <1>1, <1>2 DEF DesignNext

\* No pair of variants ever favours a display position by more than one, however
\* many cells of however many records are assigned, in whatever order.
THEOREM DesignBalanced == DesignSpec => []Balanced
<1>1. DesignInv => Balanced
  BY DEF DesignInv
<1>. QED  BY DesignStarts, DesignKept, <1>1, PTL DEF DesignSpec

\* The counts behind the order are those of the design, and its identities differ.
THEOREM DesignCounted == DesignSpec => []CountsAreOfTheDesign
<1>1. DesignInv => CountsAreOfTheDesign
  BY DEF DesignInv
<1>. QED  BY DesignStarts, DesignKept, <1>1, PTL DEF DesignSpec

-----------------------------------------------------------------------------
(* Designs: what a judge of them looks like *)

\* An assignment shows its pair in one of the two orders; without reversed duplicates there
\* are originals only, with them each assignment has its turn, in the other order.
TurnsTell ==
    /\ \A a \in assignments :
          /\ a.cell \in Cells /\ a.orientation \in {0, 1}
          /\ a.shown \in {Shown(a.cell.pair, 1), Shown(a.cell.pair, 2)}
    /\ \A a, b \in assignments :
          a.cell = b.cell /\ a.orientation # b.orientation => a.shown[1] # b.shown[1]
    /\ ~reversed => \A a \in assignments : a.orientation = 0
    /\ reversed => \A a \in assignments : \E b \in assignments :
          b.cell = a.cell /\ b.orientation = 1 - a.orientation

\* The order shown of a pair.
LEMMA ShownSides ==
    ASSUME NEW p \in Pairs
    PROVE  /\ Shown(p, 1) = <<p[1], p[2]>> /\ Shown(p, 2) = <<p[2], p[1]>>
           /\ p[1] # p[2] /\ p[1] \in Nat \ {0} /\ p[2] \in Nat \ {0}
<1>1. p[1] \in 1..NumVariants /\ p[2] \in 1..NumVariants /\ p[1] < p[2]
  BY DEF Pairs, Variants
<1>2. NumVariants \in Nat
  BY DesignAssumption
<1>3. p[1] # p[2] /\ p[1] \in Nat \ {0} /\ p[2] \in Nat \ {0}
  BY <1>1, <1>2
<1>4. Shown(p, 1) = <<p[1], p[2]>> /\ Shown(p, 2) = <<p[2], p[1]>>
  BY DEF Shown
<1>. QED  BY <1>3, <1>4

\* A cell is assigned in one order, and with reversed duplicates in the other too.
LEMMA TurnsKeptByAssign ==
    ASSUME DesignInv, TurnsTell, NEW cell \in cells, NEW side \in {1, 2}, Assign(cell, side)
    PROVE  TurnsTell'
<1>. DEFINE a0 == Assignment(cell, Shown(cell.pair, side), 0)
            a1 == Assignment(cell, Shown(cell.pair, 3 - side), 1)
<1>1. /\ assignments' = assignments \union {a0} \union (IF reversed THEN {a1} ELSE {})
      /\ reversed' = reversed /\ cell \in Cells /\ cell.pair \in Pairs
  BY AssignShape DEF Assign, Duplicate, DesignInv
<1>2. \A a \in assignments : a.cell # cell
  BY DEF DesignInv, TakenOnce
<1>3. /\ a0.cell = cell /\ a0.orientation = 0 /\ a0.shown = Shown(cell.pair, side)
      /\ a1.cell = cell /\ a1.orientation = 1 /\ a1.shown = Shown(cell.pair, 3 - side)
  BY DEF Assignment
<1>4. /\ a0.shown \in {Shown(cell.pair, 1), Shown(cell.pair, 2)}
      /\ a1.shown \in {Shown(cell.pair, 1), Shown(cell.pair, 2)}
      /\ a0.shown[1] # a1.shown[1]
  <2>1. CASE side = 1
    BY <1>1, <1>3, <2>1, ShownSides
  <2>2. CASE side = 2
    BY <1>1, <1>3, <2>2, ShownSides
  <2>. QED  BY <2>1, <2>2
<1>. HIDE DEF a0, a1
<1>5. \A a \in assignments' :
         /\ a.cell \in Cells /\ a.orientation \in {0, 1}
         /\ a.shown \in {Shown(a.cell.pair, 1), Shown(a.cell.pair, 2)}
  BY <1>1, <1>3, <1>4 DEF TurnsTell
<1>6. \A a \in assignments' : a \in assignments \/ a = a0 \/ (reversed /\ a = a1)
  BY <1>1
<1>7. \A a, b \in assignments' :
         a.cell = b.cell /\ a.orientation # b.orientation => a.shown[1] # b.shown[1]
  <2>1. \A a, b \in assignments :
           a.cell = b.cell /\ a.orientation # b.orientation => a.shown[1] # b.shown[1]
    BY DEF TurnsTell
  <2>. QED  BY <1>2, <1>3, <1>4, <1>6, <2>1
<1>8. ~reversed' => \A a \in assignments' : a.orientation = 0
  BY <1>1, <1>3, <1>6 DEF TurnsTell
<1>9. reversed' => \A a \in assignments' : \E b \in assignments' :
         b.cell = a.cell /\ b.orientation = 1 - a.orientation
  <2>. SUFFICES ASSUME reversed, NEW a \in assignments'
                PROVE  \E b \in assignments' : b.cell = a.cell /\ b.orientation = 1 - a.orientation
    BY <1>1
  <2>1. a0 \in assignments' /\ a1 \in assignments' /\ \A b \in assignments : b \in assignments'
    BY <1>1
  <2>2. CASE a \in assignments
    <3>1. \E b \in assignments : b.cell = a.cell /\ b.orientation = 1 - a.orientation
      BY <2>2 DEF TurnsTell
    <3>. QED  BY <2>1, <3>1
  <2>3. CASE a = a0
    BY <1>3, <2>1, <2>3
  <2>4. CASE a = a1
    BY <1>3, <2>1, <2>4
  <2>. QED  BY <1>6, <2>2, <2>3, <2>4
<1>. QED  BY <1>1, <1>5, <1>7, <1>8, <1>9 DEF TurnsTell

\* So the assignments keep their turns.
LEMMA TurnsKept == DesignSpec => []TurnsTell
<1>1. DesignInit => TurnsTell
  BY DEF DesignInit, TurnsTell
<1>2. DesignInv /\ TurnsTell /\ [DesignNext]_designVars => TurnsTell'
  <2>. SUFFICES ASSUME DesignInv, TurnsTell, [DesignNext]_designVars PROVE TurnsTell'
    OBVIOUS
  <2>1. CASE DesignNext
    BY <2>1, TurnsKeptByAssign DEF DesignNext
  <2>2. CASE UNCHANGED designVars
    BY <2>2 DEF designVars, TurnsTell
  <2>. QED  BY <2>1, <2>2
<1>3. DesignSpec => []DesignInv
  BY DesignStarts, DesignKept, PTL DEF DesignSpec
<1>. QED  BY <1>1, <1>2, <1>3, PTL DEF DesignSpec

\* A judge that names the same variant in both orders, or the same position, is told apart
\* by every pair of an assignment and its turn.
THEOREM BiasIsTold == DesignSpec => []ReversalsTellBias
<1>1. ASSUME TurnsTell PROVE ReversalsTellBias
  <2>. SUFFICES ASSUME NEW a \in assignments, NEW b \in assignments, a.cell = b.cell,
                       a.orientation = 0, b.orientation = 1
                PROVE  /\ \A v \in {"A", "B"} :
                             /\ Consistent(a, v, b, Mirror(v)) = TRUE
                             /\ Consistent(a, v, b, v) = FALSE
                       /\ Consistent(a, "tie", b, "A") = "unknown"
    BY DEF ReversalsTellBias
  <2>1. /\ a.cell.pair \in Pairs
        /\ a.shown \in {Shown(a.cell.pair, 1), Shown(a.cell.pair, 2)}
        /\ b.shown \in {Shown(a.cell.pair, 1), Shown(a.cell.pair, 2)}
        /\ a.shown[1] # b.shown[1]
    BY <1>1 DEF TurnsTell, Cells
  <2>2. a.shown[1] = b.shown[2] /\ a.shown[2] = b.shown[1] /\ a.shown[1] # a.shown[2]
    BY <2>1, ShownSides
  <2>3. /\ Winner(a, "A") = a.shown[1] /\ Winner(a, "B") = a.shown[2]
        /\ Winner(b, "A") = b.shown[1] /\ Winner(b, "B") = b.shown[2]
    BY DEF Winner
  <2>4. Mirror("A") = "B" /\ Mirror("B") = "A"
    BY DEF Mirror
  <2>5. /\ Consistent(a, "A", b, "B") = (Winner(a, "A") = Winner(b, "B"))
        /\ Consistent(a, "B", b, "A") = (Winner(a, "B") = Winner(b, "A"))
        /\ Consistent(a, "A", b, "A") = (Winner(a, "A") = Winner(b, "A"))
        /\ Consistent(a, "B", b, "B") = (Winner(a, "B") = Winner(b, "B"))
    BY DEF Consistent
  <2>6. Consistent(a, "tie", b, "A") = "unknown"
    BY DEF Consistent
  <2>7. /\ Consistent(a, "A", b, "B") = TRUE /\ Consistent(a, "B", b, "A") = TRUE
        /\ Consistent(a, "A", b, "A") = FALSE /\ Consistent(a, "B", b, "B") = FALSE
    BY <2>2, <2>3, <2>5
  <2>. QED  BY <2>4, <2>6, <2>7
<1>. QED  BY <1>1, TurnsKept, PTL
\* What a judge says of an assignment who prefers one variant of each pair.
Says(favourite, a) == IF a.shown[1] = a.cell.pair[favourite[a.cell.pair]] THEN "A" ELSE "B"

\* The assignments this judge says v of.
SaidOf(favourite, v) == {a \in assignments : Says(favourite, a) = v}

\* The pairs are finite.
LEMMA PairsFinite == IsFiniteSet(Pairs) /\ Cardinality(Pairs) \in Nat
<1>1. IsFiniteSet(Variants)
  BY DesignAssumption, FS_Interval DEF Variants
<1>2. IsFiniteSet(Variants \X Variants)
  BY <1>1, FS_Product
<1>3. Pairs \in SUBSET (Variants \X Variants)
  BY DEF Pairs
<1>. QED  BY <1>2, <1>3, FS_Subset, FS_CardinalityType

\* With reversed duplicates each assignment the judge says v of has a turn of which it
\* says the other, and no two have the same.
LEMMA TurnsAnswer ==
    ASSUME DesignInv, TurnsTell, reversed, NEW favourite \in [Pairs -> {1, 2}],
           NEW v \in {"A", "B"}
    PROVE  Cardinality(SaidOf(favourite, v)) <= Cardinality(SaidOf(favourite, Mirror(v)))
<1>. DEFINE S == SaidOf(favourite, v)
            O == SaidOf(favourite, Mirror(v))
            turn(a, b) == b.cell = a.cell /\ b.orientation = 1 - a.orientation
            f == [a \in S |-> CHOOSE b \in O : turn(a, b)]
<1>1. ASSUME NEW a \in S PROVE \E b \in O : turn(a, b)
  <2>1. a \in assignments /\ Says(favourite, a) = v
    BY DEF SaidOf
  <2>2. PICK b \in assignments : turn(a, b)
    BY <2>1 DEF TurnsTell
  <2>3. a.orientation \in {0, 1} /\ a.cell \in Cells
    BY <2>1 DEF TurnsTell
  <2>4. a.shown[1] # b.shown[1]
    BY <2>1, <2>2, <2>3 DEF TurnsTell
  <2>. DEFINE p == a.cell.pair
  <2>5. p \in Pairs /\ favourite[p] \in {1, 2} /\ b.cell.pair = p
    BY <2>2, <2>3 DEF Cells
  <2>6. /\ a.shown \in {Shown(p, 1), Shown(p, 2)} /\ b.shown \in {Shown(p, 1), Shown(p, 2)}
    BY <2>1, <2>2, <2>5 DEF TurnsTell
  <2>. HIDE DEF p
  <2>7. a.shown[1] \in {p[1], p[2]} /\ b.shown[1] \in {p[1], p[2]}
    BY <2>5, <2>6, ShownSides
  <2>8. a.shown[1] = p[favourite[p]] <=> ~(b.shown[1] = p[favourite[p]])
    BY <2>4, <2>5, <2>7
  <2>9. /\ Says(favourite, a) = (IF a.shown[1] = p[favourite[p]] THEN "A" ELSE "B")
        /\ Says(favourite, b) = (IF b.shown[1] = p[favourite[p]] THEN "A" ELSE "B")
    BY <2>5 DEF Says, p
  <2>10. Says(favourite, b) = Mirror(v)
    BY <2>1, <2>8, <2>9 DEF Mirror
  <2>. QED  BY <2>2, <2>10 DEF SaidOf
<1>2. \A a \in S : f[a] \in O /\ turn(a, f[a])
  BY <1>1
<1>3. f \in [S -> O]
  BY <1>2
<1>. HIDE DEF f
<1>4. ASSUME NEW a \in S, NEW b \in S, f[a] = f[b] PROVE a = b
  <2>1. a.cell = b.cell /\ 1 - a.orientation = 1 - b.orientation
    BY <1>2, <1>4
  <2>2. a \in assignments /\ b \in assignments
    BY DEF SaidOf
  <2>3. a.orientation \in {0, 1} /\ b.orientation \in {0, 1}
    BY <2>2 DEF TurnsTell
  <2>4. Id(a) = Id(b)
    BY <2>1, <2>3 DEF Id
  <2>. QED  BY <2>2, <2>4 DEF DesignInv, CountsAreOfTheDesign
<1>5. IsFiniteSet(O)
  <2>1. IsFiniteSet(assignments) /\ O \in SUBSET assignments
    BY DEF DesignInv, SaidOf
  <2>. QED  BY <2>1, FS_Subset
<1>. HIDE DEF S, O
<1>6. f \in Injection(S, O)
  BY <1>3, <1>4 DEF Injection, IsInjective
<1>7. Cardinality(S) <= Cardinality(O)
  BY <1>5, <1>6, FS_Injection
<1>. QED  BY <1>7 DEF S, O

\* Without them, what it says of a pair is what the pair shows first, for each of its sides.
LEMMA SidesAnswer ==
    ASSUME DesignInv, TurnsTell, ~reversed, NEW favourite \in [Pairs -> {1, 2}]
    PROVE  LET loved == [p \in Pairs |-> firsts[p][favourite[p]]]
               other == [p \in Pairs |-> firsts[p][3 - favourite[p]]]
           IN  /\ Cardinality(SaidOf(favourite, "A")) = Total(loved, Pairs)
               /\ Cardinality(SaidOf(favourite, "B")) = Total(other, Pairs)
<1>. DEFINE loved == [p \in Pairs |-> firsts[p][favourite[p]]]
            other == [p \in Pairs |-> firsts[p][3 - favourite[p]]]
            key == [a \in assignments |-> a.cell.pair]
            A == SaidOf(favourite, "A")
            B == SaidOf(favourite, "B")
<1>1. \A a \in assignments : /\ a.orientation = 0 /\ a.cell.pair \in Pairs
                             /\ a.shown \in {Shown(a.cell.pair, 1), Shown(a.cell.pair, 2)}
  BY DEF TurnsTell, Cells
<1>2. Originals = assignments
  BY <1>1 DEF Originals
<1>3. \A p \in Pairs, side \in {1, 2} : firsts[p][side] = Cardinality(Showing(p, side))
  BY DEF DesignInv, CountsAreOfTheDesign, Showing
<1>4. ASSUME NEW p \in Pairs
      PROVE  /\ {a \in A : key[a] = p} = Showing(p, favourite[p])
             /\ {a \in B : key[a] = p} = Showing(p, 3 - favourite[p])
  <2>1. favourite[p] \in {1, 2} /\ 3 - favourite[p] \in {1, 2} /\ p[1] # p[2]
    BY ShownSides
  <2>2. ASSUME NEW a \in assignments, a.cell.pair = p
        PROVE  a.shown[1] # p[favourite[p]] <=> a.shown[1] = p[3 - favourite[p]]
    <3>1. a.shown[1] \in {p[1], p[2]}
      BY <1>1, <2>2, ShownSides
    <3>. QED  BY <2>1, <3>1
  <2>3. {a \in A : key[a] = p} = {a \in assignments : a.cell.pair = p /\ a.shown[1] = p[favourite[p]]}
    BY DEF SaidOf, Says
  <2>4. {a \in B : key[a] = p} = {a \in assignments : a.cell.pair = p /\ a.shown[1] # p[favourite[p]]}
    BY DEF SaidOf, Says
  <2>5. {a \in assignments : a.cell.pair = p /\ a.shown[1] # p[favourite[p]]}
           = {a \in assignments : a.cell.pair = p /\ a.shown[1] = p[3 - favourite[p]]}
    BY <2>2
  <2>. QED  BY <1>2, <2>3, <2>4, <2>5 DEF Showing
<1>5. /\ \A p \in Pairs : loved[p] = Cardinality(PartOf(A, key, {p}))
      /\ \A p \in Pairs : other[p] = Cardinality(PartOf(B, key, {p}))
  <2>. SUFFICES ASSUME NEW p \in Pairs
                PROVE  /\ loved[p] = Cardinality(PartOf(A, key, {p}))
                       /\ other[p] = Cardinality(PartOf(B, key, {p}))
    OBVIOUS
  <2>1. favourite[p] \in {1, 2} /\ 3 - favourite[p] \in {1, 2}
    OBVIOUS
  <2>2. loved[p] = Cardinality(Showing(p, favourite[p])) /\ other[p] = Cardinality(Showing(p, 3 - favourite[p]))
    BY <1>3, <2>1
  <2>. HIDE DEF loved, other, A, B, key
  <2>3. PartOf(A, key, {p}) = Showing(p, favourite[p]) /\ PartOf(B, key, {p}) = Showing(p, 3 - favourite[p])
    BY <1>4 DEF PartOf
  <2>. QED  BY <2>2, <2>3
<1>6. IsFiniteSet(A) /\ IsFiniteSet(B) /\ IsFiniteSet(Pairs)
  <2>1. IsFiniteSet(assignments) /\ A \in SUBSET assignments /\ B \in SUBSET assignments
    BY DEF DesignInv, SaidOf
  <2>. QED  BY <2>1, FS_Subset, PairsFinite
<1>7. PartOf(A, key, Pairs) = A /\ PartOf(B, key, Pairs) = B
  BY <1>1 DEF SaidOf, PartOf
<1>. HIDE DEF loved, other, A, B, key
<1>8. Cardinality(A) = Total(loved, Pairs)
  <2>1. CountsParts(loved, A, key, Pairs)
    BY <1>5 DEF CountsParts
  <2>2. IsFiniteSet(A) /\ IsFiniteSet(Pairs)
    BY <1>6
  <2>3. Cardinality(PartOf(A, key, Pairs)) = Total(loved, Pairs)
    BY <2>1, <2>2, TotalOfParts
  <2>. QED  BY <1>7, <2>3
<1>9. Cardinality(B) = Total(other, Pairs)
  <2>1. CountsParts(other, B, key, Pairs)
    BY <1>5 DEF CountsParts
  <2>2. IsFiniteSet(B) /\ IsFiniteSet(Pairs)
    BY <1>6
  <2>3. Cardinality(PartOf(B, key, Pairs)) = Total(other, Pairs)
    BY <2>1, <2>2, TotalOfParts
  <2>. QED  BY <1>7, <2>3
<1>. QED  BY <1>8, <1>9 DEF A, B, loved, other

\* A judge that always prefers the same variant shows no position effect beyond one
\* judgement per pair, whatever it prefers; with reversed duplicates it shows none.
THEOREM FairLooksFair == DesignSpec => []FairJudgeLooksFair
<1>1. ASSUME DesignInv, TurnsTell PROVE FairJudgeLooksFair
  <2>. SUFFICES ASSUME NEW favourite \in [Pairs -> {1, 2}]
                PROVE  LET verdictOf == [a \in assignments |-> Says(favourite, a)]
                           effect == PositionEffect(assignments, verdictOf)
                       IN  IF reversed THEN effect = 0
                           ELSE effect \in -Cardinality(Pairs)..Cardinality(Pairs)
    BY DEF FairJudgeLooksFair, Says
  <2>. DEFINE verdictOf == [a \in assignments |-> Says(favourite, a)]
              effect == PositionEffect(assignments, verdictOf)
              As == Cardinality(SaidOf(favourite, "A"))
              Bs == Cardinality(SaidOf(favourite, "B"))
  <2>1. effect = As - Bs
    <3>1. {a \in assignments : verdictOf[a] = "A"} = SaidOf(favourite, "A")
      BY DEF SaidOf
    <3>2. {a \in assignments : verdictOf[a] = "B"} = SaidOf(favourite, "B")
      BY DEF SaidOf
    <3>. QED  BY <3>1, <3>2 DEF PositionEffect
  <2>2. As \in Nat /\ Bs \in Nat
    <3>1. IsFiniteSet(assignments)
      BY <1>1 DEF DesignInv
    <3>2. SaidOf(favourite, "A") \in SUBSET assignments /\ SaidOf(favourite, "B") \in SUBSET assignments
      BY DEF SaidOf
    <3>. QED  BY <3>1, <3>2, FS_Subset, FS_CardinalityType
  <2>. HIDE DEF As, Bs, effect
  <2>3. ASSUME reversed PROVE effect = 0
    <3>1. Mirror("A") = "B" /\ Mirror("B") = "A"
      BY DEF Mirror
    <3>2. As <= Bs /\ Bs <= As
      BY <1>1, <2>3, <3>1, TurnsAnswer DEF As, Bs
    <3>. QED  BY <2>1, <2>2, <3>2
  <2>4. ASSUME ~reversed PROVE effect \in -Cardinality(Pairs)..Cardinality(Pairs)
    <3>. DEFINE loved == [p \in Pairs |-> firsts[p][favourite[p]]]
                other == [p \in Pairs |-> firsts[p][3 - favourite[p]]]
    <3>1. As = Total(loved, Pairs) /\ Bs = Total(other, Pairs)
      BY <1>1, <2>4, SidesAnswer DEF As, Bs
    <3>2. \A p \in Pairs : loved[p] \in Nat /\ other[p] \in Nat /\ loved[p] - other[p] \in {-1, 0, 1}
      <4>. SUFFICES ASSUME NEW p \in Pairs
                    PROVE  loved[p] \in Nat /\ other[p] \in Nat /\ loved[p] - other[p] \in {-1, 0, 1}
        OBVIOUS
      <4>1. /\ firsts[p][1] \in Nat /\ firsts[p][2] \in Nat
            /\ firsts[p][1] - firsts[p][2] \in {-1, 0, 1}
        BY <1>1 DEF DesignInv, DesignTypeOK, Balanced
      <4>2. \/ loved[p] = firsts[p][1] /\ other[p] = firsts[p][2]
            \/ loved[p] = firsts[p][2] /\ other[p] = firsts[p][1]
        <5>1. favourite[p] = 1 \/ favourite[p] = 2
          OBVIOUS
        <5>2. loved[p] = firsts[p][favourite[p]] /\ other[p] = firsts[p][3 - favourite[p]]
          OBVIOUS
        <5>. QED  BY <5>1, <5>2
      <4>. HIDE DEF loved, other
      <4>. QED  BY <4>1, <4>2
    <3>. HIDE DEF loved, other
    <3>3. /\ Total(loved, Pairs) <= Total(other, Pairs) + Cardinality(Pairs)
          /\ Total(other, Pairs) <= Total(loved, Pairs) + Cardinality(Pairs)
      BY <3>2, PairsFinite, TotalWithin
    <3>4. Cardinality(Pairs) \in Nat
      BY PairsFinite
    <3>5. effect \in -Cardinality(Pairs)..Cardinality(Pairs)
      BY <2>1, <2>2, <3>1, <3>3, <3>4
    <3>. QED  BY <3>5
  <2>. QED  BY <2>3, <2>4 DEF effect
<1>2. DesignSpec => []DesignInv
  BY DesignStarts, DesignKept, PTL DEF DesignSpec
<1>. QED  BY <1>1, <1>2, TurnsKept, PTL
=============================================================================
