------------------------------ MODULE Metrics -------------------------------
(***************************************************************************)
(* The metrics of one sample (rag.py, agent.py, language.py): what they    *)
(* read grows one document, one step or one word at a time, and each metric*)
(* is a ratio of what there is so far.  A logarithmic discount is a table  *)
(* of weights.                                                             *)
(***************************************************************************)
EXTENDS Integers, Sequences, SequencesExt, FiniteSets, FiniteSetsExt, Functions

CONSTANTS
    Documents, Gains,  \* retrieved ids, and their own relevance (0: none given)
    MaxRanks,          \* bound: the documents retrieved
    Discounts,         \* 1/log2(rank + 1) for each rank, as whole weights
    Scale,             \* a multiple of every rank
    Tools,             \* tool calls: a tool with its arguments
    MaxSteps,          \* bound: the steps of a trajectory
    Words, MaxWords    \* bound: the words of a text

ASSUME MetricsAssumption ==
    /\ Gains \subseteq Nat /\ MaxRanks \in Nat /\ MaxSteps \in Nat /\ MaxWords \in Nat
    /\ Len(Discounts) >= MaxRanks
    /\ \A i, j \in 1..MaxRanks : i < j => Discounts[i] > Discounts[j] /\ Discounts[j] > 0
    /\ \A i \in 1..MaxRanks : Scale % i = 0

VARIABLES
    relevant,    \* relevant_item_ids, the labels of the sample
    retrieved,   \* retrieved_items, best first
    trajectory,  \* the steps of an agent
    texts        \* the words of the prediction and of the reference

metricVars == <<relevant, retrieved, trajectory, texts>>

MetricsInit ==
    /\ relevant \in SUBSET Documents
    /\ retrieved = <<>> /\ trajectory = <<>>
    /\ texts = [prediction |-> <<>>, reference |-> <<>>]

Retrieve(id, gain) ==
    /\ Len(retrieved) < MaxRanks
    /\ trajectory = <<>> /\ texts.prediction = <<>> /\ texts.reference = <<>>
    /\ retrieved' = Append(retrieved, [id |-> id, gain |-> gain])
    /\ UNCHANGED <<relevant, trajectory, texts>>

Steps ==
    ({"tool_call", "model_decision"} \X Tools)
        \union ({"tool_result"} \X {"succeeded", "failed"})
        \union {<<"final_output", "answer">>}

TakeStep(step) ==
    /\ Len(trajectory) < MaxSteps
    /\ relevant = {} /\ retrieved = <<>> /\ texts.prediction = <<>> /\ texts.reference = <<>>
    /\ trajectory' = Append(trajectory, step)
    /\ UNCHANGED <<relevant, retrieved, texts>>

Write(side, word) ==
    /\ Len(texts[side]) < MaxWords
    /\ relevant = {} /\ retrieved = <<>> /\ trajectory = <<>>
    /\ texts' = [texts EXCEPT ![side] = Append(@, word)]
    /\ UNCHANGED <<relevant, retrieved, trajectory>>

MetricsNext ==
    \/ \E id \in Documents, gain \in Gains : Retrieve(id, gain)
    \/ \E step \in Steps : TakeStep(step)
    \/ \E side \in {"prediction", "reference"}, word \in Words : Write(side, word)

MetricsSpec == MetricsInit /\ [][MetricsNext]_metricVars

-----------------------------------------------------------------------------
(* Retrieval: a ratio is a pair, and a missing one is Missing *)

Missing == <<0, 0>>
Ratio(part, whole) == <<part, whole>>
AtMost(r, s) == r[1] * s[2] <= s[1] * r[2]
Same(r, s) == AtMost(r, s) /\ AtMost(s, r)

Top(items, k) == SubSeq(items, 1, IF k < Len(items) THEN k ELSE Len(items))
IdsOf(items) == {items[i].id : i \in DOMAIN items}

\* precision_at_k counts a relevant document at each of its ranks.
PrecisionAtK(items, labels, k) ==
    LET ranks == DOMAIN Top(items, k)
    IN  IF ranks = {} THEN Ratio(0, 1)
        ELSE Ratio(Cardinality({i \in ranks : items[i].id \in labels}), Cardinality(ranks))

\* Mutant: a relevant document counts at each of its ranks.
RecallOfRanks(items, labels, k) ==
    IF labels = {} THEN Missing
    ELSE Ratio(Cardinality({i \in DOMAIN Top(items, k) : items[i].id \in labels}),
               Cardinality(labels))

\* recall_at_k, hit_rate_at_k and retrieval_coverage count it once.
RecallAtK(items, labels, k) ==
    IF labels = {} THEN Missing
    ELSE Ratio(Cardinality(IdsOf(Top(items, k)) \cap labels), Cardinality(labels))

HitAtK(items, labels, k) ==
    IF labels = {} THEN Missing
    ELSE Ratio(IF IdsOf(Top(items, k)) \cap labels # {} THEN 1 ELSE 0, 1)

ReciprocalRank(items, labels, k) ==
    LET hits == {i \in DOMAIN Top(items, k) : items[i].id \in labels}
    IN  IF labels = {} THEN Missing
        ELSE IF hits = {} THEN Ratio(0, 1) ELSE Ratio(1, Min(hits))

\* The ranks at which a document is seen for the first time.
FirstSeen(items) == {i \in DOMAIN items : items[i].id \notin IdsOf(Top(items, i - 1))}

\* average_precision: the hits up to each first hit over its rank, over every label.
AveragePrecision(items, labels, k) ==
    LET hits == {i \in FirstSeen(Top(items, k)) : items[i].id \in labels}
        sum == FoldSet(LAMBDA i, total :
                   total + Cardinality({j \in hits : j <= i}) * (Scale \div i), 0, hits)
    IN  IF labels = {} THEN Missing ELSE Ratio(sum, Scale * Cardinality(labels))

\* RetrievalRankingMetric: an item speaks for its id, the last one of an id last, and a
\* label counts 1 only for an id that was not retrieved.
Relevance(items, labels) ==
    [id \in IdsOf(items) \union labels |->
        IF id \in IdsOf(items)
        THEN items[Max({i \in DOMAIN items : items[i].id = id})].gain ELSE 1]

Weight(gain) == 2^gain - 1

\* ndcg: an id gains at its first rank; the ideal has the largest gains first.
Ndcg(items, labels, k) ==
    LET gains == Relevance(items, labels)
        order == SetToSortSeq(DOMAIN gains, LAMBDA a, b : gains[a] > gains[b])
        ideal == FoldSet(LAMBDA i, total : total + Weight(gains[order[i]]) * Discounts[i],
                         0, DOMAIN Top(order, k))
        actual == FoldSet(LAMBDA i, total : total + Weight(gains[items[i].id]) * Discounts[i],
                          0, FirstSeen(Top(items, k)))
    IN  IF ideal = 0 THEN Missing ELSE Ratio(actual, ideal)

DuplicateRate(items) ==
    IF items = <<>> THEN Ratio(0, 1)
    ELSE Ratio(Len(items) - Cardinality(IdsOf(items)), Len(items))

-----------------------------------------------------------------------------
(* Trajectories *)

StepsOf(steps, kinds) == SelectSeq(steps, LAMBDA s : s[1] \in kinds)

SuccessRate(steps) ==
    LET results == StepsOf(steps, {"tool_result"})
    IN  IF results = <<>> THEN Missing
        ELSE Ratio(Len(SelectSeq(results, LAMBDA s : s[2] = "succeeded")), Len(results))

Redundant(steps) ==
    LET calls == StepsOf(steps, {"tool_call"})
    IN  IF calls = <<>> THEN Ratio(0, 1)
        ELSE Ratio(Len(calls) - Cardinality(ToSet(calls)), Len(calls))

\* loop_detection: the shortest cycle of at most four actions, at its first place.
LoopAt(steps, times) ==
    LET actions == StepsOf(steps, {"tool_call", "model_decision"})
        Piece(start, length, n) ==
            SubSeq(actions, start + n * length + 1, start + (n + 1) * length)
        loops == {at \in (1..Min({4, Len(actions)})) \X (0..Len(actions)) :
                     /\ at[2] + at[1] * times <= Len(actions)
                     /\ \A n \in 1..(times - 1) :
                            Piece(at[2], at[1], n) = Piece(at[2], at[1], 0)}
        shortest == {at \in loops : \A other \in loops : at[1] <= other[1]}
    IN  IF loops = {} THEN <<>>
        ELSE CHOOSE at \in shortest : \A other \in shortest : at[2] <= other[2]

\* recovery_after_tool_failure counts any later success, and any final output.
Recovered(steps) ==
    LET failures == {i \in DOMAIN steps : steps[i] = <<"tool_result", "failed">>}
        ends == {i \in DOMAIN steps :
                    steps[i] = <<"tool_result", "succeeded">> \/ steps[i][1] = "final_output"}
    IN  IF failures = {} THEN Missing
        ELSE Ratio(Cardinality({i \in failures : \E j \in ends : j > i}), Cardinality(failures))

-----------------------------------------------------------------------------
(* Texts *)

\* edit_distance, row by row of the longer text.
EditDistance(left, right) ==
    LET longer == IF Len(left) < Len(right) THEN right ELSE left
        shorter == IF Len(left) < Len(right) THEN left ELSE right
        rows[i \in 0..Len(longer)] ==
            IF i = 0 THEN [j \in 0..Len(shorter) |-> j]
            ELSE LET previous == rows[i - 1]
                     cells[j \in 0..Len(shorter)] ==
                         IF j = 0 THEN i
                         ELSE Min({cells[j - 1] + 1, previous[j] + 1,
                                   previous[j - 1] + IF longer[i] # shorter[j] THEN 1 ELSE 0})
                 IN  cells
    IN  rows[Len(longer)][Len(shorter)]

ErrorRate(prediction, reference) ==
    IF reference = <<>> THEN Ratio(IF prediction = <<>> THEN 0 ELSE 1, 1)
    ELSE Ratio(EditDistance(prediction, reference), Len(reference))

Times(word, text) == Cardinality({i \in DOMAIN text : text[i] = word})

Overlap(left, right) ==
    FoldSet(LAMBDA w, total : total + Min({Times(w, left), Times(w, right)}), 0, Words)

\* Twice the overlap over both lengths: the harmonic mean of precision and recall.
TokenF1(prediction, reference) ==
    IF prediction = <<>> /\ reference = <<>> THEN Ratio(1, 1)
    ELSE Ratio(2 * Overlap(prediction, reference), Len(prediction) + Len(reference))

-----------------------------------------------------------------------------
(* Properties *)

\* One more document: recall, hit rate, average precision and reciprocal rank never fall and
\* stay as they are when it is beyond k; a document again changes none; a hit found stays the
\* first.  Average precision is at most recall; precision and recall count the same hits but
\* for duplicates; nDCG is at most 1, and missing only when every label was retrieved, by items
\* that give it no relevance.
RetrievalGrows ==
    LET last == retrieved'[Len(retrieved')]
        again == last.id \in IdsOf(retrieved)
    IN  retrieved' # retrieved =>
          \A k \in 1..MaxRanks :
            /\ \A metric \in {"recall", "hit", "map", "mrr"} :
                  LET Value(items) ==
                          CASE metric = "recall" -> RecallAtK(items, relevant, k)
                            [] metric = "hit" -> HitAtK(items, relevant, k)
                            [] metric = "map" -> AveragePrecision(items, relevant, k)
                            [] metric = "mrr" -> ReciprocalRank(items, relevant, k)
                  IN  /\ AtMost(Value(retrieved), Value(retrieved'))
                      /\ again \/ Len(retrieved) >= k => Same(Value(retrieved'), Value(retrieved))
            /\ ReciprocalRank(retrieved, relevant, k)[1] = 1
                  => ReciprocalRank(retrieved', relevant, k) = ReciprocalRank(retrieved, relevant, k)
            /\ AtMost(AveragePrecision(retrieved', relevant, k), RecallAtK(retrieved', relevant, k))
            /\ relevant # {} =>
                  PrecisionAtK(retrieved', relevant, k)[1] - RecallAtK(retrieved', relevant, k)[1]
                      \in 0..DuplicateRate(Top(retrieved', k))[1]
            /\ AtMost(Ndcg(retrieved', relevant, k), Ratio(1, 1))
            /\ Ndcg(retrieved', relevant, k) = Missing
                  => /\ relevant \subseteq IdsOf(retrieved')
                     /\ \A id \in relevant : Relevance(retrieved', relevant)[id] = 0

\* One more step: a loop stays where it was found or a shorter one is found, and a loop is one
\* exactly when some stretch repeats itself at a distance of at most four, and the tool calls
\* in it are redundant; there is something to recover from exactly when a result is no success,
\* and a final output recovers every failure.
TrajectoryGrows ==
    LET actions == StepsOf(trajectory', {"tool_call", "model_decision"})
        last == trajectory'[Len(trajectory')]
    IN  trajectory' # trajectory =>
          /\ \A times \in {2, 3} :
                LET before == LoopAt(trajectory, times)
                    after == LoopAt(trajectory', times)
                IN  /\ before # <<>> => after # <<>> /\ (after = before \/ after[1] < before[1])
                    /\ after # <<>> <=>
                         \E distance \in 1..4, from \in 1..Len(actions) :
                             /\ from + distance * times - 1 <= Len(actions)
                             /\ \A i \in from..(from + distance * (times - 1) - 1) :
                                    actions[i] = actions[i + distance]
          /\ \A times \in {2, 3} : LoopAt(trajectory', times) # <<>> =>
                LET loop == LoopAt(trajectory', times)
                    cycle == SubSeq(actions, loop[2] + 1, loop[2] + loop[1])
                IN  Redundant(trajectory')[1] >= (times - 1) * Len(StepsOf(cycle, {"tool_call"}))
          /\ Recovered(trajectory') = Missing <=>
                SuccessRate(trajectory') = Missing \/ Same(SuccessRate(trajectory'), Ratio(1, 1))
          /\ last[1] = "final_output" => Recovered(trajectory') = Missing
                                           \/ Same(Recovered(trajectory'), Ratio(1, 1))

\* Alignments of two texts: pairs of places that do not cross.
Alignments(left, right) ==
    {pairs \in SUBSET ((1..Len(left)) \X (1..Len(right))) :
        \A p, q \in pairs : p # q => (p[1] < q[1] /\ p[2] < q[2]) \/ (q[1] < p[1] /\ q[2] < p[2])}

\* The edit distance is what the best alignment of the texts costs, one more word changes it by
\* at most one, the error rate is 0 for equal texts alone, and then token F1 is 1.
TextsGrow ==
    LET left == texts'.prediction
        right == texts'.reference
        distance == EditDistance(left, right)
        Cost(pairs) == Len(left) + Len(right) - 2 * Cardinality(pairs)
                         + Cardinality({p \in pairs : left[p[1]] # right[p[2]]})
    IN  texts' # texts =>
          /\ distance = Min({Cost(pairs) : pairs \in Alignments(left, right)})
          /\ distance - EditDistance(texts.prediction, texts.reference) \in -1..1
          /\ ErrorRate(left, right)[1] = 0 <=> left = right
          /\ left = right => Same(TokenF1(left, right), Ratio(1, 1))
          /\ TokenF1(left, right) = TokenF1(right, left)

\* What a metric says changes with its evidence as the metric promises.  rag.py:23-152,
\* agent.py:75-176, language.py:43-58 and 253-288; docs/concepts/metric-framework.md:61-75.
MetricsFollowEvidence == [][RetrievalGrows /\ TrajectoryGrows /\ TextsGrow]_metricVars
=============================================================================
