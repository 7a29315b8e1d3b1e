----------------------------- MODULE Agreement ------------------------------
(***************************************************************************)
(* What two raters' scores of the same samples say (agreement.py,          *)
(* effects.py, calibration.py, diagnostics.py): how far they agree, how    *)
(* the second drifts from the first, and how a candidate fares against a   *)
(* baseline.  The scores come in one sample at a time; every statistic is  *)
(* a ratio of counts of them, kept as a pair.                              *)
(***************************************************************************)
EXTENDS Integers, Sequences, SequencesExt, FiniteSets, FiniteSetsExt

CONSTANTS
    Scores,      \* the scores a rater gives
    NoRating,    \* a sample a rater did not score
    MaxRatings   \* bound: the samples scored

ASSUME AgreementAssumption ==
    Scores \subseteq Nat /\ IsFiniteSet(Scores) /\ NoRating \notin Nat /\ MaxRatings \in Nat

VARIABLE ratings  \* for each sample, the scores of the first and the second rater

AgreementInit == ratings = <<>>

RateSample(first, second) ==
    /\ Len(ratings) < MaxRatings
    /\ ratings' = Append(ratings, <<first, second>>)

AgreementNext ==
    \E first, second \in Scores \union {NoRating} : RateSample(first, second)

AgreementSpec == AgreementInit /\ [][AgreementNext]_ratings

-----------------------------------------------------------------------------
(* Ratios, with a positive denominator unless Undefined *)

Undefined == <<0, 0>>
Equal(r, s) == r[1] * s[2] = s[1] * r[2] /\ (r[2] = 0 <=> s[2] = 0)
Complement(r) == <<r[2] - r[1], r[2]>>
One == <<1, 1>>

SumOf(f) == MapThenSumSet(LAMBDA x : f[x], DOMAIN f)
Distance(a, b) == IF a < b THEN b - a ELSE a - b

\* How often a rater gives a score, and how often both give these.
Gives(pairs, rater, score) == Cardinality({i \in DOMAIN pairs : pairs[i][rater] = score})
Both(pairs, a, b) == Cardinality({i \in DOMAIN pairs : pairs[i] = <<a, b>>})

ScoresSeen(pairs) == UNION {{pairs[i][1], pairs[i][2]} : i \in DOMAIN pairs}

\* The place of a score among those seen: weighted_kappa spaces them evenly.
PlaceOf(pairs, score) == Cardinality({other \in ScoresSeen(pairs) : other < score})

-----------------------------------------------------------------------------
(* agreement.py *)

Weigh(pairs, cell, weighting) ==
    LET distance == Distance(PlaceOf(pairs, cell[1]), PlaceOf(pairs, cell[2]))
    IN  IF weighting = "quadratic" THEN distance * distance ELSE distance

\* weighted_kappa: one minus the weighted disagreement over the one chance would give.
WeightedKappa(pairs, weighting) ==
    LET cells == ScoresSeen(pairs) \X ScoresSeen(pairs)
        observed == Len(pairs) * SumOf([c \in cells |->
                                    Weigh(pairs, c, weighting) * Both(pairs, c[1], c[2])])
        expected == SumOf([c \in cells |->
                        Weigh(pairs, c, weighting)
                            * (Gives(pairs, 1, c[1]) * Gives(pairs, 2, c[2]))])
    IN  IF expected = 0 THEN (IF observed = 0 THEN One ELSE Undefined)
        ELSE Complement(<<observed, expected>>)

\* The samples with a pair of scores.
Pairable(pairs) == {i \in DOMAIN pairs : NoRating \notin {pairs[i][1], pairs[i][2]}}

\* Mutant: chance draws with replacement.
AlphaWithReplacement(pairs) ==
    LET paired == Pairable(pairs)
        disagreements == Cardinality({i \in paired : pairs[i][1] # pairs[i][2]})
        Count(value) == Gives(pairs, 1, value) + Gives(pairs, 2, value)
        total == SumOf([v \in Scores |-> Count(v)])
        chance == total * total - SumOf([v \in Scores |-> Count(v) * Count(v)])
    IN  IF paired = {} THEN Undefined
        ELSE IF chance = 0 THEN (IF disagreements = 0 THEN One ELSE Undefined)
        ELSE Complement(<<disagreements * (total * total), Cardinality(paired) * chance>>)

\* krippendorff_alpha_nominal: the pairs of all samples count alike, and a score that has no
\* other to pair with counts towards chance.
KrippendorffAlpha(pairs) ==
    LET paired == Pairable(pairs)
        disagreements == Cardinality({i \in paired : pairs[i][1] # pairs[i][2]})
        Count(value) == Gives(pairs, 1, value) + Gives(pairs, 2, value)
        total == SumOf([v \in Scores |-> Count(v)])
        chance == total * (total - 1) - SumOf([v \in Scores |-> Count(v) * (Count(v) - 1)])
    IN  IF paired = {} THEN Undefined
        ELSE IF chance = 0 THEN (IF disagreements = 0 THEN One ELSE Undefined)
        ELSE Complement(<<disagreements * (total * (total - 1)), Cardinality(paired) * chance>>)

-----------------------------------------------------------------------------
(* calibration.py and diagnostics.py *)

Accuracy(pairs) == <<SumOf([s \in ScoresSeen(pairs) |-> Both(pairs, s, s)]), Len(pairs)>>

\* categorical_calibration's cohen_kappa.
CohenKappa(pairs) ==
    LET n == Len(pairs)
        chance == SumOf([s \in ScoresSeen(pairs) |-> Gives(pairs, 1, s) * Gives(pairs, 2, s)])
        agreed == Accuracy(pairs)[1]
    IN  IF chance = n * n THEN (IF agreed = n THEN One ELSE Undefined)
        ELSE <<agreed * n - chance, n * n - chance>>

\* precision and recall of a label in the confusion matrix.
Precision(pairs, label) == <<Both(pairs, label, label), Gives(pairs, 2, label)>>
Recall(pairs, label) == <<Both(pairs, label, label), Gives(pairs, 1, label)>>

\* ensemble_disagreement of two judges.
Disagreement(pairs) ==
    <<Cardinality({i \in DOMAIN pairs : pairs[i][1] # pairs[i][2]}), Len(pairs)>>

\* judge_drift with the first rater as the baseline window: the total variation of the
\* verdicts, and the shift of the mean score.
TotalVariation(pairs) ==
    <<SumOf([s \in ScoresSeen(pairs) |-> Distance(Gives(pairs, 1, s), Gives(pairs, 2, s))]),
      2 * Len(pairs)>>

MeanShift(pairs) ==
    <<SumOf([i \in DOMAIN pairs |-> pairs[i][2]]) - SumOf([i \in DOMAIN pairs |-> pairs[i][1]]),
      Len(pairs)>>

-----------------------------------------------------------------------------
(* effects.py *)

\* The samples on which the second rater is above, below, or level.
Above(pairs) == Cardinality({i \in DOMAIN pairs : pairs[i][2] > pairs[i][1]})
Below(pairs) == Cardinality({i \in DOMAIN pairs : pairs[i][2] < pairs[i][1]})
Level(pairs) == Cardinality({i \in DOMAIN pairs : pairs[i][2] = pairs[i][1]})

MeanDifference(pairs) ==
    <<SumOf([i \in DOMAIN pairs |-> pairs[i][2] - pairs[i][1]]), Len(pairs)>>

\* probability_of_superiority, and tie_adjusted_win_rate of the same outcomes.
Superiority(pairs) == <<2 * Above(pairs) + Level(pairs), 2 * Len(pairs)>>
WinRate(wins, losses, ties) == <<2 * wins + ties, 2 * (wins + losses + ties)>>

\* paired_binary_effects, success being a score of at least `bar'.
Rate(pairs, rater, bar) == <<Cardinality({i \in DOMAIN pairs : pairs[i][rater] >= bar}), Len(pairs)>>
OnlyBy(pairs, rater, bar) ==
    Cardinality({i \in DOMAIN pairs : pairs[i][rater] >= bar /\ pairs[i][3 - rater] < bar})

-----------------------------------------------------------------------------
(* Properties *)

Swapped(pairs) == [i \in DOMAIN pairs |-> <<pairs[i][2], pairs[i][1]>>]

Complete(pairs) == \A i \in DOMAIN pairs : NoRating \notin {pairs[i][1], pairs[i][2]}

\* Krippendorff's alpha by its definition: a matrix of the coincidences within the samples
\* that have at least two scores.
AlphaByCoincidences(pairs) ==
    LET paired == Restrict(pairs, Pairable(pairs))
        Coincide(a, b) == Both(paired, a, b) + Both(paired, b, a)
        Marginal(a) == SumOf([b \in Scores |-> Coincide(a, b)])
        n == SumOf([a \in Scores |-> Marginal(a)])
        differing == {cell \in Scores \X Scores : cell[1] # cell[2]}
        observed == SumOf([c \in differing |-> Coincide(c[1], c[2])])
        expected == SumOf([c \in differing |-> Marginal(c[1]) * Marginal(c[2])])
    IN  IF n = 0 THEN Undefined
        ELSE IF expected = 0 THEN One
        ELSE Complement(<<observed * (n - 1), expected>>)

\* Alpha is Krippendorff's while no score is missing, whoever of the raters is first.
AlphaFits(pairs) ==
    /\ Complete(pairs) => Equal(KrippendorffAlpha(pairs), AlphaByCoincidences(pairs))
    /\ Equal(KrippendorffAlpha(pairs), KrippendorffAlpha(Swapped(pairs)))

\* So are the kappas; perfect agreement, and nothing else, is a kappa of 1, and two scores
\* leave no distance to weigh.
KappasFit(pairs) ==
    /\ \A weighting \in {"linear", "quadratic"} :
          LET kappa == WeightedKappa(pairs, weighting)
          IN  /\ Equal(kappa, WeightedKappa(Swapped(pairs), weighting))
              /\ Equal(kappa, One) <=> Disagreement(pairs)[1] = 0
              /\ Cardinality(ScoresSeen(pairs)) <= 2 => Equal(kappa, CohenKappa(pairs))
    /\ Equal(CohenKappa(pairs), CohenKappa(Swapped(pairs)))
    /\ Equal(Accuracy(pairs), Complement(Disagreement(pairs)))
    /\ \A s \in Scores : Precision(pairs, s) = Recall(Swapped(pairs), s)

\* Effects turn round with the raters, verdicts drift no further than the raters disagree, and
\* the paired effects are those of the counts.
EffectsFit(pairs) ==
    /\ TotalVariation(pairs)[1] <= 2 * Disagreement(pairs)[1]
    /\ Equal(MeanShift(pairs), MeanDifference(pairs))
    /\ MeanDifference(Swapped(pairs))[1] = -MeanDifference(pairs)[1]
    /\ Superiority(pairs) = WinRate(Above(pairs), Below(pairs), Level(pairs))
    /\ Equal(Superiority(Swapped(pairs)), Complement(Superiority(pairs)))
    /\ \A bar \in Scores :
          Rate(pairs, 2, bar)[1] - Rate(pairs, 1, bar)[1]
              = OnlyBy(pairs, 2, bar) - OnlyBy(pairs, 1, bar)

\* The statistics of the packages fit together, whatever the raters gave.
\* agreement.py, effects.py, calibration.py:23-89, diagnostics.py:25-92.
StatisticsFit ==
    ratings # <<>> =>
        /\ AlphaFits(ratings)
        /\ Complete(ratings) => KappasFit(ratings) /\ EffectsFit(ratings)
=============================================================================
