----------------------------- MODULE Evaluation -----------------------------
(***************************************************************************)
(* The calculations around a scorecard, over bounded inputs: the bins of   *)
(* the Weight of Evidence transformer and of the drift monitor, the        *)
(* Kolmogorov-Smirnov statistic as the three places that compute it do,    *)
(* and the recourse offered to a borrower who is scored below the target.  *)
(* Each is one step from an input to an answer, but for the recourse,      *)
(* whose greedy loop takes a step for every improvement it considers.      *)
(*                                                                         *)
(* Feature values, cut points and edges are integers: the values of a      *)
(* series are multiplied by 2 * MaxBins, so that midpoints and             *)
(* interpolated quantiles are exact.  Features of recourse are in          *)
(* thousandths of a percent, finer than what they are rounded to, log-odds *)
(* in tenths.                                                              *)
(***************************************************************************)
EXTENDS Integers, Sequences, FiniteSets, FiniteSetsExt, SequencesExt

CONSTANTS
    Values,       \* the values of a series, before they are multiplied
    MaxCount,     \* the longest series
    MaxBins,      \* max_bins, and num_bins of the drift monitor
    Levels,       \* the probabilities of a sample, in order
    Grid,         \* those after which the benchmark's score grid has a step
    SampleSize,   \* the longest sample
    Amounts,      \* the values of a borrower's actionable features
    Cards,        \* additive scorecards
    Target,       \* target_score
    MaxPathways,
    Nothing       \* no value, no bound

VARIABLES task, input, answer
evaluationVars == <<task, input, answer>>

\* A whole, in thousandths of a percent.
Full == 100000

ASSUME EvaluationAssumption ==
    /\ Values \subseteq Nat /\ IsFiniteSet(Values)
    /\ Levels \subseteq Nat /\ IsFiniteSet(Levels) /\ Grid \subseteq Levels
    /\ Nothing \notin Int
    /\ Nothing \notin {"feature", "drift", "ks", "planning", "recourse"}
    /\ MaxBins \in Nat \ {0} /\ MaxCount \in Nat /\ SampleSize \in Nat
    /\ Amounts \subseteq 0 .. Full /\ Target \in Int
    /\ MaxPathways \in Nat \ {0}

----------------------------------------------------------------------------
(***************************************************************************)
(* Bins.  A series is a sorted sequence; a bin without a lower or an upper *)
(* bound has Nothing there.                                                *)
(***************************************************************************)
Scaled == {2 * MaxBins * v : v \in Values}

Series ==
    {s \in UNION {[1 .. n -> Scaled] : n \in 1 .. MaxCount} :
        \A i \in 1 .. Len(s) - 1 : s[i] <= s[i + 1]}

\* np.percentile at k / MaxBins: between the two neighbours, linearly.
Quantile(s, k) ==
    LET at == (Len(s) - 1) * k
        i == at \div MaxBins + 1
    IN IF i = Len(s) THEN s[i]
       ELSE s[i] + ((s[i + 1] - s[i]) * (at % MaxBins)) \div MaxBins

Median(s) ==
    LET m == Len(s) \div 2
    IN IF Len(s) % 2 = 1 THEN s[m + 1] ELSE (s[m] + s[m + 1]) \div 2

\* Half-way between neighbouring values.
Midpoints(s) ==
    {(v + Min({u \in ToSet(s) : u > v})) \div 2 :
        v \in ToSet(s) \ {Max(ToSet(s))}}

\* The distinct quantiles without the outer two, or the median.
QuantileCuts(s) ==
    LET cuts == {Quantile(s, k) : k \in 0 .. MaxBins}
    IN IF Cardinality(cuts) < 3 THEN {Median(s)}
       ELSE cuts \ {Min(cuts), Max(cuts)}

\* fit_feature: few distinct values are told apart.
FeatureCuts(s) == IF Cardinality(ToSet(s)) <= MaxBins THEN Midpoints(s)
                  ELSE QuantileCuts(s)

\* The k-th of the cut points in order, and the bins between them, open at
\* both ends.
Cut(cuts, k) == CHOOSE c \in cuts : Cardinality({d \in cuts : d < c}) = k - 1

BinsOf(cuts) ==
    LET n == Cardinality(cuts)
    IN [i \in 1 .. n + 1 |->
           [lo |-> IF i = 1 THEN Nothing ELSE Cut(cuts, i - 1),
            hi |-> IF i = n + 1 THEN Nothing ELSE Cut(cuts, i)]]

\* Seeded fault for Matches: a bin holds its upper bound.
MatchesClosed(b, v) ==
    (b.lo # Nothing => v >= b.lo) /\ (b.hi # Nothing => v <= b.hi)

\* WoEBin.matches.
Matches(b, v) == (b.lo # Nothing => v >= b.lo) /\ (b.hi # Nothing => v < b.hi)

\* transform_value takes the first bin that matches, transform the last.
MatchingBins(bins, v) == {i \in 1 .. Len(bins) : Matches(bins[i], v)}
TransformedOne(bins, v) == Min(MatchingBins(bins, v))
TransformedAll(bins, v) == Max(MatchingBins(bins, v))

Counted(bins, s) ==
    [i \in 1 .. Len(bins) |->
        Cardinality({j \in 1 .. Len(s) : Matches(bins[i], s[j])})]

FitFeature ==
    \E s \in Series :
        LET bins == BinsOf(FeatureCuts(s))
        IN /\ task' = "feature" /\ input' = s
           /\ answer' = [bins |-> bins, counts |-> Counted(bins, s)]

\* calculate_psi cuts both samples at the quantiles of the expected one.
CalculatePsi ==
    \E s \in Series, live \in Series :
        LET bins == BinsOf(QuantileCuts(s))
        IN /\ task' = "drift" /\ input' = live
           /\ answer' = [bins |-> bins, counts |-> Counted(bins, live)]

----------------------------------------------------------------------------
(***************************************************************************)
(* Kolmogorov-Smirnov.  A sample is sorted by falling probability, and     *)
(* rows with equal probability are in any order.  Differences of rates are *)
(* multiplied by goods * bads.                                             *)
(***************************************************************************)
Samples ==
    {s \in UNION {[1 .. n -> Levels \X BOOLEAN] : n \in 1 .. SampleSize} :
        \A i \in 1 .. Len(s) - 1 : s[i][1] >= s[i + 1][1]}

Goods(s, I) == Cardinality({i \in I : s[i][2]})
Bads(s, I) == Cardinality(I) - Goods(s, I)

Gap(s, I) == Goods(s, I) * Bads(s, DOMAIN s) - Bads(s, I) * Goods(s, DOMAIN s)
Apart(s, I) == IF Gap(s, I) < 0 THEN -Gap(s, I) ELSE Gap(s, I)

\* Seeded fault for ScanKS: goods ahead of bads only.
ScanOneSided(s) == Max({Gap(s, 1 .. i) : i \in DOMAIN s})

\* compute_ks_statistic and _ks_statistic: after every row.
ScanKS(s) == Max({Apart(s, 1 .. i) : i \in DOMAIN s})

\* compute_comprehensive_metrics: below every step of the score grid.
GridKS(s) == Max({0} \cup
                {Apart(s, {i \in DOMAIN s : s[i][1] <= g}) : g \in Grid})

Judge ==
    \E s \in Samples :
        /\ task' = "ks" /\ input' = s
        /\ answer' = [scan |-> ScanKS(s), grid |-> GridKS(s)]

----------------------------------------------------------------------------
(***************************************************************************)
(* Recourse.  A card adds up what its features contribute to the log-odds: *)
(* the value itself, weighted, of a logistic card, the Weight of Evidence  *)
(* of its bin, and optionally has a calibration that is a step function    *)
(* and bounds the probability.  Boosted trees do not add up and are left   *)
(* out.                                                                    *)
(***************************************************************************)
\* The candidate improvements in their order: below what a feature is one, what
\* it is raised to, at least and by, and the unit of round(t_val, 2): a
\* hundredth of a percent of what is kept in percent, a percent of the others.
Candidate ==
    <<[feature |-> "attendance", below |-> 95000, least |-> 85000, by |-> 25000, unit |-> 10],
      [feature |-> "savings", below |-> 90000, least |-> 75000, by |-> 35000, unit |-> 1000],
      [feature |-> "insurance", below |-> Full, least |-> Full, by |-> 0, unit |-> 1000],
      [feature |-> "utility", below |-> 95000, least |-> 90000, by |-> 25000, unit |-> 10],
      [feature |-> "repayment", below |-> 95000, least |-> 90000, by |-> 20000, unit |-> 1000],
      [feature |-> "upi", below |-> 70000, least |-> 0, by |-> 35000, unit |-> 1000],
      [feature |-> "pm_kisan", below |-> 90000, least |-> Full, by |-> 0, unit |-> 1000]>>

Features == {Candidate[i].feature : i \in DOMAIN Candidate}

Borrowers == {x \in [Features -> Amounts] : x["insurance"] \in {0, Full}}

ASSUME CardsAssumption ==
    \A card \in Cards :
        /\ card.intercept \in Int /\ card.bound \in Nat /\ card.step \in Nat \ {0}
        /\ card.weight \in [Features -> Int]
        /\ \A f \in Features :
              /\ IsFiniteSet(card.cuts[f])
              /\ card.woe[f] \in [1 .. Cardinality(card.cuts[f]) + 1 -> Int]

Within(x, lo, hi) == IF x < lo THEN lo ELSE IF x > hi THEN hi ELSE x

\* The bin of a value: those between cut points hold their lower one.
BinAt(cuts, v) == Cardinality({c \in cuts : c <= v}) + 1

LogOdds(card, x) ==
    LET part(f) == (card.weight[f] * x[f]) \div Full
                   + card.woe[f][BinAt(card.cuts[f], x[f])]
    IN card.intercept + part("attendance") + part("savings")
       + part("insurance") + part("utility") + part("repayment")
       + part("upi") + part("pm_kisan")

\* predict_probability; the isotonic steps of a calibrated card.
Calibrated(card, l) ==
    Within((l \div card.step) * card.step, -card.bound, card.bound)

\* calibrate_score: 600 points at odds of 50, 20 points double the odds.
ScoreOf(card, x) ==
    Within((487123 + 2885 * Calibrated(card, LogOdds(card, x))) \div 1000,
           300, 900)

TargetOf(c, x) ==
    Within(IF x[c.feature] + c.by < c.least THEN c.least
           ELSE x[c.feature] + c.by, 0, Full)

\* round(t_val, 2): the nearest multiple of the unit; half-way, the binary
\* fraction that stands for the value decides which.
Rounded(c, v) ==
    LET low == (v \div c.unit) * c.unit
    IN {r \in {low, low + c.unit} : 2 * r <= 2 * v + c.unit /\ 2 * v <= 2 * r + c.unit}

Raised(features, c, target) == [features EXCEPT ![c.feature] = target]

\* What a candidate gains alone, at the target before it is rounded.
Gain(card, c, x) == ScoreOf(card, Raised(x, c, TargetOf(c, x))) - ScoreOf(card, x)

\* evaluated_actions: the candidates that gain alone; the largest gain goes
\* ahead, equal ones as they are listed.
Able(card, x) ==
    {i \in DOMAIN Candidate :
        /\ x[Candidate[i].feature] < Candidate[i].below
        /\ Gain(card, Candidate[i], x) > 0}

Ahead(card, x, i, j) ==
    \/ Gain(card, Candidate[i], x) > Gain(card, Candidate[j], x)
    \/ /\ Gain(card, Candidate[i], x) = Gain(card, Candidate[j], x)
       /\ i < j

\* The plan before the first improvement; none is left to consider for a
\* borrower who has the target.
NoPlan(card, x) ==
    LET current == ScoreOf(card, x)
    IN [eligible |-> current < Target, current |-> current,
        features |-> x, projected |-> current, pathways |-> << >>,
        left |-> IF current < Target THEN Able(card, x) ELSE {}]

GenerateRecourse ==
    \E card \in Cards, x \in Borrowers :
        /\ task' = IF ScoreOf(card, x) < Target THEN "planning" ELSE "recourse"
        /\ input' = [card |-> card, x |-> x]
        /\ answer' = NoPlan(card, x)

Going(plan) == /\ plan.left # {} /\ Len(plan.pathways) < MaxPathways
               /\ plan.projected < Target

\* Seeded fault for Impact: what the improvement gains alone.
ImpactAlone(card, c, target, plan) == Gain(card, c, input.x)

Impact(card, c, target, plan) ==
    ScoreOf(card, Raised(plan.features, c, target)) - plan.projected

Taken(card, c, target, plan) ==
    [plan EXCEPT
        !.features = Raised(plan.features, c, target),
        !.projected = ScoreOf(card, Raised(plan.features, c, target)),
        !.pathways = Append(plan.pathways,
            [feature |-> c.feature, target |-> target,
             impact |-> Impact(card, c, target, plan)])]

\* One round of the greedy loop: the next improvement, its target rounded, is
\* taken if it gains after those taken before it.
Consider ==
    /\ Going(answer)
    /\ \E i \in answer.left :
       \E target \in Rounded(Candidate[i], TargetOf(Candidate[i], input.x)) :
          LET better == Raised(answer.features, Candidate[i], target)
              rest == [answer EXCEPT !.left = @ \ {i}]
          IN /\ \A j \in answer.left \ {i} : Ahead(input.card, input.x, i, j)
             /\ answer' = IF ScoreOf(input.card, better) > answer.projected
                          THEN Taken(input.card, Candidate[i], target, rest)
                          ELSE rest
    /\ UNCHANGED <<task, input>>

\* The loop ends and the plan is returned.
Offer == ~Going(answer) /\ task' = "recourse" /\ UNCHANGED <<input, answer>>

----------------------------------------------------------------------------
EvaluationInit == task = Nothing /\ input = Nothing /\ answer = Nothing

EvaluationNext ==
    \/ /\ task = Nothing
       /\ FitFeature \/ CalculatePsi \/ Judge \/ GenerateRecourse
    \/ task = "planning" /\ (Consider \/ Offer)

EvaluationSpec == EvaluationInit /\ [][EvaluationNext]_evaluationVars

----------------------------------------------------------------------------
(***************************************************************************)
(* Properties.                                                             *)
(***************************************************************************)

(***************************************************************************)
(* However few, many, equal or skewed the values of a series are, its bins *)
(* partition the line: every value, also one outside the range the bins    *)
(* were cut from, is in one of them, so that the score of one borrower and *)
(* that of a table of borrowers use the same bin, and the counts that make *)
(* the weights and the drift index leave out no value and count none twice.*)
(***************************************************************************)
BinsPartition ==
    task \in {"feature", "drift"} =>
        /\ \A v \in -1 .. Max(Scaled) + 1 :
              /\ MatchingBins(answer.bins, v) # {}
              /\ TransformedOne(answer.bins, v) = TransformedAll(answer.bins, v)
        /\ \A i \in DOMAIN answer.bins :
              answer.counts[i] = Cardinality({j \in DOMAIN input :
                  TransformedOne(answer.bins, input[j]) = i})

\* The largest distance of the two distributions, over every threshold.
TrueKS(s) == Max({Apart(s, {i \in DOMAIN s : s[i][1] >= p}) : p \in Levels})

(***************************************************************************)
(* The promotion gate reads a KS that the scripts compute on a grid and    *)
(* the trainers row by row: the grid never shows more separation than      *)
(* there is, the scan never less, and the scan is exact unless a good and  *)
(* a bad share a probability, which the isotonic steps make common.        *)
(***************************************************************************)
KSBracketed ==
    task = "ks" =>
        /\ answer.grid <= TrueKS(input)
        /\ TrueKS(input) <= answer.scan
        /\ \/ answer.scan = TrueKS(input)
           \/ \E i, j \in DOMAIN input : /\ input[i][1] = input[j][1]
                                        /\ input[i][2] # input[j][2]

\* A borrower who has raised the features of the first k pathways to their
\* targets.
Followed(ways, k, x) ==
    [f \in Features |->
        IF \E i \in 1 .. k : ways[i].feature = f
        THEN ways[CHOOSE i \in 1 .. k : ways[i].feature = f].target
        ELSE x[f]]

\* An improvement whose target, once rounded, gains nothing alone.
RoundedAway(card, c, x) ==
    \E target \in Rounded(c, TargetOf(c, x)) :
        ScoreOf(card, Raised(x, c, target)) <= ScoreOf(card, x)

(***************************************************************************)
(* The recourse keeps its promise: a borrower who raises the features of   *)
(* its pathways to the targets shown, rounded as they are, is scored what  *)
(* it projects, the impacts shown add up to the improvement, each is one,  *)
(* no feature is named twice or lowered, and nothing is asked once the     *)
(* target is reached; and where none is offered, no single improvement     *)
(* helps but by less than the rounding of its target takes away.           *)
(***************************************************************************)
RecourseHonest ==
    task = "recourse" =>
        LET ways == answer.pathways
            Reached(k) == ScoreOf(input.card, Followed(ways, k, input.x))
        IN /\ answer.eligible = (answer.current < Target)
           /\ answer.projected = Reached(Len(ways))
           /\ Len(ways) <= MaxPathways
           /\ \A i \in DOMAIN ways :
                 /\ ways[i].impact > 0
                 /\ ways[i].impact = Reached(i) - Reached(i - 1)
                 /\ Reached(i - 1) < Target
                 /\ ways[i].target > input.x[ways[i].feature]
                 /\ \A j \in DOMAIN ways : ways[i].feature = ways[j].feature
                                               => i = j
           /\ answer.eligible /\ ways = << >> =>
                 \A i \in DOMAIN Candidate :
                    \/ input.x[Candidate[i].feature] >= Candidate[i].below
                    \/ Gain(input.card, Candidate[i], input.x) <= 0
                    \/ RoundedAway(input.card, Candidate[i], input.x)
=============================================================================
