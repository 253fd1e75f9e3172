---- MODULE EvidenceGates ----
(***************************************************************************)
(* What recorded evidence is allowed to conclude: the selection of         *)
(* candidates from out-of-sample and stress folds (oos_validation.rs,      *)
(* promotion_policy.rs, bin/anchorbell_oos_select.rs), the gate a finished *)
(* simulation passes (analytics_validation.rs) and the ladder of           *)
(* hypotheses (validation_contracts.rs).                                   *)
(*                                                                         *)
(* A fold is a record [id, stress, return, complete, sharpe, sortino,      *)
(* drawdown, fee, trades]; complete says whether both ratios are known.    *)
(* Returns, ratios and drawdowns are integers in place of floats: they are *)
(* compared and ordered only, but for the score, which is kept as a        *)
(* fraction.                                                               *)
(***************************************************************************)
EXTENDS Integers, Sequences, FiniteSets, TLC, SequencesExt

Million == 1000000

ValidFold(f) == f.drawdown >= 0 /\ f.fee >= 0

ValidPolicy(p) ==
  /\ p.minOos > 0 /\ p.minStress > 0 /\ p.minTrades > 0
  /\ p.maxDrawdown > 0 /\ p.maxStressDrawdown > 0
  /\ p.maxStressLoss >= 0 /\ p.maxMad >= 0 /\ p.maxFee >= 0
  /\ p.survival <= Million /\ p.positive <= Million

OutOfSample(folds) == SelectSeq(folds, LAMBDA f : ~f.stress)
Stressed(folds) == SelectSeq(folds, LAMBDA f : f.stress)

Sorted(values) == SortSeq(values, LAMBDA a, b : a < b)

\* The bug: the rank is rounded up.
BugPercentile(values, share) ==
  Sorted(values)[((Len(values) - 1) * share + Million - 1) \div Million + 1]

\* The value at a share of the ranks, rounded down.
Percentile(values, share) == Sorted(values)[((Len(values) - 1) * share) \div Million + 1]

Median(values) == Percentile(values, 500000)
Distance(a, b) == IF a > b THEN a - b ELSE b - a
Deviation(values) == Median([i \in DOMAIN values |-> Distance(values[i], Median(values))])
Share(folds, Test(_)) == (Len(SelectSeq(folds, Test)) * Million) \div Len(folds)
Least(values) == Sorted(values)[1]
Largest(values) == Sorted(values)[Len(values)]
Field(folds, Of(_)) == [i \in DOMAIN folds |-> Of(folds[i])]

Insufficient == {"insufficient_oos_folds", "insufficient_stress_folds",
                 "insufficient_oos_trades", "risk_metrics_incomplete"}

\* Why there is no evidence to judge by, or "" when there is.
EvidenceGap(folds, p) ==
  LET oos == OutOfSample(folds)
  IN IF ~ValidPolicy(p) THEN "invalid_constraints"
     ELSE IF \E i \in DOMAIN folds : ~ValidFold(folds[i]) THEN "invalid_fold_metrics"
     ELSE IF Len(oos) < p.minOos THEN "insufficient_oos_folds"
     ELSE IF Len(Stressed(folds)) < p.minStress THEN "insufficient_stress_folds"
     ELSE IF \E i \in DOMAIN oos : oos[i].trades < p.minTrades THEN "insufficient_oos_trades"
     ELSE IF \E i \in DOMAIN oos : ~oos[i].complete THEN "risk_metrics_incomplete"
     ELSE ""

Survives(f, p) == f.return >= -p.maxStressLoss /\ f.drawdown <= p.maxStressDrawdown

\* The figures a candidate is judged by.
Figures(folds, p) ==
  LET oos == OutOfSample(folds)
      returns == Field(oos, LAMBDA f : f.return)
  IN [survival |-> Share(Stressed(folds), LAMBDA f : Survives(f, p)),
      positive |-> Share(oos, LAMBDA f : f.return >= p.minReturn),
      worst |-> Least(returns),
      quartile |-> Percentile(returns, 250000),
      sharpe |-> Median(Field(oos, LAMBDA f : f.sharpe)),
      sortino |-> Median(Field(oos, LAMBDA f : f.sortino)),
      drawdown |-> Largest(Field(oos, LAMBDA f : f.drawdown)),
      fee |-> Median(Field(oos, LAMBDA f : f.fee)),
      mad |-> Deviation(returns)]

\* The first floor or limit that is not met.
Shortfall(g, p) ==
  IF g.drawdown > p.maxDrawdown THEN "oos_drawdown_limit_exceeded"
  ELSE IF g.survival < p.survival THEN "stress_survival_below_floor"
  ELSE IF g.worst < p.minReturn THEN "oos_return_floor_not_met"
  ELSE IF g.positive < p.positive THEN "oos_positive_return_survival_below_floor"
  ELSE IF g.quartile < p.quartile THEN "lower_quartile_return_floor_not_met"
  ELSE IF g.sharpe < p.sharpe THEN "median_sharpe_floor_not_met"
  ELSE IF g.sortino < p.sortino THEN "median_sortino_floor_not_met"
  ELSE IF g.mad > p.maxMad THEN "return_instability_limit_exceeded"
  ELSE IF g.fee > p.maxFee THEN "median_fee_drag_limit_exceeded"
  ELSE "eligible"

Stages == <<"Rejected", "InsufficientEvidence", "PaperCandidate">>

NoFigures == [survival |-> 0, positive |-> 0, worst |-> 0, quartile |-> 0, sharpe |-> 0,
              sortino |-> 0, drawdown |-> 0, fee |-> 0, mad |-> 0]

Judged(figures, reason) ==
  LET stage == IF reason = "eligible" THEN 3 ELSE IF reason \in Insufficient THEN 2 ELSE 1
  IN [eligible |-> stage = 3, stage |-> stage, reason |-> reason, figures |-> figures,
      score |-> IF stage = 3
                THEN <<figures.quartile, IF figures.drawdown > 1 THEN figures.drawdown ELSE 1>>
                ELSE <<0, 1>>,
      positive |-> IF stage = 3 THEN figures.positive ELSE 0]

Measured(figures, p) == Judged(figures, Shortfall(figures, p))

\* RiskAdjustedPromotionPolicy::evaluate: the stage and the figures; a candidate
\* that is not eligible scores nothing.
Evaluate(folds, p) ==
  IF EvidenceGap(folds, p) = "" THEN Measured(Figures(folds, p), p)
  ELSE Judged(NoFigures, EvidenceGap(folds, p))

\* The order of the selector as a list of keys, the larger first.
RankKeys(l, r) ==
  << <<IF l.eligible THEN 1 ELSE 0, IF r.eligible THEN 1 ELSE 0>>,
     <<l.stage, r.stage>>,
     <<l.score[1] * r.score[2], r.score[1] * l.score[2]>>,
     <<l.positive, r.positive>>,
     <<l.figures.survival, r.figures.survival>>,
     <<l.figures.sharpe, r.figures.sharpe>>,
     <<r.figures.drawdown, l.figures.drawdown>>,
     <<r.figures.mad, l.figures.mad>> >>

\* The first key that differs decides.
Precedes(k) == \E i \in DOMAIN k : k[i][1] > k[i][2] /\ \A j \in 1..i - 1 : k[j][1] = k[j][2]

\* compare_risk_adjusted_candidates: l ranks above r.
RanksAbove(l, r) == Precedes(RankKeys(l, r))

\* validate_candidate_fold_coverage on one candidate's folds.
Covered(folds) ==
  /\ folds # <<>>
  /\ \A i \in DOMAIN folds : ValidFold(folds[i])
  /\ \A i, j \in DOMAIN folds : folds[i].id = folds[j].id => i = j

\* Candidates are numbered in the order of their identifiers, which breaks ties.
Best(e) == {c \in DOMAIN e : e[c].eligible /\ ~\E d \in DOMAIN e :
              \/ RanksAbove(e[d], e[c])
              \/ d < c /\ ~RanksAbove(e[c], e[d])}

\* The candidate that anchorbell_oos_select names, or 0.
SelectedOf(candidates, best) ==
  IF (\A c \in DOMAIN candidates : Covered(candidates[c])) /\ best # {}
  THEN CHOOSE c \in best : TRUE ELSE 0

Ranked(candidates, p) == [c \in DOMAIN candidates |-> Evaluate(candidates[c], p)]
Selected(candidates, p) == SelectedOf(candidates, Best(Ranked(candidates, p)))

----
(* The gates of one simulation run and of one hypothesis *)

MinimumFills == 100

\* evaluate_candidate_readiness: what one run of one ledger can conclude.
Readiness(r) ==
  LET intact == r.dropped = 0
      enough == r.fills >= MinimumFills /\ r.orders >= r.fills
      pays == enough /\ r.pnl > 0
      survives == intact /\ r.incomplete = 0 /\ r.notFlat = 0
  IN IF r.ledgers # 1 THEN "Indeterminate"
     ELSE IF intact /\ enough /\ pays /\ survives THEN "Supported"
     ELSE IF intact /\ enough THEN "Falsified" ELSE "Indeterminate"

\* evaluate_simulation_promotion_with_anchor_authority: never more than
\* Falsified or Indeterminate.
RunVerdict(r, authority) ==
  IF authority /\ r.ledgers <= 1 /\ Readiness(r) = "Falsified"
  THEN "Falsified" ELSE "Indeterminate"

\* adjudicate_hypotheses.
Adjudicate(g) ==
  IF ~g.labels \/ g.falsification = "Failed" THEN "Inconclusive"
  ELSE IF ~g.descriptive THEN "Rejected"
  ELSE IF ~g.mechanism THEN "DescriptiveSupported"
  ELSE IF g.conditional THEN "ConditionalAlpha"
  ELSE IF ~g.economic THEN "MechanismSupported"
  ELSE IF ~g.survives THEN "EconomicallyTradable"
  ELSE "Deployable"

\* A label may be used for an observation it does not precede.
LabelUsable(observedAt, receivedAt, labelAt, knownAt) ==
  /\ receivedAt >= observedAt
  /\ knownAt >= labelAt
  /\ knownAt >= observedAt

----
(* Reference definition: folds are counted, nothing is sorted *)

\* At least this many of n values lie on the good side of a median.
Half(n) == n - (n - 1) \div 2

GoodFolds(oos, Good(_)) == Cardinality({i \in DOMAIN oos : Good(oos[i])})

EarnsOn(oos, stress, n, p) ==
  /\ n >= p.minOos /\ Len(stress) >= p.minStress
  /\ \A i \in 1..n : /\ oos[i].trades >= p.minTrades
                     /\ oos[i].complete
                     /\ oos[i].drawdown <= p.maxDrawdown
                     /\ oos[i].return >= p.minReturn
  /\ GoodFolds(stress, LAMBDA f : Survives(f, p)) * Million >= p.survival * Len(stress)
  /\ GoodFolds(oos, LAMBDA f : f.return >= p.quartile) >= n - (n - 1) \div 4
  /\ GoodFolds(oos, LAMBDA f : f.sharpe >= p.sharpe) >= Half(n)
  /\ GoodFolds(oos, LAMBDA f : f.sortino >= p.sortino) >= Half(n)
  /\ 2 * GoodFolds(oos, LAMBDA f : f.fee <= p.maxFee) >= n
  /\ \E i \in 1..n :
       /\ GoodFolds(oos, LAMBDA f : f.return >= oos[i].return) >= Half(n)
       /\ 2 * GoodFolds(oos, LAMBDA f : f.return <= oos[i].return) >= n
       /\ 2 * GoodFolds(oos, LAMBDA f : Distance(f.return, oos[i].return) <= p.maxMad) >= n

EarnsSelection(folds, p) ==
  /\ ValidPolicy(p)
  /\ \A i \in DOMAIN folds : ValidFold(folds[i])
  /\ EarnsOn(OutOfSample(folds), Stressed(folds), Len(OutOfSample(folds)), p)

Earned(chosen, deserving, rank) ==
  /\ chosen = 0 <=> deserving = {}
  /\ chosen # 0 => /\ chosen \in deserving
                   /\ \A c \in DOMAIN rank : ~RanksAbove(rank[c], rank[chosen])

\* The selector names a candidate only if some candidate earns it, and then one
\* that does and that no other outranks.
SelectionIsEarned(candidates, p) ==
  (\A c \in DOMAIN candidates : Covered(candidates[c])) =>
     Earned(Selected(candidates, p),
            {c \in DOMAIN candidates : EarnsSelection(candidates[c], p)},
            Ranked(candidates, p))
====
