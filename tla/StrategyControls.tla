-------------------------- MODULE StrategyControls --------------------------
(***************************************************************************)
(* The controllers a strategy may have beside its signal:                  *)
(*  - what the coming funding payment allows (engine/src/m8.rs), the       *)
(*    overlay that turns it into a state of risk (engine/src/risk.rs), and *)
(*    the gate the engine makes of both (simulation/runtime.rs,            *)
(*    rebalance_symbol);                                                   *)
(*  - the deadline policy: build, harvest, exit (strategy/m9.rs);          *)
(*  - dynamic capital: weights (strategy/capital.rs) and the budgets made  *)
(*    of them (simulation/runtime.rs, refresh_dynamic_allocations).        *)
(*                                                                         *)
(* Edges, costs and carries of funding are in parts of a basis point, as   *)
(* the code keeps them; what the funding decision shows of its carry is    *)
(* rounded to whole ones. Saturation is left out. A funding `rate` is what *)
(* a long position pays. The symbols that share capital are 1..n, in the   *)
(* order of their names.                                                   *)
(***************************************************************************)
EXTENDS Integers, FiniteSets
LOCAL INSTANCE FiniteSetsExt

CONSTANTS PicoBpsScale, \* the parts of a basis point, 10^12 in the code
          BasisPoints,  \* the parts of a whole, 10 000 basis points
          SafetyMargin, \* the parts of 5 basis points
          NearFunding,  \* five minutes
          Whole,        \* 10 000: the whole of a share, and the basis points of one
          TotalWeight,  \* 10 000
          RiskScore     \* 1 000 000, divided by the risk of a symbol

Lesser(a, b) == IF a < b THEN a ELSE b
Greater(a, b) == IF a > b THEN a ELSE b
Sign(n) == IF n > 0 THEN 1 ELSE IF n < 0 THEN -1 ELSE 0
Size(n) == Sign(n) * n
LOCAL Largest(S) == CHOOSE x \in S : \A y \in S : x >= y

-----------------------------------------------------------------------------
(* The funding payment.                                                    *)

Statuses == {"Observed", "Missing", "Stale", "Special", "Unknown"}

\* pico_to_bps: to the next whole basis point, half of one away from zero.
Rounded(parts) == Sign(parts) * ((Size(parts) + PicoBpsScale \div 2) \div PicoBpsScale)

\* M8Decision, of which the callers read these fields; its carry is the rounded one.
Funding(action, entry, reduce, carry) ==
    [action |-> action, entry |-> entry, reduce |-> reduce, carry |-> carry]
NoFunding == Funding("NoAction", FALSE, FALSE, 0)

SignalSide(i) == Sign(i.anchor - i.mid)
AnchorEdge(i) == (Size(i.anchor - i.mid) * BasisPoints) \div i.mid

\* A position is paid for its own side, a flat symbol for the side of the signal.
FundedSide(i) == IF i.position # 0 THEN Sign(i.position) ELSE SignalSide(i)
Carry(i) == IF i.known THEN -FundedSide(i) * i.rate ELSE 0
Costs(i) == 2 * i.fee + i.volatility + i.spread \div 2 + i.uncertainty + i.buffer
NetEdge(i) == AnchorEdge(i) + Carry(i) - Costs(i)
Safety(i) == Costs(i) + SafetyMargin
Near(i) == i.next - i.now <= NearFunding

InvalidFunding(i) ==
    \/ i.anchor <= 0 \/ i.mid <= 0 \/ i.mark <= 0 \/ i.index <= 0 \/ i.max <= 0
    \/ i.fee < 0 \/ i.volatility < 0 \/ i.spread < 0 \/ i.uncertainty < 0 \/ i.buffer < 0

FundingUnknown(i) == i.status \in {"Unknown", "Missing"} \/ ~i.scheduled

FundingDecision(i) ==
    IF InvalidFunding(i) \/ FundingUnknown(i) THEN NoFunding
    ELSE IF i.position # 0 /\ (NetEdge(i) <= 0 \/ i.status = "Special")
    THEN Funding("Exit", FALSE, TRUE, Rounded(Carry(i)))
    ELSE IF AnchorEdge(i) = 0 THEN Funding("NoAction", FALSE, FALSE, Rounded(Carry(i)))
    ELSE IF NetEdge(i) > Safety(i)
    THEN Funding(IF Near(i) /\ Carry(i) > 0 THEN "Collect" ELSE "Tolerate",
                 TRUE, FALSE, Rounded(Carry(i)))
    ELSE Funding("Avoid", FALSE, i.position # 0, Rounded(Carry(i)))

-----------------------------------------------------------------------------
(* evaluate_funding_overlay.                                               *)

Overlaid(state, base, reduce) == [state |-> state, base |-> base, reduce |-> reduce]

FundingOverlay(d, status, position) ==
    IF status \in {"Unknown", "Missing", "Stale"} THEN Overlaid("Halt", FALSE, position # 0)
    ELSE IF status = "Special"
    THEN Overlaid(IF position # 0 THEN "ReduceOnly" ELSE "Halt", FALSE, position # 0)
    ELSE IF d.action = "Exit" THEN Overlaid("ReduceOnly", FALSE, position # 0)
    ELSE IF d.action = "Avoid" /\ d.carry < 0 THEN Overlaid("Adverse", FALSE, position # 0)
    ELSE Overlaid(IF d.action = "Collect" \/ d.carry > 0 THEN "Favorable" ELSE "Neutral",
                  TRUE, FALSE)

-----------------------------------------------------------------------------
(* The engine: m8_funding_decision, and funding_allowed in rebalance_symbol *)
(* of a strategy that uses the controller, under live risk gates.           *)

EngineInput(s) ==
    [anchor |-> s.anchor, mid |-> s.mid, mark |-> s.mark, index |-> s.index,
     position |-> s.position, max |-> IF s.max < 1 THEN 1 ELSE s.max,
     known |-> s.known, rate |-> s.rate,
     scheduled |-> s.next > s.now, next |-> s.next, now |-> s.now,
     status |-> IF s.known THEN "Observed" ELSE "Missing",
     fee |-> s.fee, volatility |-> 3 * s.volatility, spread |-> s.spread,
     uncertainty |-> ((Size(s.mark - s.index) * BasisPoints) \div s.index) \div 2,
     buffer |-> SafetyMargin]

BugFundingAllowed(s) ==
    LET d == FundingDecision(EngineInput(s))
    IN  d.entry \/ d.action \in {"Avoid", "NoAction"}
FundingAllowed(s) ==
    LET d == FundingDecision(EngineInput(s))
    IN  /\ FundingOverlay(d, EngineInput(s).status, s.position).base
        /\ d.entry \/ d.action \in {"Avoid", "NoAction"}

\* Strategies without the controller stop FundingLead before the payment.
FlattenBefore(next, lead) == IF next - lead < 0 THEN 0 ELSE next - lead
FundingEntryAllowed(s, lead) == s.next > s.now /\ s.now < FlattenBefore(s.next, lead)

\* funding_entry_allowed_variant.
FundingEntryAllowedVariant(s, controlled, lead) ==
    IF controlled THEN FundingDecision(EngineInput([s EXCEPT !.max = Size(s.position)])).entry
    ELSE FundingEntryAllowed(s, lead)

-----------------------------------------------------------------------------
\* A payment that is due, known and against the side of the signal lets a flat
\* symbol enter only if the edge pays for it and twice the costs, or if it is
\* below half a basis point, which the gate rounds away; a rate that is not
\* known lets none enter; and a rate that is worse for the side never opens a
\* gate that a better one keeps closed (rebalance_symbol, m8::decide).
FundingIsPaidFor(s, rates) ==
    LET i == EngineInput(s)
    IN  s.position = 0 /\ FundingAllowed(s) =>
          /\ s.known
          /\ i.scheduled /\ ~InvalidFunding(i) /\ AnchorEdge(i) > 0
                /\ -2 * Carry(i) >= PicoBpsScale => NetEdge(i) > Safety(i)
          /\ \A better \in rates :
                FundedSide(i) * better <= FundedSide(i) * s.rate =>
                    FundingAllowed([s EXCEPT !.rate = better])

-----------------------------------------------------------------------------
(* The deadline.                                                           *)

ValidCalibration(c) ==
    /\ c.halfLife > 0 /\ c.exitLead > 0 /\ c.fillHorizon > 0
    /\ {c.hazard, c.nullWeight, c.participation} \subseteq 0 .. Whole
    /\ c.uncertainty >= 0 /\ c.adverse >= 0 /\ c.minResidual >= 0 /\ c.minEdge >= 0

LeftUntil(i) == Greater(i.deadline - i.now, 0)

DeadlinePhase(left, c) ==
    IF left = 0 THEN "Reconcile"
    ELSE IF left <= c.exitLead THEN "Exit"
    ELSE IF left <= 3 * c.exitLead THEN "Harvest"
    ELSE "Build"

InvalidDeadlineInput(i, c) ==
    \/ ~ValidCalibration(c) \/ i.deadline = 0 \/ ~i.dataValid \/ ~i.fundingValid
    \/ i.fair <= 0 \/ i.mid <= 0 \/ i.bid <= 0 \/ i.ask < i.bid \/ i.mark <= 0 \/ i.index <= 0
    \/ i.max <= 0 \/ i.requested <= 0

Residual(i) == (Size(i.fair - i.mid) * Whole) \div i.mid
\* The quotient is cut towards zero: a residual below the last digit is none.
SignalOf(i) == IF Residual(i) = 0 THEN 0 ELSE Sign(i.fair - i.mid)

\* positive_capacity: a share of the depth on the side an exit rests at.
ExitBuys(i) == IF i.position # 0 THEN i.position < 0 ELSE SignalOf(i) < 0
ExitCapacity(i, c) ==
    Lesser(Size(i.position) + i.requested,
           (Greater(IF ExitBuys(i) THEN i.bidDepth ELSE i.askDepth, 0) * c.participation)
               \div Whole)

\* fill_lower_bound, in parts of Whole.
FillLowerBound(i, c) ==
    LET horizon == Lesser(LeftUntil(i), 8 * c.fillHorizon)
        time == (horizon * Whole) \div (horizon + c.fillHorizon)
        queue == (i.requested * Whole) \div (Greater(i.queue, 0) + i.requested)
    IN  Lesser((c.hazard * time * queue) \div (Whole * Whole), Whole)

\* The horizon of the decay is capped in the numerator only.
ExpectedReversion(i, c) ==
    LET left == LeftUntil(i)
        decay == (Lesser(left, 8 * c.halfLife) * Whole) \div (left + c.halfLife)
    IN  (((Residual(i) * decay) \div Whole) * (Whole - c.nullWeight)) \div Whole

DeadlineCosts(i, c) ==
    Greater(i.fee, 0) + Greater(i.spread, 0) + Greater(i.volatility, 0) \div 2
    + Greater(i.markout, 0) + Greater(-i.carry, 0) + c.uncertainty + c.adverse
    + IF LeftUntil(i) < 2 * c.exitLead THEN 5 ELSE 0

RobustEdge(i, c) ==
    (ExpectedReversion(i, c) * FillLowerBound(i, c)) \div Whole - DeadlineCosts(i, c)

EntryQuantity(i, c) ==
    Lesser(Lesser(i.requested, Greater(i.max - SignalOf(i) * i.position, 0)),
           ExitCapacity(i, c))

NoDeadlineAction == [action |-> "NoAction", side |-> 0, quantity |-> 0]

\* A position whose residual has turned, or any position in the exit phase.
MustReduce(i, c) ==
    /\ i.position # 0
    /\ \/ DeadlinePhase(LeftUntil(i), c) = "Exit"
       \/ SignalOf(i) \notin {0, Sign(i.position)}

MayEnter(i, c) ==
    /\ DeadlinePhase(LeftUntil(i), c) \in {"Build", "Harvest"}
    /\ SignalOf(i) # 0 /\ Residual(i) >= c.minResidual
    /\ EntryQuantity(i, c) > 0
    /\ RobustEdge(i, c) >= c.minEdge

DeadlineDecision(i, c) ==
    LET reducible == Lesser(ExitCapacity(i, c), Size(i.position))
    IN  IF InvalidDeadlineInput(i, c) THEN NoDeadlineAction
        ELSE IF MustReduce(i, c)
        THEN IF reducible <= 0 THEN NoDeadlineAction
             ELSE [action |-> "Reduce", side |-> -Sign(i.position), quantity |-> reducible]
        ELSE IF MayEnter(i, c)
        THEN [action |-> "Maker", side |-> SignalOf(i), quantity |-> EntryQuantity(i, c)]
        ELSE NoDeadlineAction

-----------------------------------------------------------------------------
\* What is entered can be left again: it stays within the limit and within the
\* share of the depth an exit may take; a reduction never turns a position
\* round; and an entry that is refused is not taken later, with less time left,
\* everything else being equal (decide, within eight half-lives).
EntriesCanBeLeft(i, c, later) ==
    LET d == DeadlineDecision(i, c)
    IN  /\ d.action = "Reduce" => d.quantity <= Size(i.position)
                                  /\ d.side = -Sign(i.position)
        /\ d.action = "Maker" =>
              /\ Size(i.position + d.side * d.quantity) <= Greater(i.max, Size(i.position))
              /\ d.quantity * Whole
                   <= (IF d.side > 0 THEN i.askDepth ELSE i.bidDepth) * c.participation
        /\ d.action # "Maker" /\ LeftUntil(i) <= 8 * c.halfLife =>
              \A now \in later : now >= i.now =>
                  DeadlineDecision([i EXCEPT !.now = now], c).action # "Maker"

-----------------------------------------------------------------------------
(* Capital.                                                                *)

Total(f, S) == MapThenSumSet(LAMBDA s : f[s], S)

\* What is impossible is refused before anything is given.
InvalidWeights(risks, low, high) ==
    LET n == Cardinality(DOMAIN risks)
    IN  n = 0 \/ low < 0 \/ high < low \/ high > TotalWeight
        \/ low * n > TotalWeight \/ high * n < TotalWeight

\* Nobody's share comes to a unit: one each, in order, while there is any.
OneEach(weights, left, active, high) ==
    LET open == {s \in active : weights[s] < high}
        served == {s \in open : Cardinality({t \in open : t <= s}) <= left}
    IN  [weights |-> [s \in DOMAIN weights |-> IF s \in served THEN weights[s] + 1 ELSE weights[s]],
         left |-> left - Cardinality(served)]

\* One round: everyone's share of what is left, by the inverse of its risk, up
\* to the cap; those at the cap leave.
Share(risks, s, active, left) ==
    LET score == [t \in active |-> RiskScore \div Greater(risks[t], 1)]
    IN  IF Cardinality(active) = 1 THEN left
        ELSE (left * score[s]) \div Greater(Total(score, active), 1)

Round(risks, r, high) ==
    LET gift == [s \in r.active |-> Lesser(Share(risks, s, r.active, r.left), high - r.weights[s])]
        given == Total(gift, r.active)
        next == IF given = 0 THEN OneEach(r.weights, r.left, r.active, high)
                ELSE [weights |-> [s \in DOMAIN r.weights |->
                                      r.weights[s] + IF s \in r.active THEN gift[s] ELSE 0],
                      left |-> r.left - given]
    IN  IF r.left = 0 \/ r.active = {} THEN r
        ELSE [weights |-> next.weights, left |-> next.left,
              active |-> {s \in r.active : next.weights[s] < high}]

\* Every round gives away a unit or leaves nobody to give to, so there are no more
\* rounds than units.
Spread(risks, weights, left, active, high) ==
    LET after[k \in 0 .. left] ==
            IF k = 0 THEN [weights |-> weights, left |-> left, active |-> active]
            ELSE Round(risks, after[k - 1], high)
    IN  after[left]

\* dynamic_weights: Refused, or the weights.
Refused == <<>>
DynamicWeights(risks, eligible, low, high) ==
    LET n == Cardinality(DOMAIN risks)
        end == Spread(risks, [s \in DOMAIN risks |-> low], TotalWeight - low * n, eligible, high)
    IN  IF InvalidWeights(risks, low, high) \/ eligible = {} \/ end.left # 0 THEN Refused
        ELSE end.weights

\* refresh_dynamic_allocations: the last symbol, and the one that takes the last
\* of the weight, gets what is left of the money.
Budgets(weights, capital) ==
    LET n == Largest(DOMAIN weights)
        share == [s \in 1 .. n |-> (capital * weights[s]) \div TotalWeight]
        takesRest(s) == s = n \/ Total(weights, 1 .. s - 1) + weights[s] = TotalWeight
        Budget[s \in 1 .. n] ==
            IF takesRest(s) THEN capital - Total([t \in 1 .. s - 1 |-> Budget[t]], 1 .. s - 1)
            ELSE share[s]
    IN  [s \in 1 .. n |-> Budget[s]]

\* A new plan is adopted as a whole, when some symbol's budget has moved by the
\* deadband, or holds more than it would be allowed.
Adopts(old, new, held, capital, deadband) ==
    {s \in DOMAIN new :
        \/ Greater(new[s] - old[s], old[s] - new[s]) * TotalWeight >= deadband * capital
        \/ new[s] < held[s]}

-----------------------------------------------------------------------------
\* Weights are found exactly when the caps of the eligible symbols have room
\* for what the floors leave; they add up to the whole, nobody is below the
\* floor or above the cap, who is not eligible stays at the floor, and of two
\* eligible symbols the one with the smaller risk gets no less, but for what
\* rounding gives; the budgets add up to the capital (dynamic_weights).
WeightsAreFair(risks, eligible, low, high, capital) ==
    LET w == DynamicWeights(risks, eligible, low, high)
        others == Cardinality(DOMAIN risks) - Cardinality(eligible)
        room == high * Cardinality(eligible) + low * others
    IN  IF InvalidWeights(risks, low, high) \/ eligible = {} THEN w = Refused
        ELSE /\ w = Refused <=> room < TotalWeight
             /\ w # Refused =>
                  /\ Total(w, DOMAIN w) = TotalWeight
                  /\ \A s \in DOMAIN w : low <= w[s] /\ w[s] <= high
                  /\ \A s \in DOMAIN w \ eligible : w[s] = low
                  /\ \A s, t \in eligible : risks[s] < risks[t] => w[s] + 1 >= w[t]
                  /\ Total(Budgets(w, capital), DOMAIN w) = capital
                  /\ \A s \in DOMAIN w : Budgets(w, capital)[s] >= 0
=============================================================================
