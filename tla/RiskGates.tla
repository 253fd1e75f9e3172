----------------------------- MODULE RiskGates ------------------------------
(***************************************************************************)
(* The gates a runner may ask before an entry: the session gate            *)
(* (engine/src/execution/risk.rs, strategy/session.rs), the gate on the    *)
(* flatten plan (execution/funding_risk.rs), the limits of an order        *)
(* (execution/limits.rs), the static anchor policy                         *)
(* (strategy/anchor_policy.rs) and the universe (strategy/universe.rs);    *)
(* and the fair value behind an anchor (strategy/reference_model.rs).      *)
(***************************************************************************)
EXTENDS Integers, PositionExits

CONSTANT Unit  \* the whole of a price, in basis points

Lesser(a, b) == IF a < b THEN a ELSE b
Greater(a, b) == IF a > b THEN a ELSE b

Verdict(action) == [action |-> action, quantity |-> 0]
AllowsEntry(quantity) == [action |-> "AllowEntry", quantity |-> quantity]

\* StaticAnchor::is_valid_at; [from, until], with from < until.
AnchorValid(anchor, now) == anchor.from <= now /\ now < anchor.until

\* ClosedSession: closed < flatten < reopen.
SessionEntry(session, now) == session.closed <= now /\ now < session.flatten
MustFlatten(session, now) == session.flatten <= now

MarketFresh(i) == i.market <= i.now /\ i.now - i.market <= i.maxAge

\* The common end of both gates: what is left of the limit, on either side.
WithinLimit(i, max) ==
    IF ~MarketFresh(i) \/ ~AnchorValid(i.anchor, i.now) THEN Verdict("Halt")
    ELSE IF i.requested <= 0 \/ Absolute(i.position) >= max THEN Verdict("NoAction")
    ELSE AllowsEntry(Lesser(i.requested, max - Absolute(i.position)))

\* SessionRiskGate::evaluate: a position is flattened even beyond the limit.
SessionGate(i, session, max) ==
    IF i.position # 0 /\ MustFlatten(session, i.now) THEN Verdict("Flatten")
    ELSE IF Absolute(i.position) > max THEN Verdict("Halt")
    ELSE IF ~SessionEntry(session, i.now) THEN Verdict("NoAction")
    ELSE WithinLimit(i, max)

\* FundingAwareRiskGate::evaluate: beyond the limit it halts first.
FundingGate(i, plan, max) ==
    LET phase == PhaseAt(plan, i.now, i.position # 0)
    IN  IF Absolute(i.position) > max THEN Verdict("Halt")
        ELSE IF phase = "ResidualExposure" THEN Verdict("ResidualExposure")
        ELSE IF phase = "ReduceOnly" THEN Verdict("Flatten")
        ELSE IF ~plan.known \/ PhaseAt(plan, i.now, TRUE) # "Trading"
        THEN Verdict("StopNewRisk")
        ELSE WithinLimit(i, max)

\* OrderLimits::validate.
WithinOrderLimits(limits, side, price, quantity, bid, ask) ==
    /\ price > 0 /\ quantity > 0
    /\ limits.minPrice <= price /\ price <= limits.maxPrice
    /\ limits.tick > 0 /\ price % limits.tick = 0
    /\ limits.minQuantity <= quantity /\ quantity <= limits.maxQuantity
    /\ limits.step > 0 /\ quantity % limits.step = 0
    /\ price * quantity >= limits.minNotional
    /\ IF side = "buy" THEN price < ask ELSE price > bid

\* AnchorPolicy::decide; threshold in parts of Unit of the anchor.
AnchorPolicyDecision(i, threshold, max) ==
    LET off == ((i.bid + i.ask) \div 2 - i.price) * Unit
        side == IF off <= -(threshold * i.price) THEN 1
                ELSE IF off >= threshold * i.price THEN -1 ELSE 0
        quantity == Lesser(Lesser(i.requested, max), Greater(max - side * i.position, 0))
    IN  IF i.price <= 0 \/ i.bid <= 0 \/ i.ask < i.bid \/ i.requested <= 0
           \/ side = 0 \/ quantity = 0
        THEN [side |-> 0, quantity |-> 0]
        ELSE [side |-> side, quantity |-> quantity]

\* TradFiInstrument::is_execution_eligible.
Eligible(adr, discovery) ==
    \/ adr = "ConfirmedAbsent"
    \/ adr = "ConfirmedPresent" /\ discovery \in {"InactiveOrStale", "NoEffectiveMarket", "NotApplicable"}

-----------------------------------------------------------------------------
(* The reference price made of an external close (AdjustedReference) and   *)
(* the fair value that weighs it against what the venue shows              *)
(* (FairValueEstimate). Distances are in parts of Unit, weights and        *)
(* confidences in parts of a million; a price of 0 stands for None.        *)

\* from_inputs(): currency, corporate action and carry, rounded once, at the end.
AdjustedPrice(r) ==
    IF r.close <= 0 \/ r.fx <= 0 \/ r.action <= 0 \/ r.until <= r.seen \/ r.carry <= -r.one THEN 0
    ELSE (r.close * r.fx * r.action * (r.one + r.carry)) \div (r.one * r.one * r.one)

ReferenceValidAt(r, quality, now) ==
    quality = "confirmed" /\ AdjustedPrice(r) > 0 /\ now >= r.seen /\ now < r.until

\* distance_pico_bps().
Distance(left, right) == (Absolute(left - right) * Unit) \div Greater(right, 1)

\* The widest of the three gaps along anchor, index, mark and mid.
Dispersion(m) ==
    Greater(Distance(m.index, m.anchor), Greater(Distance(m.mark, m.index), Distance(m.mid, m.mark)))

Regime(m, at) ==
    IF Dispersion(m) >= at.dislocated \/ m.volatility >= at.wild THEN "dislocated"
    ELSE IF Dispersion(m) >= at.stressed \/ m.volatility >= at.lively THEN "stressed"
    ELSE IF Dispersion(m) <= at.calm /\ m.volatility <= at.quiet THEN "calm"
    ELSE "normal"

\* Of anchor, index and mark, in thousandths: the venue loses weight when it is at odds
\* with itself or the anchor.
Weights == [calm       |-> <<500, 300, 200>>, normal     |-> <<600, 250, 150>>,
            stressed   |-> <<750, 175, 75>>,  dislocated |-> <<900, 75, 25>>]

\* The declared validity of the anchor, or the operational age where there is none.
Horizon(m) == IF m.until > m.seen THEN m.until - m.seen ELSE m.maxAge

\* anchor_confidence_ppm: what is left of the horizon.
Trust(m, now) ==
    IF m.seen > 0 /\ Horizon(m) > 0 /\ now >= m.seen
    THEN (Greater(Horizon(m) - (now - m.seen), 0) * PPM) \div Horizon(m)
    ELSE PPM

Usable(m) == m.anchor > 0 /\ m.index > 0 /\ m.mark > 0 /\ m.mid > 0
             /\ m.volatility >= 0 /\ m.spread >= 0

FairPrice(m, at, now) ==
    LET w == Weights[Regime(m, at)]
        anchored == (w[1] * Trust(m, now)) \div PPM
    IN  IF ~Usable(m) THEN 0
        ELSE (m.anchor * anchored + m.index * w[2] + m.mark * w[3])
               \div Greater(anchored + w[2] + w[3], 1)

\* confidence_pico_bps: the venue's own dispersion in full, the disagreement with the
\* anchor as far as the anchor is trusted, volatility and half the spread.
Uncertainty(m, now) ==
    Greater(Greater(Distance(m.mark, m.index), Distance(m.mid, m.mark)),
           (Distance(m.index, m.anchor) * Trust(m, now)) \div PPM)
    + m.volatility + (m.spread \div 2)

-----------------------------------------------------------------------------
\* Whatever gate lets an entry through, the position stays within the limit on
\* the side it takes; the market and the anchor are current; and no entry is
\* let through by the plan of a position that would have to be reduced at once
\* (SessionRiskGate and FundingAwareRiskGate, AnchorPolicy).
GatesKeepTheLimit(i, session, plan, threshold, max) ==
    LET gates == {SessionGate(i, session, max), FundingGate(i, plan, max)}
        policy == AnchorPolicyDecision(i, threshold, max)
    IN  /\ \A g \in {g \in gates : g.action = "AllowEntry"} :
              /\ g.quantity > 0 /\ Absolute(i.position) + g.quantity <= max
              /\ i.market <= i.now /\ i.now < i.anchor.until
        /\ FundingGate(i, plan, max).action = "AllowEntry" =>
              FundingGate([i EXCEPT !.position = 1], plan, max).action # "Flatten"
        /\ policy.side # 0 =>
              Absolute(i.position + policy.side * policy.quantity)
                <= Greater(max, Absolute(i.position))

\* fair_value_keeps_anchor_primary_during_dislocation, and the comment on confidence: as
\* an anchor grows old, at moments <<earlier, later>>, the fair value never moves back
\* towards it and what it disagrees about counts for less; once its horizon is over it has
\* no say in the price; and while it is fresh, a dislocated venue moves the price by at
\* most a tenth of its distance from the anchor.
AnchorIsPrimaryWhileItLasts(m, at, earlier, later) ==
    LET Pull(now) == Absolute(FairPrice(m, at, now) - m.anchor)
        lowest  == Lesser(m.index, m.mark)
        highest == Greater(m.index, m.mark)
    IN  Usable(m) =>
        /\ FairPrice(m, at, later) \in
              Lesser(lowest, m.anchor) .. Greater(highest, m.anchor)
        /\ earlier <= later /\ (m.anchor <= lowest \/ m.anchor >= highest) =>
              Pull(later) >= Pull(earlier)
        /\ earlier <= later => Uncertainty(m, later) <= Uncertainty(m, earlier)
        /\ m.seen > 0 /\ Horizon(m) > 0 /\ later >= m.seen + Horizon(m) =>
              FairPrice(m, at, later) \in lowest .. highest
        /\ Trust(m, later) = PPM /\ Regime(m, at) = "dislocated" =>
              10 * Pull(later) <= Greater(Absolute(lowest - m.anchor), Absolute(highest - m.anchor)) + 10
=============================================================================
