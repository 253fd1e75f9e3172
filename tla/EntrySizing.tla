----------------------------- MODULE EntrySizing -----------------------------
(***************************************************************************)
(* From the evidence of a symbol to the size of an entry                   *)
(* (engine/src/simulation/runtime_math.rs, and the anchor branch of        *)
(* rebalance_symbol in engine/src/simulation/runtime.rs): the hurdle, the  *)
(* risks and the chain of cuts between what capital allows and what is     *)
(* placed. SignalPolicy decides on the side and the price in between.      *)
(*                                                                         *)
(* An input i holds what is known of a flat symbol: prices, depth and      *)
(* queue per side, its moving averages, samples and counts, and the        *)
(* observed residuals. Hurdles are in basis points, shares in parts of     *)
(* Unit; the finer scales of the code are left out.                        *)
(***************************************************************************)
EXTENDS SignalPolicy, Sequences, SequencesExt

LOCAL Sign(n) == IF n > 0 THEN 1 ELSE IF n < 0 THEN -1 ELSE 0
LOCAL Quotient(a, b) == Sign(a) * (Size(a) \div b)

\* What a strategy variant makes use of (uses_microstructure, ..).
Uses(variant, what) ==
    what \in (IF variant = "CoreV1" THEN {"tail", "evidence"}
              ELSE IF variant = "M1AdaptiveRisk" THEN {}
              ELSE IF variant = "M2Microstructure" THEN {"microstructure"}
              ELSE IF variant = "M3FillAware" THEN {"microstructure", "fill"}
              ELSE IF variant = "M4Statistical" THEN {"microstructure", "fill", "statistical"}
              ELSE IF variant = "M5Robust" THEN {"microstructure", "fill", "statistical", "tail"}
              ELSE {"microstructure", "fill", "statistical", "tail", "evidence"})

-----------------------------------------------------------------------------
(* Residuals: fair value less the middle of the book.                      *)

Ewma(previous, sample) ==
    IF previous = 0 THEN sample ELSE Quotient(7 * previous + 3 * sample, 10)

NoDynamics == [seen |-> FALSE, moved |-> FALSE, at |-> 0, last |-> 0, change |-> 0,
               level |-> 0, drift |-> 0, curvature |-> 0, growth |-> 0, persistence |-> 0]

\* observe_residual_dynamics: two streams report, and a report that is not later
\* than the last one is dropped.
Observe(d, o) ==
    LET change == o.residual - d.last
        moved == [d EXCEPT
                    !.drift = Ewma(@, change),
                    !.curvature = Ewma(@, IF d.moved THEN change - d.change ELSE 0),
                    !.growth = Ewma(@, Size(o.residual) - Size(d.last)),
                    !.persistence = Ewma(@, Unit * Sign(o.residual) * Sign(d.last)),
                    !.change = change, !.moved = TRUE]
    IN  IF d.seen /\ o.at <= d.at THEN d
        ELSE [(IF d.seen THEN moved ELSE d) EXCEPT
                !.level = Ewma(@, o.residual), !.last = o.residual, !.at = o.at, !.seen = TRUE]

Dynamics(observations) ==
    FoldLeft(LAMBDA d, o : Observe(d, o), NoDynamics, observations)

\* TREND_PRIOR_OBSERVATIONS and the caps on both risks.
Prior == 32
Cap == 75
Shrunk(risk, n) == (risk * n) \div (n + Prior)

\* residual_regime_risk_pico_bps: a residual that grows, or drifts or bends against
\* the side.
RegimeRiskOf(i, side, d) ==
    LET drift == Higher(Higher(d.growth, 0), Higher(Higher(side * d.drift, 0),
                                                    Higher(side * d.curvature, 0)))
        scale == Higher(Higher(Size(d.level), i.volatility), 1)
        factor == Between(0, Unit \div 2 + Higher(d.persistence, 0) \div 2, Unit)
    IN  IF i.n = 0 THEN 0
        ELSE Shrunk((Lower((drift * Cap) \div scale, Cap) * factor) \div Unit, i.n)
RegimeRisk(i, side) == RegimeRiskOf(i, side, Dynamics(i.residuals))

\* directional_trend_conflict_pico_bps: a move against the side.
TrendConflict(i, side) ==
    IF side * i.drift >= 0 \/ i.volatility <= 0 THEN 0
    ELSE Between(0, 2 * Shrunk((i.drift * i.drift) \div i.volatility, i.n), Cap)

\* The move of the symbol's region, if it is worse.
Conflict(i, side) == Higher(TrendConflict(i, side), i.region[side])

-----------------------------------------------------------------------------
(* Counts: 95 % bounds on a probability.                                   *)

LOCAL Root(x) == CHOOSE r \in 0 .. x : r * r <= x /\ (r + 1) * (r + 1) > x
LOCAL Margin(k, n) == (196 * Root((384 + (400 * k * (n - k)) \div n) * 9)) \div 30

\* wilson_lower_probability_bps and wilson_upper_probability_bps, in hundredths.
WilsonLower(k, n) ==
    IF n = 0 THEN 0
    ELSE Between(0, (Higher(200 * k + 384 - Margin(k, n), 0) * Unit) \div (200 * n + 768), Unit)
WilsonUpper(k, n) ==
    IF n = 0 THEN 0
    ELSE Between(0, ((200 * k + 384 + Margin(k, n)) * Unit) \div (200 * n + 768) + 1, Unit)

\* reversion_evidence_scale_ppm: never less than a quarter.
EvidenceShare(i) ==
    LET trials == Higher(i.n - 1, 0)
    IN  Unit \div 4
          + (WilsonLower(Lower(i.reversions, trials), trials) * (Unit - Unit \div 4)) \div Unit

MinFillTrials == 30
\* empirical_fill_probability_lcb_bps_for_side: a side with few orders of its own goes
\* by all of them, and by none if those are few.
FillBound(i, side) ==
    IF i.placed[side] >= MinFillTrials
    THEN WilsonLower(Lower(i.filled[side], i.placed[side]), i.placed[side])
    ELSE LET placed == i.placed[1] + i.placed[-1]
             filled == i.filled[1] + i.filled[-1]
         IN  IF placed < MinFillTrials THEN Unit ELSE WilsonLower(Lower(filled, placed), placed)

\* effective_fill_probability_bps_by_side.
FillChance(i, side, quantity) ==
    IF quantity <= 0 THEN 0
    ELSE Lower(Between(Unit \div 20,
                       (i.depth[side] * Unit) \div (i.depth[side] + i.queue[side] + 2 * quantity),
                       Unit - Unit \div 20),
               FillBound(i, side))

MinMarkouts == 8
\* conservative_markout_upper_from_samples: the 90th percentile of the losses times
\* the bound on how often there is one.
MarkoutUpper(samples, ewma) ==
    LET losses == SortSeq(SelectSeq(samples, LAMBDA x : x > 0), <)
    IN  IF Len(samples) < MinMarkouts \/ losses = <<>> THEN ewma
        ELSE Higher(ewma, (losses[(9 * Len(losses) + 9) \div 10]
                             * WilsonUpper(Len(losses), Len(samples))) \div Unit)

Markout(i) == MarkoutUpper(i.markouts[1] \o i.markouts[-1], i.markout)
SideMarkout(i, side) ==
    IF Len(i.markouts[side]) < MinMarkouts THEN Markout(i) ELSE MarkoutUpper(i.markouts[side], 0)

-----------------------------------------------------------------------------
(* What is offered to the signal.                                          *)

\* liquidity_adjusted_quantity: a tenth of the thinner side, or all of a tiny book.
LiquidQuantity(i, tiny) ==
    LET depth == Lower(i.depth[1], i.depth[-1])
    IN  IF i.requested <= 0 \/ depth <= 0 THEN 0
        ELSE Higher(1, Lower(i.requested, IF depth < tiny THEN depth ELSE depth \div 10))

Gap(i) == (Size(i.mark - i.index) * Unit) \div i.index
Stress(i) == Higher(4 * i.volatility, Higher(2 * Gap(i), 4 * i.spread))

\* m5_scaled_quantity: all below Caution, a quarter from ReduceOnly, nothing from Halt.
Caution == 35
ReduceOnly == 60
Halt == 100
TailScaled(stress, quantity) ==
    IF quantity <= 0 \/ stress >= Halt THEN 0
    ELSE IF stress <= Caution THEN quantity
    ELSE IF stress >= ReduceOnly THEN quantity \div 4
    ELSE Higher(1, (quantity * (25 + ((ReduceOnly - stress) * 75) \div (ReduceOnly - Caution)))
                      \div 100)

Offered(i) ==
    IF Uses(i.variant, "tail") THEN TailScaled(Stress(i), LiquidQuantity(i, i.tiny))
    ELSE LiquidQuantity(i, i.tiny)

\* dynamic_threshold_diagnostic_for, of a symbol with a book, a mark and an index:
\* the components of the hurdle; where nothing was measured there are priors.
EngineThreshold(i, quantity) ==
    LET volatility == IF i.volatility = 0 THEN 10 ELSE 3 * i.volatility
        spread == IF i.spread = 0 THEN 2 ELSE i.spread \div 2
        cost == 2 * i.fee
        uncertainty == Higher(Gap(i) \div 2,
                              Higher(i.confidence - volatility - i.spread \div 2, 0))
        adverse == Markout(i) + (IF Uses(i.variant, "microstructure") THEN 2 * i.volatility ELSE 0)
        share == Lower((quantity * Unit) \div Lower(i.depth[1], i.depth[-1]), Unit)
        tail == Between(0, 2 * (Stress(i) - Caution), Unit)
    IN  [NoHurdle EXCEPT
           !.floor = i.floor, !.volatility = volatility, !.cost = cost,
           !.uncertainty = uncertainty, !.spread = spread, !.adverse = adverse,
           !.deadline = IF i.settles THEN Higher(Sign(i.fair - i.middle) * i.rate, 0) ELSE 0,
           !.liquidity = IF share <= Unit \div 10 THEN 0
                         ELSE Lower(((share - Unit \div 10) * 6) \div (Unit \div 10), 100),
           !.statistical = IF Uses(i.variant, "statistical")
                           THEN uncertainty + cost + spread + adverse + 8 * i.volatility ELSE 0,
           !.tail = IF Uses(i.variant, "tail") THEN tail ELSE 0]

Gain(numerator, denominator) == Quotient((numerator - denominator) * Unit, denominator)
\* The edge of a quote at a price.
QuoteEdge(fair, side, price) ==
    IF side = 1 THEN Gain(fair, price) ELSE Gain(price, fair)
BestEdge(i) == Higher(QuoteEdge(i.fair, 1, i.bid), QuoteEdge(i.fair, -1, i.ask))

\* update_adaptive_relief: a quiet symbol that narrowly misses its hurdle is given
\* relief step by step, and loses it the same way.
RelievedTo(i, gap) ==
    LET target == IF i.volatility <= 5 /\ i.fresh /\ gap > 0 THEN
                     IF gap <= i.relief.window THEN Lower(gap, i.relief.most) ELSE 0
                  ELSE 0
    IN  Between(0, IF target > i.relief.now THEN Lower(i.relief.now + i.relief.step, target)
                   ELSE Higher(i.relief.now - i.relief.step, target), i.relief.most)
Relief(i) ==
    IF LiquidQuantity(i, i.tiny) = 0 THEN i.relief.now
    ELSE RelievedTo(i, Higher(Required(EngineThreshold(i, LiquidQuantity(i, i.tiny)))
                                - Higher(BestEdge(i), 0), 0))

\* m7_entry_admissible and m7_warmup_probe_admissible.
EvidenceAdmits(i, required) ==
    \/ /\ required > 0 /\ BestEdge(i) >= required
       /\ ~(BestEdge(i) >= Unit \div 20 /\ Stress(i) >= Caution)
    \/ /\ i.volatility = 0 \/ i.spread = 0
       /\ Size(Gain(i.middle, i.fair)) >= i.floor

-----------------------------------------------------------------------------
(* The cuts.                                                               *)

\* A share of a quantity, but one at least.
Part(quantity, share) == Between(1, (quantity * share) \div Unit, quantity)

\* fractional_edge_quantity: nothing at the hurdle, all far above it.
MarginScaled(edge, hurdle, quantity) ==
    IF edge <= 0 \/ hurdle <= 0 \/ quantity <= 0 THEN Higher(quantity, 0)
    ELSE IF edge <= hurdle THEN 0
    ELSE Part(quantity, ((edge - hurdle) * Unit) \div edge)

\* residual_regime_scaled_quantity, and trend_conflict_scaled_quantity as well.
RiskScaled(risk, baseline, quantity) ==
    IF quantity <= 0 \/ risk <= 0 THEN Higher(quantity, 0)
    ELSE IF baseline <= 0 THEN 0
    ELSE Part(quantity, (baseline * Unit) \div (baseline + risk))

FillScaled(chance, quantity) ==
    IF quantity <= 0 \/ chance = 0 THEN Higher(quantity, 0) ELSE Part(quantity, chance)

\* cross_symbol_concentration_scaled_quantity, of a flat symbol.
ConcentrationScaled(imbalance, side, quantity) ==
    IF quantity <= 0 \/ side * imbalance <= 0 THEN Higher(quantity, 0)
    ELSE Part(quantity, (Unit * Unit) \div (Unit + Size(imbalance)))

Baseline(i, t) == Higher(i.volatility + i.spread, Higher(t.volatility + t.spread, 1))

\* core_v1_margin_scaled_quantity: by margin, evidence and residual regime.
EvidenceScaled(i, side, t, quantity) ==
    IF quantity = 0 THEN 0
    ELSE RiskScaled(RegimeRisk(i, side), Baseline(i, t), Part(quantity, EvidenceShare(i)))
CoreScaled(i, side, price, t, quantity) ==
    IF i.variant # "CoreV1" \/ QuoteEdge(i.fair, side, price) <= 0 THEN quantity
    ELSE EvidenceScaled(i, side, t,
                        MarginScaled(QuoteEdge(i.fair, side, price), Required(t), quantity))

\* What is left of a quantity that the signal asks for.
Sized(i, side, price, t, quantity) ==
    ConcentrationScaled(i.imbalance, side,
        RiskScaled(Conflict(i, side), Baseline(i, t),
            FillScaled(FillChance(i, side, Offered(i)),
                CoreScaled(i, side, price, t, quantity))))

-----------------------------------------------------------------------------
(* The anchor branch of rebalance_symbol.                                  *)

\* SignalInput: a side pays for the imbalance of the book, for a move against it and
\* for its own losses after fills as far as they exceed the average.
SignalOf(i, t, quantity, relief) ==
    [anchor |-> i.fair, bid |-> i.bid, ask |-> i.ask, tick |-> i.tick,
     bidDepth |-> i.depth[1], askDepth |-> i.depth[-1],
     bidQueue |-> i.queue[1], askQueue |-> i.queue[-1],
     index |-> i.index, mark |-> i.mark, position |-> 0, max |-> i.max,
     requested |-> quantity, threshold |-> t, skew |-> 50, relief |-> relief,
     adverse |-> [s \in {1, -1} |->
                    (IF Uses(i.variant, "microstructure")
                     THEN AdverseSelection(i.depth[1], i.depth[-1])[s] ELSE 0)
                      + Conflict(i, s) + SideMarkout(i, s) - Markout(i)],
     fill |-> [s \in {1, -1} |-> FillChance(i, s, quantity)],
     confidence |-> Lower(Between(Unit \div 10, Unit - (i.confidence * Unit) \div 200, Unit),
                          (Unit * 9) \div 10),
     fillAware |-> Uses(i.variant, "fill"), maxGap |-> i.maxGap, age |-> 0, maxAge |-> 1]

NoEntry == [side |-> 0, quantity |-> 0]

Cut(i, t, d) ==
    IF d.side = 0 THEN NoEntry
    ELSE LET size == Sized(i, d.side, d.price, t, d.quantity)
         IN  IF size > 0 THEN [side |-> d.side, price |-> d.price, quantity |-> size] ELSE NoEntry

EntryOf(i, t, quantity, relief) ==
    IF \/ quantity = 0
       \/ Uses(i.variant, "evidence") /\ ~EvidenceAdmits(i, Required(t) - relief)
    THEN NoEntry
    ELSE Cut(i, t, Decide(SignalOf(i, t, quantity, relief)))

\* From ReduceOnly a symbol opens nothing.
EntryFor(i) ==
    IF Uses(i.variant, "tail") /\ Stress(i) >= ReduceOnly THEN NoEntry
    ELSE EntryOf(i, EngineThreshold(i, Offered(i)), Offered(i), Relief(i))

-----------------------------------------------------------------------------
(* What sizing promises.                                                   *)

\* The same symbol seen from the other side of its fair value, for a quote at a price.
Mirror(i, price) ==
    LET Swapped(f) == [s \in {1, -1} |-> f[-s]]
    IN  [i EXCEPT
           !.fair = price, !.middle = price + i.fair - @, !.rate = -@, !.drift = -@,
           !.imbalance = -@, !.depth = Swapped(@), !.queue = Swapped(@), !.region = Swapped(@),
           !.placed = Swapped(@), !.filled = Swapped(@), !.markouts = Swapped(@),
           !.residuals = [k \in DOMAIN @ |-> [@[k] EXCEPT !.residual = -@]]]

\* Symbols that are worse off on a side. A bound of nothing on the chance of a fill is
\* left out: FillScaled takes it for the lack of one and cuts nothing.
Worse(i, side) ==
    {w \in {[i EXCEPT !.imbalance = @ + side * Unit], [i EXCEPT !.region[side] = @ + 20],
            [i EXCEPT !.queue[side] = @ + 5], [i EXCEPT !.reversions = @ \div 2],
            [i EXCEPT !.filled[side] = @ \div 2]} :
        FillBound(w, side) > 0 \/ FillBound(i, side) = 0}

CutsAreSound(i, side, price, t, quantity, size) ==
    /\ size \in 0 .. quantity
    /\ size = 0 => \/ quantity = 0
                   \/ /\ i.variant = "CoreV1"
                      /\ QuoteEdge(i.fair, side, price) <= Required(t)
    /\ size = LET m == Mirror(i, price)
              IN  Sized(m, -side, i.fair, EngineThreshold(m, Offered(m)), quantity)
    /\ \A w \in Worse(i, side) : Sized(w, side, price, t, quantity) <= size

EntryFits(i, side, price, t, entry) ==
    /\ entry.side # 0 =>
          /\ entry.quantity \in 1 .. Lower(i.requested, i.max)
          /\ entry.quantity <= Lower(i.depth[1], i.depth[-1])
          /\ i.variant = "CoreV1" => QuoteEdge(i.fair, entry.side, entry.price) > Required(t)
    /\ CutsAreSound(i, side, price, t, Offered(i), Sized(i, side, price, t, Offered(i)))

\* An entry fits the request, the limit and the book. The cuts below it only ever
\* take away, do not veto what has an edge, treat both sides alike and take no less when
\* a risk is greater. In CoreV1 an entry clears its hurdle in full: what only relief
\* lets through is sized to nothing (core_v1_margin_scaled_quantity).
EntriesAreSized(i, side, price) ==
    EntryFits(i, side, price, EngineThreshold(i, Offered(i)), EntryFor(i))

\* "Add only the excess observed on the selected side, so directionally good fills are
\* not charged for the opposite-side tail" (rebalance_symbol): a symbol that is quoted is
\* quoted as well if all fills of a side turn out to have been good ones.
GoodFillsAreFree(i) ==
    EntryFor(i).side # 0 =>
        \A side \in {1, -1} :
            EntryFor([i EXCEPT !.markouts[side] = [k \in DOMAIN @ |-> 0]]).side # 0
=============================================================================
