---------------------------- MODULE SignalPolicy ----------------------------
(***************************************************************************)
(* Whether, where and how much to quote                                    *)
(* (engine/src/strategy/signal_policy.rs, and the conditional value of an  *)
(* order in engine/src/strategy/risk_contracts.rs).                        *)
(*                                                                         *)
(* Both sides are one computation mirrored at the anchor: side 1 buys,     *)
(* side -1 sells. Hurdles, costs and probabilities are in parts of Unit    *)
(* (10 000 in the code); the further scaling of hurdles by 10^12, which    *)
(* keeps one-tick moves exact, is left out, and so is saturation.          *)
(***************************************************************************)
EXTENDS Integers, FiniteSets

CONSTANT Unit
ASSUME UnitAssumption == Unit \in Nat \ {0}

Lower(a, b) == IF a < b THEN a ELSE b
Higher(a, b) == IF a > b THEN a ELSE b
Between(lo, x, hi) == Higher(lo, Lower(x, hi))
Size(n) == IF n < 0 THEN -n ELSE n
None == 0    \* no price

-----------------------------------------------------------------------------
(* AdaptiveThreshold: twelve named components.                             *)

Components == {"floor", "volatility", "uncertainty", "cost", "deadline", "safety", "spread",
               "adverse", "liquidity", "inventory", "tail", "statistical"}
NoHurdle == [c \in Components |-> 0]

Valid(t) == \A c \in Components : t[c] >= 0

\* required_pico_bps: floors, volatility and uncertainty compete, the costs
\* add up, and the statistical hurdle competes with the sum.
Required(t) ==
    LET base == Higher(t.floor, Higher(t.volatility, t.uncertainty))
    IN  Higher(base + t.cost + t.deadline + t.safety + t.spread + t.adverse + t.liquidity
                 + t.inventory + t.tail, t.statistical)

WithAdverse(t, extra) == [t EXCEPT !.adverse = @ + extra]

-----------------------------------------------------------------------------
(* Fill probabilities.                                                     *)

QueueSurvival(depth, ahead, quantity) ==
    IF depth <= 0 \/ quantity <= 0 THEN 0
    ELSE Between(Unit \div 20,
                 (depth * Unit) \div (depth + Higher(ahead, 0) + 2 * quantity),
                 Unit - Unit \div 20)

CandidateFill(base, depth, ahead, quantity, distance, spread) ==
    IF spread <= 0 \/ distance <= 0 THEN base
    ELSE LET gain == Higher(QueueSurvival(depth, 0, quantity)
                              - QueueSurvival(depth, ahead, quantity), 0)
             adjusted == Between(0, Lower(base, Unit) + gain, Unit)
             progress == Between(0, (distance * Unit) \div spread, Unit)
         IN  Between(0, adjusted + ((Unit - adjusted) * progress) \div Unit, Unit)

-----------------------------------------------------------------------------
(* One side of an input i.                                                 *)

Touch(i, side) == IF side = 1 THEN i.bid ELSE i.ask
Depth(i, side) == IF side = 1 THEN i.bidDepth ELSE i.askDepth
Queue(i, side) == IF side = 1 THEN i.bidQueue ELSE i.askQueue
Ticks(i) == IF i.tick <= 0 THEN 0 ELSE (i.ask - i.bid) \div i.tick
Distance(i, side, price) == side * (price - Touch(i, side))
Edge(i, side, price) == Higher(side * (i.anchor - price), 0) * Unit

\* selected_fill_probability_bps, which the candidates use as well: away from
\* the touch there is no queue ahead.
FillAt(i, side, price, quantity) ==
    IF Ticks(i) <= 0 THEN i.fill[side]
    ELSE LET distance == Distance(i, side, price)
         IN  CandidateFill(i.fill[side], Depth(i, side),
                           IF distance = 0 THEN Queue(i, side) ELSE 0,
                           quantity, distance \div i.tick, Ticks(i))

\* The surcharge at the present position falls on the side that increases it.
Surcharge(i, side) ==
    IF side * i.position > 0
    THEN (Lower((Size(i.position) * Unit) \div i.max, Unit) * i.skew) \div Unit
    ELSE 0

Hurdle(i, side) == WithAdverse(i.threshold, i.adverse[side])
SideRequired(i, side) ==
    Required(Hurdle(i, side)) - Higher(i.relief, 0) + Surcharge(i, side)

\* ConditionalOrderValue: the edge that is expected after fill and confidence
\* must exceed what is paid in cash and penalties (in millionths).
ConditionalValue(edge, fill, confidence, cost, inventory, deadline) ==
    (edge * fill * confidence) \div (Unit * Unit) - cost - inventory - deadline

ConditionallyAdmissible(i, side, price, fill) ==
    LET t == Hurdle(i, side)
    IN  ConditionalValue((Edge(i, side, price) * 100) \div i.anchor, fill, i.confidence,
                         t.cost * 100, (t.inventory + Surcharge(i, side)) * 100,
                         t.deadline * 100) > 0

Clears(i, side, price, quantity) ==
    /\ Edge(i, side, price) > SideRequired(i, side) * i.anchor
    /\ i.fillAware => ConditionallyAdmissible(i, side, price, FillAt(i, side, price, quantity))

Score(i, side, price, quantity) ==
    (Edge(i, side, price) - SideRequired(i, side) * i.anchor)
        * FillAt(i, side, price, quantity)

\* optimal_passive_maker_price: the grid from the touch up to the last price
\* that does not cross; the best score, then the larger edge, then the one met
\* first.
BugPassivePrices(i, side) ==
    {p \in i.bid .. i.ask : Distance(i, side, p) % i.tick = 0}
PassivePrices(i, side) ==
    {p \in i.bid .. i.ask :
        /\ Distance(i, side, p) % i.tick = 0
        /\ p # Touch(i, -side)}

Ordered(i, side, p, q, quantity) ==
    \/ Score(i, side, p, quantity) > Score(i, side, q, quantity)
    \/ /\ Score(i, side, p, quantity) = Score(i, side, q, quantity)
       /\ \/ Edge(i, side, p) > Edge(i, side, q)
          \/ /\ Edge(i, side, p) = Edge(i, side, q)
             /\ Distance(i, side, p) < Distance(i, side, q)

BestOf(i, side, good, quantity) ==
    IF good = {} THEN None
    ELSE CHOOSE p \in good : \A q \in good \ {p} : Ordered(i, side, p, q, quantity)

BestPrice(i, side, quantity) ==
    IF i.tick <= 0 THEN Touch(i, side)
    ELSE IF Ticks(i) <= 0 THEN None
    ELSE BestOf(i, side, {p \in PassivePrices(i, side) : Clears(i, side, p, quantity)},
                quantity)

-----------------------------------------------------------------------------
(* decide().                                                               *)

Blocked(why) == [side |-> 0, why |-> why]

\* What may be sent on a side without exceeding the limit.
Remaining(i, side) == Higher(i.max - side * i.position, 0)
SideQuantity(i, side) == Lower(Lower(i.requested, i.max), Remaining(i, side))

\* Not to be quoted on, in the order of the checks.
Unusable(i) ==
    IF i.anchor <= 0 \/ i.bid <= 0 \/ i.ask < i.bid \/ i.index <= 0 \/ i.mark <= 0
    THEN "InvalidPrices"
    ELSE IF i.max <= 0 \/ i.requested <= 0 THEN "InvalidPositionLimit"
    ELSE IF i.age > i.maxAge THEN "StaleSignal"
    ELSE IF i.maxGap < 0 \/ Size(i.mark - i.index) * Unit > i.maxGap * i.index
    THEN "MarkIndexDisagreement"
    ELSE IF \/ ~Valid(i.threshold) \/ i.adverse[1] < 0 \/ i.adverse[-1] < 0
            \/ i.skew < 0 \/ i.confidence = 0 \/ i.fill[1] + i.fill[-1] = 0
    THEN "ThresholdUnavailable"
    ELSE "none"

\* The better side of two: score, then the side that reduces the position, then
\* the likelier fill, then the larger edge.
Buys(i, price, score, fill) ==
    IF score[1] # score[-1] THEN score[1] > score[-1]
    ELSE IF i.position # 0 THEN i.position < 0
    ELSE IF fill[1] # fill[-1] THEN fill[1] > fill[-1]
    ELSE Edge(i, 1, price[1]) >= Edge(i, -1, price[-1])

Quote(i, side, price) ==
    [side |-> side, price |-> price[side], quantity |-> SideQuantity(i, side)]

\* A side is admissible at the quantity that its room leaves.
Choice(i, price, admissible) ==
    IF admissible = {}
    THEN Blocked(IF Remaining(i, 1) = 0 /\ Remaining(i, -1) = 0
                 THEN "PositionLimit" ELSE "NoEdge")
    ELSE IF Cardinality(admissible) = 1
    THEN Quote(i, CHOOSE s \in admissible : TRUE, price)
    ELSE Quote(i, IF Buys(i, price,
                          [s \in admissible |-> Score(i, s, price[s], SideQuantity(i, s))],
                          [s \in admissible |-> FillAt(i, s, price[s], SideQuantity(i, s))])
                  THEN 1 ELSE -1, price)

QuoteAt(i, price) ==
    Choice(i, price, {s \in {1, -1} :
                        /\ price[s] # None
                        /\ SideQuantity(i, s) > 0
                        /\ Clears(i, s, price[s], SideQuantity(i, s))})

Decide(i) ==
    IF Unusable(i) # "none" THEN Blocked(Unusable(i))
    ELSE QuoteAt(i, [s \in {1, -1} |-> BestPrice(i, s, Lower(i.requested, i.max))])

-----------------------------------------------------------------------------
\* side_adverse_selection_bps: the side whose own queue is the thinner pays up
\* to 25 parts for the imbalance of the book.
AdverseSelection(bidDepth, askDepth) ==
    LET imbalance == ((bidDepth - askDepth) * Unit) \div (bidDepth + askDepth)
    IN  [s \in {1, -1} |-> (Higher(-s * imbalance, 0) * 25) \div Unit]

\* adaptive_intent_from_market: the inputs of decide() from the top of the
\* book and the volatility, for a runner without a calibrated model. The
\* adverse selection of the book is passed on in the wrong unit, a millionth of
\* what it is: nothing, at this scale.
FromMarket(m) ==
    LET depth == Lower(m.bidDepth, m.askDepth)
        share == IF m.requested <= 0 THEN Unit
                 ELSE Between(0, (m.requested * Unit) \div depth, Unit)
        fill == IF m.requested <= 0 THEN 0
                ELSE Between(Unit \div 20, Unit - (share * 8) \div 10, Unit - Unit \div 20)
        gap == (Size(m.mark - m.index) * Unit) \div m.index
        middle == m.bid + (m.ask - m.bid) \div 2
        hurdle == [NoHurdle EXCEPT
                     !.floor = m.floor,
                     !.volatility = 3 * Higher(m.volatility, 0),
                     !.cost = m.fee,
                     !.uncertainty = gap \div 2 + 5,
                     !.safety = 5,
                     !.spread = (((m.ask - m.bid) * Unit) \div middle) \div 2,
                     !.adverse = 2 * Higher(m.volatility, 0),
                     !.liquidity = IF share <= Unit \div 10 THEN 0
                                   ELSE Between(0, ((share - Unit \div 10) * 6)
                                                     \div (Unit \div 10), 100),
                     !.statistical = 8 * Higher(m.volatility, 0)]
    IN  [anchor |-> m.anchor, bid |-> m.bid, ask |-> m.ask, tick |-> 0,
         bidDepth |-> m.bidDepth, askDepth |-> m.askDepth,
         bidQueue |-> m.bidDepth, askQueue |-> m.askDepth,
         index |-> m.index, mark |-> m.mark,
         position |-> m.position, max |-> m.max,
         requested |-> Lower(m.requested, depth),
         threshold |-> hurdle, skew |-> 50,
         adverse |-> [s \in {1, -1} |-> 0],
         fill |-> [s \in {1, -1} |-> fill],
         confidence |-> IF m.age <= 1 THEN (Unit * 9) \div 10 ELSE (Unit * 7) \div 10,
         fillAware |-> TRUE, relief |-> 0, maxGap |-> m.maxGap,
         age |-> m.age, maxAge |-> m.maxAge]

NoMarket(m) ==
    \/ m.bid <= 0 \/ m.ask < m.bid \/ m.bidDepth <= 0 \/ m.askDepth <= 0
    \/ m.anchor <= 0 \/ m.index <= 0 \/ m.mark <= 0

AdaptiveIntent(m) ==
    IF NoMarket(m) THEN Blocked("NoMarket") ELSE Decide(FromMarket(m))

-----------------------------------------------------------------------------
\* Every quote fits: it keeps a position that is within the limit within it and
\* never adds to one beyond it; on a price grid it does not cross the book; and
\* its edge pays for what it costs, before any probability is applied (decide).
QuoteFits(i, d) ==
    d.side # 0 =>
      /\ d.quantity > 0
      /\ Size(i.position + d.side * d.quantity) <= Higher(i.max, Size(i.position))
      /\ i.tick > 0 => d.side * (Touch(i, -d.side) - d.price) > 0
      /\ Edge(i, d.side, d.price)
           > (Required(i.threshold) - Higher(i.relief, 0)) * i.anchor
      /\ i.fillAware => Edge(i, d.side, d.price) * 100
                          > i.threshold.cost * 100 * i.anchor

\* decide() answers with quotes that fit.
QuoteIsSafe(i) == QuoteFits(i, Decide(i))
=============================================================================
