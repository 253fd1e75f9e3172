--------------------------- MODULE PositionExits ---------------------------
(***************************************************************************)
(* What the exchange takes, and how a position is reduced: the rules for   *)
(* the price and the quantity of an order (BinanceScaledExecutionFilters,  *)
(* market/metadata.rs, as integers in ticks and quantity units; 0 stands   *)
(* for a refusal), the schedule of strategy/flatten.rs, the passive exit   *)
(* of strategy/maker_exit.rs and the emergency taker of                    *)
(* execution/adaptive_taker.rs.  All are pure; freshness of their inputs   *)
(* is a flag.                                                              *)
(***************************************************************************)
EXTENDS Integers, FiniteSetsExt

PPM == 1000000

Filters(prices, priceTick, quantities, quantityStep, minNotional, up, down) ==
    [min_price |-> prices[1], max_price |-> prices[2], price_tick |-> priceTick,
     min_quantity |-> quantities[1], max_quantity |-> quantities[2], quantity_step |-> quantityStep,
     min_notional |-> minNotional, up |-> up, down |-> down]

RoundUp(n, step)   == ((n + step - 1) \div step) * step
RoundDown(n, step) == n - (n % step)

\* A passive order is rounded away from the other side of the book, an aggressive
\* one towards it.
NormalizePrice(f, price, isBuy, postOnly) ==
    LET rounded == IF postOnly = isBuy THEN RoundDown(price, f.price_tick) ELSE RoundUp(price, f.price_tick)
    IN  IF price > 0 /\ f.price_tick > 0 /\ rounded \in f.min_price..f.max_price THEN rounded ELSE 0

RequiredQuantity(f, price, factor) == (f.min_notional * factor + price - 1) \div price

BugNormalizeQuantity(f, requested, price, maximum, factor) ==
    LET raised == Max({RoundDown(requested, f.quantity_step), f.min_quantity, RequiredQuantity(f, price, factor)})
    IN  IF requested <= 0 \/ price <= 0 \/ maximum <= 0 \/ raised > f.max_quantity THEN 0
        ELSE RoundUp(raised, f.quantity_step)

\* At most what is asked for and allowed, but at least what the exchange takes: a
\* small quantity is raised, as far as the maximum allows.
NormalizeQuantity(f, requested, price, maximum, factor) ==
    LET limit   == Min({maximum, f.max_quantity})
        raised  == Max({RoundDown(Min({requested, limit}), f.quantity_step), f.min_quantity,
                        RequiredQuantity(f, price, factor)})
        stepped == RoundUp(raised, f.quantity_step)
    IN  IF requested <= 0 \/ price <= 0 \/ maximum <= 0 \/ stepped > limit THEN 0 ELSE stepped

WithinPercent(f, price, mark, isBuy) ==
    IF isBuy THEN price * PPM <= mark * f.up ELSE price * PPM >= mark * f.down

ValidateOrder(f, price, quantity, mark, isBuy, factor) ==
    /\ price > 0 /\ quantity > 0 /\ mark > 0
    /\ price \in f.min_price..f.max_price /\ price % f.price_tick = 0
    /\ quantity \in f.min_quantity..f.max_quantity /\ quantity % f.quantity_step = 0
    /\ price * quantity >= f.min_notional * factor
    /\ WithinPercent(f, price, mark, isBuy)

-----------------------------------------------------------------------------
NoTime == -1
Absolute(n) == IF n < 0 THEN -n ELSE n
ReducingSide(position) == IF position > 0 THEN "sell" ELSE "buy"
OneOf(times) == IF times \ {NoTime} = {} THEN NoTime ELSE Min(times \ {NoTime})
Before(time, window) == IF time = NoTime THEN NoTime ELSE Max({time - window, 0})

------------------------------------------------------------------------------
(* DualFlattenPlan: [equity, funding, equity_window, funding_window].      *)

EffectiveFlattenStart(plan) ==
    OneOf({Before(plan.equity, plan.equity_window), Before(plan.funding, plan.funding_window)})

HardDeadline(plan) == OneOf({plan.equity, plan.funding})

Reached(time, now) == time # NoTime /\ now >= time

PhaseAt(plan, now, hasPosition) ==
    IF ~hasPosition THEN "Flat"
    ELSE IF Reached(HardDeadline(plan), now) THEN "ResidualExposure"
    ELSE IF Reached(EffectiveFlattenStart(plan), now) THEN "ReduceOnly" ELSE "Trading"

------------------------------------------------------------------------------
(* decide_maker_exit().  The working order is a record, NoOrder or Pending. *)

NoOrder == [side |-> "none"]
Pending == [side |-> "pending"]
Confirmed(order) == order \notin {NoOrder, Pending}

\* What passes as a quantity: rounded to steps, not dust.  0 is dust.
FreshQuantity(quantity, limits, price) ==
    LET capped  == Min({quantity, limits.max_quantity})
        rounded == capped - (capped % limits.quantity_step)
    IN  IF rounded < limits.min_quantity \/ price * rounded < limits.min_notional THEN 0 ELSE rounded

Waits  == [kind |-> "wait"]
Submits(side, price, quantity) == [kind |-> "submit", side |-> side, price |-> price, quantity |-> quantity]

\* The resting order is the exit order one would place.
KeepsWorking(in, quote) ==
    /\ in.working.reduce_only /\ in.working.side = quote.side /\ in.working.price = quote.price
    /\ in.working.remaining \in 1..Min({Absolute(in.position), in.limits.max_quantity})

\* in: [position, confirmed, phase, funding_known, reversion, fresh, bid, ask, limits, working];
\* "fresh" says that the book and the constraints are there, valid and not stale.
DecideMakerExit(in) ==
    LET quote    == [side |-> ReducingSide(in.position), price |-> IF in.position > 0 THEN in.ask ELSE in.bid]
        quantity == FreshQuantity(Absolute(in.position), in.limits, quote.price)
        blocked  == [kind |-> IF Confirmed(in.working) THEN "cancel" ELSE "blocked"]
    IN  IF ~in.confirmed \/ in.working = Pending THEN Waits
        ELSE IF in.phase = "Trading" /\ ~in.reversion
             THEN [kind |-> IF in.funding_known THEN "trading" ELSE "blocked"]
        ELSE IF in.position = 0 THEN [kind |-> IF Confirmed(in.working) THEN "cancel" ELSE "flat"]
        ELSE IF in.phase = "ResidualExposure" THEN [kind |-> "residual"]
        ELSE IF ~in.fresh THEN blocked
        ELSE IF Confirmed(in.working) THEN [kind |-> IF KeepsWorking(in, quote) THEN "keep" ELSE "cancel"]
        ELSE IF quantity = 0 THEN [kind |-> "blocked"] ELSE Submits(quote.side, quote.price, quantity)

------------------------------------------------------------------------------
(* The emergency taker.  policy: [slippage, participation, cooldown, buffer], *)
(* slippage in ticks, participation in percent of the depth.                  *)

Participation(policy, depth) == (depth * policy.participation) \div 100

AggressivePrice(policy, side, bid, ask) ==
    IF side = "buy" THEN ask + policy.slippage ELSE Max({bid - policy.slippage, 1})

Holds == [kind |-> "hold"]

\* in: [position, market_ok, deadline, now, last_taker, estimate, working, bid, ask, depth];
\* "market_ok" says that mark and book are fresh, valid and agree.
DecideTaker(policy, in) ==
    LET slack     == Max({in.deadline - in.now, 0}) - in.estimate - policy.buffer
        remaining == IF in.working > 0 THEN in.working ELSE Absolute(in.position)
        quantity  == Min({Absolute(in.position), remaining, Participation(policy, in.depth)})
        side      == ReducingSide(in.position)
    IN  IF \/ in.position = 0 \/ ~in.market_ok \/ in.deadline = NoTime
           \/ in.last_taker # NoTime /\ in.now - in.last_taker < policy.cooldown
           \/ slack >= 0 \/ quantity <= 0
        THEN Holds
        ELSE Submits(side, AggressivePrice(policy, side, in.bid, in.ask), quantity)

\* force_reduce_only_taker_intent(): at the end there is no deadline to wait for.
ForceTaker(policy, position, bookOk, bid, ask, depth) ==
    LET quantity == Min({Absolute(position), Participation(policy, depth)})
        side     == ReducingSide(position)
    IN  IF position = 0 \/ ~bookOk \/ depth <= 0 \/ quantity <= 0
        THEN Holds
        ELSE Submits(side, AggressivePrice(policy, side, bid, ask), quantity)
=============================================================================
