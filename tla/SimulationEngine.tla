------------------------- MODULE SimulationEngine -------------------------
(***************************************************************************)
(* SimulationEngine, simulation/runtime.rs: the orders and positions of    *)
(* one ledger, driven by market events, from the first event to the        *)
(* settlement and the verdict of the batch (simulation_batch.rs).          *)
(*                                                                         *)
(* One event runs a chain of handlers over all symbols, so an operator     *)
(* answers the SET of the engines it may leave.  What the numbers decide   *)
(* is left open: whether a gate lets an entry through, which side and      *)
(* quantity a signal asks for, how far profit and loss are from the limits *)
(* of the drawdown guard.  A quantity is counted in units, the distance of *)
(* bid and ask is one tick.                                                *)
(***************************************************************************)
EXTENDS Integers, Sequences, FiniteSets, PositionExits

CONSTANTS SymbolOrder,   \* the symbols, in the order of the states map
          Bids,          \* the best bids the market may show, by symbol
          Depths,        \* the quantities at the touch
          Caps,          \* the position limits, by symbol, that an allocation may give
          Quantities,    \* what is left of requested_quantity once the risk has scaled it
          Rules,         \* execution_filters
          Policy,        \* emergency_policy
          CancelLatency, \* is cancel_to_exchange_ms > 0?
          Strategy,      \* "m9" or one of the others
          Dynamic        \* does the strategy reallocate capital?

Symbols == Range(SymbolOrder)

ASSUME EngineAssumption ==
    /\ SymbolOrder \in Seq(Symbols) /\ IsInjective(SymbolOrder) /\ SymbolOrder # <<>>
    /\ \A s \in Symbols : Bids[s] \subseteq Nat \ {0}
    /\ Depths \subseteq Nat \ {0} /\ Caps \subseteq [Symbols -> Nat \ {0}]
    /\ Quantities \subseteq Nat \ {0} /\ Strategy \in {"anchor", "m9"}
    /\ CancelLatency \in BOOLEAN /\ Dynamic \in BOOLEAN

\* The filters of the exchange are positive decimals (BinanceExecutionFilters), and the
\* policy is validated (EmergencyExecutionPolicy::validate).
ASSUME RulesAssumption ==
    /\ {Rules.min_price, Rules.max_price, Rules.price_tick, Rules.min_quantity, Rules.max_quantity,
        Rules.quantity_step, Rules.min_notional} \subseteq Nat \ {0}
    /\ Policy.slippage \in Nat \ {0} /\ Policy.participation \in 1..100
    /\ Policy.cooldown \in Nat /\ Policy.buffer \in Nat

VARIABLES engine, \* position, working order, book and allocation by symbol; the guard; the valuation
          run     \* "running", or what the batch reports at the end
vars == <<engine, run>>

NoBook == [bid |-> 0, depth |-> 0]
Ask(book) == book.bid + 1

Position(e, s) == e.position[s]
Working(e, s)  == e.working[s]
HasOrder(e, s) == e.working[s] # NoOrder
Signed(side, quantity) == IF side = "buy" THEN quantity ELSE -quantity
Reduces(side, position) == IF side = "buy" THEN position < 0 ELSE position > 0

AllFlat(e) == \A s \in Symbols : e.position[s] = 0 /\ e.working[s] = NoOrder

------------------------------------------------------------------------------
(* The drawdown guard: portfolio_guard.rs.                                 *)

Levels == {"trading", "reduce_only", "hard_stop"}

\* A hard stop stays; otherwise the guard says what the valuation says now.
Observe(e) == [e EXCEPT !.guard = IF @ = "hard_stop" THEN @ ELSE e.level]

Blocks(e) == e.guard # "trading"

\* Profit and loss have moved: they may be anywhere. After a hard stop nobody asks.
Revalued(e) == {[e EXCEPT !.level = level] : level \in IF e.guard = "hard_stop" THEN {e.level} ELSE Levels}

\* apply_position_fill()
Filled(e, s, side, quantity) == Revalued([e EXCEPT !.position[s] = @ + Signed(side, quantity)])

------------------------------------------------------------------------------
(* Orders.                                                                 *)

\* With latency the order stays live until the exchange has acknowledged.
CancelSymbol(e, s) ==
    IF ~HasOrder(e, s) THEN e
    ELSE IF CancelLatency THEN [e EXCEPT !.working[s].cancel = TRUE]
    ELSE [e EXCEPT !.working[s] = NoOrder]

Passive(e, s, order) ==
    IF order.side = "buy" THEN order.price < Ask(e.book[s]) ELSE order.price > e.book[s].bid

\* At once, at the touch, and never more than there is to reduce.
PlaceTaker(e, s, intent, quantity) ==
    IF ~Passive(e, s, intent) /\ Reduces(intent.side, Position(e, s))
    THEN Filled(e, s, intent.side, Min({quantity, Absolute(Position(e, s))}))
    ELSE {e}

PlaceMaker(e, s, intent, quantity, reduceOnly) ==
    IF Passive(e, s, intent) /\ (reduceOnly => Reduces(intent.side, Position(e, s)))
    THEN {[e EXCEPT !.working[s] = [side |-> intent.side, price |-> intent.price, remaining |-> quantity,
                                    reduce_only |-> reduceOnly, cancel |-> FALSE]]}
    ELSE {e}

\* An exit may take all that is held, an entry what is left of the limit.
Capacity(e, s, reduceOnly) ==
    IF reduceOnly THEN Absolute(Position(e, s)) ELSE e.cap[s] - Absolute(Position(e, s))

\* The exchange's rules may refuse the order, the one on the mark price at any time.
PlaceSymbol(e, s, intent, reduceOnly) ==
    LET price    == NormalizePrice(Rules, intent.price, intent.side = "buy", intent.post_only)
        quantity == NormalizeQuantity(Rules, intent.quantity, price, Capacity(e, s, reduceOnly), 1)
        placed   == [intent EXCEPT !.price = price]
    IN  {e} \cup (IF price = 0 \/ quantity = 0 THEN {}
                  ELSE IF intent.post_only THEN PlaceMaker(e, s, placed, quantity, reduceOnly)
                  ELSE IF reduceOnly THEN PlaceTaker(e, s, placed, quantity) ELSE {})

------------------------------------------------------------------------------
(* rebalance_symbol(): first the decision, then what becomes of the order. *)

Maker(side, price, quantity) ==
    [side |-> side, price |-> price, quantity |-> quantity, post_only |-> TRUE]
Taker(side, price, quantity) ==
    [side |-> side, price |-> price, quantity |-> quantity, post_only |-> FALSE]
NoIntent == [side |-> "none"]

Wants(intent, reduceOnly) == [intent |-> intent, reduce_only |-> reduceOnly, soft |-> FALSE]
WantsNothing == Wants(NoIntent, TRUE)
SignalIsWeak == [WantsNothing EXCEPT !.soft = TRUE]

ExitLimits(e, s) ==
    [max_quantity |-> Min({Absolute(Position(e, s)), Rules.max_quantity}), quantity_step |-> Rules.quantity_step,
     min_quantity |-> Rules.min_quantity, min_notional |-> Rules.min_notional]

\* maker_exit_intent_for_state(): the schedule, the fair value and the age of the data
\* are anything. A market that is not there holds the taker as a deadline does that lies
\* ahead, and a time to reduce lets the maker exit as a fair value does that is reached.
TakerExits(e, s) ==
    {DecideTaker(Policy, [position |-> Position(e, s), market_ok |-> TRUE, deadline |-> deadline, now |-> 0,
                          last_taker |-> NoTime, estimate |-> 0,
                          working |-> IF HasOrder(e, s) THEN Working(e, s).remaining ELSE 0,
                          bid |-> e.book[s].bid, ask |-> Ask(e.book[s]), depth |-> e.book[s].depth]) :
        deadline \in {0, Policy.buffer}}

MakerExits(e, s) ==
    {DecideMakerExit([position |-> Position(e, s), confirmed |-> TRUE, phase |-> "Trading", funding_known |-> TRUE,
                      reversion |-> reversion, fresh |-> fresh, bid |-> e.book[s].bid, ask |-> Ask(e.book[s]),
                      limits |-> ExitLimits(e, s),
                      working |-> IF HasOrder(e, s) /\ Working(e, s).cancel THEN Pending ELSE Working(e, s)]) :
        reversion \in BOOLEAN, fresh \in BOOLEAN}

ExitDecisions(e, s) ==
    {Wants(Taker(d.side, d.price, d.quantity), TRUE) : d \in TakerExits(e, s) \ {Holds}} \cup
    {CASE d.kind = "submit" -> Wants(Maker(d.side, d.price, d.quantity), TRUE)
       [] d.kind = "keep"   -> LET order == Working(e, s) IN
                               Wants(Maker(order.side, order.price, order.remaining), TRUE)
       [] OTHER             -> WantsNothing : d \in MakerExits(e, s)}

\* The signals of the anchor strategies: a passive order at the touch.
AnchorSignals(e, s) ==
    {Maker("buy", e.book[s].bid, q) : q \in Quantities} \cup {Maker("sell", Ask(e.book[s]), q) : q \in Quantities}

\* m9_intent_for_state(): no more than there is at the touch.
M9Signals(e, s) == {intent \in AnchorSignals(e, s) : intent.quantity <= e.book[s].depth}

\* An entry is made to fit the exchange's rules within what is left of the limit.
Projected(e, s, intent) ==
    LET price    == NormalizePrice(Rules, intent.price, intent.side = "buy", TRUE)
        quantity == NormalizeQuantity(Rules, intent.quantity, price, Capacity(e, s, FALSE), 1)
    IN  IF price = 0 \/ quantity = 0 THEN WantsNothing ELSE Wants(Maker(intent.side, price, quantity), FALSE)

EntryDecisions(e, s) ==
    {SignalIsWeak} \cup {Projected(e, s, intent) : intent \in IF Strategy = "m9" THEN M9Signals(e, s) ELSE AnchorSignals(e, s)}

\* The session, the funding controller, the drawdown of the symbol and the tail guard
\* may close a symbol to entries; the guard of the portfolio does.
EntriesAllowed(e) == IF Blocks(e) THEN {FALSE} ELSE BOOLEAN

\* A symbol with a position only looks for its exit.
Decisions(e, s) ==
    IF Position(e, s) # 0 THEN ExitDecisions(e, s)
    ELSE UNION {IF allowed THEN EntryDecisions(e, s) ELSE {WantsNothing} : allowed \in EntriesAllowed(e)}

SameOrder(order, d) ==
    /\ order.side = d.intent.side /\ order.price = d.intent.price /\ order.reduce_only = d.reduce_only
    /\ order.remaining >= d.intent.quantity

\* What maker_quote_replacement_is_worthwhile() may say: a price that has moved is a
\* matter of the queue, the spread and the time.
Worthwhile(e, s, order, d) ==
    IF order.side # d.intent.side \/ order.reduce_only \/ order.remaining < d.intent.quantity THEN {TRUE}
    ELSE IF order.price = d.intent.price THEN {FALSE}
    ELSE IF ~Passive(e, s, order) THEN {TRUE} ELSE BOOLEAN

\* working_quote_soft_hysteresis_allowed(): a young order may outlive a weak signal.
MayHold(e, s, d) == d.soft /\ ~Working(e, s).cancel /\ Passive(e, s, Working(e, s))

WithoutIntent(e, s, d) ==
    IF ~HasOrder(e, s) THEN {e}
    ELSE {CancelSymbol(e, s)} \cup (IF MayHold(e, s, d) THEN {e} ELSE {})

BugReplaced(e, s, d) == PlaceSymbol(CancelSymbol(e, s), s, d.intent, d.reduce_only)

\* While the exchange has not acknowledged the cancel nothing new is placed.
Replaced(e, s, d) ==
    LET cancelled == CancelSymbol(e, s)
    IN  IF HasOrder(cancelled, s) THEN {cancelled} ELSE PlaceSymbol(cancelled, s, d.intent, d.reduce_only)

WithIntent(e, s, d) ==
    LET order == Working(e, s) IN
    IF ~HasOrder(e, s) THEN PlaceSymbol(e, s, d.intent, d.reduce_only)
    ELSE IF SameOrder(order, d) \/ order.cancel THEN {e}
    ELSE IF d.reduce_only THEN Replaced(e, s, d)
    ELSE UNION {IF worth THEN Replaced(e, s, d) ELSE {e} : worth \in Worthwhile(e, s, order, d)}

RebalanceSymbol(e, s) ==
    LET observed == Observe(e) IN
    IF e.book[s] = NoBook THEN {observed}
    ELSE UNION {IF d.intent = NoIntent THEN WithoutIntent(observed, s, d) ELSE WithIntent(observed, s, d) :
                d \in Decisions(observed, s)}

\* One symbol after the other.
Rebalance(e, symbols) ==
    LET after[k \in 0..Len(SymbolOrder)] ==
          IF k = 0 THEN {e}
          ELSE IF SymbolOrder[k] \notin symbols THEN after[k - 1]
          ELSE UNION {RebalanceSymbol(x, SymbolOrder[k]) : x \in after[k - 1]}
    IN  after[Len(SymbolOrder)]

------------------------------------------------------------------------------
(* on_event_at_ref(): acknowledgements, allocations, the event's handler,  *)
(* and, when the guard blocks, all the symbols the handler has not seen to. *)

\* settle_pending_cancels(): those whose time has come.
SettleCancels(e) ==
    {[e EXCEPT !.working = [s \in Symbols |-> IF s \in due THEN NoOrder ELSE @[s]]] :
        due \in SUBSET {s \in Symbols : HasOrder(e, s) /\ e.working[s].cancel}}

\* The symbols that hold more than the new limits allow.
Over(e, caps) == {s \in Symbols : caps[s] < Absolute(Position(e, s))}

Changed(e, caps) == {s \in Symbols : caps[s] # e.cap[s]}

\* The symbols that are seen to at once: those over their limit, and those whose budget
\* has moved by the deadband, its limit with it.
Moved(e, caps) == {moved \in SUBSET (Over(e, caps) \cup Changed(e, caps)) : Over(e, caps) \subseteq moved}

BugRefreshAllocations(e) ==
    {e} \cup (IF ~Dynamic THEN {} ELSE {[e EXCEPT !.cap = caps] : caps \in Caps})

\* refresh_dynamic_allocations(): it may not be due, weights may not be found, and with
\* no symbol to see to the old limits stay.
RefreshAllocations(e) ==
    {e} \cup (IF ~Dynamic THEN {}
              ELSE UNION {UNION {Rebalance([e EXCEPT !.cap = caps], moved) : moved \in Moved(e, caps) \ {{}}} :
                          caps \in Caps})

BugGuardLoop(e, seen) == {Observe(e)}

GuardLoop(e, seen) ==
    LET observed == Observe(e) IN
    IF Blocks(observed) THEN Rebalance(observed, Symbols \ seen) ELSE {observed}

\* The engines the handler of an event may find.
Prepared == UNION {RefreshAllocations(x) : x \in SettleCancels(engine)}

\* `handled` are those it may leave, `seen` the symbols the loop takes to be seen to.
Event(handled, seen) ==
    /\ run = "running"
    /\ engine' \in UNION {GuardLoop(e, seen) : e \in handled}
    /\ UNCHANGED run

OnBookTicker(s, prepared) ==
    \E bid \in Bids[s], depth \in Depths :
        Event(UNION {RebalanceSymbol([e EXCEPT !.book[s] = [bid |-> bid, depth |-> depth]], s) :
                     e \in prepared}, {s})

\* A ticker or mark price that is not newer than the last one: nothing is done, and yet
\* the loop takes its symbol to be seen to.
OnStale(s, prepared) == Event(prepared, {s})

\* The mark moves profit and loss of what is held; so does a funding payment.
OnMarkPrice(s, prepared) ==
    LET moved == UNION {IF Position(e, s) = 0 THEN {e} ELSE Revalued(e) : e \in prepared}
    IN  Event(UNION {RebalanceSymbol(x, s) : x \in moved}, {s})

\* What trades at the price of the order and is left by the queue ahead of it and
\* by the depth fills the order, also one whose cancel is on its way.
TradeFills(e, s) ==
    LET order == Working(e, s) IN
    IF ~HasOrder(e, s) \/ e.book[s] = NoBook THEN {}
    ELSE IF order.reduce_only /\ ~Reduces(order.side, Position(e, s)) THEN {}
    ELSE UNION {Filled([e EXCEPT !.working[s] = IF q = order.remaining THEN NoOrder
                                                ELSE [order EXCEPT !.remaining = @ - q]], s, order.side, q) :
                q \in 1..order.remaining}

OnAggTrade(s, prepared) == Event(UNION {{e} \cup TradeFills(e, s) : e \in prepared}, {})

OnDepthUpdate(prepared) == Event(prepared, {})

------------------------------------------------------------------------------
(* The end: shutdown(), flatten_all(), and the verdict of the batch.       *)

Flattened(e, s) ==
    LET d == ForceTaker(Policy, Position(e, s), e.book[s] # NoBook, e.book[s].bid, Ask(e.book[s]), e.book[s].depth)
    IN  IF d = Holds THEN {e} ELSE PlaceSymbol(e, s, Taker(d.side, d.price, d.quantity), TRUE)

CancelAll(e) == [e EXCEPT !.working = [s \in Symbols |-> NoOrder]]

FlattenAll(e) ==
    LET after[k \in 0..Len(SymbolOrder)] ==
          IF k = 0 THEN {CancelAll(e)} ELSE UNION {Flattened(x, SymbolOrder[k]) : x \in after[k - 1]}
    IN  after[Len(SymbolOrder)]

SettlementStatus(e) ==
    IF AllFlat(e) THEN "flat"
    ELSE IF \E s \in Symbols : HasOrder(e, s) THEN "flatten_orders_working"
    ELSE IF \E s \in Symbols : Position(e, s) # 0 THEN "residual_position_unflattened"
    ELSE "not_flat"

Verdict(e, failed, dropped) ==
    IF failed \/ dropped \/ SettlementStatus(e) # "flat" THEN "failed" ELSE "completed"

\* The run is over, with or without an error, and records may have been dropped.
Shutdown ==
    /\ run = "running"
    /\ engine' \in FlattenAll(engine)
    /\ \E failed, dropped \in BOOLEAN : run' = Verdict(engine', failed, dropped)

Init ==
    /\ engine \in [position: {[s \in Symbols |-> 0]}, working: {[s \in Symbols |-> NoOrder]},
                   book: {[s \in Symbols |-> NoBook]}, cap: Caps,
                   guard: {"trading"}, level: {"trading"}]
    /\ run = "running"

OnEvent ==
    \E prepared \in {Prepared} :
        \/ \E s \in Symbols : \/ OnBookTicker(s, prepared) \/ OnStale(s, prepared)
                              \/ OnMarkPrice(s, prepared) \/ OnAggTrade(s, prepared)
        \/ OnDepthUpdate(prepared)

Next == OnEvent \/ Shutdown

Spec == Init /\ [][Next]_vars

------------------------------------------------------------------------------
Entry(e, s) == HasOrder(e, s) /\ ~e.working[s].reduce_only
LiveEntry(e, s) == Entry(e, s) /\ ~e.working[s].cancel

\* A reduce-only order, partial fills and orders about to be cancelled included,
\* never asks for more than there is to reduce, so no fill turns a position round.
ExitsFitPosition ==
    \A s \in Symbols : HasOrder(engine, s) /\ engine.working[s].reduce_only =>
        /\ Reduces(engine.working[s].side, Position(engine, s))
        /\ engine.working[s].remaining <= Absolute(Position(engine, s))

\* What is held and what the resting entry, about to be cancelled or not, can still add.
Exposure(e, s) ==
    Absolute(Position(e, s)) + (IF Entry(e, s) THEN e.working[s].remaining ELSE 0)

\* The exposure of a symbol only grows up to the limit in force after the event, also
\* while an entry's cancel is on its way and it goes on being filled; where the limits
\* have been cut below it, it does not grow (README.md, "exceeded position limits fail
\* closed").
ExposureHeedsLimits ==
    [][\A s \in Symbols : \/ Exposure(engine', s) <= engine'.cap[s]
                           \/ Exposure(engine', s) <= Exposure(engine, s)]_vars

\* When limits are cut, a symbol that holds more than its new one has no live entry left
\* after the event, whatever else the event does and however small the cut
\* (refresh_dynamic_allocations, which sees to such a symbol below the deadband too).
CutLimitsAreHeeded ==
    [][engine'.cap # engine.cap =>
        \A s \in Over(engine, engine'.cap) : engine'.position[s] # 0 => ~LiveEntry(engine', s)]_vars

\* When the guard blocks new risk, every resting entry of every symbol is withdrawn
\* within the same event (on_event_at_ref, the loop over all symbols). The code keeps
\* this for an event that finds a hard stop or executes nothing, and but for the symbol
\* of a stale price, whose order it leaves as it was.
GuardWithdrawsEntries ==
    [][(run' = "running" /\ Blocks(engine') /\ (engine.guard = "hard_stop" \/ engine'.position = engine.position))
         => \A s, t \in Symbols : LiveEntry(engine', s) =>
                /\ LiveEntry(engine', t) => s = t
                /\ engine'.working[s] = engine.working[s]]_vars

\* A taker exit moves profit and loss, so the guard may let go in the middle of the loop
\* over the symbols and block again before its end: with three symbols and more an entry
\* that was placed in between stays.
NoEntryWhileBlocked == Blocks(engine) => \A s \in Symbols : ~LiveEntry(engine, s)

\* The comment of flatten_all: the order at the end is capped by the depth there is.
FlattenWithinDepth ==
    [][run' # "running" => \A s \in Symbols :
        Absolute(Position(engine, s)) - Absolute(Position(engine', s)) <= engine.book[s].depth]_vars
=============================================================================
