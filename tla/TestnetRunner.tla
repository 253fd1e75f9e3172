--------------------------- MODULE TestnetRunner ---------------------------
(***************************************************************************)
(* The single-symbol runner (engine/src/bin/anchorbell_testnet.rs): one    *)
(* task that quotes one post-only order, learns about fills only by        *)
(* polling, and is expected to leave nothing behind when it says so.       *)
(*                                                                         *)
(* A handler of the runner is a sequence of REST calls with an await at    *)
(* each; `todo` holds the calls the running handler has yet to make, so    *)
(* that the exchange acts between any two of them. Any call may fail, and  *)
(* a placement may fail after the exchange has accepted it.                *)
(*                                                                         *)
(* Not in the model: the prices behind an intent (which side, price and    *)
(* quantity the strategy asks for is left open), the clocks that space     *)
(* replacements (min_replace_ms may hold back any of them), the printing.  *)
(***************************************************************************)
EXTENDS RestAdapter, Integers, Sequences, FiniteSets

CONSTANTS
    Environment,    \* --environment
    MaxPosition,    \* --max-position
    Requested,      \* --quantity
    IntentPrices,   \* the prices an intent may carry
    MaxPlaced,      \* orders placed in a behaviour
    MaxFaults,      \* calls that fail in a behaviour
    MaxRuns         \* processes started one after the other

ASSUME RunnerAssumption ==
    {MaxPosition, Requested, MaxPlaced, MaxFaults, MaxRuns} \subseteq Nat

VARIABLES
    phase,       \* off, starting, live or stopping
    send,        \* --send-orders
    todo,        \* the calls of the running handler that are still to be made
    working,     \* State::working
    position,    \* State::position_ticks, as of the last refresh
    halted,      \* State::halted
    exit,        \* how the last process ended
    checkpoint,  \* the checkpoint file's risk_stopped
    open,        \* the orders that rest at the exchange
    exposure,    \* the position at the exchange
    placed, faults, runs

runner == <<phase, send, todo, working, position, halted, exit, checkpoint>>
exchange == <<open, exposure>>
bounds == <<placed, faults, runs>>
runnerVars == <<phase, send, todo, working, position, halted, exit, checkpoint,
                open, exposure, placed, faults, runs>>

NoOrder == [id |-> 0]
Foreign == [id |-> 0, side |-> 1, left |-> 1]
Own == open \ {Foreign}
Amount(n) == IF n < 0 THEN -n ELSE n

\* The steps of a handler: a REST call each, except "rebalance" (a decision)
\* and "checkpoint" (a file).
CallsOf(names) == [i \in 1 .. Len(names) |-> [call |-> names[i]]]
Now(name) == todo # <<>> /\ Head(todo).call = name

\* max_order_quantity, for side 1 (buy) or -1 (sell).
MaxOrderQuantity(side) ==
    LET allowed == MaxPosition - side * position
    IN  IF allowed < 0 THEN 0 ELSE allowed

-----------------------------------------------------------------------------
RunnerInit ==
    /\ phase = "off" /\ send = FALSE /\ todo = <<>> /\ working = NoOrder
    /\ position = 0 /\ halted = FALSE /\ exit = "none" /\ checkpoint = "none"
    /\ open = {} /\ exposure = 0
    /\ placed = 0 /\ faults = 0 /\ runs = 0

\* The deployment the process finds must be for the same environment, and
\* allow orders when they are to be sent.
Configured(s) ==
    \E r \in Requests :
        /\ ~Rejected(r)
        /\ r.environment = Environment
        /\ s => FromValues(r).allow_live_orders

\* run() up to its first account read: a fresh State, whatever the checkpoint
\* says (it is read, compared and printed).
Start ==
    /\ phase = "off" /\ runs < MaxRuns
    /\ \E s \in BOOLEAN : Configured(s) /\ send' = s
    /\ phase' = "starting" /\ runs' = runs + 1
    /\ todo' = CallsOf(<<"orders", "position", "flat">>)
    /\ working' = NoOrder /\ position' = 0 /\ halted' = FALSE /\ exit' = "none"
    /\ UNCHANGED <<checkpoint, exchange, placed, faults>>

Ends(code) == phase' = "off" /\ exit' = code /\ todo' = <<>>

\* What an error of a call leads to. At start and in the final account reads
\* the `?` of run() ends the process, without a checkpoint; in the loop it
\* halts the runner, and a halted runner only writes its checkpoint.
Fails ==
    /\ IF phase = "live" \/ Now("cancel")
       THEN /\ halted' = TRUE /\ phase' = "stopping"
            /\ todo' = CallsOf(<<"checkpoint">>)
            /\ UNCHANGED exit
       ELSE Ends("failed") /\ UNCHANGED halted
    /\ UNCHANGED <<send, checkpoint>>

Continues(rest) ==
    todo' = rest /\ UNCHANGED <<phase, send, halted, exit, checkpoint>>

\* A call (or the checkpoint write) fails without an effect.
CallFails ==
    /\ todo # <<>> /\ ~Now("rebalance") /\ ~Now("flat") /\ faults < MaxFaults
    /\ faults' = faults + 1
    /\ IF Now("checkpoint") THEN Ends("failed") /\ UNCHANGED <<send, halted, checkpoint>>
       ELSE Fails
    /\ UNCHANGED <<working, position, exchange, placed, runs>>

-----------------------------------------------------------------------------
(* The calls of the handlers.                                              *)

\* poll_account: query_order of the working order.
Query ==
    /\ Now("query")
    /\ IF \E o \in Own : o.id = working.id THEN UNCHANGED working
       ELSE working' = NoOrder
    /\ Continues(Tail(todo))
    /\ UNCHANGED <<position, exchange, bounds>>

\* refresh_position: the position is stored before the limit is checked.
BugRefreshPosition ==
    /\ Now("position")
    /\ position' = exposure
    /\ Continues(Tail(todo))
    /\ UNCHANGED <<working, exchange, bounds>>
RefreshPosition ==
    /\ Now("position")
    /\ position' = exposure
    /\ IF Amount(exposure) > MaxPosition THEN Fails
       ELSE Continues(Tail(todo))
    /\ UNCHANGED <<working, exchange, bounds>>

\* The runner requires a flat start.
CheckFlat ==
    /\ Now("flat")
    /\ IF position # 0 THEN Ends("failed") /\ UNCHANGED <<send, halted, checkpoint>>
       ELSE /\ phase' = "live" /\ todo' = <<>>
            /\ UNCHANGED <<send, halted, exit, checkpoint>>
    /\ UNCHANGED <<working, position, exchange, bounds>>

\* reconcile_open_orders reads the open orders and then deals with each that
\* is not the working order: a foreign order, or any in read-only mode, is an
\* error; an order of AnchorBell's is cancelled.
ReadOrders ==
    /\ Now("orders")
    /\ LET others == {o \in open : o = Foreign \/ o.id # working.id}
       IN  Continues(<<[call |-> "review", orders |-> others]>> \o Tail(todo))
    /\ UNCHANGED <<working, position, exchange, bounds>>

ReviewOrder ==
    /\ Now("review")
    /\ LET others == Head(todo).orders
       IN  \/ /\ others = {} /\ Continues(Tail(todo)) /\ UNCHANGED open
           \/ \E o \in others :
                IF o = Foreign \/ ~send \/ \A p \in Own : p.id # o.id
                THEN Fails /\ UNCHANGED open
                ELSE /\ open' = {p \in open : p = Foreign \/ p.id # o.id}
                     /\ Continues(<<[Head(todo) EXCEPT !.orders = @ \ {o}]>>
                                    \o Tail(todo))
    /\ UNCHANGED <<working, position, exposure, bounds>>

\* cancel_working; the exchange refuses to cancel an order that is gone.
CancelWorking ==
    /\ Now("cancel")
    /\ \/ /\ working = NoOrder
          /\ Continues(Tail(todo)) /\ UNCHANGED <<working, open>>
       \/ /\ working # NoOrder
          /\ IF \E o \in Own : o.id = working.id
             THEN /\ open' = {o \in open : o = Foreign \/ o.id # working.id}
                  /\ working' = NoOrder
                  /\ Continues(Tail(todo))
             ELSE Fails /\ UNCHANGED <<working, open>>
    /\ UNCHANGED <<position, exposure, bounds>>

\* place_maker_order: the order rests, or comes back terminal (a post-only
\* order that would have traded), or an error is returned for an order that
\* rests all the same.
PlaceOrder ==
    /\ Now("place") /\ placed < MaxPlaced
    /\ placed' = placed + 1
    /\ LET intent == Head(todo).intent
           order == [id |-> placed', side |-> intent.side, left |-> intent.quantity]
       IN  \/ /\ open' = open \cup {order}
              /\ working' = [id |-> placed', intent |-> intent]
              /\ Continues(Tail(todo)) /\ UNCHANGED faults
           \/ /\ working' = NoOrder
              /\ Continues(Tail(todo)) /\ UNCHANGED <<open, faults>>
           \/ /\ faults < MaxFaults /\ faults' = faults + 1
              /\ open' = open \cup {order}
              /\ Fails /\ UNCHANGED working
    /\ UNCHANGED <<position, exposure, runs>>

\* rebalance: nothing to do (no market yet, an order too young to replace, the
\* same proposal, read-only), withdraw, or replace.
BugReplacing(intent) == <<[call |-> "place", intent |-> intent]>> \o Tail(todo)
Replacing(intent) ==
    (IF working = NoOrder THEN <<>> ELSE CallsOf(<<"cancel">>))
        \o <<[call |-> "place", intent |-> intent]>> \o Tail(todo)

Rebalance ==
    /\ Now("rebalance")
    /\ \/ Continues(Tail(todo))
       \/ send /\ working # NoOrder /\ Continues(CallsOf(<<"cancel">>) \o Tail(todo))
       \/ \E side \in {1, -1}, price \in IntentPrices, asked \in 1 .. Requested :
            LET most == MaxOrderQuantity(side)
                intent == [side |-> side, price |-> price,
                           quantity |-> IF asked < most THEN asked ELSE most]
            IN  /\ send /\ ~halted /\ intent.quantity > 0 /\ placed < MaxPlaced
                /\ working # NoOrder => working.intent # intent
                /\ Continues(Replacing(intent))
    /\ UNCHANGED <<working, position, exchange, bounds>>

\* The checkpoint and the exit code of run().
WriteCheckpoint ==
    /\ Now("checkpoint")
    /\ checkpoint' = IF halted \/ position # 0 THEN "risk_stopped" ELSE "clear"
    /\ Ends(IF halted \/ position # 0 \/ working # NoOrder THEN "stopped" ELSE "clean")
    /\ UNCHANGED <<send, working, position, halted, exchange, bounds>>

-----------------------------------------------------------------------------
(* The branches of select!, taken when no handler is running.              *)

Idle == phase = "live" /\ todo = <<>>

MarketEvent ==
    /\ Idle
    /\ todo' = CallsOf(<<"rebalance">>)
    /\ UNCHANGED <<phase, send, working, position, halted, exit, checkpoint,
                   exchange, bounds>>

Poll ==
    /\ Idle
    /\ todo' = (IF working = NoOrder THEN <<>> ELSE CallsOf(<<"query">>))
                 \o CallsOf(<<"position", "orders", "rebalance">>)
    /\ UNCHANGED <<phase, send, working, position, halted, exit, checkpoint,
                   exchange, bounds>>

StreamClosed ==
    /\ Idle
    /\ halted' = TRUE /\ phase' = "stopping" /\ todo' = CallsOf(<<"checkpoint">>)
    /\ UNCHANGED <<send, working, position, exit, checkpoint, exchange, bounds>>

\* The deadline or the interrupt, and the calls after the loop.
FinalCalls == (IF send THEN CallsOf(<<"cancel">>) ELSE <<>>)
                \o CallsOf(<<"position", "orders", "checkpoint">>)

Stop ==
    /\ Idle
    /\ phase' = "stopping" /\ todo' = FinalCalls
    /\ UNCHANGED <<send, working, position, halted, exit, checkpoint, exchange, bounds>>

Crash ==
    /\ phase # "off"
    /\ Ends("crashed")
    /\ UNCHANGED <<send, working, position, halted, checkpoint, exchange, bounds>>

-----------------------------------------------------------------------------
(* The exchange and its other user.                                        *)

RestingFills ==
    \E o \in Own : \E k \in 1 .. o.left :
        /\ open' = (open \ {o}) \cup
                     (IF k = o.left THEN {} ELSE {[o EXCEPT !.left = @ - k]})
        /\ exposure' = exposure + o.side * k
        /\ UNCHANGED <<runner, bounds>>

Expires ==
    \E o \in open : open' = open \ {o} /\ UNCHANGED <<runner, exposure, bounds>>

\* Somebody else places an order on the symbol, once.
ForeignOrder ==
    /\ phase = "live" /\ open = {} /\ placed = 0
    /\ open' = {Foreign}
    /\ UNCHANGED <<runner, exposure, bounds>>

-----------------------------------------------------------------------------
Handler ==
    \/ Query \/ RefreshPosition \/ CheckFlat \/ ReadOrders \/ ReviewOrder
    \/ CancelWorking \/ PlaceOrder \/ Rebalance \/ WriteCheckpoint

RunnerNext ==
    \/ Start \/ Handler \/ CallFails
    \/ MarketEvent \/ Poll \/ StreamClosed \/ Stop \/ Crash
    \/ RestingFills \/ Expires \/ ForeignOrder

RunnerSpec == RunnerInit /\ [][RunnerNext]_runnerVars

\* Every call returns; select! picks at random among the branches that are
\* ready, so the poll's turn comes as long as the loop keeps coming back.
RunnerFairSpec == RunnerSpec /\ WF_runnerVars(Handler) /\ SF_runnerVars(Poll)

-----------------------------------------------------------------------------
\* At most one order of AnchorBell's rests on the symbol, across crashes,
\* lost answers and restarts: every replacement cancels first, and a start
\* cancels what an earlier process left (rebalance, reconcile_open_orders).
OneOrderAtATime == Cardinality(Own) <= 1

\* A process that exits with code 0 has left no order and no position, and
\* has said so in its checkpoint: the position is read after the cancel, so a
\* fill that beat the cancel is seen (the end of run()).
CleanExit ==
    exit = "clean" =>
        Own = {} /\ exposure = 0 /\ checkpoint = "clear"

\* What the runner promises of its order and of its end.
RunnerIsTidy == OneOrderAtATime /\ CleanExit

\* A position beyond the limit ends the run: no poll lets the runner quote on
\* with it (refresh_position; README.md:91, "exceeded position limits fail
\* closed").
BreachStops ==
    (phase = "live" /\ Amount(exposure) > MaxPosition)
        ~> (phase = "off" \/ Amount(exposure) <= MaxPosition)
=============================================================================
