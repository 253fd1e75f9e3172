----------------------------- MODULE Calibration -----------------------------
(***************************************************************************)
(* What a simulated ledger learns of one symbol (strategy/calibration.rs)  *)
(* from the orders and prices the engine shows it (simulation/runtime.rs), *)
(* and what it makes of it: the calibration of the deadline controller and *)
(* the lower bounds of the fill probability (simulation/runtime_math.rs).  *)
(*                                                                         *)
(* The windows roll: each keeps its last Window samples, and they roll     *)
(* apart from each other.  Samples of one-sided streams and the values of  *)
(* returns and spreads are left out, the number of them stays; so is the   *)
(* floating-point correction for serial correlation, which only lowers the *)
(* effective sample size.                                                  *)
(***************************************************************************)
EXTENDS Integers, Sequences, FiniteSets, SequencesExt

CONSTANTS
    Window,       \* ROLLING_WINDOW_CAPACITY
    Floors,       \* the MIN_..._SAMPLES of each stream
    OrderSize,    \* what an order is placed for
    Residuals,    \* the distances from the anchor that are seen, with their sign
    MaxOrders, MaxFrames   \* bounds: orders, market events

Streams == {"market", "reversions", "waits", "participations", "markouts", "trials", "fills"}

ASSUME CalibrationAssumption ==
    /\ {Window, OrderSize, MaxOrders, MaxFrames} \subseteq Nat \ {0}
    /\ Floors \in [Streams -> Nat \ {0}] /\ Residuals \subseteq Int

VARIABLES
    samples,   \* CalibrationState: its windows, counters and the last residual
    frozen,    \* CalibrationState::frozen
    resting,   \* the engine's working order
    due,       \* pending_markouts
    frames,    \* market events so far, which stand for the time
    outcome    \* history: by order, how it ended

calibrationVars == <<samples, frozen, resting, due, frames, outcome>>

NoResting == [id |-> 0, left |-> 0, since |-> 0, reduces |-> FALSE]
NoSamples == [trials |-> <<>>, fills |-> <<>>, waits |-> <<>>, participations |-> 0,
              markouts |-> <<>>, market |-> 0, reversions |-> <<>>, reverted |-> 0,
              last |-> [size |-> -1, frame |-> 0]]

CalibrationInit ==
    /\ samples = NoSamples /\ frozen \in BOOLEAN
    /\ resting = NoResting /\ due = 0 /\ frames = 0
    /\ outcome = <<>>

-----------------------------------------------------------------------------
(* What is observed.                                                       *)

\* push(): the oldest sample leaves a full window.
Push(window, sample) ==
    LET longer == Append(window, sample)
    IN  IF Len(longer) > Window THEN Tail(longer) ELSE longer
Count(n) == IF n < Window THEN n + 1 ELSE n

Extent(n) == IF n < 0 THEN -n ELSE n

\* observe_market(): a residual that has halved since the last one, in whatever time.
ObserveMarket(s, residual, now) ==
    LET size == Extent(residual)
        halved == s.last.size >= 0 /\ now > s.last.frame /\ size * 2 <= s.last.size
    IN  [s EXCEPT !.market = Count(@), !.last = [size |-> size, frame |-> now],
                  !.reversions = IF halved THEN Push(@, now - s.last.frame) ELSE @,
                  !.reverted = IF halved THEN @ + 1 ELSE @]

ObserveOrderPlaced(s, id) == [s EXCEPT !.trials = Push(@, id)]

\* The bug: every fill is a sample of the waiting time.
BugObserveFill(s, order, deep, now) ==
    [s EXCEPT !.fills = Push(@, order.id), !.participations = IF deep THEN Count(@) ELSE @,
              !.waits = Push(@, [of |-> order.id, time |-> now - order.since])]

\* A fill, whole or partial; the participation is one of a depth that was displayed.
\* The wait is not a sample yet.
ObserveFill(s, order, deep, now) ==
    [s EXCEPT !.fills = Push(@, order.id), !.participations = IF deep THEN Count(@) ELSE @]

ObserveOrderTerminal(s, order, now) ==
    [s EXCEPT !.waits = Push(@, [of |-> order.id, time |-> now - order.since])]

\* A markout is one sample, as far as it is against the fill.
ObserveMarkout(s, markout) == [s EXCEPT !.markouts = Push(@, IF markout > 0 THEN markout ELSE 0)]

\* Every observation is dropped while updates are disabled.
Learns(new) == samples' = IF frozen THEN samples ELSE new

-----------------------------------------------------------------------------
(* The engine that observes.                                               *)

Place ==
    /\ resting = NoResting /\ Len(outcome) < MaxOrders
    /\ LET id == Len(outcome) + 1 IN
          /\ \E reduces \in BOOLEAN :
                resting' = [id |-> id, left |-> OrderSize, since |-> frames, reduces |-> reduces]
          /\ Learns(ObserveOrderPlaced(samples, id))
    /\ UNCHANGED <<frozen, due, frames, outcome>>

\* apply_trade(): the order that is filled leaves without a terminal observation.
Fill ==
    /\ resting # NoResting
    /\ \E quantity \in 1 .. resting.left :
          /\ resting' = IF quantity = resting.left THEN NoResting
                        ELSE [resting EXCEPT !.left = @ - quantity]
          /\ outcome' = IF quantity = resting.left THEN Append(outcome, "filled") ELSE outcome
    /\ due' = IF resting.reduces THEN due ELSE due + 1
    /\ \E deep \in BOOLEAN : Learns(ObserveFill(samples, resting, deep, frames))
    /\ UNCHANGED <<frozen, frames>>

\* cancel_working(), or the acknowledgement of a cancel on its way.
Cancel ==
    /\ resting # NoResting
    /\ resting' = NoResting
    /\ outcome' = Append(outcome, IF resting.left = OrderSize THEN "cancelled" ELSE "part")
    /\ Learns(ObserveOrderTerminal(samples, resting, frames))
    /\ UNCHANGED <<frozen, due, frames>>

\* update_markout_feedback(): one observation that is due.
Markout ==
    /\ due > 0 /\ due' = due - 1
    /\ \E markout \in {-1, 1} : Learns(ObserveMarkout(samples, markout))
    /\ UNCHANGED <<frozen, resting, frames, outcome>>

Market ==
    /\ frames < MaxFrames /\ frames' = frames + 1
    /\ \E residual \in Residuals : Learns(ObserveMarket(samples, residual, frames + 1))
    /\ UNCHANGED <<frozen, resting, due, outcome>>

CalibrationNext == Place \/ Fill \/ Cancel \/ Markout \/ Market
CalibrationSpec == CalibrationInit /\ [][CalibrationNext]_calibrationVars

-----------------------------------------------------------------------------
(* CalibrationSnapshot::from_state().                                      *)

\* median(): the lower one of an even number.
Median(window) ==
    LET middle == (Len(window) - 1) \div 2
        Below(v) == Cardinality({i \in DOMAIN window : window[i] < v})
        UpTo(v) == Cardinality({i \in DOMAIN window : window[i] <= v})
    IN  CHOOSE v \in ToSet(window) : Below(v) <= middle /\ middle < UpTo(v)

Root(n) == CHOOSE k \in 0 .. n : k * k <= n /\ (k + 1) * (k + 1) > n

\* wilson_lower_bound_bps() at z = 1.96, in hundredths.
WilsonLower(successes, trials) ==
    IF trials = 0 THEN 0
    ELSE ((200 * successes + 384
             - Root(147600 + (153700 * successes * (trials - successes)) \div trials)) * 10000)
           \div (200 * trials + 768)

Evidence(s) ==
    [market |-> s.market, reversions |-> Len(s.reversions), waits |-> Len(s.waits),
     participations |-> s.participations, markouts |-> Len(s.markouts),
     trials |-> Len(s.trials), fills |-> Len(s.fills)]

\* component_history_ready.
Ready(s) == \A stream \in Streams : Evidence(s)[stream] >= Floors[stream]

\* fill_hazard: the fills in the window, at most as many as the orders in the window.
Fewer(a, b) == IF a < b THEN a ELSE b
Hazard(s) == WilsonLower(Fewer(Len(s.fills), Len(s.trials)), Len(s.trials))

\* null_weight: the share of residuals that did not revert, by a counter that never rolls.
NullWeight(s) ==
    IF s.market = 0 THEN 10000
    ELSE LET share == 10000 - (s.reverted * 10000) \div s.market
         IN  IF share < 0 THEN 0 ELSE share

Calibrated(s) == Ready(s) /\ Hazard(s) > 0

\* fill_horizon, exit_lead.
Horizon(s) == Median([i \in 1 .. Len(s.waits) |-> s.waits[i].time])

-----------------------------------------------------------------------------
\* The remarks in observe_fill_inner() and from_state(): an order is one sample of the
\* waiting time, taken when it ended, and one trial; a ledger with updates disabled has
\* learnt nothing; and there is a calibration only with as much evidence of every kind as
\* its floor asks for, from orders that were placed.
EvidenceIsSound ==
    /\ frozen => samples = NoSamples
    /\ \A i, j \in DOMAIN samples.waits :
          i # j => samples.waits[i].of # samples.waits[j].of
    /\ \A i \in DOMAIN samples.waits :
          /\ samples.waits[i].of \in DOMAIN outcome
          /\ outcome[samples.waits[i].of] \in {"cancelled", "part"}
    /\ Calibrated(samples) =>
          /\ Len(outcome) + (IF resting = NoResting THEN 0 ELSE 1) >= Floors["trials"]
          /\ Cardinality({i \in DOMAIN outcome : outcome[i] # "filled"}) >= Floors["waits"]
          /\ Hazard(samples) <= 10000 /\ Horizon(samples) <= frames

\* from_state(): partial fills cannot create more than one success.
OneSuccessPerOrder ==
    Fewer(Len(samples.fills), Len(samples.trials)) <= Cardinality(ToSet(samples.fills))

\* observe_fill_inner(): waiting time is sampled once at terminality.
EveryEndIsASample ==
    ~frozen /\ Len(outcome) <= Window =>
        \A i \in DOMAIN outcome : \E j \in DOMAIN samples.waits : samples.waits[j].of = i
=============================================================================
