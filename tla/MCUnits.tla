------------------------------ MODULE MCUnits -------------------------------
(* The parts of the engine that share no state, side by side: a behaviour is *)
(* one maker order, one market shard, one stream of evidence, one symbol's   *)
(* calibration, one metadata cache, one capability gate, one testnet runner, *)
(* or one decision on an input.                                              *)
EXTENDS OrderLifecycle, MarketConnection, SignalPolicy, TradingCalendar, EvidenceStream,
        Calibration, MarketMetadata, TestnetRunner

CONSTANT PicoBpsScale, BasisPoints, SafetyMargin, NearFunding, Whole, TotalWeight, RiskScore
C == INSTANCE StrategyControls
G == INSTANCE RiskGates WITH Unit <- 10000
E == INSTANCE EvidenceGates
S == INSTANCE EntrySizing WITH Unit <- 1000

CONSTANTS MethodOf, Ablations, Overlays, Policies
P == INSTANCE BatchPlan

VARIABLES part,  \* which part this behaviour is about
          input  \* [kind, ..] once a decision is asked for
stateVars == <<lifecycleVars, connectionVars, evidenceVars, calibrationVars, metadataVars, runnerVars>>
unitVars == <<part, input, stateVars>>
Nothing == [kind |-> "none"]

MCCalendar == [d \in 0 .. 16 |->
    [weekday |-> (d % 7) + 1, holiday |-> d \in {2, 7, 14}, half |-> d \in {1, 4},
     supported |-> d <= 15]]
MCMinutes == {0, 479, 480, 509, 510, 539, 540, 554, 555, 569, 570, 571, 689, 690, 719, 720,
              721, 779, 780, 781, 896, 897, 899, 900, 959, 960, 961, 969, 970, 971, 1439}
MCAnchors == {[at |-> 1, price |-> 10], [at |-> 1, price |-> 11]}

MCFloors == [s \in Streams |-> IF s = "reversions" THEN 1 ELSE 2]
MCResiduals == {-4, 1}
MCRegimes == [dislocated |-> 100, wild |-> 75, stressed |-> 50, lively |-> 35, calm |-> 5, quiet |-> 8]

-----------------------------------------------------------------------------
Init ==
    /\ LifecycleInit /\ ConnectionInit /\ EvidenceInit /\ CalibrationInit /\ MetadataInit /\ RunnerInit
    /\ part \in {"orders", "connection", "evidence", "calibration", "cache", "gate", "testnet",
                 "decisions"}
    /\ part # "calibration" => ~frozen
    /\ part # "cache" => endpoint = "plain"
    /\ input = Nothing

Orders_ == part = "orders" /\ LifecycleNext
           /\ UNCHANGED <<part, input, connectionVars, evidenceVars, calibrationVars,
                          metadataVars, runnerVars>>
Connection_ == part = "connection" /\ ConnectionNext
               /\ UNCHANGED <<part, input, lifecycleVars, evidenceVars, calibrationVars,
                              metadataVars, runnerVars>>
Evidence_ == part = "evidence" /\ EvidenceNext
             /\ UNCHANGED <<part, input, lifecycleVars, connectionVars, calibrationVars,
                            metadataVars, runnerVars>>
Calibration_ == part = "calibration" /\ CalibrationNext
                /\ UNCHANGED <<part, input, lifecycleVars, connectionVars, evidenceVars,
                               metadataVars, runnerVars>>
Cache_ == part = "cache" /\ CacheNext
          /\ UNCHANGED <<part, input, lifecycleVars, connectionVars, evidenceVars,
                         calibrationVars, runnerVars>>
Gate_ == part = "gate" /\ GateNext
         /\ UNCHANGED <<part, input, lifecycleVars, connectionVars, evidenceVars,
                        calibrationVars, runnerVars>>
\* The behaviour of one runner, step by step as TestnetRunner has it.
Testnet(A) == part = "testnet" /\ A
              /\ UNCHANGED <<part, input, lifecycleVars, connectionVars, evidenceVars,
                             calibrationVars, metadataVars>>

Asks(i) == input' = i /\ UNCHANGED <<part, stateVars>>
Asked == part = "decisions" /\ input = Nothing

AskQuote == Asked /\
    \E bid \in {8, 9}, width \in 0 .. 3, tick \in {0, 1, 2},
       net \in -3 .. 3, requested \in {1, 3}, cost \in {0, 10}, skewed \in {0, 6},
       aware \in BOOLEAN, mark \in {10, 11}, relief \in {0, 5} :
        Asks([kind |-> "quote", anchor |-> 10, bid |-> bid, ask |-> bid + width, tick |-> tick,
              bidDepth |-> 5, askDepth |-> 3, bidQueue |-> 4, askQueue |-> 1,
              index |-> 10, mark |-> mark, position |-> net, max |-> 2,
              requested |-> requested,
              threshold |-> [NoHurdle EXCEPT !.cost = cost, !.floor = 3, !.tail = 1],
              skew |-> 5, adverse |-> [s \in {1, -1} |-> IF s = 1 THEN skewed ELSE 0],
              fill |-> [s \in {1, -1} |-> IF s = 1 THEN 40 ELSE 30], confidence |-> 90,
              fillAware |-> aware, relief |-> relief, maxGap |-> 5, age |-> 1, maxAge |-> 1])

\* A residual that grows, one that turns, and one of two streams that shrinks and is
\* reported late.
MCPaths == {<< <<1, 2>>, <<2, 6>>, <<3, 14>> >>, << <<1, 8>>, <<2, -8>>, <<3, -12>> >>,
            << <<2, 20>>, <<2, 90>>, <<4, 10>>, <<3, 40>>, <<5, 8>> >>}
MCBoth(x) == [s \in {1, -1} |-> x]
MCSplit(x, y) == [s \in {1, -1} |-> IF s = 1 THEN x ELSE y]
MCFills(orders, fills) == [placed |-> orders, filled |-> fills]
AskEntry == Asked /\
    \E variant \in {"CoreV1", "M1AdaptiveRisk", "M3FillAware", "M5Robust"}, bid \in {955, 980, 1012},
       volatility \in {0, 1, 4, 9}, drift \in {-4, 0, 9}, n \in {0, 40}, path \in MCPaths,
       fills \in {MCFills(MCBoth(0), MCBoth(0)), MCFills(MCSplit(31, 12), MCSplit(20, 1))},
       losses \in {0, 3}, imbalance \in {-500, 0}, depth \in {8, 300} :
        /\ variant # "CoreV1" => bid # 955 /\ path = << <<1, 2>>, <<2, 6>>, <<3, 14>> >>
        /\ drift \in -volatility .. volatility /\ (drift # 0 => n > 0) /\ (n = 0 => losses = 0)
        /\ Asks([kind |-> "entry", variant |-> variant, fair |-> 1000, bid |-> bid, ask |-> bid + 2,
                 middle |-> bid + 1, tick |-> 1, index |-> 1000, mark |-> 1001, maxGap |-> 5,
                 depth |-> MCSplit(depth, depth + 4), queue |-> MCSplit(3, 6), tiny |-> 10,
                 volatility |-> volatility, drift |-> drift, spread |-> 2, n |-> n,
                 reversions |-> n \div 2, confidence |-> 6, fresh |-> TRUE,
                 relief |-> [now |-> 1, step |-> 1, most |-> 20, window |-> 20],
                 region |-> MCSplit(0, 2), residuals |-> [k \in DOMAIN path |->
                                            [at |-> path[k][1], residual |-> path[k][2]]],
                 placed |-> fills.placed, filled |-> fills.filled,
                 markouts |-> MCBoth([k \in 1 .. 8 |-> losses]), markout |-> 1,
                 floor |-> 2, fee |-> 1, settles |-> TRUE, rate |-> 1,
                 requested |-> 30, max |-> 20, imbalance |-> imbalance])

\* With four parts to a basis point, a rate of one is rounded away and one of two is not.
MCRates == {-30, -5, -2, -1, 0, 1, 2, 5, 30}
AskFunding == Asked /\
    \E anchor \in {9, 10, 12}, mark \in {10, 11}, net \in {0, 1}, known \in BOOLEAN,
       rate \in MCRates, next \in {0, 2, 9}, fee \in {0, 4}, volatility \in {0, 2} :
        Asks([kind |-> "funding", anchor |-> anchor, mid |-> 10, mark |-> mark, index |-> 10,
              position |-> net, max |-> 2, known |-> known, rate |-> rate, next |-> next,
              now |-> 1, fee |-> fee, volatility |-> volatility, spread |-> 2])

AskDeadline == Asked /\
    \E fair \in {8, 10, 12}, net \in -2 .. 2, left \in {0, 1, 2, 3, 5, 9, 16}, depth \in {0, 2, 6},
       requested \in {1, 3}, fee \in {0, 3}, carry \in {-2, 0}, queue \in {0, 2} :
        Asks([kind |-> "deadline", fair |-> fair, mid |-> 10, bid |-> 9, ask |-> 11, mark |-> 10,
              index |-> 10, position |-> net, max |-> 2, now |-> 20 - left, deadline |-> 20,
              requested |-> requested, bidDepth |-> depth, askDepth |-> 4, queue |-> queue,
              spread |-> 1, fee |-> fee, volatility |-> 1, markout |-> 1, carry |-> carry,
              dataValid |-> TRUE, fundingValid |-> TRUE])
MCCalibration ==
    [halfLife |-> 2, exitLead |-> 1, fillHorizon |-> 1, hazard |-> 90, nullWeight |-> 10,
     participation |-> 50, uncertainty |-> 1, adverse |-> 0, minResidual |-> 1, minEdge |-> 1]

AskCapital == Asked /\
    \E n \in 1 .. 3, low \in {0, 1, 3}, high \in {4, 7, 10}, capital \in {7, 10} :
        \E risks \in [1 .. n -> {1, 3, 4}], chosen \in SUBSET (1 .. n) :
            Asks([kind |-> "capital", risks |-> risks, eligible |-> chosen, low |-> low,
                  high |-> high, capital |-> capital])

AskGate == Asked /\
    \E now \in 0 .. 6, net \in -3 .. 3, market \in {0, 3, 6}, until \in {4, 7}, known \in BOOLEAN,
       funding \in {-1, 5}, requested \in {0, 1, 3}, bid \in {8, 10, 12} :
        Asks([kind |-> "gate", now |-> now, market |-> market, maxAge |-> 2, position |-> net,
              anchor |-> [from |-> 1, until |-> until], requested |-> requested,
              price |-> 10, bid |-> bid, ask |-> bid + 1,
              plan |-> [known |-> known, equity |-> 6, funding |-> funding,
                        equity_window |-> 1, funding_window |-> 2]])

AskSession == Asked /\
    \E region \in Regions, day \in 1 .. 15, minute \in MCMinutes :
        Asks([kind |-> "session", region |-> region, day |-> day, minute |-> minute])

Fold(stress, id, ret, drawdown) ==
    [id |-> id, stress |-> stress, return |-> ret, complete |-> TRUE, sharpe |-> ret,
     sortino |-> drawdown, drawdown |-> drawdown, fee |-> drawdown, trades |-> 2]
MCPolicy ==
    [minOos |-> 2, minStress |-> 1, minTrades |-> 1, maxDrawdown |-> 2, maxStressDrawdown |-> 1,
     maxStressLoss |-> 1, survival |-> 500000, positive |-> 500000, minReturn |-> -1,
     quartile |-> 0, sharpe |-> 1, sortino |-> 1, maxMad |-> 1, maxFee |-> 1]
AskSelection == Asked /\
    \E n \in 2 .. 5, m \in 2 .. 3, mad \in {0, 1}, loss \in {0, 2}, drawdown \in {1, 2} :
        \E returns \in [1 .. n -> {-1, 0, 2}] :
            Asks([kind |-> "selection", policy |-> [MCPolicy EXCEPT !.maxMad = mad],
                  candidates |->
                    << [i \in 1 .. n |-> Fold(FALSE, i, returns[i], 1)]
                         \o <<Fold(TRUE, 8, -loss, drawdown), Fold(TRUE, 9, -1, 1)>>,
                       [i \in 1 .. m |-> Fold(FALSE, i, returns[(i % n) + 1], 2)]
                         \o <<Fold(TRUE, 8, 0, drawdown)>> >>])

AskFairValue == Asked /\
    \E anchor \in {0, 100, 110}, index \in {100, 120}, mark \in {99, 108, 125}, mid \in {100, 112},
       volatility \in {0, 40, 80}, seen \in {0, 2}, until \in {0, 6}, maxAge \in {0, 4},
       earlier \in {1, 3, 5}, later \in {3, 6, 8} :
        Asks([kind |-> "fair value", anchor |-> anchor, index |-> index, mark |-> mark, mid |-> mid,
              volatility |-> volatility, spread |-> 2, seen |-> seen, until |-> until,
              maxAge |-> maxAge, earlier |-> earlier, later |-> later])

MCMethodOf == [m1 |-> "m1", m8 |-> "m8", M8 |-> "m8"]
MCAblations == [m1 |-> {}, m8 |-> {"funding"}]
Funding(padded) == <<[name |-> "funding", padded |-> padded]>>
Experiments(labels, ablations, parents) ==
    [label : labels, key : {"m1", "m8", "M8"}, ablations : ablations, parent : parents,
     overlay : Overlays, policy : Policies]
AskPlan == Asked /\
    \/ \E first, second \in Experiments({"a", "b", ""}, {<<>>, Funding(FALSE), Funding(TRUE)}, {"", "a"}) :
          Asks([kind |-> "plan", plan |-> <<first, second>>])
    \/ \E first, second, third \in Experiments({"a", "b", "c"}, {<<>>, Funding(FALSE)}, {""}) :
          Asks([kind |-> "plan", plan |-> <<first, second, third>>])

AskMethod == Asked /\
    \E second \in SUBSET {1, 2}, third \in SUBSET {1, 2, 3}, fourth \in SUBSET {1, 2, 3},
       overrides \in SUBSET {"maker_only", "fees"} :
        LET parents == << <<>>, P!SetToSeq(second), P!SetToSeq(third), P!SetToSeq(fourth)>>
            method(i) == [id |-> i, parents |-> parents[i], overrides |-> overrides]
        IN  /\ \A i \in 1 .. 4 :
                  P!Registers([j \in 1 .. i - 1 |-> method(j)], method(i), {"maker_only"})
            /\ Asks([kind |-> "method", parents |-> parents])

Next ==
    \/ Orders_ \/ Connection_ \/ Evidence_ \/ Calibration_ \/ Cache_ \/ Gate_
    \/ Testnet(Start) \/ Testnet(Query) \/ Testnet(RefreshPosition) \/ Testnet(CheckFlat)
    \/ Testnet(ReadOrders) \/ Testnet(ReviewOrder) \/ Testnet(CancelWorking)
    \/ Testnet(PlaceOrder) \/ Testnet(Rebalance) \/ Testnet(WriteCheckpoint)
    \/ Testnet(CallFails) \/ Testnet(MarketEvent) \/ Testnet(Poll)
    \/ Testnet(StreamClosed) \/ Testnet(Stop) \/ Testnet(Crash) \/ Testnet(RestingFills)
    \/ Testnet(Expires) \/ Testnet(ForeignOrder)
    \/ AskQuote \/ AskFunding \/ AskDeadline \/ AskCapital \/ AskGate \/ AskSession
    \/ AskSelection \/ AskEntry \/ AskFairValue \/ AskPlan \/ AskMethod

\* TestnetRunner's fairness; the other parts need none.
Spec == Init /\ [][Next]_unitVars
        /\ WF_unitVars(Testnet(Handler)) /\ SF_unitVars(Testnet(Poll))

-----------------------------------------------------------------------------
\* What is decided is safe for every input. Of a quote, SignalPolicy::QuoteIsSafe; of an
\* entry at the touch of either side, EntrySizing::EntriesAreSized; of a market and a pair
\* of moments, RiskGates::AnchorIsPrimaryWhileItLasts; of the controllers of funding,
\* deadline, capital, limits and sessions, FundingIsPaidFor, EntriesCanBeLeft,
\* WeightsAreFair, GatesKeepTheLimit and TradingCalendar::SessionsAgree.
DecisionsAreSafe ==
    /\ input.kind = "entry" => \A side \in {1, -1} :
          S!EntriesAreSized(input, side, IF side = 1 THEN input.bid ELSE input.ask)
    /\ input.kind = "quote" => QuoteIsSafe(input)
    /\ input.kind = "fair value" =>
          G!AnchorIsPrimaryWhileItLasts(input, MCRegimes, input.earlier, input.later)
    /\ input.kind = "funding" => C!FundingIsPaidFor(input, MCRates)
    /\ input.kind = "deadline" => C!EntriesCanBeLeft(input, MCCalibration, 4 .. 20)
    /\ input.kind = "capital" =>
          C!WeightsAreFair(input.risks, input.eligible, input.low, input.high, input.capital)
    /\ input.kind = "gate" =>
          G!GatesKeepTheLimit(input, [closed |-> 1, flatten |-> 4, reopen |-> 6], input.plan, 1000, 2)
    /\ input.kind = "session" => SessionsAgree(input.region, input.day, input.minute)

\* EntrySizing::GoodFillsAreFree of every entry that is asked for.
GoodFillsAreFree == input.kind = "entry" => S!GoodFillsAreFree(input)

\* A plan that experiment_plan.rs accepts is one the batch runner can carry through:
\* the batch accepts it too, and every checkpoint that is made of its ledgers, whatever
\* they hold, is one that validate lets through when it is written and when it is read
\* (session_checkpoint.rs); a label used twice would make the batch die at its first
\* checkpoint. BatchPlan::LineageIsComplete of every method that registers, and
\* EvidenceGates::SelectionIsEarned of every pair of candidates.
ExperimentsAreSound ==
    /\ input.kind = "plan" /\ P!PlanAccepted(input.plan) =>
          LET specs == P!Specs(input.plan)
              labels == [i \in DOMAIN specs |-> specs[i].label]
          IN  /\ P!SpecsAccepted(specs)
              /\ \A shift \in -2 .. 2 :
                    LET positions == [i \in DOMAIN specs |-> [s1 |-> i + shift, s2 |-> shift - i]]
                    IN  /\ P!Valid(P!OfBatch(labels, positions))
                        /\ P!Valid(P!OfLive(positions[1]))
                        /\ P!Valid(P!OfSymbol("s1", positions[1].s1))
    /\ input.kind = "method" =>
          \A id \in DOMAIN input.parents : P!LineageIsComplete(input.parents, id)
    /\ input.kind = "selection" => E!SelectionIsEarned(input.candidates, input.policy)
=============================================================================
