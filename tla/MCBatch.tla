------------------------------ MODULE MCBatch -------------------------------
(* The two halves of a simulation batch, side by side: a behaviour is about *)
(* the ledgers' engine with its orders, or about the books it is fed with.  *)
EXTENDS SimulationEngine, DepthRecovery, TLC

CONSTANTS a, b, MinNotional, Participation_pct

MCSymbols == <<a, b>>
MCBids    == (a :> {2, 3}) @@ (b :> {3})
MCCaps    == {(a :> 3) @@ (b :> 1), (a :> 1) @@ (b :> 1)}
MCRules   == Filters(<<1, 100>>, 1, <<1, 100>>, 1, MinNotional, 2 * PPM, PPM \div 2)
MCPolicy  == [slippage |-> 1, participation |-> Participation_pct, cooldown |-> 1, buffer |-> 1]

VARIABLE part
batchVars == <<part, vars, depthVars>>

BatchInit == part \in {"ledgers", "books"} /\ Init /\ DepthInit
             /\ (part = "books" => engine.cap = CHOOSE limits \in Caps : TRUE)
             /\ (part = "ledgers" => bid = [s \in Instruments |-> <<CHOOSE price \in Prices : TRUE>>])

Ledgers(S) == part = "ledgers" /\ S /\ UNCHANGED <<part, depthVars>>
Keeps(S) == part = "books" /\ S /\ UNCHANGED <<part, vars>>

\* Next and DepthNext, action by action.
BatchNext ==
    \/ Ledgers(OnEvent) \/ Ledgers(Shutdown)
    \/ \E s \in Instruments : Keeps(Move(s)) \/ Keeps(Tell(s)) \/ Keeps(Lose(s))
                              \/ Keeps(DeadlinePasses(s))
    \/ Keeps(Overflow) \/ Keeps(BufferDiff) \/ Keeps(ApplyEvent)
    \/ Keeps(TakeRequest) \/ Keeps(Fetch) \/ Keeps(FetchFails)
    \/ Keeps(NotNeeded) \/ Keeps(Failed) \/ Keeps(Installs)

BatchSpec == BatchInit /\ [][BatchNext]_batchVars
=============================================================================
