--------------------------- MODULE MCLiveSession ---------------------------
(* LiveSession on small instances: the order of the symbols and the gates. *)
EXTENDS LiveSession

CONSTANTS s1, s2

OneSymbol  == <<s1>>
TwoSymbols == <<s1, s2>>

\* One gate of each way the runner answers one: the quote is withdrawn, the
\* position is flattened, the entry is allowed.
MCGates == {"MarketStale", "FundingWindow", "Clear"}
=============================================================================
