-------------------------- MODULE MCReferenceFeed --------------------------
(* The live runner's reference feed and control plane, over the part of the *)
(* catalog that execution rests on; and, as behaviours of their own, the    *)
(* registry in the hands of any caller.                                     *)
EXTENDS ReferenceFeed, SystemRegistry

MCSystems == {"control.kernel", "market.binance", "market.reference", "market.anchor",
              "decision.strategy", "decision.risk", "execution.gateway"}

MCDependsOn == [s \in MCSystems |->
    CASE s = "control.kernel"      -> {}
      [] s = "market.binance"      -> {"control.kernel"}
      [] s = "market.reference"    -> {"control.kernel"}
      [] s = "market.anchor"       -> {"market.binance", "market.reference"}
      [] s = "decision.strategy"   -> {"market.anchor"}
      [] s = "decision.risk"       -> {"market.binance", "market.anchor"}
      [] s = "execution.gateway"   -> {"market.binance", "decision.strategy", "decision.risk"}]

MCInterval == [s \in MCSystems |->
    IF s \in {"control.kernel", "market.reference"} THEN 3
    ELSE IF s \in {"market.binance", "market.anchor"} THEN 2 ELSE 1]

MCListens == [signal \in Signals |->
    CASE signal = "runtime_bootstrap" -> {"control.kernel"}
      [] signal = "reference_data"    -> {"market.reference"}
      [] signal = "user_data"         -> {}
      [] signal = "market_events"     ->
           {"market.binance", "market.anchor", "decision.strategy", "decision.risk",
            "execution.gateway"}]
MCCurrencies == <<"CNY", "HKD">>

\* A smaller catalog with a policy that another one rests on.
MCCatalog == {"kernel", "strategy", "portfolio", "risk", "gateway"}
MCRequires == [s \in MCCatalog |->
    CASE s = "kernel"    -> {}
      [] s = "strategy"  -> {"kernel"}
      [] s = "portfolio" -> {"strategy", "risk"}
      [] s = "risk"      -> {"kernel"}
      [] s = "gateway"   -> {"strategy", "risk"}]
MCLayer == [s \in MCCatalog |->
    CASE s = "kernel" -> 1 [] s = "gateway" -> 4 [] OTHER -> 3]
MCIntervals == [s \in MCCatalog |-> IF s = "kernel" THEN 2 ELSE 1]
MCSignals == [bootstrap |-> <<"kernel">>,
              market |-> <<"risk", "strategy", "gateway">>]
MCReplacements == {{}, {"kernel"}, {"portfolio"}, {"strategy"}, {"risk"}, {"gateway"},
                   {"not registered"}}

MCGoverned == {"strategy", "portfolio"}

VARIABLE part
planeVars == <<part, feedVars, registryVars>>
Feed(S) == part = "feed" /\ S /\ UNCHANGED <<part, registryVars>>
Registry(S) == part = "registry" /\ S /\ UNCHANGED <<part, feedVars>>

PlaneInit == part \in {"feed", "registry"} /\ FeedInit /\ RegistryInit
             /\ (part = "registry" => \A c \in Names : cache[c] = 0)

PlaneNext ==
    \/ Feed(BootstrapReady /\ UNCHANGED feed) \/ Feed(ObserveMarket /\ UNCHANGED feed)
    \/ Feed(Tick /\ UNCHANGED feed) \/ Feed(TimePasses /\ UNCHANGED feed)
    \/ Feed(Poll) \/ Feed(Send) \/ Feed(WakeUp) \/ Feed(TakeQuote) \/ Feed(OtherProcess)
    \/ \E s \in MCCatalog, at \in Times :
          \/ Registry(Heartbeat(s, at))
          \/ \E state \in {"Degraded", "Halted"} : Registry(Marks(s, at, state))
          \/ \E broken \in BOOLEAN :
                Registry(ReportsItself(s, at, IF broken THEN "Degraded" ELSE "Ready", broken))
    \/ \E signal \in DOMAIN MCSignals, at \in Times : Registry(HeartbeatSignal(signal, at))
    \/ \E s \in MCCatalog, dependencies \in MCReplacements :
          Registry(ReplacePolicy(s, dependencies))
    \/ Registry(MarkStaleAt)
    \/ Registry(Elapses)

PlaneSpec == PlaneInit /\ [][PlaneNext]_planeVars
=============================================================================
