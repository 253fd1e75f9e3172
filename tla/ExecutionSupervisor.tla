------------------------ MODULE ExecutionSupervisor ------------------------
(***************************************************************************)
(* execution/supervisor.rs as operators on a record: each method that      *)
(* changes the supervisor is an operator returning the supervisor after    *)
(* the call, and <Method>Ok says whether the call returned Ok.  Two        *)
(* specifications are written over them: SupervisorApi, where any caller   *)
(* may call any method, and LiveSession, the one program that drives a     *)
(* supervisor against the exchange.                                        *)
(*                                                                         *)
(* A value of SupervisorRecord is one ExecutionSupervisor:                 *)
(*   state    the SupervisorState                                          *)
(*   pos      SymbolState.position of every configured symbol              *)
(*   unknown  unknown_remote_state                                         *)
(*   rec      the RecoveryMachine it owns                                  *)
(* The times and readiness flags of SymbolState reach evaluate() only      *)
(* through a fixed chain of input gates, so they are reduced to the first  *)
(* gate of that chain they fail at the moment of evaluation (InputGate).   *)
(* Left out: tracked_orders, next_decision_id and last_user_event_at_ms,   *)
(* which are written here and decide nothing, and the decision audit.      *)
(***************************************************************************)
EXTENDS RecoveryMachine, Integers

CONSTANTS Symbols,       \* the configured symbols
          MaxPosition    \* SupervisorConfig.max_position

ASSUME SymbolsAssumption == Symbols # {}
ASSUME MaxPositionAssumption == MaxPosition \in Nat \ {0}

SupervisorState == {"Synchronizing", "Healthy", "RiskStopped", "Flattening", "Halted"}

SupervisorRecord == [state: SupervisorState, pos: [Symbols -> Int],
                     unknown: BOOLEAN, rec: RecoveryRecord]

Magnitude(n) == IF n < 0 THEN -n ELSE n

NewSupervisor == [state |-> "Synchronizing", pos |-> [s \in Symbols |-> 0],
                  unknown |-> FALSE, rec |-> NewRecovery]

-----------------------------------------------------------------------------
(* Disconnects, reconnects and reconciliation.                             *)

ObserveEventGap(sup) ==
    [sup EXCEPT !.rec = RecordGap(sup.rec), !.unknown = FALSE, !.state = "RiskStopped"]

AdoptRemotePosition(sup, symbol, position) == [sup EXCEPT !.pos[symbol] = position]

\* restore_checkpoint of a valid checkpoint; one for a symbol that is not
\* configured halts.
RestoreCheckpoint(sup, symbol, position) ==
    IF symbol \in Symbols
    THEN [sup EXCEPT !.pos[symbol] = position, !.unknown = FALSE,
                     !.rec = StartEpoch(sup.rec), !.state = "RiskStopped"]
    ELSE [sup EXCEPT !.state = "Halted"]

BugOnDisconnect(sup) == [sup EXCEPT !.state = "RiskStopped"]
OnDisconnect(sup) ==
    [sup EXCEPT !.state = "RiskStopped", !.rec = StartEpoch(sup.rec)]

OnReconnectOk(sup) ==
    sup.state = "RiskStopped" /\ Accepts(sup.rec, "ReconnectSucceeded")

BugOnReconnect(sup) == IF OnReconnectOk(sup) THEN [sup EXCEPT !.state = "Healthy"] ELSE sup
OnReconnect(sup) ==
    IF OnReconnectOk(sup)
    THEN [sup EXCEPT !.rec = Apply(sup.rec, "ReconnectSucceeded"),
                     !.state = "Synchronizing"]
    ELSE sup

MarkSnapshotLoadedOk(sup) ==
    sup.state = "Synchronizing" /\ Accepts(RecordSnapshot(sup.rec), "SnapshotLoaded")

BugMarkSnapshotLoaded(sup) ==
    IF sup.state = "Synchronizing"
    THEN [sup EXCEPT !.rec = Apply(RecordSnapshot(sup.rec), "SnapshotLoaded")]
    ELSE sup

BugUnrecordedSnapshot(sup) ==
    IF sup.state = "Synchronizing"
    THEN [sup EXCEPT !.unknown = FALSE, !.rec = Apply(sup.rec, "SnapshotLoaded")]
    ELSE sup

\* The flag is cleared and the snapshot recorded even when apply() then fails.
MarkSnapshotLoaded(sup) ==
    IF sup.state = "Synchronizing"
    THEN [sup EXCEPT !.unknown = FALSE,
                     !.rec = Apply(RecordSnapshot(sup.rec), "SnapshotLoaded")]
    ELSE sup

ReconciliationCleanOk(sup) == sup.state = "Synchronizing" /\ ~sup.unknown

ReconciledRecovery(r) ==
    IF r.state = "Synchronizing"
    THEN Apply(MarkReconciled(r), "ReconciliationClean")
    ELSE r

ReconciliationClean(sup) ==
    IF ReconciliationCleanOk(sup)
    THEN [sup EXCEPT !.rec = ReconciledRecovery(sup.rec), !.state = "Healthy"]
    ELSE [sup EXCEPT !.state = "Halted"]

-----------------------------------------------------------------------------
(* Flattening.                                                             *)

BeginFlattenOk(sup) == sup.state # "Halted"

BeginFlatten(sup) ==
    IF BeginFlattenOk(sup) THEN [sup EXCEPT !.state = "Flattening"] ELSE sup

ConfirmFlattenedOk(sup) ==
    sup.state = "Flattening" /\ \A s \in Symbols : sup.pos[s] = 0

ConfirmFlattened(sup) ==
    [sup EXCEPT !.state = IF ConfirmFlattenedOk(sup) THEN "Healthy" ELSE "Halted"]

-----------------------------------------------------------------------------
(* Observations and user-data events.                                      *)

\* observe_symbol for every symbol of a map of positions.
ObservePositions(sup, positions) == [sup EXCEPT !.pos = positions]

OnListenKeyExpired(sup) ==
    [sup EXCEPT !.unknown = TRUE, !.state = "RiskStopped", !.rec = StartEpoch(sup.rec)]

\* OrderUpdate: one for a foreign symbol, or for an order that is not a
\* LIMIT GTX order, halts; any other leaves what is modelled here alone.
OnOrderUpdate(sup, symbol, isMaker) ==
    IF symbol \in Symbols /\ isMaker
    THEN sup
    ELSE [sup EXCEPT !.unknown = TRUE, !.state = "Halted"]

\* AccountUpdate: the rows are applied in order and the first bad one (a
\* foreign symbol or an amount that does not parse) halts, with the rows
\* before it applied.  `rows` is a partial map over Symbols.
OnAccountUpdate(sup, rows, badRow) ==
    LET applied == [sup EXCEPT !.pos =
                      [s \in Symbols |-> IF s \in DOMAIN rows THEN rows[s] ELSE sup.pos[s]]]
    IN  IF badRow THEN [applied EXCEPT !.unknown = TRUE, !.state = "Halted"] ELSE applied

-----------------------------------------------------------------------------
(* The entry gate.                                                         *)

\* The gates on market, FX, anchor, session and funding inputs, in the order
\* evaluate() tries them; "Clear" when the inputs pass them all.
InputGate == {"MarketStale", "FxStale", "AnchorUnavailable", "EquitySessionOpen",
              "FundingUnknown", "FundingWindow", "Clear"}

Intent == [side: {"Buy", "Sell"}, quantity: Int, postOnly: BOOLEAN, reduceOnly: BOOLEAN]

Decision(kind, reason) == [kind |-> kind, reason |-> reason]

NextPosition(position, intent) ==
    IF intent.side = "Buy" THEN position + intent.quantity ELSE position - intent.quantity

BugTakerNotReducing(position, intent) ==
    /\ ~intent.postOnly
    /\ \/ ~intent.reduceOnly
       \/ intent.side = "Buy" /\ position > 0
       \/ intent.side = "Sell" /\ position < 0

\* A taker intent must be reduce-only and on the side that reduces.
TakerNotReducing(position, intent) ==
    /\ ~intent.postOnly
    /\ \/ ~intent.reduceOnly
       \/ intent.side = "Buy" /\ position >= 0
       \/ intent.side = "Sell" /\ position <= 0

MayNotTrade(sup) == sup.state # "Healthy"

\* evaluate(): the first gate that fails decides.
Evaluate(sup, symbol, intent, gate) ==
    LET position == sup.pos[symbol] IN
    IF MayNotTrade(sup) THEN Decision("Halt", "NotHealthy")
    ELSE IF intent.quantity <= 0 THEN Decision("Halt", "InvalidIntent")
    ELSE IF TakerNotReducing(position, intent) THEN Decision("Halt", "NonMakerIntent")
    ELSE IF gate \in {"MarketStale", "FxStale", "AnchorUnavailable"}
         THEN Decision("Halt", gate)
    ELSE IF gate \in {"EquitySessionOpen", "FundingUnknown"} THEN Decision("NoAction", gate)
    ELSE IF gate = "FundingWindow"
         THEN Decision(IF position = 0 THEN "NoAction" ELSE "Flatten", gate)
    ELSE IF sup.unknown THEN Decision("Halt", "UnknownRemoteState")
    ELSE IF Magnitude(NextPosition(position, intent)) > MaxPosition
         THEN Decision("NoAction", "PositionLimit")
    ELSE Decision("Allow", "Clear")
=============================================================================
