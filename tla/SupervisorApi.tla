--------------------------- MODULE SupervisorApi ---------------------------
(***************************************************************************)
(* One ExecutionSupervisor under its most general caller: any public       *)
(* method, in any order, with any argument.  What holds here holds for     *)
(* every program that owns a supervisor, whatever protocol it follows.     *)
(*                                                                         *)
(* `resumed` is history: how the supervisor last became Healthy, by a      *)
(* clean reconciliation or by a confirmed flatten.                         *)
(***************************************************************************)
EXTENDS ExecutionSupervisor

CONSTANTS Positions,    \* the positions an event, snapshot or checkpoint may carry
          Foreign       \* a symbol that is not configured

ASSUME PositionsAssumption == Positions \subseteq Int /\ 0 \in Positions
ASSUME ForeignAssumption == Foreign \notin Symbols

VARIABLES sup, resumed

vars == <<sup, resumed>>

Init == sup = NewSupervisor /\ resumed = "never"

EventGap ==
    sup' = ObserveEventGap(sup) /\ UNCHANGED resumed

Adopt == \E s \in Symbols, p \in Positions :
    sup' = AdoptRemotePosition(sup, s, p) /\ UNCHANGED resumed

Restore == \E s \in Symbols \cup {Foreign}, p \in Positions :
    /\ sup' = RestoreCheckpoint(sup, s, p)
    /\ UNCHANGED resumed

Disconnect ==
    sup' = OnDisconnect(sup) /\ UNCHANGED resumed

Reconnect ==
    sup' = OnReconnect(sup) /\ UNCHANGED resumed

SnapshotLoaded ==
    sup' = MarkSnapshotLoaded(sup) /\ UNCHANGED resumed

Clean ==
    /\ sup' = ReconciliationClean(sup)
    /\ resumed' = IF ReconciliationCleanOk(sup) THEN "reconciled" ELSE resumed

Flatten ==
    sup' = BeginFlatten(sup) /\ UNCHANGED resumed

Flattened ==
    /\ sup' = ConfirmFlattened(sup)
    /\ resumed' = IF ConfirmFlattenedOk(sup) THEN "flattened" ELSE resumed

Observe == \E s \in Symbols, p \in Positions :
    /\ sup' = ObservePositions(sup, [sup.pos EXCEPT ![s] = p])
    /\ UNCHANGED resumed

ListenKeyExpired ==
    sup' = OnListenKeyExpired(sup) /\ UNCHANGED resumed

OrderEvent == \E s \in Symbols \cup {Foreign}, isMaker \in BOOLEAN :
    sup' = OnOrderUpdate(sup, s, isMaker) /\ UNCHANGED resumed

AccountEvent == \E touched \in SUBSET Symbols, badRow \in BOOLEAN :
    \E rows \in [touched -> Positions] :
        sup' = OnAccountUpdate(sup, rows, badRow) /\ UNCHANGED resumed

Next ==
    \/ EventGap \/ Adopt \/ Restore
    \/ Disconnect \/ Reconnect \/ SnapshotLoaded \/ Clean
    \/ Flatten \/ Flattened
    \/ Observe \/ ListenKeyExpired \/ OrderEvent \/ AccountEvent

Spec == Init /\ [][Next]_vars

-----------------------------------------------------------------------------

\* The supervisor and its history have their types.
TypeOK == sup \in SupervisorRecord /\ resumed \in {"never", "reconciled", "flattened"}

\* A supervisor that trades because a reconciliation came out clean owns a
\* recovery machine whose own resume gate is open, and has no remote state it
\* knows to be unknown.  The code keeps the two machines in step only through
\* the order of the calls: nothing in evaluate() asks the recovery machine.
ResumeEvidence ==
    sup.state = "Healthy" /\ resumed = "reconciled"
        => ResumeGateOpen(sup.rec) /\ ~sup.unknown

\* Whatever was called before, a supervisor that stopped on a disconnect can be
\* driven back: when it is RiskStopped in an epoch that has not yet been
\* reconnected, on_reconnect, mark_snapshot_loaded and reconciliation_clean are
\* all accepted in that order, and leave the resume gate open.
RecoveryPathOpen ==
    sup.state = "RiskStopped" /\ sup.rec.state = "RiskStopped" =>
        LET synchronizing == OnReconnect(sup)
            loaded == MarkSnapshotLoaded(synchronizing)
            clean == ReconciliationClean(loaded)
        IN  /\ OnReconnectOk(sup)
            /\ MarkSnapshotLoadedOk(synchronizing)
            /\ ReconciliationCleanOk(loaded)
            /\ clean.state = "Healthy" /\ ResumeGateOpen(clean.rec) /\ ~clean.unknown

\* An entry the gate allows keeps the position inside the limit, and an intent
\* that is not post-only is allowed only against the position it reduces,
\* whatever the caller did to the supervisor before.
AllowedEntriesFit ==
    \A s \in Symbols, side \in {"Buy", "Sell"}, q \in 1..MaxPosition + 1,
       postOnly \in BOOLEAN, reduceOnly \in BOOLEAN, gate \in InputGate :
        LET intent == [side |-> side, quantity |-> q,
                       postOnly |-> postOnly, reduceOnly |-> reduceOnly]
        IN  Evaluate(sup, s, intent, gate).kind = "Allow" =>
                /\ ~sup.unknown
                /\ NextPosition(sup.pos[s], intent) \in -MaxPosition..MaxPosition
                /\ ~postOnly => IF side = "Sell" THEN sup.pos[s] > 0 ELSE sup.pos[s] < 0

\* A halt is sticky: no call takes a halted supervisor back to a state from
\* which it can trade.
HaltIsSticky == [][sup.state = "Halted" => sup'.state = "Halted"]_vars
=============================================================================
