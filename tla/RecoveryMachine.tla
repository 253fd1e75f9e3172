-------------------------- MODULE RecoveryMachine --------------------------
(***************************************************************************)
(* The recovery epoch machine of execution/recovery.rs as operators on a   *)
(* record, so that the supervisor that owns one can be written over it.    *)
(*                                                                         *)
(* A value of RecoveryRecord is one RecoveryMachine:                       *)
(*   state         the RecoveryState                                       *)
(*   begun         epoch is not None                                       *)
(*   gap           event_gap_detected of the epoch                         *)
(*   snapshot      snapshot_at_ms # 0: the epoch has recorded a snapshot   *)
(* Left out: the number of the epoch, its times and its count of external  *)
(* adjustments, which only describe it and are read by no decision.        *)
(***************************************************************************)
RecoveryState == {"Healthy", "RiskStopped", "Synchronizing",
                  "CancelingUnknownOrders", "Flattening", "Resumed", "Halted"}

RecoveryEvent == {"ConnectionLost", "ReconnectSucceeded", "SnapshotLoaded",
                  "EventGapDetected", "ReconciliationClean", "UnknownOrdersFound",
                  "PositionMismatch", "ExternalStateAdopted", "CancelComplete",
                  "FlattenComplete", "OperatorHalt"}

RecoveryRecord ==
    [state: RecoveryState, begun: BOOLEAN, gap: BOOLEAN, snapshot: BOOLEAN]

NewRecovery == [state |-> "Healthy", begun |-> FALSE, gap |-> FALSE, snapshot |-> FALSE]

\* What resume_gate_open() answers.
ResumeGateOpen(r) == r.state \in {"Resumed", "Healthy"} /\ (r.begun => ~r.gap)

StartEpoch(r) == [state |-> "RiskStopped", begun |-> TRUE, gap |-> FALSE, snapshot |-> FALSE]

\* The record_* and mark_* methods do nothing before the first epoch.
RecordSnapshot(r) == IF r.begun THEN [r EXCEPT !.snapshot = TRUE] ELSE r

RecordGap(r) == IF r.begun THEN [r EXCEPT !.gap = TRUE] ELSE r

BugMarkReconciled(r) == r
MarkReconciled(r) == IF r.begun THEN [r EXCEPT !.gap = FALSE] ELSE r

\* The match of apply(): the successor state, or "InvalidTransition".
Successor(s, event) ==
    CASE event = "OperatorHalt" -> "Halted"
      [] s \in {"Healthy", "Resumed"} /\ event = "ConnectionLost" -> "RiskStopped"
      [] s = "RiskStopped" /\ event = "ReconnectSucceeded" -> "Synchronizing"
      [] s = "Synchronizing"
         /\ event \in {"SnapshotLoaded", "EventGapDetected",
                       "ExternalStateAdopted", "PositionMismatch"} -> "Synchronizing"
      [] s = "Synchronizing" /\ event = "ReconciliationClean" -> "Resumed"
      [] s = "Synchronizing" /\ event = "UnknownOrdersFound" -> "CancelingUnknownOrders"
      [] s = "CancelingUnknownOrders" /\ event = "CancelComplete" -> "Synchronizing"
      [] s = "Flattening" /\ event = "FlattenComplete" -> "Halted"
      [] OTHER -> "InvalidTransition"

\* apply() returns Ok.
Accepts(r, event) == Successor(r.state, event) # "InvalidTransition"

\* The machine after apply(): an event it rejects leaves it as it was.
Apply(r, event) ==
    IF Accepts(r, event) THEN [r EXCEPT !.state = Successor(r.state, event)] ELSE r
=============================================================================
