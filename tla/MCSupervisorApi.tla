-------------------------- MODULE MCSupervisorApi --------------------------
(* What is at the mercy of its callers, side by side: a behaviour is about  *)
(* SupervisorApi on two symbols, with positions one past the limit on       *)
(* either side, or about the exchange's public limits (PublicRest) in the   *)
(* hands of two processes.                                                  *)
EXTENDS SupervisorApi, PublicRest

MCPositions == -2..2

\* One process asks for quotes and for metadata, the other for metadata.
MCRequests == {"quote", "metadata", "other"}
MCOwner == [t \in MCRequests |-> IF t = "other" THEN "batch" ELSE "live"]
MCClient == [t \in MCRequests |-> IF t = "quote" THEN "fx" ELSE "metadata"]
MCWeight == [t \in MCRequests |-> 1]
MCBackoff == [fx |-> 1, metadata |-> 2]

VARIABLE part
callerVars == <<part, vars, restVars>>
Supervisor(S) == part = "supervisor" /\ S /\ UNCHANGED <<part, restVars>>
Rest(S) == part = "rest" /\ S /\ UNCHANGED <<part, vars>>

CallersInit == part \in {"supervisor", "rest"} /\ Init /\ RestInit

\* The steps of both, action by action.
CallersNext ==
    \/ Supervisor(EventGap) \/ Supervisor(Adopt) \/ Supervisor(Restore)
    \/ Supervisor(Disconnect) \/ Supervisor(Reconnect) \/ Supervisor(SnapshotLoaded)
    \/ Supervisor(Clean) \/ Supervisor(Flatten) \/ Supervisor(Flattened)
    \/ Supervisor(Observe) \/ Supervisor(ListenKeyExpired)
    \/ Supervisor(OrderEvent) \/ Supervisor(AccountEvent)
    \/ \E t \in Requests : \/ Rest(Begin(t)) \/ Rest(Acquire(t)) \/ Rest(Pace(t))
                           \/ Rest(TakeLease(t)) \/ Rest(FindStale(t))
                           \/ Rest(BreakLease(t)) \/ Rest(TransportFails(t))
                           \/ Rest(Succeeds(t)) \/ Rest(BodyFails(t))
                           \/ Rest(IsLimited(t)) \/ Rest(WriteTemp(t))
                           \/ Rest(RenameTemp(t)) \/ Rest(RemoveFile(t))
                           \/ Rest(RenameAgain(t))
    \/ \E p \in Processes : Rest(Crash(p))
    \/ Rest(Tick)

\* The fairness is PublicRest's: no one has to call a supervisor.
CallersSpec ==
    /\ CallersInit /\ [][CallersNext]_callerVars
    /\ WF_callerVars(Rest(Tick))
    /\ \A t \in Requests : WF_callerVars(Rest(Advances(t)))
=============================================================================
