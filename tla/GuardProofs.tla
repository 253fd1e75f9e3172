----------------------------- MODULE GuardProofs -----------------------------
(***************************************************************************)
(* The two that decide who may send what.  Of one ExecutionSupervisor      *)
(* under any caller (SupervisorApi), for any set of symbols, any positions *)
(* and any limit: entries need evidence, and fit.  Of the processes that   *)
(* share the public REST interface (PublicRest), for any processes,        *)
(* requests, limits and delays: one request at a time, and cooldowns are   *)
(* heeded.                                                                 *)
(***************************************************************************)
EXTENDS SupervisorApi, PublicRest, TLAPS

-----------------------------------------------------------------------------
(* One supervisor.  It and the recovery machine it owns are two machines   *)
(* that only the order of the calls keeps in step.  The inductive          *)
(* invariant says how far they are: which states the inner machine can     *)
(* reach at all (RecoveryShape), and what a synchronizing supervisor knows *)
(* of it (SynchronizingLink).                                              *)


\* The inner machine reaches four of its seven states, and is Healthy exactly
\* before the first epoch, when there is nothing to record anything in.
RecoveryShape ==
    /\ sup.rec.state \in {"Healthy", "RiskStopped", "Synchronizing", "Resumed"}
    /\ sup.rec.begun <=> sup.rec.state # "Healthy"
    /\ sup.rec.gap => sup.rec.begun

\* A synchronizing supervisor is in its first synchronization, before any epoch,
\* or its inner machine synchronizes too.
SynchronizingLink ==
    sup.state = "Synchronizing" => sup.rec.state \in {"Healthy", "Synchronizing"}

Inv == TypeOK /\ RecoveryShape /\ SynchronizingLink /\ ResumeEvidence

-----------------------------------------------------------------------------
(* What the calls return.                                                  *)

\* A record with one of its fields replaced by a value of the field's type.
LEMMA SupervisorFields ==
    ASSUME NEW s \in SupervisorRecord
    PROVE  /\ s.state \in SupervisorState /\ s.pos \in [Symbols -> Int]
           /\ s.unknown \in BOOLEAN /\ s.rec \in RecoveryRecord
           /\ \A state \in SupervisorState : [s EXCEPT !.state = state] \in SupervisorRecord
           /\ \A pos \in [Symbols -> Int] : [s EXCEPT !.pos = pos] \in SupervisorRecord
           /\ \A unknown \in BOOLEAN : [s EXCEPT !.unknown = unknown] \in SupervisorRecord
           /\ \A rec \in RecoveryRecord : [s EXCEPT !.rec = rec] \in SupervisorRecord
    BY DEF SupervisorRecord

\* Every event a machine accepts takes it to one of its states.
LEMMA ApplyType ==
    ASSUME NEW r \in RecoveryRecord, NEW event \in RecoveryEvent
    PROVE  Apply(r, event) \in RecoveryRecord
    BY DEF Apply, Accepts, Successor, RecoveryRecord, RecoveryState, RecoveryEvent

\* The record_* and mark_* methods and a new epoch keep a machine a machine.
LEMMA RecordType ==
    ASSUME NEW r \in RecoveryRecord
    PROVE  /\ RecordSnapshot(r) \in RecoveryRecord
           /\ RecordGap(r) \in RecoveryRecord
           /\ MarkReconciled(r) \in RecoveryRecord
           /\ StartEpoch(r) \in RecoveryRecord
           /\ ReconciledRecovery(r) \in RecoveryRecord
<1>1. MarkReconciled(r) \in RecoveryRecord
    BY DEF MarkReconciled, RecoveryRecord
<1>2. ReconciledRecovery(r) \in RecoveryRecord
    BY <1>1, ApplyType DEF ReconciledRecovery, RecoveryEvent
<1>3. QED
    BY <1>1, <1>2 DEF RecordSnapshot, RecordGap, StartEpoch, RecoveryRecord, RecoveryState

\* Every call returns a supervisor, whatever it is called with.
LEMMA CallTypes ==
    ASSUME NEW s \in SupervisorRecord
    PROVE  /\ ObserveEventGap(s) \in SupervisorRecord
           /\ OnDisconnect(s) \in SupervisorRecord
           /\ OnReconnect(s) \in SupervisorRecord
           /\ MarkSnapshotLoaded(s) \in SupervisorRecord
           /\ ReconciliationClean(s) \in SupervisorRecord
           /\ BeginFlatten(s) \in SupervisorRecord
           /\ ConfirmFlattened(s) \in SupervisorRecord
           /\ OnListenKeyExpired(s) \in SupervisorRecord
<1>0. /\ s.state \in SupervisorState /\ s.pos \in [Symbols -> Int]
      /\ s.unknown \in BOOLEAN /\ s.rec \in RecoveryRecord
    BY SupervisorFields
<1>1. /\ RecordGap(s.rec) \in RecoveryRecord /\ StartEpoch(s.rec) \in RecoveryRecord
      /\ RecordSnapshot(s.rec) \in RecoveryRecord
      /\ ReconciledRecovery(s.rec) \in RecoveryRecord
    BY <1>0, RecordType
<1>2. /\ Apply(s.rec, "ReconnectSucceeded") \in RecoveryRecord
      /\ Apply(RecordSnapshot(s.rec), "SnapshotLoaded") \in RecoveryRecord
    BY <1>0, <1>1, ApplyType DEF RecoveryEvent
<1>3. /\ ObserveEventGap(s) \in SupervisorRecord /\ OnDisconnect(s) \in SupervisorRecord
      /\ OnListenKeyExpired(s) \in SupervisorRecord
    BY <1>1 DEF ObserveEventGap, OnDisconnect, OnListenKeyExpired,
                SupervisorRecord, SupervisorState
<1>4. OnReconnect(s) \in SupervisorRecord
    BY <1>2 DEF OnReconnect, SupervisorRecord, SupervisorState
<1>5. MarkSnapshotLoaded(s) \in SupervisorRecord
    BY <1>2 DEF MarkSnapshotLoaded, SupervisorRecord, SupervisorState
<1>6. ReconciliationClean(s) \in SupervisorRecord
    BY <1>1 DEF ReconciliationClean, SupervisorRecord, SupervisorState
<1>7. BeginFlatten(s) \in SupervisorRecord /\ ConfirmFlattened(s) \in SupervisorRecord
    BY DEF BeginFlatten, ConfirmFlattened, SupervisorRecord, SupervisorState
<1>8. QED
    BY <1>3, <1>4, <1>5, <1>6, <1>7

\* The calls that carry one position return a supervisor with a position for
\* every symbol.
LEMMA PositionCallTypes ==
    ASSUME NEW s \in SupervisorRecord, NEW p \in Int, NEW symbol
    PROVE  /\ symbol \in Symbols =>
                /\ AdoptRemotePosition(s, symbol, p) \in SupervisorRecord
                /\ ObservePositions(s, [s.pos EXCEPT ![symbol] = p]) \in SupervisorRecord
           /\ RestoreCheckpoint(s, symbol, p) \in SupervisorRecord
<1>1. /\ s.pos \in [Symbols -> Int] /\ StartEpoch(s.rec) \in RecoveryRecord
    BY RecordType DEF SupervisorRecord
<1>2. ASSUME symbol \in Symbols
      PROVE  /\ AdoptRemotePosition(s, symbol, p) \in SupervisorRecord
             /\ ObservePositions(s, [s.pos EXCEPT ![symbol] = p]) \in SupervisorRecord
    BY <1>1 DEF AdoptRemotePosition, ObservePositions, SupervisorRecord
<1>3. RestoreCheckpoint(s, symbol, p) \in SupervisorRecord
    BY <1>1 DEF RestoreCheckpoint, SupervisorRecord, SupervisorState
<1>4. QED
    BY <1>2, <1>3

\* So does an account update, good or bad.
LEMMA AccountCallType ==
    ASSUME NEW s \in SupervisorRecord, NEW touched \in SUBSET Symbols,
           NEW rows \in [touched -> Int], NEW badRow \in BOOLEAN
    PROVE  OnAccountUpdate(s, rows, badRow) \in SupervisorRecord
<1> DEFINE pos == [x \in Symbols |-> IF x \in DOMAIN rows THEN rows[x] ELSE s.pos[x]]
<1>1. pos \in [Symbols -> Int]
    BY DEF SupervisorRecord
<1>2. [s EXCEPT !.pos = pos] \in SupervisorRecord
    BY <1>1 DEF SupervisorRecord
<1>3. [[s EXCEPT !.pos = pos] EXCEPT !.unknown = TRUE, !.state = "Halted"]
          \in SupervisorRecord
    BY <1>2 DEF SupervisorRecord, SupervisorState
<1>4. QED
    BY <1>2, <1>3 DEF OnAccountUpdate

-----------------------------------------------------------------------------
(* The inductive invariant.                                                *)

\* No call, with any argument, leaves the types.
LEMMA TypeStep == TypeOK /\ [Next]_vars => TypeOK'
<1> SUFFICES ASSUME TypeOK, [Next]_vars PROVE TypeOK'
    OBVIOUS
<1>0. sup \in SupervisorRecord
    BY DEF TypeOK
<1>1. Positions \subseteq Int
    BY PositionsAssumption
<1>2. CASE EventGap \/ Disconnect \/ Reconnect \/ SnapshotLoaded \/ Clean
           \/ Flatten \/ Flattened \/ ListenKeyExpired
    BY <1>0, <1>2, CallTypes
    DEF TypeOK, EventGap, Disconnect, Reconnect, SnapshotLoaded, Clean, Flatten,
        Flattened, ListenKeyExpired
<1>3. CASE Adopt \/ Observe
  <2>1. PICK s \in Symbols, p \in Positions :
            /\ sup' \in {AdoptRemotePosition(sup, s, p),
                         ObservePositions(sup, [sup.pos EXCEPT ![s] = p])}
            /\ UNCHANGED resumed
      BY <1>3 DEF Adopt, Observe
  <2>2. sup' \in SupervisorRecord
      BY <1>0, <1>1, <2>1, PositionCallTypes
  <2>3. QED
      BY <2>1, <2>2 DEF TypeOK
<1>7. CASE Restore
  <2>1. PICK s \in Symbols \cup {Foreign}, p \in Positions :
            sup' = RestoreCheckpoint(sup, s, p) /\ UNCHANGED resumed
      BY <1>7 DEF Restore
  <2>2. sup' \in SupervisorRecord
      BY <1>0, <1>1, <2>1, PositionCallTypes
  <2>3. QED
      BY <2>1, <2>2 DEF TypeOK
<1>4. CASE OrderEvent
  <2>1. PICK s \in Symbols \cup {Foreign}, isMaker \in BOOLEAN :
            sup' = OnOrderUpdate(sup, s, isMaker) /\ UNCHANGED resumed
      BY <1>4 DEF OrderEvent
  <2>2. sup' \in SupervisorRecord
      BY <1>0, <2>1 DEF OnOrderUpdate, SupervisorRecord, SupervisorState
  <2>3. QED
      BY <2>1, <2>2 DEF TypeOK
<1>5. CASE AccountEvent
  <2>1. PICK touched \in SUBSET Symbols, badRow \in BOOLEAN :
            \E rows \in [touched -> Positions] :
                sup' = OnAccountUpdate(sup, rows, badRow) /\ UNCHANGED resumed
      BY <1>5 DEF AccountEvent
  <2>2. PICK rows \in [touched -> Positions] :
            sup' = OnAccountUpdate(sup, rows, badRow) /\ UNCHANGED resumed
      BY <2>1
  <2>3. rows \in [touched -> Int]
      BY <1>1
  <2>4. sup' \in SupervisorRecord
      BY <1>0, <2>2, <2>3, AccountCallType
  <2>5. QED
      BY <2>2, <2>4 DEF TypeOK
<1>6. CASE UNCHANGED vars
    BY <1>6 DEF vars, TypeOK
<1>8. QED
    BY <1>2, <1>3, <1>4, <1>5, <1>6, <1>7 DEF Next

\* A supervisor as created satisfies the invariant.
LEMMA InitInv == Init => Inv
<1> SUFFICES ASSUME Init PROVE Inv
    OBVIOUS
<1>1. sup = NewSupervisor /\ resumed = "never"
    BY DEF Init
<1>2. TypeOK
    BY <1>1 DEF TypeOK, NewSupervisor, NewRecovery, SupervisorRecord, SupervisorState,
                RecoveryRecord, RecoveryState
<1>3. RecoveryShape /\ SynchronizingLink /\ ResumeEvidence
    BY <1>1 DEF RecoveryShape, SynchronizingLink, ResumeEvidence, NewSupervisor, NewRecovery
<1>4. QED
    BY <1>2, <1>3 DEF Inv

\* The calls that only touch positions, or halt, keep the link of the machines.
LEMMA Untouched ==
    ASSUME TypeOK, RecoveryShape, SynchronizingLink, ResumeEvidence, UNCHANGED resumed,
           sup'.rec = sup.rec,
           \/ sup'.state = sup.state /\ sup'.unknown = sup.unknown
           \/ sup'.state \in {"Halted", "Flattening"}
    PROVE  RecoveryShape' /\ SynchronizingLink' /\ ResumeEvidence'
    BY DEF RecoveryShape, SynchronizingLink, ResumeEvidence, ResumeGateOpen

\* So do the calls that stop the supervisor, with or without a new epoch.
LEMMA Stopped ==
    ASSUME RecoveryShape, sup'.state = "RiskStopped",
           sup'.rec \in {StartEpoch(sup.rec), RecordGap(sup.rec)},
           sup.rec \in RecoveryRecord
    PROVE  RecoveryShape' /\ SynchronizingLink' /\ ResumeEvidence'
    BY DEF RecoveryShape, SynchronizingLink, ResumeEvidence, StartEpoch, RecordGap,
           RecoveryRecord

\* Every step keeps the machines in step.
LEMMA LinkStep ==
    Inv /\ [Next]_vars => RecoveryShape' /\ SynchronizingLink' /\ ResumeEvidence'
<1> SUFFICES ASSUME Inv, [Next]_vars
             PROVE  RecoveryShape' /\ SynchronizingLink' /\ ResumeEvidence'
    OBVIOUS
<1> USE DEF Inv
<1>0. sup \in SupervisorRecord /\ sup.rec \in RecoveryRecord
    BY DEF TypeOK, SupervisorRecord
<1>1. CASE EventGap \/ Disconnect \/ ListenKeyExpired
    BY <1>0, <1>1, Stopped
    DEF EventGap, Disconnect, ListenKeyExpired, ObserveEventGap, OnDisconnect,
        OnListenKeyExpired, SupervisorRecord
<1>2. CASE Restore
  <2>1. PICK s \in Symbols \cup {Foreign}, p \in Positions :
            sup' = RestoreCheckpoint(sup, s, p) /\ UNCHANGED resumed
      BY <1>2 DEF Restore
  <2>2. CASE s \in Symbols
    <3>1. sup'.state = "RiskStopped" /\ sup'.rec = StartEpoch(sup.rec)
        BY <1>0, <2>1, <2>2 DEF RestoreCheckpoint, SupervisorRecord
    <3>2. QED
        BY <1>0, <3>1, Stopped
  <2>3. CASE s \notin Symbols
    <3>1. sup'.state = "Halted" /\ sup'.rec = sup.rec
        BY <1>0, <2>1, <2>3 DEF RestoreCheckpoint, SupervisorRecord
    <3>2. QED
        BY <2>1, <3>1, Untouched
  <2>4. QED
      BY <2>2, <2>3
<1>3. CASE Reconnect
    BY <1>0, <1>3
    DEF Reconnect, OnReconnect, OnReconnectOk, Apply, Accepts, Successor, RecoveryShape,
        SynchronizingLink, ResumeEvidence, ResumeGateOpen, SupervisorRecord, RecoveryRecord
<1>4. CASE SnapshotLoaded
    BY <1>0, <1>4
    DEF SnapshotLoaded, MarkSnapshotLoaded, RecordSnapshot, Apply, Accepts, Successor,
        RecoveryShape, SynchronizingLink, ResumeEvidence, ResumeGateOpen,
        SupervisorRecord, RecoveryRecord
<1>5. CASE Clean
    BY <1>0, <1>5
    DEF Clean, ReconciliationClean, ReconciliationCleanOk, ReconciledRecovery,
        MarkReconciled, Apply, Accepts, Successor, RecoveryShape, SynchronizingLink,
        ResumeEvidence, ResumeGateOpen, SupervisorRecord, RecoveryRecord
<1>6. CASE Flattened
    BY <1>0, <1>6
    DEF Flattened, ConfirmFlattened, ConfirmFlattenedOk, RecoveryShape,
        SynchronizingLink, ResumeEvidence, SupervisorRecord
<1>7. CASE Adopt \/ Observe \/ Flatten
    BY <1>0, <1>7, Untouched
    DEF Adopt, AdoptRemotePosition, Observe, ObservePositions, Flatten, BeginFlatten,
        BeginFlattenOk, SupervisorRecord
<1>8. CASE OrderEvent
    BY <1>0, <1>8, Untouched DEF OrderEvent, OnOrderUpdate, SupervisorRecord
<1>9. CASE AccountEvent
    BY <1>0, <1>9, Untouched DEF AccountEvent, OnAccountUpdate, SupervisorRecord
<1>10. CASE UNCHANGED vars
    BY <1>10, Untouched DEF vars
<1>11. QED
    BY <1>1, <1>2, <1>3, <1>4, <1>5, <1>6, <1>7, <1>8, <1>9, <1>10 DEF Next

\* The invariant holds in every reachable state.
THEOREM Invariance == Spec => []Inv
<1>1. Init => Inv
    BY InitInv
<1>2. Inv /\ [Next]_vars => Inv'
    BY TypeStep, LinkStep DEF Inv
<1>3. QED
    BY <1>1, <1>2, PTL DEF Spec

-----------------------------------------------------------------------------
(* What follows from it.                                                   *)

\* The supervisor keeps its type under every caller.
THEOREM TypeCorrect == Spec => []TypeOK
    BY Invariance, PTL DEF Inv

\* A supervisor that a clean reconciliation made Healthy has an open resume gate
\* and no remote state it knows to be unknown, however it was called.
THEOREM ResumeNeedsEvidence == Spec => []ResumeEvidence
    BY Invariance, PTL DEF Inv

\* The three transitions of a recovery that finds nothing wrong.
LEMMA CleanTransitions ==
    /\ Successor("RiskStopped", "ReconnectSucceeded") = "Synchronizing"
    /\ Successor("Synchronizing", "SnapshotLoaded") = "Synchronizing"
    /\ Successor("Synchronizing", "ReconciliationClean") = "Resumed"
    BY DEF Successor

\* The three calls of a recovery are accepted one after the other from every
\* state the invariant allows, and end in a supervisor that may trade.
LEMMA PathOpen == Inv => RecoveryPathOpen
<1> SUFFICES ASSUME Inv, sup.state = "RiskStopped", sup.rec.state = "RiskStopped"
             PROVE  LET synchronizing == OnReconnect(sup)
                        loaded == MarkSnapshotLoaded(synchronizing)
                        clean == ReconciliationClean(loaded)
                    IN  /\ OnReconnectOk(sup)
                        /\ MarkSnapshotLoadedOk(synchronizing)
                        /\ ReconciliationCleanOk(loaded)
                        /\ clean.state = "Healthy" /\ ResumeGateOpen(clean.rec)
                        /\ ~clean.unknown
    BY DEF RecoveryPathOpen
<1> DEFINE synchronizing == OnReconnect(sup)
           loaded == MarkSnapshotLoaded(synchronizing)
           clean == ReconciliationClean(loaded)
<1>1. sup \in SupervisorRecord /\ sup.rec \in RecoveryRecord
    BY DEF Inv, TypeOK, SupervisorRecord
<1>2. /\ OnReconnectOk(sup) /\ synchronizing \in SupervisorRecord
      /\ synchronizing.state = "Synchronizing"
      /\ synchronizing.rec.state = "Synchronizing"
  <2>1. OnReconnectOk(sup)
      BY CleanTransitions DEF OnReconnectOk, Accepts
  <2>2. Apply(sup.rec, "ReconnectSucceeded") = [sup.rec EXCEPT !.state = "Synchronizing"]
      BY CleanTransitions DEF Apply, Accepts
  <2>3. synchronizing = [sup EXCEPT !.rec = [sup.rec EXCEPT !.state = "Synchronizing"],
                                    !.state = "Synchronizing"]
      BY <2>1, <2>2 DEF OnReconnect
  <2>4. QED
      BY <1>1, <2>1, <2>3 DEF SupervisorRecord, SupervisorState, RecoveryRecord, RecoveryState
<1> HIDE DEF synchronizing
<1>3. /\ MarkSnapshotLoadedOk(synchronizing) /\ loaded \in SupervisorRecord
      /\ loaded.state = "Synchronizing" /\ ~loaded.unknown
      /\ loaded.rec.state = "Synchronizing"
  <2> DEFINE recorded == RecordSnapshot(synchronizing.rec)
  <2>1. recorded \in RecoveryRecord /\ recorded.state = "Synchronizing"
      BY <1>2 DEF RecordSnapshot, SupervisorRecord, RecoveryRecord
  <2> HIDE DEF recorded
  <2>2. /\ Accepts(recorded, "SnapshotLoaded")
        /\ Apply(recorded, "SnapshotLoaded") = [recorded EXCEPT !.state = "Synchronizing"]
      BY <2>1, CleanTransitions DEF Apply, Accepts
  <2>3. MarkSnapshotLoadedOk(synchronizing)
      BY <1>2, <2>2 DEF MarkSnapshotLoadedOk, recorded
  <2>4. loaded = [synchronizing EXCEPT !.unknown = FALSE,
                                       !.rec = [recorded EXCEPT !.state = "Synchronizing"]]
      BY <1>2, <2>2 DEF MarkSnapshotLoaded, recorded
  <2>5. QED
      BY <1>2, <2>1, <2>3, <2>4 DEF SupervisorRecord, RecoveryRecord, RecoveryState
<1> HIDE DEF loaded
<1>4. /\ ReconciliationCleanOk(loaded) /\ clean.state = "Healthy"
      /\ ResumeGateOpen(clean.rec) /\ ~clean.unknown
  <2> DEFINE marked == MarkReconciled(loaded.rec)
  <2>1. /\ marked \in RecoveryRecord /\ marked.state = "Synchronizing"
        /\ marked.begun => ~marked.gap
      BY <1>3 DEF MarkReconciled, SupervisorRecord, RecoveryRecord
  <2> HIDE DEF marked
  <2>2. Apply(marked, "ReconciliationClean") = [marked EXCEPT !.state = "Resumed"]
      BY <2>1, CleanTransitions DEF Apply, Accepts
  <2>3. ReconciliationCleanOk(loaded)
      BY <1>3 DEF ReconciliationCleanOk
  <2>4. clean = [loaded EXCEPT !.rec = [marked EXCEPT !.state = "Resumed"],
                               !.state = "Healthy"]
      BY <1>3, <2>2, <2>3 DEF ReconciliationClean, ReconciledRecovery, marked
  <2>5. QED
      BY <1>3, <2>1, <2>3, <2>4
      DEF SupervisorRecord, RecoveryRecord, ResumeGateOpen
<1>5. QED
    BY <1>2, <1>3, <1>4 DEF synchronizing, loaded

\* Whatever was called before, a recovery that can start can finish.
THEOREM RecoveryAlwaysPossible == Spec => []RecoveryPathOpen
    BY Invariance, PathOpen, PTL

\* What the entry gate allows, by the order of its gates alone.
LEMMA EntriesFit == TypeOK => AllowedEntriesFit
<1> SUFFICES ASSUME TypeOK, NEW s \in Symbols, NEW side \in {"Buy", "Sell"},
                    NEW q \in 1..MaxPosition + 1, NEW postOnly \in BOOLEAN,
                    NEW reduceOnly \in BOOLEAN, NEW gate \in InputGate,
                    Evaluate(sup, s, [side |-> side, quantity |-> q,
                             postOnly |-> postOnly, reduceOnly |-> reduceOnly], gate).kind
                        = "Allow"
             PROVE  /\ ~sup.unknown
                    /\ NextPosition(sup.pos[s], [side |-> side, quantity |-> q,
                             postOnly |-> postOnly, reduceOnly |-> reduceOnly])
                            \in -MaxPosition..MaxPosition
                    /\ ~postOnly => IF side = "Sell" THEN sup.pos[s] > 0
                                    ELSE sup.pos[s] < 0
    BY DEF AllowedEntriesFit
<1> DEFINE intent == [side |-> side, quantity |-> q,
                      postOnly |-> postOnly, reduceOnly |-> reduceOnly]
<1>1. sup.pos[s] \in Int /\ q \in Int /\ MaxPosition \in Int
    BY MaxPositionAssumption DEF TypeOK, SupervisorRecord
<1>2. /\ ~TakerNotReducing(sup.pos[s], intent) /\ ~sup.unknown
      /\ ~(Magnitude(NextPosition(sup.pos[s], intent)) > MaxPosition)
    BY DEF Evaluate, Decision
<1>3. NextPosition(sup.pos[s], intent) \in Int
    BY <1>1 DEF NextPosition
<1>4. NextPosition(sup.pos[s], intent) \in -MaxPosition..MaxPosition
    BY <1>1, <1>2, <1>3 DEF Magnitude
<1>5. ~postOnly => IF side = "Sell" THEN sup.pos[s] > 0 ELSE sup.pos[s] < 0
    BY <1>1, <1>2 DEF TakerNotReducing
<1>6. QED
    BY <1>2, <1>4, <1>5

\* An allowed entry keeps the position inside the limit, whatever the limit, the
\* positions and the calls before it.
THEOREM EntriesWithinLimit == Spec => []AllowedEntriesFit
    BY TypeCorrect, EntriesFit, PTL

-----------------------------------------------------------------------------
(* The public REST interface.                                              *)

\* Tasks are somewhere; the rest of a task's record matters to no lease.
Placed == DOMAIN task = Requests /\ \A t \in Requests : "at" \in DOMAIN task[t]

Holders == {t \in Requests : Holding(t)}
LeaseOf(t) == \E age \in 0 .. MaxAge : lease = [by |-> t, age |-> age]

\* As long as no lease was left behind, none grows stale: the file is there exactly
\* while the one task with a request under way is, and nobody is about to remove it.
LeaseInv ==
    /\ Placed
    /\ ~abandoned =>
          /\ \A t \in Requests : task[t].at # "break"
          /\ \/ Holders = {} /\ lease = NoLease
             \/ \E t \in Requests : Holders = {t} /\ LeaseOf(t)

\* Only the place of one task changes.
Moves(t) == Placed' /\ \A u \in Requests \ {t} : task'[u] = task[u]

LEMMA InitLease == RestInit => LeaseInv
  BY DEF RestInit, LeaseInv, Placed, Idle, Holders, Holding, Persisting

\* The smaller one of two.
LEMMA MinOfTwo == ASSUME NEW a \in Int, NEW b \in Int, a <= b PROVE Min({a, b}) = a
<1>1. \E x \in {a, b} : \A y \in {a, b} : x =< y
  OBVIOUS
<1> QED
  BY <1>1 DEF Min

\* Who holds the lease is whom it names.
LEMMA HolderOwns ==
    ASSUME LeaseInv, ~abandoned, NEW t \in Requests, Holding(t)
    PROVE  Holders = {t} /\ LeaseOf(t)
  BY DEF LeaseInv, Holders

\* A step of a task that leaves the lease alone.
LEMMA StepKeeps ==
    ASSUME LeaseInv, NEW t \in Requests, Moves(t), Holding(t)' <=> Holding(t),
           task'[t].at # "break", UNCHANGED <<lease, abandoned>>
    PROVE  LeaseInv'
<1>1. Holders' = Holders
  BY DEF Moves, Holders, Holding, Quoting
<1>2. \A u \in Requests : LeaseOf(u)' <=> LeaseOf(u)
  BY DEF LeaseOf
<1> QED
  BY <1>1, <1>2 DEF LeaseInv, Moves

\* The end of a request, which gives the lease up.
LEMMA EndKeeps ==
    ASSUME LeaseInv, NEW t \in Requests, Moves(t), Holding(t), ~Holding(t)',
           task'[t].at # "break", lease' = NoLease, abandoned' = abandoned
    PROVE  LeaseInv'
<1>1. ASSUME ~abandoned PROVE Holders' = {}
  <2>1. Holders = {t}
    BY <1>1, HolderOwns
  <2> QED
    BY <2>1 DEF Moves, Holders, Holding, Quoting
<1> QED
  BY <1>1 DEF LeaseInv, Moves

-----------------------------------------------------------------------------
\* While nothing was left behind no lease is stale.
LEMMA NoneIsStale == ASSUME LeaseInv, ~abandoned, lease # NoLease PROVE ~TakesForStale(lease.age)
<1>1. PICK t \in Requests : LeaseOf(t)
  BY DEF LeaseInv
<1>2. PICK age \in 0 .. MaxAge : lease = [by |-> t, age |-> age]
  BY <1>1 DEF LeaseOf
<1> QED
  BY <1>2, RestAssumption DEF TakesForStale

LEMMA WaitsKeeps == ASSUME LeaseInv, NEW t \in Requests, Waits(t) PROVE LeaseInv'
<1>p. Placed
  BY DEF LeaseInv
<1>1. CASE Acquire(t)
  <2>1. Moves(t) /\ task[t].at = "acquire" /\ task'[t].at = "pace"
    BY <1>1, <1>p DEF Acquire, Moves, Placed
  <2> QED
    BY <1>1, <2>1, StepKeeps DEF Acquire, shared, Holding, Persisting
<1>2. CASE Pace(t)
  <2>1. Moves(t) /\ task[t].at = "pace" /\ task'[t].at = "lease"
    BY <1>2, <1>p DEF Pace, Goes, Moves, Placed
  <2> QED
    BY <1>2, <2>1, StepKeeps DEF Pace, shared, Holding, Persisting
<1>3. CASE TakeLease(t)
  <2>1. Moves(t) /\ task'[t].at = "send"
    BY <1>3, <1>p DEF TakeLease, Goes, Moves, Placed
  <2>2. lease = NoLease /\ lease' = [by |-> t, age |-> 0] /\ abandoned' = abandoned
    BY <1>3 DEF TakeLease
  <2>3. ASSUME ~abandoned PROVE Holders = {}
    <3>1. \A u \in Requests : ~LeaseOf(u)
      BY <2>2, RestAssumption DEF LeaseOf, NoLease
    <3> QED
      BY <2>3, <3>1 DEF LeaseInv
  <2>4. ASSUME ~abandoned PROVE Holders' = {t}
    BY <2>1, <2>3, <2>4 DEF Moves, Holders, Holding, Quoting
  <2>5. LeaseOf(t)'
    BY <2>2, RestAssumption DEF LeaseOf
  <2> QED
    BY <2>1, <2>2, <2>4, <2>5 DEF LeaseInv, Moves
<1>4. CASE FindStale(t)
  <2>1. Moves(t) /\ abandoned' = abandoned
    BY <1>4, <1>p DEF FindStale, Goes, Moves, Placed
  <2>2. abandoned
    BY <1>4, NoneIsStale DEF FindStale
  <2> QED
    BY <2>1, <2>2 DEF LeaseInv, Moves
<1>5. CASE BreakLease(t)
  <2>1. Moves(t) /\ abandoned' = abandoned
    BY <1>5, <1>p DEF BreakLease, Goes, Moves, Placed
  <2>2. abandoned
    BY <1>5 DEF BreakLease, LeaseInv
  <2> QED
    BY <2>1, <2>2 DEF LeaseInv, Moves
<1> QED
  BY <1>1, <1>2, <1>3, <1>4, <1>5 DEF Waits

-----------------------------------------------------------------------------
\* A task that ends is idle.
LEMMA EndsIdle ==
    ASSUME Placed, NEW t \in Requests, Ends(t) PROVE Moves(t) /\ task'[t].at = "idle"
  BY DEF Placed, Ends, Idle, Moves

LEMMA RetriesWaits ==
    ASSUME Placed, NEW t \in Requests, Retries(t)
    PROVE  Moves(t) /\ task'[t].at \in {"idle", "acquire"}
<1>1. CASE Ends(t)
  BY <1>1, EndsIdle
<1>2. CASE ~Ends(t)
  BY <1>2 DEF Placed, Retries, Moves
<1> QED
  BY <1>1, <1>2

LEMMA AnsweredKeeps == ASSUME LeaseInv, NEW t \in Requests, Answered(t) PROVE LeaseInv'
<1>p. Placed
  BY DEF LeaseInv
<1>1. CASE TransportFails(t) \/ BodyFails(t)
  <2>1. Retries(t) /\ task[t].at = "send" /\ lease' = NoLease /\ abandoned' = abandoned
    BY <1>1 DEF TransportFails, BodyFails, GivesUp
  <2>2. Moves(t) /\ task'[t].at \in {"idle", "acquire"}
    BY <1>p, <2>1, RetriesWaits
  <2> QED
    BY <2>1, <2>2, EndKeeps DEF Holding, Persisting
<1>2. CASE Succeeds(t)
  <2>1. Ends(t) /\ task[t].at = "send" /\ lease' = NoLease /\ abandoned' = abandoned
    BY <1>2 DEF Succeeds, GivesUp
  <2>2. Moves(t) /\ task'[t].at = "idle"
    BY <1>p, <2>1, EndsIdle
  <2> QED
    BY <2>1, <2>2, EndKeeps DEF Holding, Persisting
<1>3. CASE IsLimited(t)
  <2>1. Moves(t) /\ task[t].at = "send" /\ task'[t].at = "write" /\ abandoned' = abandoned
    BY <1>3, <1>p DEF IsLimited, Moves, Placed
  <2>2. lease' = IF Quoting(t) THEN lease ELSE NoLease
    BY <1>3 DEF IsLimited, GivesUp
  <2>3. CASE Quoting(t)
    BY <2>1, <2>2, <2>3, StepKeeps DEF Holding, Persisting, Quoting
  <2>4. CASE ~Quoting(t)
    BY <2>1, <2>2, <2>4, EndKeeps DEF Holding, Persisting, Quoting
  <2> QED
    BY <2>3, <2>4
<1> QED
  BY <1>1, <1>2, <1>3 DEF Answered

\* The cooldown file is written under the lease by quote(), and after it by get_json().
LEMMA PersistedKeeps ==
    ASSUME LeaseInv, NEW t \in Requests, task[t].at \in Persisting, Persisted(t),
           abandoned' = abandoned
    PROVE  LeaseInv'
<1>1. Moves(t) /\ task'[t].at = "idle"
  BY EndsIdle DEF Persisted, LeaseInv
<1>2. lease' = IF Quoting(t) THEN NoLease ELSE lease
  BY DEF Persisted, GivesUp
<1>3. CASE Quoting(t)
  BY <1>1, <1>2, <1>3, EndKeeps DEF Holding, Persisting
<1>4. CASE ~Quoting(t)
  BY <1>1, <1>2, <1>4, StepKeeps DEF Holding, Persisting, Quoting
<1> QED
  BY <1>3, <1>4

LEMMA PersistsKeeps == ASSUME LeaseInv, NEW t \in Requests, Persists(t) PROVE LeaseInv'
<1>p. Placed
  BY DEF LeaseInv
<1>1. CASE WriteTemp(t)
  <2>1. Moves(t) /\ task[t].at = "write" /\ task'[t].at = "rename"
    BY <1>1, <1>p DEF WriteTemp, Moves, Placed
  <2> QED
    BY <1>1, <2>1, StepKeeps DEF WriteTemp, Holding, Persisting, Quoting
<1>2. CASE RenameTemp(t)
  <2>1. CASE Persisted(t)
    BY <1>2, <2>1, PersistedKeeps DEF RenameTemp, Persisting
  <2>2. CASE ~Persisted(t)
    <3>1. Goes(t, "remove") /\ task[t].at = "rename" /\ UNCHANGED <<lease, abandoned>>
      BY <1>2, <2>2 DEF RenameTemp
    <3>2. Moves(t) /\ task'[t].at = "remove"
      BY <1>p, <3>1 DEF Goes, Moves, Placed
    <3> QED
      BY <3>1, <3>2, StepKeeps DEF Holding, Persisting, Quoting
  <2> QED
    BY <2>1, <2>2
<1>3. CASE RemoveFile(t)
  <2>1. Moves(t) /\ task[t].at = "remove" /\ task'[t].at = "retry"
    BY <1>3, <1>p DEF RemoveFile, Goes, Moves, Placed
  <2> QED
    BY <1>3, <2>1, StepKeeps DEF RemoveFile, Holding, Persisting, Quoting
<1>4. CASE RenameAgain(t)
  BY <1>4, PersistedKeeps DEF RenameAgain, Persisting
<1> QED
  BY <1>1, <1>2, <1>3, <1>4 DEF Persists

-----------------------------------------------------------------------------
LEMMA BeginKeeps == ASSUME LeaseInv, NEW t \in Requests, Begin(t) PROVE LeaseInv'
<1>1. Moves(t) /\ task[t].at = "idle" /\ task'[t].at = "acquire"
  BY DEF LeaseInv, Begin, Moves, Placed
<1> QED
  BY <1>1, StepKeeps DEF Begin, shared, Holding, Persisting

\* Who dies with the lease leaves it behind; the others keep theirs.
LEMMA CrashKeeps == ASSUME LeaseInv, NEW p \in Processes, Crash(p) PROVE LeaseInv'
<1>1. Placed'
  BY DEF LeaseInv, Crash, Placed, Idle
<1>2. \A t \in Requests : task'[t].at \in {"idle", task[t].at}
  BY DEF Crash, Idle
<1>3. ASSUME ~abandoned' PROVE ~abandoned /\ Holders' = Holders
  <2>1. ~abandoned /\ \A t \in Requests : Owner[t] = p => ~Holding(t)
    BY <1>3 DEF Crash
  <2>2. \A t \in Requests : Owner[t] # p => task'[t] = task[t]
    BY DEF Crash
  <2>3. \A t \in Requests : Owner[t] = p => task'[t].at = "idle"
    BY DEF Crash, Idle
  <2> QED
    BY <2>1, <2>2, <2>3 DEF Holders, Holding, Quoting, Persisting
<1>4. lease' = lease
  BY DEF Crash, shared
<1>5. \A t \in Requests : LeaseOf(t)' <=> LeaseOf(t)
  BY <1>4 DEF LeaseOf
<1> QED
  BY <1>1, <1>2, <1>3, <1>4, <1>5 DEF LeaseInv

\* The holder's requests end before its lease is stale.
LEMMA TickKeeps == ASSUME LeaseInv, Tick PROVE LeaseInv'
<1>1. Placed' /\ \A t \in Requests : task'[t].at = task[t].at
  BY DEF LeaseInv, Tick, Placed
<1>2. Holders' = Holders /\ abandoned' = abandoned
  BY <1>1 DEF Tick, Holders, Holding, Quoting
<1>3. ASSUME NEW t \in Requests, Holders = {t}, LeaseOf(t) PROVE LeaseOf(t)'
  <2>1. PICK age \in 0 .. MaxAge : lease = [by |-> t, age |-> age]
    BY <1>3 DEF LeaseOf
  <2>2. age < MaxAge
    BY <1>3, <2>1 DEF Tick, Holders
  <2>3. lease # NoLease
    BY <2>1, RestAssumption DEF NoLease
  <2>4. Min({age + 1, MaxAge + 1}) = age + 1
    BY <2>2, MinOfTwo, RestAssumption
  <2>5. lease' = [by |-> t, age |-> age + 1]
    BY <2>1, <2>3, <2>4 DEF Tick
  <2> QED
    BY <2>2, <2>5, RestAssumption DEF LeaseOf
<1>4. lease = NoLease => lease' = NoLease
  BY DEF Tick
<1> QED
  BY <1>1, <1>2, <1>3, <1>4 DEF LeaseInv

LEMMA NextKeeps == LeaseInv /\ [RestNext]_restVars => LeaseInv'
<1> SUFFICES ASSUME LeaseInv, [RestNext]_restVars PROVE LeaseInv'
  OBVIOUS
<1>1. ASSUME NEW t \in Requests, Begin(t) \/ Waits(t) \/ Answered(t) \/ Persists(t) PROVE LeaseInv'
  BY <1>1, BeginKeeps, WaitsKeeps, AnsweredKeeps, PersistsKeeps
<1>2. ASSUME NEW p \in Processes, Crash(p) PROVE LeaseInv'
  BY <1>2, CrashKeeps
<1>3. CASE Tick
  BY <1>3, TickKeeps
<1>4. CASE UNCHANGED restVars
  BY <1>4 DEF restVars, shared, LeaseInv, Placed, Holders, Holding, Quoting, LeaseOf
<1> QED
  BY <1>1, <1>2, <1>3, <1>4 DEF RestNext

-----------------------------------------------------------------------------
\* Until a process has died with the lease, no two tasks on the machine have a request
\* under way, whatever the exchange answers and however slowly
\* (acquire_cross_process_rest_lease in market/metadata.rs).
THEOREM OneAtATime == RestSpec => []OneRequestAtATime
<1>1. LeaseInv => OneRequestAtATime
  <2> SUFFICES ASSUME LeaseInv, ~abandoned, NEW t \in Requests, Holding(t) PROVE lease.by = t
    BY DEF OneRequestAtATime
  <2>1. LeaseOf(t)
    BY HolderOwns
  <2> QED
    BY <2>1 DEF LeaseOf
<1> QED
  BY InitLease, NextKeeps, <1>1, PTL DEF RestSpec

-----------------------------------------------------------------------------
(* The cooldown. *)

\* The fields that a wait depends on are there, and are delays.
Timed(t) ==
    /\ {"at", "deadline", "read"} \subseteq DOMAIN task[t]
    /\ task[t].deadline \in Nat /\ task[t].read \in Nat
Governed(p) == "cooldown" \in DOMAIN governor[p] /\ governor[p].cooldown \in Nat
Typed ==
    /\ DOMAIN task = Requests /\ \A t \in Requests : Timed(t)
    /\ DOMAIN governor = Processes /\ \A p \in Processes : Governed(p)
    /\ file \in Int /\ temp \in Int

\* What a task has read is in its process's own cooldown until that is over.
Heeds(t) ==
    /\ task[t].at = "pace" => task[t].read <= governor[Owner[t]].cooldown
    /\ task[t].at \in {"lease", "break", "send"} => task[t].read = 0

HeedInv == Typed /\ \A t \in Requests : Heeds(t)

\* No cooldown is shortened.
Extends ==
    /\ DOMAIN governor' = Processes
    /\ \A p \in Processes : Governed(p)' /\ governor'[p].cooldown >= governor[p].cooldown

LEMMA LaterOfTwo ==
    ASSUME NEW a \in Int, NEW b \in Int
    PROVE  Later(a, b) \in {a, b} /\ Later(a, b) >= a /\ Later(a, b) >= b
<1>1. \E x \in {a, b} : \A y \in {a, b} : x >= y
  OBVIOUS
<1> QED
  BY <1>1 DEF Later, Max

LEMMA InitHeeds == RestInit => HeedInv
  BY DEF RestInit, HeedInv, Typed, Timed, Governed, Heeds, Idle, Full, Absent

\* A step of one task.
LEMMA StepHeeds ==
    ASSUME HeedInv, NEW t \in Requests,
           DOMAIN task' = Requests, \A u \in Requests \ {t} : task'[u] = task[u],
           Timed(t)', Heeds(t)', Extends, file' \in Int, temp' \in Int
    PROVE  HeedInv'
<1>1. Typed'
  BY DEF HeedInv, Typed, Timed, Extends
<1>2. ASSUME NEW u \in Requests \ {t} PROVE Heeds(u)'
  <2>1. task'[u] = task[u] /\ task[u].read \in Nat /\ Owner[u] \in Processes
    BY RestAssumption DEF HeedInv, Typed, Timed
  <2>2. governor'[Owner[u]].cooldown >= governor[Owner[u]].cooldown
        /\ governor'[Owner[u]].cooldown \in Nat /\ governor[Owner[u]].cooldown \in Nat
    BY <2>1 DEF Extends, Governed, HeedInv, Typed
  <2> QED
    BY <2>1, <2>2 DEF HeedInv, Heeds
<1> QED
  BY <1>1, <1>2 DEF HeedInv

LEMMA SameExtends == ASSUME HeedInv, UNCHANGED governor PROVE Extends
<1>1. \A p \in Processes : governor[p].cooldown \in Nat
  BY DEF HeedInv, Typed, Governed
<1> QED
  BY <1>1 DEF HeedInv, Typed, Governed, Extends

\* A response is noted.
LEMMA NotedExtends ==
    ASSUME HeedInv, NEW p \in Processes, NEW soft, NEW delay \in Nat,
           governor' = [governor EXCEPT ![p] = Noted(@, soft, delay)]
    PROVE  Extends
<1>1. governor[p].cooldown \in Nat /\ "cooldown" \in DOMAIN governor[p]
      /\ DOMAIN governor = Processes
  BY DEF HeedInv, Typed, Governed
<1>2. Later(governor[p].cooldown, delay) \in Nat
      /\ Later(governor[p].cooldown, delay) >= governor[p].cooldown
  BY <1>1, LaterOfTwo
<1>3. "cooldown" \in DOMAIN governor'[p]
      /\ governor'[p].cooldown = Later(governor[p].cooldown, delay)
  BY <1>1 DEF Noted
<1>4. \A q \in Processes \ {p} : governor'[q] = governor[q]
  BY <1>1
<1>5. \A q \in Processes : Governed(q)' /\ governor'[q].cooldown >= governor[q].cooldown
  <2> TAKE q \in Processes
  <2>1. CASE q = p
    BY <1>2, <1>3, <2>1 DEF Governed
  <2>2. CASE q # p
    BY <1>4, <2>2 DEF HeedInv, Typed, Governed
  <2> QED
    BY <2>1, <2>2
<1> QED
  BY <1>1, <1>5 DEF Extends

-----------------------------------------------------------------------------
\* What holds of one task before its step.
LEMMA HeedFacts ==
    ASSUME HeedInv, NEW t \in Requests
    PROVE  /\ Timed(t) /\ Heeds(t) /\ DOMAIN task = Requests /\ Owner[t] \in Processes
           /\ Governed(Owner[t]) /\ DOMAIN governor = Processes /\ file \in Int /\ temp \in Int
  BY RestAssumption DEF HeedInv, Typed

LEMMA AcquireHeeds == ASSUME HeedInv, NEW t \in Requests, Acquire(t) PROVE HeedInv'
<1> DEFINE p == Owner[t]
<1>1. governor' = [governor EXCEPT ![p].cooldown = Later(@, file)]
  BY DEF Acquire, Heeded
<1>2. p \in Processes /\ Governed(p) /\ file \in Int /\ DOMAIN governor = Processes
  BY HeedFacts
<1>3. /\ Later(governor[p].cooldown, file) \in {governor[p].cooldown, file}
      /\ Later(governor[p].cooldown, file) >= governor[p].cooldown
      /\ Later(governor[p].cooldown, file) >= file
  BY <1>2, LaterOfTwo DEF Governed
<1>4. /\ Later(file, 0) \in {file, 0} /\ Later(file, 0) >= 0
  BY <1>2, LaterOfTwo
<1>5. governor'[p].cooldown = Later(governor[p].cooldown, file)
      /\ "cooldown" \in DOMAIN governor'[p] /\ DOMAIN governor' = Processes
      /\ \A q \in Processes \ {p} : governor'[q] = governor[q]
  BY <1>1, <1>2 DEF Governed
<1>6. Extends
  <2>1. ASSUME NEW q \in Processes PROVE Governed(q)' /\ governor'[q].cooldown >= governor[q].cooldown
    <3>1. CASE q = p
      BY <1>2, <1>3, <1>5, <3>1 DEF Governed
    <3>2. CASE q # p
      BY <1>5, <3>2 DEF HeedInv, Typed, Governed
    <3> QED
      BY <3>1, <3>2
  <2> QED
    BY <1>5, <2>1 DEF Extends
<1>7. task' = [task EXCEPT ![t].at = "pace", ![t].read = Later(file, 0)]
  BY DEF Acquire
<1>8. DOMAIN task' = Requests /\ \A u \in Requests \ {t} : task'[u] = task[u]
  BY <1>7, HeedFacts
<1>9. /\ {"at", "deadline", "read"} \subseteq DOMAIN task'[t]
      /\ task'[t].at = "pace" /\ task'[t].read = Later(file, 0)
      /\ task'[t].deadline = task[t].deadline
  BY <1>7, HeedFacts DEF Timed
<1>10. Timed(t)'
  BY <1>2, <1>4, <1>9, HeedFacts DEF Timed
<1>11. Heeds(t)'
  <2>1. Later(file, 0) <= Later(governor[p].cooldown, file)
    BY <1>2, <1>3, <1>4 DEF Governed
  <2> QED
    BY <1>5, <1>9, <2>1 DEF Heeds
<1>12. UNCHANGED <<file, temp>>
  BY DEF Acquire, shared
<1> QED
  BY <1>2, <1>6, <1>8, <1>10, <1>11, <1>12, StepHeeds, HeedFacts

LEMMA PaceHeeds == ASSUME HeedInv, NEW t \in Requests, Pace(t) PROVE HeedInv'
<1> DEFINE p == Owner[t]
<1>1. governor' = [governor EXCEPT ![p].weight = @ - Weight[t], ![p].pace = 1]
      /\ governor[p].cooldown = 0 /\ task[t].at = "pace"
  BY DEF Pace, MayGo
<1>2. Extends
  <2>1. \A q \in Processes : Governed(q)' /\ governor'[q].cooldown = governor[q].cooldown
    BY <1>1 DEF HeedInv, Typed, Governed
  <2> QED
    BY <1>1, <2>1 DEF HeedInv, Typed, Governed, Extends
<1>3. task[t].read = 0
  BY <1>1, HeedFacts DEF Heeds, Timed
<1>4. task' = [task EXCEPT ![t].at = "lease"]
  BY DEF Pace, Goes
<1>5. /\ DOMAIN task' = Requests /\ \A u \in Requests \ {t} : task'[u] = task[u]
      /\ Timed(t)' /\ task'[t].at = "lease" /\ task'[t].read = 0
  BY <1>3, <1>4, HeedFacts DEF Timed
<1>6. Heeds(t)'
  BY <1>5 DEF Heeds
<1>7. UNCHANGED <<file, temp>>
  BY DEF Pace, shared
<1> QED
  BY <1>2, <1>5, <1>6, <1>7, StepHeeds, HeedFacts

\* A step that only takes the task elsewhere, and not into a wait.
LEMMA GoesHeeds ==
    ASSUME HeedInv, NEW t \in Requests, NEW to, Goes(t, to), to # "pace",
           \/ to \notin {"lease", "break", "send"}
           \/ task[t].at \in {"lease", "break", "send"},
           UNCHANGED governor, file' \in Int, temp' \in Int
    PROVE  HeedInv'
<1>1. /\ DOMAIN task' = Requests /\ \A u \in Requests \ {t} : task'[u] = task[u]
      /\ Timed(t)' /\ task'[t].at = to /\ task'[t].read = task[t].read
  BY HeedFacts DEF Goes, Timed
<1>2. Heeds(t)'
  BY <1>1, HeedFacts DEF Heeds
<1> QED
  BY <1>1, <1>2, SameExtends, StepHeeds

LEMMA WaitsHeeds == ASSUME HeedInv, NEW t \in Requests, Waits(t) PROVE HeedInv'
<1>1. CASE TakeLease(t)
  BY <1>1, GoesHeeds, HeedFacts DEF TakeLease
<1>2. CASE FindStale(t)
  BY <1>2, GoesHeeds, HeedFacts DEF FindStale, shared
<1>3. CASE BreakLease(t)
  BY <1>3, GoesHeeds, HeedFacts DEF BreakLease
<1> QED
  BY <1>1, <1>2, <1>3, AcquireHeeds, PaceHeeds DEF Waits

-----------------------------------------------------------------------------
\* A task that ends, or starts over, waits for nothing yet.
LEMMA EndsHeeds ==
    ASSUME HeedInv, NEW t \in Requests, Ends(t) \/ Retries(t), Extends,
           file' \in Int, temp' \in Int
    PROVE  HeedInv'
<1>1. CASE Ends(t)
  <2>1. /\ DOMAIN task' = Requests /\ \A u \in Requests \ {t} : task'[u] = task[u]
        /\ Timed(t)' /\ task'[t].at = "idle"
    BY <1>1, HeedFacts DEF Ends, Idle, Timed
  <2> QED
    BY <2>1, StepHeeds DEF Heeds
<1>2. CASE Retries(t) /\ ~Ends(t)
  <2>1. task' = [task EXCEPT ![t].at = "acquire", ![t].attempt = @ + 1, ![t].read = 0]
    BY <1>2 DEF Retries
  <2>2. /\ DOMAIN task' = Requests /\ \A u \in Requests \ {t} : task'[u] = task[u]
        /\ Timed(t)' /\ task'[t].at = "acquire"
    BY <2>1, HeedFacts DEF Timed
  <2> QED
    BY <2>2, StepHeeds DEF Heeds
<1> QED
  BY <1>1, <1>2

LEMMA AnsweredHeeds == ASSUME HeedInv, NEW t \in Requests, Answered(t) PROVE HeedInv'
<1>1. CASE TransportFails(t)
  BY <1>1, EndsHeeds, SameExtends, HeedFacts DEF TransportFails
<1>2. CASE Succeeds(t)
  <2>1. PICK soft \in BOOLEAN : governor' = [governor EXCEPT ![Owner[t]] = Noted(@, soft, 0)]
    BY <1>2 DEF Succeeds
  <2>2. Extends
    BY <2>1, NotedExtends, HeedFacts
  <2> QED
    BY <1>2, <2>2, EndsHeeds, HeedFacts DEF Succeeds
<1>3. CASE BodyFails(t)
  <2>1. PICK soft \in BOOLEAN : governor' = [governor EXCEPT ![Owner[t]] = Noted(@, soft, 0)]
    BY <1>3 DEF BodyFails
  <2>2. Extends
    BY <2>1, NotedExtends, HeedFacts
  <2> QED
    BY <1>3, <2>2, EndsHeeds, HeedFacts DEF BodyFails
<1>4. CASE IsLimited(t)
  <2>1. PICK delay \in RetryAfter, soft \in BOOLEAN :
          /\ governor' = [governor EXCEPT ![Owner[t]] = Noted(@, soft, delay)]
          /\ task' = [task EXCEPT ![t].at = "write", ![t].deadline = delay]
    BY <1>4 DEF IsLimited
  <2>2. delay \in Nat
    BY RestAssumption
  <2>3. Extends
    BY <2>1, <2>2, NotedExtends, HeedFacts
  <2>4. /\ DOMAIN task' = Requests /\ \A u \in Requests \ {t} : task'[u] = task[u]
        /\ Timed(t)' /\ task'[t].at = "write"
    BY <2>1, <2>2, HeedFacts DEF Timed
  <2> QED
    BY <1>4, <2>3, <2>4, StepHeeds, HeedFacts DEF Heeds, IsLimited
<1> QED
  BY <1>1, <1>2, <1>3, <1>4 DEF Answered

LEMMA PersistsHeeds == ASSUME HeedInv, NEW t \in Requests, Persists(t) PROVE HeedInv'
<1>1. CASE WriteTemp(t)
  <2>1. task' = [task EXCEPT ![t].at = "rename", ![t].deadline = 0]
        /\ temp' = task[t].deadline /\ UNCHANGED <<file, governor>>
    BY <1>1 DEF WriteTemp
  <2>2. /\ DOMAIN task' = Requests /\ \A u \in Requests \ {t} : task'[u] = task[u]
        /\ Timed(t)' /\ task'[t].at = "rename"
    BY <2>1, HeedFacts DEF Timed
  <2>3. temp' \in Int /\ file' \in Int
    BY <2>1, HeedFacts DEF Timed
  <2> QED
    BY <2>1, <2>2, <2>3, StepHeeds, SameExtends DEF Heeds
<1>2. ASSUME RenameTemp(t) \/ RemoveFile(t) \/ RenameAgain(t) PROVE HeedInv'
  <2>1. UNCHANGED governor /\ file' \in Int /\ temp' \in Int
    BY <1>2, HeedFacts DEF RenameTemp, RemoveFile, RenameAgain, Absent
  <2>2. Ends(t) \/ Goes(t, "remove") \/ Goes(t, "retry")
    BY <1>2 DEF RenameTemp, RemoveFile, RenameAgain, Persisted
  <2> QED
    BY <2>1, <2>2, EndsHeeds, GoesHeeds, SameExtends
<1> QED
  BY <1>1, <1>2 DEF Persists

-----------------------------------------------------------------------------
LEMMA BeginHeeds == ASSUME HeedInv, NEW t \in Requests, Begin(t) PROVE HeedInv'
<1>1. /\ DOMAIN task' = Requests /\ \A u \in Requests \ {t} : task'[u] = task[u]
      /\ Timed(t)' /\ task'[t].at = "acquire"
  BY HeedFacts DEF Begin, Timed
<1> QED
  BY <1>1, StepHeeds, SameExtends, HeedFacts DEF Begin, shared, Heeds

\* The tasks of a process go with its governor.
LEMMA CrashHeeds == ASSUME HeedInv, NEW p \in Processes, Crash(p) PROVE HeedInv'
<1>1. /\ task' = [t \in Requests |-> IF Owner[t] = p THEN Idle(task[t].calls) ELSE task[t]]
      /\ governor' = [governor EXCEPT ![p] = Full] /\ UNCHANGED <<file, temp>>
  BY DEF Crash, shared
<1>2. DOMAIN governor' = Processes /\ \A q \in Processes : Governed(q)'
  BY <1>1 DEF HeedInv, Typed, Governed, Full
<1>3. ASSUME NEW t \in Requests PROVE Timed(t)' /\ Heeds(t)'
  <2>1. CASE Owner[t] = p
    BY <1>1, <2>1 DEF Timed, Heeds, Idle
  <2>2. CASE Owner[t] # p
    <3>1. task'[t] = task[t] /\ governor'[Owner[t]] = governor[Owner[t]]
      BY <1>1, <2>2, HeedFacts
    <3> QED
      BY <3>1, HeedFacts DEF Timed, Heeds
  <2> QED
    BY <2>1, <2>2
<1> QED
  BY <1>1, <1>2, <1>3 DEF HeedInv, Typed

\* Both run down together.
LEMMA TickHeeds == ASSUME HeedInv, Tick PROVE HeedInv'
<1>1. /\ file' \in Int /\ temp' \in Int /\ DOMAIN task' = Requests /\ DOMAIN governor' = Processes
  <2>1. file' = Less(file) /\ temp' = Less(temp) /\ file \in Int /\ temp \in Int
    BY DEF Tick, HeedInv, Typed
  <2>2. file' \in Int /\ temp' \in Int
    BY <2>1 DEF Less
  <2>3. DOMAIN task' = Requests /\ DOMAIN governor' = Processes
    BY DEF Tick
  <2> QED
    BY <2>2, <2>3
<1>2. ASSUME NEW p \in Processes
      PROVE  Governed(p)' /\ governor'[p].cooldown = Less(governor[p].cooldown)
  <2>1. governor'[p] = Elapsed(governor[p]) /\ governor[p].cooldown \in Nat
    BY DEF Tick, HeedInv, Typed, Governed
  <2> QED
    BY <2>1 DEF Elapsed, Less, Governed
<1>3. ASSUME NEW t \in Requests PROVE Timed(t)' /\ Heeds(t)'
  <2>1. task'[t] = [task[t] EXCEPT !.deadline = Less(@), !.read = Less(@)]
    BY DEF Tick
  <2>2. /\ {"at", "deadline", "read"} \subseteq DOMAIN task'[t] /\ task'[t].at = task[t].at
        /\ task'[t].deadline = Less(task[t].deadline) /\ task'[t].read = Less(task[t].read)
    BY <2>1, HeedFacts DEF Timed
  <2>3. Timed(t)'
    BY <2>2, HeedFacts DEF Timed, Less
  <2>4. governor[Owner[t]].cooldown \in Nat
        /\ governor'[Owner[t]].cooldown = Less(governor[Owner[t]].cooldown)
    BY <1>2, HeedFacts DEF Governed
  <2>5. Heeds(t)'
    BY <2>2, <2>4, HeedFacts DEF Timed, Heeds, Less
  <2> QED
    BY <2>3, <2>5
<1> QED
  BY <1>1, <1>2, <1>3 DEF HeedInv, Typed

LEMMA NextHeeds == HeedInv /\ [RestNext]_restVars => HeedInv'
<1> SUFFICES ASSUME HeedInv, [RestNext]_restVars PROVE HeedInv'
  OBVIOUS
<1>1. ASSUME NEW t \in Requests, Begin(t) \/ Waits(t) \/ Answered(t) \/ Persists(t) PROVE HeedInv'
  BY <1>1, BeginHeeds, WaitsHeeds, AnsweredHeeds, PersistsHeeds
<1>2. ASSUME NEW p \in Processes, Crash(p) PROVE HeedInv'
  BY <1>2, CrashHeeds
<1>3. CASE Tick
  BY <1>3, TickHeeds
<1>4. CASE UNCHANGED restVars
  BY <1>4 DEF restVars, shared, HeedInv, Typed, Timed, Governed, Heeds
<1> QED
  BY <1>1, <1>2, <1>3, <1>4 DEF RestNext

\* No response to another request, of this or of another process, and no delay on the
\* way makes a task send before the cooldown it has read is over (wait_for and
\* note_public_rest_response in market/metadata.rs).
THEOREM CooldownIsHeeded == RestSpec => []CooldownHeeded
<1>1. HeedInv => CooldownHeeded
  BY DEF HeedInv, Heeds, CooldownHeeded
<1> QED
  BY InitHeeds, NextHeeds, <1>1, PTL DEF RestSpec
=============================================================================
