-------------------------- MODULE LiveSessionProofs --------------------------
(***************************************************************************)
(* Theorems about the live session (LiveSession), for any symbols in any   *)
(* order, any gates and any bounds: no event sequence ends the run with a  *)
(* refused call, entries need evidence, the session implements             *)
(* TradingPermit, and runner, supervisor and exchange go by one account.   *)
(*                                                                         *)
(* The invariant has three layers, each proved with the ones before it:    *)
(*   Base     types, what each place of the task goes with, and the four   *)
(*            values the recovery machine takes in the hands of this caller*)
(*   ViewInv  which of the waiting account updates will be the last word   *)
(*   ExitInv  at most one flatten order of a symbol                        *)
(***************************************************************************)
EXTENDS LiveSession, SequenceTheorems, FiniteSetTheorems, TLAPS

-----------------------------------------------------------------------------
(* The inductive invariant.                                                *)

\* What the channel can hold.  Only a listen key that expires has no time.
AccountUpdates == [kind : {"account"}, symbol : Symbols, position : Int, at : Nat \ {0}]
OrderUpdates == [kind : {"order"}, symbol : Symbols, at : Nat \ {0}]
Event == AccountUpdates \cup OrderUpdates \cup {ListenKeyExpired, RecoveryRequired}

\* The recovery machine after a loss, a reconnect and a clean reconciliation.
Lost        == [state |-> "RiskStopped", begun |-> TRUE, gap |-> FALSE, snapshot |-> FALSE]
Reconnected == [state |-> "Synchronizing", begun |-> TRUE, gap |-> FALSE, snapshot |-> FALSE]
Resumed     == [state |-> "Resumed", begun |-> TRUE, gap |-> FALSE, snapshot |-> TRUE]

\* A supervisor with its machine, outside a recovery and in one.
Fit(s) ==
    \/ s.state = "Synchronizing" /\ s.rec = NewRecovery /\ ~s.unknown
    \/ s.state = "RiskStopped" /\ s.rec = Lost
    \/ s.state \in {"Healthy", "Flattening"} /\ s.rec \in {NewRecovery, Resumed} /\ ~s.unknown
Recovering(s) == s.state = "Synchronizing" /\ s.rec = Reconnected

ExchangeType ==
    /\ remote \in [Symbols -> Int] /\ orders \subseteq Order /\ IsFiniteSet(orders)
    /\ clock \in Nat /\ nextId \in 1..MaxOrders + 1

FeedType ==
    /\ stream \in {"up", "dead", "down"} /\ queue \in Seq(Event) /\ lost \subseteq Symbols

HeldType ==
    /\ sup \in SupervisorRecord /\ supervisorReady \in BOOLEAN
    /\ position \in [Symbols -> Int] /\ working \in [Symbols -> OrderIds \cup {NoOrder}]
    /\ listed \subseteq Order /\ lastUser \in Nat

\* A session that has not read the account yet has nothing, and ended ones have nothing.
Blank ==
    /\ sup = NewSupervisor /\ supervisorReady = FALSE /\ position = Flat
    /\ stream = "down" /\ queue = <<>>

Reading == {"readOrders", "readPositions"}
Listing == {"sweep", "trade", "exit", "closing"}

Placed ==
    /\ \/ phase = "startup" /\ pc \in Reading \cup {"ended"} /\ Blank
       \/ phase = "recovery" /\ pc \in Reading /\ Recovering(sup)
       \/ phase = "final" /\ pc \in Reading /\ Fit(sup)
       \/ phase = "running" /\ pc \in Listing \cup {"select"} /\ Fit(sup)
    /\ todo \in Seq(Symbols) /\ (pc \in Listing => todo # <<>>)
    /\ pc \in {"trade", "exit"} => sup.state \in {"Healthy", "Flattening"}
    /\ pc = "exit" => nextId \in OrderIds
    /\ sup.state # "Synchronizing" => sup.pos = position
    /\ outcome \in {"running", "failed", "residual", "completed"}
    /\ faults \in 0..MaxFaults /\ sessions \in 1..MaxSessions

Base == ExchangeType /\ FeedType /\ HeldType /\ Placed

\* The account update of s that comes last in the channel.
LastOf(s, i) ==
    /\ i \in DOMAIN queue /\ queue[i].kind = "account" /\ queue[i].symbol = s
    /\ \A j \in DOMAIN queue : j > i => ~(queue[j].kind = "account" /\ queue[j].symbol = s)

\* It will be skipped: something later has been seen or will be seen before it.
Doomed(i) ==
    \/ queue[i].at < lastUser
    \/ \E j \in DOMAIN queue : j < i /\ IsUserEvent(queue[j]) /\ queue[i].at < queue[j].at

\* The last word on a symbol is the exchange's position, or will be noticed as lost.
ViewInv ==
    pc # "ended" /\ phase # "startup" =>
        \A s \in Symbols \ lost :
            /\ Waiting(s) \/ position[s] = remote[s]
            /\ \A i \in DOMAIN queue : LastOf(s, i) => queue[i].position = remote[s] \/ Doomed(i)

ExitInv ==
    /\ OneExitPerSymbol
    /\ pc = "exit" => \A o \in orders : o.symbol # Head(todo)
-----------------------------------------------------------------------------
(* What the calls of the runner answer.                                    *)

LEMMA RecoveryValues ==
    /\ {NewRecovery, Lost, Reconnected, Resumed} \subseteq RecoveryRecord
    /\ \A r : StartEpoch(r) = Lost
    /\ Accepts(Lost, "ReconnectSucceeded") /\ Apply(Lost, "ReconnectSucceeded") = Reconnected
    /\ ReconciledRecovery(NewRecovery) = NewRecovery
    /\ LET r == RecordSnapshot(Reconnected) IN
           /\ Accepts(r, "SnapshotLoaded")
           /\ ReconciledRecovery(Apply(r, "SnapshotLoaded")) = Resumed
<1>1. {NewRecovery, Lost, Reconnected, Resumed} \subseteq RecoveryRecord
  BY DEF NewRecovery, Lost, Reconnected, Resumed, RecoveryRecord, RecoveryState
<1>2. \A r : StartEpoch(r) = Lost
  BY DEF StartEpoch, Lost
<1>3. Accepts(Lost, "ReconnectSucceeded") /\ Apply(Lost, "ReconnectSucceeded") = Reconnected
  BY DEF Accepts, Apply, Successor, Lost, Reconnected
<1>4. ReconciledRecovery(NewRecovery) = NewRecovery
  BY DEF ReconciledRecovery, NewRecovery
<1> DEFINE loaded == [state |-> "Synchronizing", begun |-> TRUE, gap |-> FALSE, snapshot |-> TRUE]
<1>5. RecordSnapshot(Reconnected) = loaded
  BY DEF RecordSnapshot, Reconnected
<1>6. Accepts(loaded, "SnapshotLoaded") /\ Apply(loaded, "SnapshotLoaded") = loaded
  BY DEF Accepts, Apply, Successor
<1>7. ReconciledRecovery(loaded) = Resumed
  <2>1. MarkReconciled(loaded) = loaded
    BY DEF MarkReconciled
  <2>2. Accepts(loaded, "ReconciliationClean")
        /\ Successor(loaded.state, "ReconciliationClean") = "Resumed"
    BY DEF Accepts, Successor
  <2>3. Apply(loaded, "ReconciliationClean") = Resumed
    BY <2>2 DEF Apply, Resumed
  <2> QED
    BY <2>1, <2>3 DEF ReconciledRecovery
<1> QED
  BY <1>1, <1>2, <1>3, <1>4, <1>5, <1>6, <1>7

\* A supervisor is stopped from any state, with a new epoch.
LEMMA Stopping ==
    ASSUME NEW s \in SupervisorRecord, NEW t, t = OnDisconnect(s) \/ t = OnListenKeyExpired(s)
    PROVE  t \in SupervisorRecord /\ t.state = "RiskStopped" /\ Fit(t) /\ t.pos = s.pos
<1>1. Lost \in RecoveryRecord /\ StartEpoch(s.rec) = Lost /\ "RiskStopped" \in SupervisorState
  BY RecoveryValues DEF SupervisorState
<1>2. CASE t = OnDisconnect(s)
  BY <1>1, <1>2 DEF OnDisconnect, Fit, SupervisorRecord
<1>3. CASE t = OnListenKeyExpired(s)
  BY <1>1, <1>3 DEF OnListenKeyExpired, Fit, SupervisorRecord
<1> QED
  BY <1>2, <1>3

LEMMA Reconnecting ==
    ASSUME NEW s \in SupervisorRecord, s.state = "RiskStopped", s.rec = Lost
    PROVE  /\ OnReconnectOk(s) /\ OnReconnect(s) \in SupervisorRecord
           /\ Recovering(OnReconnect(s)) /\ OnReconnect(s).pos = s.pos
<1>1. OnReconnectOk(s)
  BY RecoveryValues DEF OnReconnectOk
<1>2. OnReconnect(s) = [s EXCEPT !.state = "Synchronizing", !.rec = Reconnected]
  BY <1>1, RecoveryValues DEF OnReconnect
<1>3. Reconnected \in RecoveryRecord
  BY RecoveryValues
<1> QED
  BY <1>1, <1>2, <1>3 DEF Recovering, SupervisorRecord, SupervisorState

\* The first reconciliation, before any epoch.
LEMMA Starting ==
    ASSUME NEW s \in SupervisorRecord, s.state = "Synchronizing", s.rec = NewRecovery, ~s.unknown
    PROVE  LET t == ReconciliationClean(s) IN
               /\ t \in SupervisorRecord /\ t.state = "Healthy" /\ t.rec = NewRecovery
               /\ ~t.unknown /\ t.pos = s.pos
<1>1. ReconciliationClean(s) = [s EXCEPT !.rec = NewRecovery, !.state = "Healthy"]
  BY RecoveryValues DEF ReconciliationClean, ReconciliationCleanOk
<1>2. NewRecovery \in RecoveryRecord
  BY RecoveryValues
<1> QED
  BY <1>1, <1>2 DEF SupervisorRecord, SupervisorState

\* The snapshot and the reconciliation of a recovery.
LEMMA Resuming ==
    ASSUME NEW s \in SupervisorRecord, Recovering(s)
    PROVE  LET l == MarkSnapshotLoaded(s)
               t == ReconciliationClean(l)
           IN  /\ MarkSnapshotLoadedOk(s) /\ ReconciliationCleanOk(l)
               /\ t \in SupervisorRecord /\ t.state = "Healthy" /\ t.rec = Resumed
               /\ ~t.unknown /\ t.pos = s.pos
<1> DEFINE l == MarkSnapshotLoaded(s)
           r == Apply(RecordSnapshot(Reconnected), "SnapshotLoaded")
<1>1. MarkSnapshotLoadedOk(s)
  BY RecoveryValues DEF MarkSnapshotLoadedOk, Recovering
<1>2. l = [s EXCEPT !.unknown = FALSE, !.rec = r]
  BY DEF MarkSnapshotLoaded, Recovering
<1>3. ReconciledRecovery(r) = Resumed /\ Resumed \in RecoveryRecord
  BY RecoveryValues
<1> HIDE DEF r
<1>4. l.state = "Synchronizing" /\ ~l.unknown /\ l.rec = r
  BY <1>2 DEF Recovering, SupervisorRecord
<1>5. ReconciliationCleanOk(l)
  BY <1>4 DEF ReconciliationCleanOk
<1>6. ReconciliationClean(l) = [l EXCEPT !.rec = Resumed, !.state = "Healthy"]
  BY <1>3, <1>4, <1>5 DEF ReconciliationClean
<1>7. ReconciliationClean(l) = [[s EXCEPT !.unknown = FALSE, !.rec = r]
                                  EXCEPT !.rec = Resumed, !.state = "Healthy"]
  BY <1>2, <1>6
<1>8. LET t == ReconciliationClean(l) IN
      /\ t \in SupervisorRecord /\ t.state = "Healthy" /\ t.rec = Resumed
      /\ ~t.unknown /\ t.pos = s.pos
  BY <1>3, <1>7 DEF SupervisorRecord, SupervisorState
<1> QED
  BY <1>1, <1>5, <1>8
-----------------------------------------------------------------------------
(* Base: the ends of a session, the turns, the exchange and the stream.    *)

LEMMA SomeSymbols == SymbolOrder \in Seq(Symbols) /\ SymbolOrder # <<>>
  BY SymbolOrderAssumption, SymbolsAssumption

LEMMA NothingHeld ==
    /\ NewSupervisor \in SupervisorRecord /\ Fit(NewSupervisor) /\ NewSupervisor.pos = Flat
    /\ NewSupervisor.state = "Synchronizing"
    /\ Flat \in [Symbols -> Int] /\ NoWorking \in [Symbols -> OrderIds \cup {NoOrder}]
  BY RecoveryValues DEF NewSupervisor, SupervisorRecord, SupervisorState, Fit, Flat, NoWorking

LEMMA InitBase == Init => Base
<1> SUFFICES ASSUME Init PROVE Base
  OBVIOUS
<1>1. ExchangeType
  BY FS_EmptySet, NothingHeld, BoundsAssumption DEF Init, ExchangeType
<1>2. FeedType
  BY EmptySeq DEF Init, FeedType
<1>3. HeldType
  BY NothingHeld DEF Init, HeldType
<1>4. Placed
  BY EmptySeq, NothingHeld, BoundsAssumption DEF Init, Placed, Blank, Reading, Listing
<1> QED
  BY <1>1, <1>2, <1>3, <1>4 DEF Base

LEMMA EndsBase ==
    ASSUME Base, NEW how \in {"failed", "residual", "completed"}, Ends(how),
           UNCHANGED <<exchange, faults, sessions>>
    PROVE  Base'
<1>1. ExchangeType'
  BY DEF Base, ExchangeType, exchange
<1>2. FeedType'
  BY EmptySeq DEF Ends, FeedType
<1>3. HeldType'
  BY NothingHeld DEF Ends, HeldType
<1>4. Placed'
  BY EmptySeq, NothingHeld DEF Ends, Base, Placed, Blank, Reading, Listing
<1> QED
  BY <1>1, <1>2, <1>3, <1>4 DEF Base

\* What a turn leaves, when the event has left supervisor s, positions p, working
\* orders w and the rest of the channel: never an end of the run.
Turned(s, p, w, rest, seen) ==
    /\ sup' \in SupervisorRecord /\ supervisorReady' \in BOOLEAN /\ sup'.pos = p
    /\ position' = p /\ working' = w /\ queue' = rest /\ lastUser' = seen
    /\ UNCHANGED <<outcome, listed, stream, lost, exchange, faults, sessions>>
    /\ \/ /\ s.state = "RiskStopped" /\ Recovering(sup')
          /\ pc' = "readOrders" /\ phase' = "recovery" /\ todo' = <<>>
       \/ /\ UNCHANGED phase /\ Fit(sup')
          /\ sup'.state = s.state \/ (s.state = "Synchronizing" /\ sup'.state = "Healthy")
          /\ \/ pc' = "select" /\ todo' = <<>>
             \/ pc' = "sweep" /\ todo' = SymbolOrder
             \/ pc' = "trade" /\ todo' = SymbolOrder /\ sup'.state = "Healthy"

LEMMA TurnTurns ==
    ASSUME NEW s \in SupervisorRecord, Fit(s), NEW ready \in BOOLEAN,
           NEW p \in [Symbols -> Int], NEW w, NEW rest, NEW seen,
           Turn(s, ready, p, w, rest, seen)
    PROVE  Turned(s, p, w, rest, seen)
<1> DEFINE observed == ObservePositions(s, p)
<1>1. /\ observed \in SupervisorRecord /\ observed.pos = p /\ observed.state = s.state
      /\ observed.rec = s.rec /\ observed.unknown = s.unknown
  BY DEF ObservePositions, SupervisorRecord
<1>2. Fit(observed)
  BY <1>1 DEF Fit
<1> HIDE DEF observed
<1>3. PICK executionReady \in BOOLEAN :
      LET recovers == Recovers(executionReady, observed)
          starts   == ~recovers /\ ~ready /\ observed.state = "Synchronizing"
          after    == IF recovers THEN OnReconnect(observed)
                      ELSE IF starts THEN ReconciliationClean(observed)
                      ELSE observed
          rejected == after.state = "Halted" \/ (recovers /\ ~OnReconnectOk(observed))
          trades   == executionReady /\ after.state = "Healthy"
      IN  /\ IF rejected
             THEN Ends("rejected")
             ELSE /\ sup' = after /\ supervisorReady' = (ready \/ starts)
                  /\ position' = p /\ working' = w /\ queue' = rest /\ lastUser' = seen
                  /\ pc' = IF recovers THEN "readOrders"
                           ELSE IF ~executionReady THEN "sweep"
                           ELSE IF trades THEN "trade" ELSE "select"
                  /\ phase' = IF recovers THEN "recovery" ELSE phase
                  /\ todo' = IF ~executionReady \/ trades THEN SymbolOrder ELSE <<>>
                  /\ UNCHANGED <<outcome, listed, stream, lost>>
          /\ UNCHANGED <<exchange, faults, sessions>>
  BY DEF Turn, observed
<1>4. CASE Recovers(executionReady, observed)
  <2>1. executionReady /\ observed.state = "RiskStopped" /\ observed.rec = Lost
    BY <1>2, <1>4 DEF Recovers, Fit
  <2>2. /\ OnReconnectOk(observed) /\ OnReconnect(observed) \in SupervisorRecord
        /\ Recovering(OnReconnect(observed)) /\ OnReconnect(observed).pos = p
    BY <1>1, <2>1, Reconnecting
  <2>3. OnReconnect(observed).state = "Synchronizing"
    BY <2>2 DEF Recovering
  <2> QED
    BY <1>1, <1>3, <1>4, <2>1, <2>2, <2>3 DEF Turned
<1>5. CASE ~Recovers(executionReady, observed) /\ ~ready /\ observed.state = "Synchronizing"
  <2> DEFINE after == ReconciliationClean(observed)
  <2>1. observed.rec = NewRecovery /\ ~observed.unknown
    BY <1>2, <1>5 DEF Fit
  <2>2. /\ after \in SupervisorRecord /\ after.state = "Healthy" /\ after.rec = NewRecovery
        /\ ~after.unknown /\ after.pos = p
    BY <1>1, <1>5, <2>1, Starting
  <2>3. Fit(after)
    BY <2>2 DEF Fit
  <2> HIDE DEF after
  <2> QED
    BY <1>1, <1>3, <1>5, <2>2, <2>3 DEF Turned, after
<1>6. CASE ~Recovers(executionReady, observed) /\ ~(~ready /\ observed.state = "Synchronizing")
  <2>1. observed.state # "Halted"
    BY <1>2 DEF Fit
  <2> QED
    BY <1>1, <1>2, <1>3, <1>6, <2>1 DEF Turned
<1> QED
  BY <1>4, <1>5, <1>6

\* The session at the select, after a turn.
LEMMA TurnedBase ==
    ASSUME Base, pc = "select", NEW s, NEW p \in [Symbols -> Int],
           NEW w \in [Symbols -> OrderIds \cup {NoOrder}],
           NEW rest \in Seq(Event), NEW seen \in Nat, Turned(s, p, w, rest, seen)
    PROVE  Base'
<1>1. ExchangeType'
  BY DEF Base, ExchangeType, Turned, exchange
<1>2. FeedType' /\ HeldType'
  BY DEF Base, FeedType, HeldType, Turned
<1>3. phase = "running"
  BY DEF Base, Placed, Reading
<1>4. Placed'
  BY <1>3, SomeSymbols, EmptySeq DEF Base, Placed, Turned, Reading, Listing, Fit, exchange
<1> QED
  BY <1>1, <1>2, <1>4 DEF Base

\* What waits in the channel.
LEMMA EventFields ==
    /\ \A e \in Event : /\ e.kind \in {"account", "order", "expired", "recovery"}
                        /\ e.kind = "account" => /\ e.symbol \in Symbols /\ e.position \in Int
                                                 /\ e.at \in Nat \ {0}
                        /\ e.kind = "order" => e.symbol \in Symbols /\ e.at \in Nat \ {0}
                        /\ e.kind = "expired" => e.at = 0
                        /\ e.at \in Nat
    /\ \A s \in Symbols, p \in Int, t \in Nat \ {0} : AccountUpdate(s, p, t) \in Event
    /\ \A s \in Symbols, t \in Nat \ {0} : OrderUpdate(s, t) \in Event
    /\ ListenKeyExpired \in Event /\ RecoveryRequired \in Event
  BY DEF Event, AccountUpdates, OrderUpdates, AccountUpdate, OrderUpdate,
         ListenKeyExpired, RecoveryRequired

LEMMA EmitFeed ==
    ASSUME FeedType, NEW events \in Seq(Event), Emit(events), UNCHANGED stream
    PROVE  FeedType'
<1>1. queue' \in Seq(Event)
  BY ConcatProperties DEF FeedType, Emit
<1>2. \A i \in DOMAIN events : events[i].kind = "account" => events[i].symbol \in Symbols
  BY EventFields, ElementOfSeq
<1>3. lost' \subseteq Symbols
  BY <1>2 DEF FeedType, Emit, Reported
<1> QED
  BY <1>1, <1>3 DEF FeedType

\* What the task does not touch.
LEMMA TaskRests ==
    ASSUME Base, UNCHANGED <<flow, held, stream, queue, nextId>>,
           faults' \in 0..MaxFaults, UNCHANGED sessions
    PROVE  Placed'
  BY DEF Base, Placed, Blank, flow, held

\* In a session that has begun, the stream and the channel are no matter of its place.
LEMMA FeedMoves ==
    ASSUME Base, phase # "startup", UNCHANGED <<flow, held, nextId>>,
           faults' \in 0..MaxFaults, UNCHANGED sessions
    PROVE  Placed'
  BY DEF Base, Placed, flow, held

\* Emitting while nothing is held leaves the channel as it is.
LEMMA EmitPlaced ==
    ASSUME Base, NEW events, Emit(events), UNCHANGED <<flow, held, stream, nextId, faults, sessions>>
    PROVE  Placed'
<1>1. CASE phase = "startup"
  <2>1. stream # "up"
    BY <1>1 DEF Base, Placed, Blank
  <2>2. queue' = queue
    BY <2>1 DEF Emit
  <2> QED
    BY <2>2, TaskRests DEF flow, held, Base, Placed
<1>2. CASE phase # "startup"
  BY <1>2, FeedMoves DEF Base, Placed
<1> QED
  BY <1>1, <1>2

LEMMA OrderFields ==
    ASSUME NEW o \in Order
    PROVE  /\ o.id \in OrderIds /\ o.symbol \in Symbols
           /\ o.side \in {"Buy", "Sell"} /\ o.quantity \in Nat \ {0} /\ o.reduceOnly \in BOOLEAN
  BY DEF Order

LEMMA ReducibleBound ==
    ASSUME remote \in [Symbols -> Int], NEW o, o.symbol \in Symbols, o.quantity \in Nat
    PROVE  Reducible(o) \in 0..o.quantity
  BY DEF Reducible, Smaller, Magnitude

LEMMA FillBase == ASSUME Base, NEW o \in orders, Fill(o) PROVE Base'
<1>1. PICK n \in 1..Reducible(o), accountFirst \in BOOLEAN :
      LET p == remote[o.symbol] + Signed(o, n)
          account == AccountUpdate(o.symbol, p, clock')
          terminal == OrderUpdate(o.symbol, clock')
      IN  /\ clock' = clock + 1
          /\ remote' = [remote EXCEPT ![o.symbol] = p]
          /\ IF n = o.quantity
             THEN /\ orders' = orders \ {o}
                  /\ Emit(IF accountFirst THEN <<account, terminal>> ELSE <<terminal, account>>)
             ELSE /\ orders' = (orders \ {o}) \cup {[o EXCEPT !.quantity = @ - n]}
                  /\ accountFirst
                  /\ Emit(<<account>>)
          /\ UNCHANGED <<flow, held, stream, nextId, faults, sessions>>
  BY DEF Fill
<1> DEFINE p == remote[o.symbol] + Signed(o, n)
           account == AccountUpdate(o.symbol, p, clock')
           terminal == OrderUpdate(o.symbol, clock')
<1>2. /\ o \in Order /\ o.symbol \in Symbols /\ o.quantity \in Nat \ {0} /\ ExchangeType /\ FeedType
  BY OrderFields DEF Base, ExchangeType
<1>3. n \in Nat \ {0} /\ n <= o.quantity
  <2>1. Reducible(o) \in 0..o.quantity
    BY <1>2, ReducibleBound DEF ExchangeType
  <2> QED
    BY <1>2, <2>1
<1>4. p \in Int /\ clock' \in Nat \ {0} /\ clock' = clock + 1
  BY <1>1, <1>2, <1>3 DEF ExchangeType, Signed
<1>5. account \in Event /\ terminal \in Event
  BY <1>2, <1>4, EventFields
<1>6. PICK events \in Seq(Event) : Emit(events)
  <2> HIDE DEF account, terminal
  <2>1. <<account, terminal>> \in Seq(Event) /\ <<terminal, account>> \in Seq(Event)
        /\ <<account>> \in Seq(Event)
    BY <1>5
  <2> QED
    BY <1>1, <2>1 DEF account, terminal
<1>7. orders' \subseteq Order /\ IsFiniteSet(orders')
  <2>1. IsFiniteSet(orders \ {o}) /\ orders \ {o} \subseteq Order
    BY <1>2, FS_RemoveElement DEF ExchangeType
  <2>2. CASE n = o.quantity
    BY <1>1, <2>1, <2>2
  <2>3. CASE n # o.quantity
    <3>1. o.quantity - n \in Nat \ {0}
      BY <1>2, <1>3, <2>3
    <3>2. [o EXCEPT !.quantity = @ - n] \in Order
      BY <1>2, <3>1 DEF Order
    <3>3. orders' = (orders \ {o}) \cup {[o EXCEPT !.quantity = @ - n]}
      BY <1>1, <2>3
    <3> QED
      BY <2>1, <3>2, <3>3, FS_AddElement
  <2> QED
    BY <2>2, <2>3
<1>8. ExchangeType'
  <2>1. remote' = [remote EXCEPT ![o.symbol] = p] /\ nextId' = nextId
    BY <1>1
  <2>2. remote' \in [Symbols -> Int]
    BY <1>2, <1>4, <2>1 DEF ExchangeType
  <2> QED
    BY <1>2, <1>4, <1>7, <2>1, <2>2 DEF ExchangeType
<1>9. UNCHANGED <<flow, held, stream, nextId, faults, sessions>>
  BY <1>1
<1>10. FeedType'
  BY <1>2, <1>6, <1>9, EmitFeed
<1>11. Placed'
  BY <1>6, <1>9, EmitPlaced
<1>12. HeldType'
  BY <1>9 DEF Base, HeldType, held
<1> QED
  BY <1>8, <1>10, <1>11, <1>12 DEF Base

LEMMA ExpireBase == ASSUME Base, NEW o \in orders, Expire(o) PROVE Base'
<1>1. o.symbol \in Symbols /\ clock' \in Nat \ {0}
  BY OrderFields DEF Base, ExchangeType, Expire
<1>2. <<OrderUpdate(o.symbol, clock')>> \in Seq(Event)
  BY <1>1, EventFields
<1>3. /\ Emit(<<OrderUpdate(o.symbol, clock')>>)
      /\ UNCHANGED <<flow, held, stream, remote, nextId, faults, sessions>>
      /\ orders' = orders \ {o}
  BY DEF Expire
<1>4. FeedType'
  BY <1>2, <1>3, EmitFeed DEF Base
<1>5. Placed'
  BY <1>3, EmitPlaced
<1>6. HeldType'
  BY <1>3 DEF Base, HeldType, held
<1>7. ExchangeType'
  BY <1>1, <1>3, FS_RemoveElement DEF Base, ExchangeType
<1> QED
  BY <1>4, <1>5, <1>6, <1>7 DEF Base

\* The stream's own steps, which only happen in a session that has begun.
LEMMA StreamBase == ASSUME Base, Stream PROVE Base'
<1>1. UNCHANGED <<flow, held, exchange, sessions, lost>> /\ stream' \in {"up", "dead", "down"}
      /\ faults' \in 0..MaxFaults
  <2>1. faults \in 0..MaxFaults /\ stream \in {"up", "dead", "down"}
    BY DEF Base, Placed, FeedType
  <2>2. Fault => faults' \in 0..MaxFaults
    BY <2>1, BoundsAssumption DEF Fault
  <2> QED
    BY <2>1, <2>2 DEF Stream, StreamConnects, StreamDies, StreamEnds, ListenKeyExpires,
                      RenewalFails, Reorder
<1>2. phase # "startup"
  <2>1. ASSUME Len(queue) >= 2 PROVE phase # "startup"
    BY <2>1, EmptySeq DEF Base, Placed, Blank
  <2> QED
    BY <2>1 DEF Stream, StreamConnects, StreamDies, StreamEnds, ListenKeyExpires, RenewalFails,
                Reorder, Running
<1>3. queue' \in Seq(Event)
  <2>1. CASE StreamConnects \/ StreamDies
    BY <2>1 DEF StreamConnects, StreamDies, Base, FeedType
  <2>2. CASE StreamEnds \/ RenewalFails
    <3>1. queue \in Seq(Event) /\ queue' = Append(queue, RecoveryRequired)
      BY <2>2 DEF StreamEnds, RenewalFails, Base, FeedType
    <3>2. RecoveryRequired \in Event
      BY EventFields
    <3> QED
      BY <3>1, <3>2, AppendProperties
  <2>3. CASE ListenKeyExpires
    <3>1. <<ListenKeyExpired, RecoveryRequired>> \in Seq(Event)
      BY EventFields
    <3> QED
      BY <2>3, <3>1, ConcatProperties DEF ListenKeyExpires, Base, FeedType
  <2>4. CASE Reorder
    <3> DEFINE i == Len(queue) - 1
    <3>1. queue \in Seq(Event) /\ i \in 1..Len(queue) /\ i + 1 \in 1..Len(queue)
          /\ queue' = [queue EXCEPT ![i] = queue[i + 1], ![i + 1] = queue[i]]
      BY <2>4, LenProperties DEF Reorder, Base, FeedType
    <3>2. queue[i] \in Event /\ queue[i + 1] \in Event
      BY <3>1, ElementOfSeq
    <3> HIDE DEF i
    <3>3. [queue EXCEPT ![i] = queue[i + 1]] \in Seq(Event)
          /\ Len([queue EXCEPT ![i] = queue[i + 1]]) = Len(queue)
      BY <3>1, <3>2, ExceptSeq
    <3> QED
      BY <3>1, <3>2, <3>3, ExceptSeq
  <2> QED
    BY <2>1, <2>2, <2>3, <2>4 DEF Stream
<1>4. ExchangeType' /\ FeedType' /\ HeldType'
  BY <1>1, <1>3 DEF Base, ExchangeType, FeedType, HeldType, exchange, held
<1>5. Placed'
  BY <1>1, <1>2, FeedMoves DEF exchange
<1> QED
  BY <1>4, <1>5 DEF Base
-----------------------------------------------------------------------------
(* Base: snapshots, and the lists of symbols.                              *)

LEMMA ReadOrdersBase == ASSUME Base, ReadOrders PROVE Base'
  BY DEF Base, ReadOrders, ExchangeType, FeedType, HeldType, Placed, Blank, Reading, Listing,
         exchange, feed

LEMMA SnapshotWorkingType == HeldType => SnapshotWorking \in [Symbols -> OrderIds \cup {NoOrder}]
<1> SUFFICES ASSUME HeldType PROVE SnapshotWorking \in [Symbols -> OrderIds \cup {NoOrder}]
  OBVIOUS
<1>1. \A s \in Symbols : ListedOf(s) \subseteq OrderIds
  BY OrderFields DEF HeldType, ListedOf
<1> HIDE DEF ListedOf
<1> QED
  BY <1>1 DEF SnapshotWorking

LEMMA StartupSnapshotBase == ASSUME Base, StartupSnapshot PROVE Base'
<1>1. CASE Ambiguous
  BY <1>1, EndsBase DEF StartupSnapshot
<1>2. CASE ~Ambiguous
  <2>1. /\ position' = remote /\ working' = SnapshotWorking /\ listed' = {}
        /\ lost' = {s \in lost : Waiting(s)} /\ pc' = "select" /\ phase' = "running"
        /\ UNCHANGED <<todo, outcome, sup, supervisorReady, lastUser, feed>>
        /\ UNCHANGED <<exchange, faults, sessions>> /\ phase = "startup"
    BY <1>2 DEF StartupSnapshot, AdoptSnapshot
  <2>2. HeldType'
    BY <2>1, SnapshotWorkingType DEF Base, HeldType, ExchangeType
  <2>3. ExchangeType' /\ FeedType'
    BY <2>1 DEF Base, ExchangeType, FeedType, feed, exchange
  <2>4. Placed'
    BY <2>1, NothingHeld DEF Base, Placed, Blank, Reading, Listing
  <2> QED
    BY <2>2, <2>3, <2>4 DEF Base
<1> QED
  BY <1>1, <1>2

\* A recovery's snapshot and reconciliation are accepted, and nothing is unknown after them.
LEMMA RecoverySnapshotIs ==
    ASSUME Base, RecoverySnapshot, ~Ambiguous
    PROVE  /\ AdoptSnapshot /\ phase = "recovery" /\ pc' = "trade" /\ phase' = "running"
           /\ sup' \in SupervisorRecord /\ sup'.state = "Healthy" /\ sup'.rec = Resumed
           /\ ~sup'.unknown /\ sup'.pos = remote /\ supervisorReady' = TRUE
           /\ todo' = SymbolOrder
           /\ UNCHANGED <<outcome, lastUser, feed, exchange, faults, sessions>>
<1>1. Adopted \in SupervisorRecord /\ Adopted.pos = remote /\ Recovering(Adopted)
  <2>1. Recovering(sup) /\ sup \in SupervisorRecord /\ remote \in [Symbols -> Int]
    BY DEF RecoverySnapshot, Base, Placed, HeldType, ExchangeType
  <2> QED
    BY <2>1 DEF Adopted, Recovering, SupervisorRecord
<1> DEFINE loaded == MarkSnapshotLoaded(Adopted)
           clean == ReconciliationClean(loaded)
<1>2. /\ MarkSnapshotLoadedOk(Adopted) /\ ReconciliationCleanOk(loaded)
      /\ clean \in SupervisorRecord /\ clean.state = "Healthy" /\ clean.rec = Resumed
      /\ ~clean.unknown /\ clean.pos = remote
  BY <1>1, Resuming
<1> HIDE DEF loaded
<1>3. /\ AdoptSnapshot /\ sup' = clean /\ supervisorReady' = TRUE
      /\ pc' = "trade" /\ phase' = "running" /\ todo' = SymbolOrder
      /\ UNCHANGED <<outcome, lastUser, feed, exchange, faults, sessions>>
      /\ phase = "recovery"
  BY <1>2 DEF RecoverySnapshot, loaded
<1> HIDE DEF clean
<1> QED
  BY <1>2, <1>3

LEMMA RecoverySnapshotBase == ASSUME Base, RecoverySnapshot PROVE Base'
<1>1. CASE Ambiguous
  BY <1>1, EndsBase DEF RecoverySnapshot
<1>2. CASE ~Ambiguous
  <2>1. HeldType'
    BY <1>2, RecoverySnapshotIs, SnapshotWorkingType DEF AdoptSnapshot, Base, HeldType, ExchangeType
  <2>2. ExchangeType' /\ FeedType'
    BY <1>2, RecoverySnapshotIs
    DEF AdoptSnapshot, Base, ExchangeType, FeedType, feed, exchange
  <2>3. Placed'
    BY <1>2, RecoverySnapshotIs, SomeSymbols
    DEF AdoptSnapshot, Base, Placed, Fit, Reading, Listing
  <2> QED
    BY <2>1, <2>2, <2>3 DEF Base
<1> QED
  BY <1>1, <1>2

LEMMA FinalSnapshotBase == ASSUME Base, FinalSnapshot PROVE Base'
  BY EndsBase DEF FinalSnapshot

LEMMA TodoFields ==
    ASSUME Base, pc \in Listing
    PROVE  /\ Head(todo) \in Symbols /\ Tail(todo) \in Seq(Symbols)
           /\ Len(todo) \in Nat \ {0} /\ Len(Tail(todo)) = Len(todo) - 1
  BY HeadTailProperties, LenProperties, EmptySeq DEF Base, Placed

\* On to the next symbol: the task stays in a list, or leaves it for one of two places.
LEMMA NextPlace ==
    ASSUME Base, pc \in Listing, NextSymbol, UNCHANGED <<sup, position, faults, sessions>>
    PROVE  Placed'
<1>1. /\ todo' = Tail(todo) /\ UNCHANGED outcome
      /\ pc' = IF Len(todo) > 1 THEN IF pc = "exit" THEN "trade" ELSE pc
               ELSE IF pc = "closing" THEN "readOrders" ELSE "select"
      /\ phase' = IF Len(todo) = 1 /\ pc = "closing" THEN "final" ELSE phase
  BY DEF NextSymbol
<1>2. phase = "running" /\ Fit(sup)
  BY DEF Base, Placed, Listing, Reading
<1>3. todo' \in Seq(Symbols) /\ (pc' \in Listing => todo' # <<>>)
  BY <1>1, TodoFields, EmptySeq DEF Listing
<1>4. \/ phase' = "final" /\ pc' \in Reading /\ Fit(sup)'
      \/ phase' = "running" /\ pc' \in Listing \cup {"select"} /\ Fit(sup)'
  <2>0. Len(todo) \in Nat \ {0}
    BY TodoFields
  <2>1. Len(todo) > 1 \/ Len(todo) = 1
    <3>1. \A n \in Nat \ {0} : n > 1 \/ n = 1
      OBVIOUS
    <3> QED
      BY <2>0, <3>1
  <2>2. Fit(sup)'
    BY <1>2 DEF Fit
  <2>3. CASE Len(todo) > 1
    BY <1>1, <1>2, <2>2, <2>3 DEF Listing
  <2>4. CASE Len(todo) = 1
    BY <1>1, <1>2, <2>2, <2>4 DEF Listing, Reading
  <2> QED
    BY <2>1, <2>3, <2>4
<1>5. pc' # "exit" /\ (pc' \in {"trade", "exit"} => sup'.state \in {"Healthy", "Flattening"})
  BY <1>1 DEF Listing, Base, Placed
<1> QED
  BY <1>1, <1>3, <1>4, <1>5 DEF Base, Placed

LEMMA UpdatesType ==
    ASSUME Base, NEW c \in SUBSET orders, clock' = clock + 1
    PROVE  Updates(c) \in Seq(Event)
<1>1. IsFiniteSet(c) /\ Cardinality(c) \in Nat
  BY FS_Subset, FS_CardinalityType DEF Base, ExchangeType
<1>2. ASSUME c # {} PROVE OrderUpdate((CHOOSE o \in c : TRUE).symbol, clock') \in Event
  <2> DEFINE o == CHOOSE o \in c : TRUE
  <2>1. o \in Order
    BY <1>2 DEF Base, ExchangeType
  <2>2. clock' \in Nat \ {0}
    BY DEF Base, ExchangeType
  <2> HIDE DEF o
  <2>3. o.symbol \in Symbols
    BY <2>1, OrderFields
  <2>4. OrderUpdate(o.symbol, clock') \in Event
    BY <2>2, <2>3, EventFields
  <2> QED
    BY <2>4 DEF o
<1>3. ASSUME c = {} PROVE Cardinality(c) = 0
  BY <1>3, FS_EmptySet
<1>4. Updates(c) \in [1..Cardinality(c) -> Event]
  <2>1. CASE c = {}
    BY <1>3, <2>1 DEF Updates
  <2>2. CASE c # {}
    BY <1>2, <2>2 DEF Updates
  <2> QED
    BY <2>1, <2>2
<1> QED
  BY <1>1, <1>4

LEMMA CancelledTypes ==
    ASSUME Base, NEW c \in SUBSET orders, Cancelled(c), UNCHANGED <<stream, remote, nextId>>
    PROVE  ExchangeType' /\ FeedType'
<1>1. clock' = clock + 1 /\ orders' = orders \ c /\ Emit(Updates(c))
  BY DEF Cancelled
<1>2. FeedType'
  BY <1>1, UpdatesType, EmitFeed DEF Base
<1>3. IsFiniteSet(orders \ c)
  BY FS_Subset DEF Base, ExchangeType
<1> QED
  BY <1>1, <1>2, <1>3 DEF Base, ExchangeType

LEMMA CancelWorkingBase ==
    ASSUME Base, pc \in Listing, CancelWorking, UNCHANGED <<faults, sessions>>
    PROVE  Base'
<1> DEFINE s == Head(todo)
           open == {o \in orders : o.id = working[s]}
<1>1. CASE working[s] = NoOrder
  <2>1. NextSymbol /\ UNCHANGED <<held, feed, exchange, lost>>
    BY <1>1 DEF CancelWorking
  <2>2. Placed'
    BY <2>1, NextPlace DEF held
  <2> QED
    BY <2>1, <2>2 DEF Base, ExchangeType, FeedType, HeldType, held, feed, exchange
<1>2. CASE working[s] # NoOrder /\ open = {}
  BY <1>2, EndsBase DEF CancelWorking
<1>3. CASE working[s] # NoOrder /\ open # {}
  <2>1. /\ NextSymbol /\ Cancelled(open) /\ working' = [working EXCEPT ![s] = NoOrder]
        /\ UNCHANGED <<sup, supervisorReady, position, listed, lastUser, stream, remote, nextId>>
    BY <1>3 DEF CancelWorking
  <2>2. ExchangeType' /\ FeedType'
    BY <2>1, CancelledTypes
  <2>3. Placed'
    BY <2>1, NextPlace
  <2>4. HeldType'
    BY <2>1 DEF Base, HeldType
  <2> QED
    BY <2>2, <2>3, <2>4 DEF Base
<1> QED
  BY <1>1, <1>2, <1>3

LEMMA SweepBase == ASSUME Base, Sweep PROVE Base'
  BY CancelWorkingBase DEF Sweep, Listing

LEMMA PassBase == ASSUME Base, Pass PROVE Base'
<1>1. Placed'
  BY NextPlace DEF Pass, Listing, held
<1> QED
  BY <1>1 DEF Pass, Base, ExchangeType, FeedType, HeldType, held, feed, exchange
\* An order with an identity that is left, for the head of the list.
LEMMA PlaceBase ==
    ASSUME Base, pc \in Listing, NextSymbol, nextId \in OrderIds,
           NEW side \in {"Buy", "Sell"}, NEW quantity \in Nat \ {0}, NEW reduceOnly \in BOOLEAN,
           Place(Head(todo), side, quantity, reduceOnly),
           UNCHANGED <<sup, supervisorReady, position, listed, lastUser, feed, remote, clock, lost>>,
           UNCHANGED <<faults, sessions>>
    PROVE  Base'
<1> DEFINE new == [id |-> nextId, symbol |-> Head(todo), side |-> side,
                   quantity |-> quantity, reduceOnly |-> reduceOnly]
<1>1. orders' = orders \cup {new} /\ nextId' = nextId + 1
      /\ working' = [working EXCEPT ![Head(todo)] = nextId]
  BY DEF Place
<1>2. new \in Order
  BY TodoFields DEF Order
<1> HIDE DEF new
<1>3. orders' \subseteq Order /\ IsFiniteSet(orders')
  BY <1>1, <1>2, FS_AddElement DEF Base, ExchangeType
<1>4. nextId' \in 1..MaxOrders + 1
  BY <1>1, BoundsAssumption DEF OrderIds
<1>5. ExchangeType' /\ FeedType'
  BY <1>3, <1>4 DEF Base, ExchangeType, FeedType, feed
<1>6. HeldType'
  BY <1>1 DEF Base, HeldType
<1>7. Placed'
  BY NextPlace
<1> QED
  BY <1>5, <1>6, <1>7 DEF Base

\* An entry is placed with what is left of the limit.
LEMMA PlaceEntryIs ==
    ASSUME Base, PlaceEntry
    PROVE  \/ Ends("failed") /\ UNCHANGED <<exchange, faults, sessions>>
           \/ \E side \in {"Buy", "Sell"}, quantity \in Nat \ {0} :
                 /\ pc = "trade" /\ nextId \in OrderIds /\ sup.state = "Healthy"
                 /\ NextSymbol /\ Place(Head(todo), side, quantity, FALSE)
                 /\ UNCHANGED <<sup, supervisorReady, position, listed, lastUser,
                                feed, remote, clock, lost, faults, sessions>>
<1>1. PICK side \in {"Buy", "Sell"} :
    LET s == Head(todo)
        quantity == Smaller(Quantity, MaxPosition - Magnitude(position[s]))
    IN  /\ pc = "trade" /\ nextId \in OrderIds
        /\ Decides(side, Decision("Allow", "Clear")) /\ working[s] = NoOrder
        /\ IF Refused(quantity)
           THEN Ends("failed") /\ UNCHANGED exchange
           ELSE /\ NextSymbol /\ Place(s, side, quantity, FALSE)
                /\ UNCHANGED <<sup, supervisorReady, position, listed, lastUser,
                               feed, remote, clock, lost>>
        /\ UNCHANGED <<faults, sessions>>
  BY DEF PlaceEntry
<1> DEFINE quantity == Smaller(Quantity, MaxPosition - Magnitude(position[Head(todo)]))
<1>2. sup.state = "Healthy"
  <2>1. PICK gate \in Gates :
        Evaluate(sup, Head(todo), EntryIntent(side), gate) = Decision("Allow", "Clear")
    BY <1>1 DEF Decides
  <2> QED
    BY <2>1 DEF Evaluate, MayNotTrade, Decision
<1>3. position[Head(todo)] \in Int
  BY <1>1, TodoFields DEF Base, HeldType, Listing
<1>4. quantity \in Int
  BY <1>3, QuantityAssumption, MaxPositionAssumption DEF Smaller, Magnitude
<1> HIDE DEF quantity
<1>5. CASE Refused(quantity)
  BY <1>1, <1>5 DEF quantity
<1>6. CASE ~Refused(quantity)
  <2>1. quantity \in Nat \ {0}
    BY <1>4, <1>6 DEF Refused
  <2> QED
    BY <1>1, <1>2, <1>6, <2>1 DEF quantity
<1> QED
  BY <1>5, <1>6

LEMMA PlaceEntryBase == ASSUME Base, PlaceEntry PROVE Base'
<1>1. CASE Ends("failed") /\ UNCHANGED <<exchange, faults, sessions>>
  BY <1>1, EndsBase
<1>2. ASSUME NEW side \in {"Buy", "Sell"}, NEW quantity \in Nat \ {0},
             pc = "trade" /\ nextId \in OrderIds, NextSymbol,
             Place(Head(todo), side, quantity, FALSE),
             UNCHANGED <<sup, supervisorReady, position, listed, lastUser,
                         feed, remote, clock, lost, faults, sessions>>
      PROVE  Base'
  <2>1. pc \in Listing
    BY <1>2 DEF Listing
  <2> QED
    BY <1>2, <2>1, PlaceBase
<1> QED
  BY <1>1, <1>2, PlaceEntryIs

LEMMA BeginExitBase == ASSUME Base, BeginExit PROVE Base'
<1>1. /\ pc = "trade" /\ nextId \in OrderIds /\ sup' = BeginFlatten(sup) /\ pc' = "exit"
      /\ Cancelled(FlattenCancels(Head(todo)))
      /\ working' = [working EXCEPT ![Head(todo)] = NoOrder]
      /\ UNCHANGED <<phase, todo, outcome, supervisorReady, position, listed, lastUser,
                     stream, remote, nextId, faults, sessions>>
  BY DEF BeginExit
<1>2. ExchangeType' /\ FeedType'
  BY <1>1, CancelledTypes DEF FlattenCancels
<1>3. /\ sup \in SupervisorRecord /\ sup.state \in {"Healthy", "Flattening"} /\ Fit(sup)
      /\ sup.pos = position /\ phase = "running"
  BY <1>1 DEF Base, HeldType, Placed, Reading, Listing
<1>4. /\ sup' \in SupervisorRecord /\ sup'.state = "Flattening" /\ Fit(sup')
      /\ sup'.pos = sup.pos
  BY <1>1, <1>3 DEF BeginFlatten, BeginFlattenOk, SupervisorRecord, SupervisorState, Fit
<1>5. HeldType'
  BY <1>1, <1>4 DEF Base, HeldType
<1>6. Placed'
  BY <1>1, <1>3, <1>4 DEF Base, Placed, Listing
<1> QED
  BY <1>2, <1>5, <1>6 DEF Base

\* The exit that is placed reduces.
LEMMA PlaceExitIs ==
    ASSUME Base, PlaceExit
    PROVE  \/ Ends("failed") /\ UNCHANGED <<exchange, faults, sessions>>
           \/ \E side \in {"Buy", "Sell"}, quantity \in Nat \ {0} :
                 /\ pc = "exit" /\ nextId \in OrderIds
                 /\ NextSymbol /\ Place(Head(todo), side, quantity, TRUE)
                 /\ UNCHANGED <<sup, supervisorReady, position, listed, lastUser,
                                feed, remote, clock, lost, faults, sessions>>
<1> DEFINE s == Head(todo)
           exit == [symbol |-> s, side |-> IF position[s] > 0 THEN "Sell" ELSE "Buy",
                    quantity |-> Magnitude(position[s]), reduceOnly |-> TRUE]
<1>1. /\ pc = "exit"
      /\ IF Reducible(exit) = 0
         THEN Ends("failed") /\ UNCHANGED exchange
         ELSE /\ NextSymbol /\ Place(s, exit.side, exit.quantity, TRUE)
              /\ UNCHANGED <<sup, supervisorReady, position, listed, lastUser,
                             feed, remote, clock, lost>>
      /\ UNCHANGED <<faults, sessions>>
  BY DEF PlaceExit
<1>2. s \in Symbols /\ position[s] \in Int /\ nextId \in OrderIds /\ remote \in [Symbols -> Int]
  BY <1>1, TodoFields DEF Base, HeldType, ExchangeType, Placed, Listing
<1>3. exit.quantity \in Nat /\ exit.side \in {"Buy", "Sell"} /\ exit.symbol \in Symbols
  BY <1>2 DEF Magnitude
<1>4. Reducible(exit) \in 0..exit.quantity
  BY <1>2, <1>3, ReducibleBound
<1> HIDE DEF exit
<1>5. Reducible(exit) # 0 => exit.quantity \in Nat \ {0}
  BY <1>3, <1>4
<1> QED
  BY <1>1, <1>2, <1>3, <1>5

LEMMA PlaceExitBase == ASSUME Base, PlaceExit PROVE Base'
<1>1. CASE Ends("failed") /\ UNCHANGED <<exchange, faults, sessions>>
  BY <1>1, EndsBase
<1>2. ASSUME NEW side \in {"Buy", "Sell"}, NEW quantity \in Nat \ {0},
             pc = "exit" /\ nextId \in OrderIds, NextSymbol,
             Place(Head(todo), side, quantity, TRUE),
             UNCHANGED <<sup, supervisorReady, position, listed, lastUser,
                         feed, remote, clock, lost, faults, sessions>>
      PROVE  Base'
  <2>1. pc \in Listing
    BY <1>2 DEF Listing
  <2> QED
    BY <1>2, <2>1, PlaceBase
<1> QED
  BY <1>1, <1>2, PlaceExitIs

\* What the gate answers an entry intent with is no halt the runner cannot handle.
LEMMA HaltsWithdraw ==
    ASSUME Base, pc = "trade", NEW side \in {"Buy", "Sell"}, NEW gate \in Gates,
           Evaluate(sup, Head(todo), EntryIntent(side), gate).kind = "Halt"
    PROVE  Evaluate(sup, Head(todo), EntryIntent(side), gate).reason \in Withdrawing
<1> DEFINE intent == EntryIntent(side)
<1>1. Quantity \in Nat \ {0} /\ intent.quantity = Quantity /\ intent.postOnly
  BY QuantityAssumption DEF EntryIntent
<1>2. ~TakerNotReducing(sup.pos[Head(todo)], intent)
  BY <1>1 DEF TakerNotReducing
<1>3. sup.state = "Healthy" => ~sup.unknown
  BY DEF Base, Placed, Fit, Reading, Listing
<1>4. ~(intent.quantity <= 0)
  BY <1>1
<1> HIDE DEF intent
<1>5. Evaluate(sup, Head(todo), intent, gate).kind = "Halt"
  BY DEF intent
<1>6. Evaluate(sup, Head(todo), intent, gate).reason \in Withdrawing
  BY <1>2, <1>3, <1>4, <1>5 DEF Evaluate, MayNotTrade, Decision, Withdrawing
<1> QED
  BY <1>6 DEF intent

LEMMA HaltQuoteIs == ASSUME Base, HaltQuote
                     PROVE pc = "trade" /\ CancelWorking /\ UNCHANGED <<faults, sessions>>
  BY HaltsWithdraw DEF HaltQuote

LEMMA HaltQuoteBase == ASSUME Base, HaltQuote PROVE Base'
  BY HaltQuoteIs, CancelWorkingBase DEF Listing

LEMMA TaskBase == ASSUME Base, Task PROVE Base'
  BY ReadOrdersBase, StartupSnapshotBase, RecoverySnapshotBase, FinalSnapshotBase,
     SweepBase, PassBase, PlaceEntryBase, BeginExitBase, PlaceExitBase, HaltQuoteBase
  DEF Task
-----------------------------------------------------------------------------
(* Base: the turns of the loop.                                            *)

\* Nothing that is applied to the positions of a fit supervisor makes it less fit.
LEMMA FlattenFits ==
    ASSUME NEW s \in SupervisorRecord, Fit(s), NEW p,
           s.state = "Flattening" => s.pos = p
    PROVE  LET t == FlattenSettled(s, p) IN
           /\ t \in SupervisorRecord /\ Fit(t)
           /\ t.state = s.state \/ (s.state = "Flattening" /\ t.state = "Healthy" /\ p = Flat)
<1>1. CASE s.state = "Flattening" /\ p = Flat
  <2>1. ConfirmFlattenedOk(s)
    BY <1>1 DEF ConfirmFlattenedOk, Flat
  <2>2. FlattenSettled(s, p) = [s EXCEPT !.state = "Healthy"]
    BY <1>1, <2>1 DEF FlattenSettled, ConfirmFlattened
  <2> QED
    BY <1>1, <2>2 DEF SupervisorRecord, SupervisorState, Fit
<1>2. CASE ~(s.state = "Flattening" /\ p = Flat)
  BY <1>2 DEF FlattenSettled
<1> QED
  BY <1>1, <1>2

\* At the select, the session runs and its supervisor is fit.
LEMMA AtSelect ==
    ASSUME Base, pc = "select"
    PROVE  /\ phase = "running" /\ Fit(sup) /\ sup \in SupervisorRecord
           /\ sup.state # "Synchronizing" => sup.pos = position
           /\ queue \in Seq(Event) /\ lastUser \in Nat
  BY DEF Base, Placed, HeldType, FeedType, Reading, Listing

LEMMA HeadOfQueue ==
    ASSUME Base, queue # <<>>
    PROVE  /\ Head(queue) \in Event /\ Tail(queue) \in Seq(Event)
           /\ Len(queue) \in Nat \ {0} /\ Head(queue) = queue[1]
           /\ Len(Tail(queue)) = Len(queue) - 1
           /\ \A i \in 1..Len(Tail(queue)) : Tail(queue)[i] = queue[i + 1]
<1>1. queue \in Seq(Event)
  BY DEF Base, FeedType
<1> QED
  BY <1>1, HeadTailProperties, EmptySeq

\* What each event of the select leaves for the rest of its turn.
LEMMA MarketEventTurns ==
    ASSUME Base, MarketEvent
    PROVE  pc = "select" /\ Turned(sup, position, working, queue, lastUser)
<1>1. sup \in SupervisorRecord /\ Fit(sup) /\ supervisorReady \in BOOLEAN
      /\ position \in [Symbols -> Int]
  BY AtSelect DEF MarketEvent, Base, HeldType
<1> QED
  BY <1>1, TurnTurns DEF MarketEvent

LEMMA AccountEventTurns ==
    ASSUME Base, AccountEvent
    PROVE  LET e == Head(queue)
               p == [position EXCEPT ![e.symbol] = e.position]
           IN  \E s \in SupervisorRecord :
                  /\ Turned(s, p, working, Tail(queue), Larger(lastUser, e.at)) /\ Fit(s)
                  /\ \/ s.state = sup.state
                     \/ sup.state = "Flattening" /\ s.state = "Healthy" /\ p = Flat
<1> DEFINE e == Head(queue)
           p == [position EXCEPT ![e.symbol] = e.position]
           u == OnAccountUpdate(sup, [x \in {e.symbol} |-> e.position], FALSE)
           s == FlattenSettled(u, p)
<1>1. pc = "select" /\ queue # <<>> /\ e.kind = "account"
      /\ Turn(s, supervisorReady, p, working, Tail(queue), Larger(lastUser, e.at))
  BY DEF AccountEvent, NextIs
<1>2. e.symbol \in Symbols /\ e.position \in Int
  BY <1>1, HeadOfQueue, EventFields
<1>3. supervisorReady \in BOOLEAN /\ position \in [Symbols -> Int]
  BY DEF Base, HeldType
<1>4. p \in [Symbols -> Int]
  BY <1>2, <1>3
<1>5. /\ u \in SupervisorRecord /\ u.state = sup.state /\ u.rec = sup.rec
      /\ u.unknown = sup.unknown
      /\ u.pos = [x \in Symbols |-> IF x = e.symbol THEN e.position ELSE sup.pos[x]]
  BY <1>1, <1>2, AtSelect DEF OnAccountUpdate, SupervisorRecord
<1>6. Fit(u)
  BY <1>1, <1>5, AtSelect DEF Fit
<1>7. u.state = "Flattening" => u.pos = p
  BY <1>1, <1>3, <1>5, AtSelect
<1> HIDE DEF u, p
<1>8. /\ s \in SupervisorRecord /\ Fit(s)
      /\ s.state = u.state \/ (u.state = "Flattening" /\ s.state = "Healthy" /\ p = Flat)
  BY <1>5, <1>6, <1>7, FlattenFits
<1> HIDE DEF s
<1>9. Turned(s, p, working, Tail(queue), Larger(lastUser, e.at))
  BY <1>1, <1>3, <1>4, <1>8, TurnTurns
<1> QED
  BY <1>5, <1>8, <1>9 DEF p

LEMMA OrderEventTurns ==
    ASSUME Base, OrderEvent
    PROVE  LET e == Head(queue) IN
           \E s \in SupervisorRecord :
              /\ Turned(s, position, [working EXCEPT ![e.symbol] = NoOrder], Tail(queue),
                        Larger(lastUser, e.at)) /\ Fit(s)
              /\ \/ s.state = sup.state
                 \/ sup.state = "Flattening" /\ s.state = "Healthy" /\ position = Flat
<1> DEFINE e == Head(queue)
           s == FlattenSettled(sup, position)
<1>1. pc = "select" /\ queue # <<>> /\ e.kind = "order"
      /\ Turn(FlattenSettled(OnOrderUpdate(sup, e.symbol, TRUE), position), supervisorReady,
              position, [working EXCEPT ![e.symbol] = NoOrder],
              Tail(queue), Larger(lastUser, e.at))
  BY DEF OrderEvent, NextIs
<1>2. e.symbol \in Symbols
  BY <1>1, HeadOfQueue, EventFields
<1>3. OnOrderUpdate(sup, e.symbol, TRUE) = sup
  BY <1>2 DEF OnOrderUpdate
<1>4. supervisorReady \in BOOLEAN /\ position \in [Symbols -> Int]
  BY DEF Base, HeldType
<1>5. sup \in SupervisorRecord /\ Fit(sup) /\ (sup.state = "Flattening" => sup.pos = position)
  BY <1>1, AtSelect
<1>6. /\ s \in SupervisorRecord /\ Fit(s)
      /\ s.state = sup.state \/ (sup.state = "Flattening" /\ s.state = "Healthy" /\ position = Flat)
  BY <1>5, FlattenFits
<1>7. Turn(s, supervisorReady, position, [working EXCEPT ![e.symbol] = NoOrder],
           Tail(queue), Larger(lastUser, e.at))
  BY <1>1, <1>3
<1> HIDE DEF s
<1>8. Turned(s, position, [working EXCEPT ![e.symbol] = NoOrder], Tail(queue),
             Larger(lastUser, e.at))
  BY <1>4, <1>6, <1>7, TurnTurns
<1> QED
  BY <1>6, <1>8

\* A notice stops the supervisor, whatever state it is in.
LEMMA StopEventTurns ==
    ASSUME Base, ExpiredEvent \/ RecoveryNotice
    PROVE  /\ pc = "select" /\ queue # <<>> /\ Head(queue).kind \in {"expired", "recovery"}
           /\ \E s \in SupervisorRecord :
                 /\ Turned(s, position, working, Tail(queue), lastUser) /\ Fit(s)
                 /\ s.state = "RiskStopped"
<1>1. PICK ready \in BOOLEAN : \E s : /\ s = OnDisconnect(sup) \/ s = OnListenKeyExpired(sup)
                                    /\ Turn(s, ready, position, working, Tail(queue), lastUser)
  BY Zenon DEF ExpiredEvent, RecoveryNotice
<1> PICK s : /\ s = OnDisconnect(sup) \/ s = OnListenKeyExpired(sup)
             /\ Turn(s, ready, position, working, Tail(queue), lastUser)
  BY <1>1
<1>2. pc = "select" /\ queue # <<>> /\ Head(queue).kind \in {"expired", "recovery"}
  BY DEF ExpiredEvent, RecoveryNotice, NextIs
<1>3. sup \in SupervisorRecord /\ position \in [Symbols -> Int]
  BY DEF Base, HeldType
<1>4. s \in SupervisorRecord /\ s.state = "RiskStopped" /\ Fit(s)
  BY <1>3, Stopping
<1>5. Turned(s, position, working, Tail(queue), lastUser)
  BY <1>3, <1>4, TurnTurns
<1> QED
  BY <1>2, <1>4, <1>5

LEMMA LargerNat == \A a, b \in Nat : Larger(a, b) \in Nat /\ Larger(a, b) >= a /\ Larger(a, b) >= b
  BY DEF Larger

LEMMA MarketEventBase == ASSUME Base, MarketEvent PROVE Base'
<1>1. pc = "select" /\ Turned(sup, position, working, queue, lastUser)
  BY MarketEventTurns
<1> QED
  BY <1>1, TurnedBase DEF Base, HeldType, FeedType

LEMMA AccountEventBase == ASSUME Base, AccountEvent PROVE Base'
<1> DEFINE e == Head(queue)
           p == [position EXCEPT ![e.symbol] = e.position]
<1>1. pc = "select" /\ queue # <<>> /\ e.kind = "account"
  BY DEF AccountEvent, NextIs
<1>2. PICK s \in SupervisorRecord :
        Turned(s, p, working, Tail(queue), Larger(lastUser, e.at))
  BY AccountEventTurns
<1>3. e \in Event /\ Tail(queue) \in Seq(Event)
  BY <1>1, HeadOfQueue
<1>4. e.symbol \in Symbols /\ e.position \in Int /\ e.at \in Nat
  BY <1>1, <1>3, EventFields
<1>5. p \in [Symbols -> Int] /\ Larger(lastUser, e.at) \in Nat
      /\ working \in [Symbols -> OrderIds \cup {NoOrder}]
  BY <1>4, LargerNat DEF Base, HeldType
<1> HIDE DEF p, e
<1> QED
  BY <1>1, <1>2, <1>3, <1>5, TurnedBase

LEMMA OrderEventBase == ASSUME Base, OrderEvent PROVE Base'
<1> DEFINE e == Head(queue)
           w == [working EXCEPT ![e.symbol] = NoOrder]
<1>1. pc = "select" /\ queue # <<>> /\ e.kind = "order"
  BY DEF OrderEvent, NextIs
<1>2. PICK s \in SupervisorRecord :
        Turned(s, position, w, Tail(queue), Larger(lastUser, e.at))
  BY OrderEventTurns
<1>3. e \in Event /\ Tail(queue) \in Seq(Event)
  BY <1>1, HeadOfQueue
<1>4. e.at \in Nat
  BY <1>3, EventFields
<1>5. w \in [Symbols -> OrderIds \cup {NoOrder}] /\ Larger(lastUser, e.at) \in Nat
      /\ position \in [Symbols -> Int]
  BY <1>4, LargerNat DEF Base, HeldType
<1> HIDE DEF w, e
<1> QED
  BY <1>1, <1>2, <1>3, <1>5, TurnedBase

LEMMA StopEventBase == ASSUME Base, ExpiredEvent \/ RecoveryNotice PROVE Base'
<1>1. pc = "select" /\ queue # <<>>
  BY StopEventTurns
<1>2. PICK s \in SupervisorRecord : Turned(s, position, working, Tail(queue), lastUser)
  BY StopEventTurns
<1>3. Tail(queue) \in Seq(Event)
  BY <1>1, HeadOfQueue
<1> QED
  BY <1>1, <1>2, <1>3, TurnedBase DEF Base, HeldType

LEMMA OutOfOrderBase == ASSUME Base, OutOfOrderEvent PROVE Base'
<1> DEFINE e == Head(queue)
<1>1. /\ pc = "select" /\ queue # <<>> /\ queue' = Tail(queue)
      /\ lost' \in {lost, IF e.kind = "account" THEN lost \cup {e.symbol} ELSE lost}
      /\ UNCHANGED <<flow, held, stream, exchange, faults, sessions>>
  BY DEF OutOfOrderEvent
<1>2. e \in Event /\ Tail(queue) \in Seq(Event)
  BY <1>1, HeadOfQueue
<1>3. e.kind = "account" => e.symbol \in Symbols
  BY <1>2, EventFields
<1>4. FeedType'
  BY <1>1, <1>2, <1>3 DEF Base, FeedType
<1>5. ExchangeType' /\ HeldType'
  BY <1>1 DEF Base, ExchangeType, HeldType, exchange, held
<1>6. Placed'
  <2>1. phase # "startup" /\ faults \in 0..MaxFaults
    BY <1>1, AtSelect DEF Base, Placed
  <2> QED
    BY <1>1, <2>1, FeedMoves DEF exchange
<1> QED
  BY <1>4, <1>5, <1>6 DEF Base

\* The tick stops a Healthy supervisor and sweeps in any case.
LEMMA HealthTickIs ==
    ASSUME Base, HealthTick
    PROVE  /\ pc = "select" /\ sup' \in SupervisorRecord /\ Fit(sup') /\ sup'.pos = sup.pos
           /\ sup'.state = IF sup.state = "Healthy" THEN "RiskStopped" ELSE sup.state
           /\ sup'.rec = IF sup.state = "Healthy" THEN Lost ELSE sup.rec
           /\ supervisorReady' \in BOOLEAN /\ pc' = "sweep" /\ todo' = SymbolOrder
           /\ UNCHANGED <<phase, outcome, position, working, listed, lastUser,
                          feed, exchange, faults, sessions, lost>>
<1>1. pc = "select" /\ Fit(sup) /\ sup \in SupervisorRecord /\ supervisorReady \in BOOLEAN
  BY AtSelect DEF HealthTick, Base, HeldType
<1>2. CASE sup.state = "Healthy"
  <2>1. sup' = OnDisconnect(sup) /\ supervisorReady' = FALSE
    BY <1>2 DEF HealthTick
  <2>2. sup' \in SupervisorRecord /\ sup'.state = "RiskStopped" /\ Fit(sup') /\ sup'.pos = sup.pos
    BY <1>1, <2>1, Stopping
  <2>3. sup'.rec = Lost
    BY <2>2 DEF Fit
  <2> QED
    BY <1>1, <1>2, <2>1, <2>2, <2>3 DEF HealthTick
<1>3. CASE sup.state # "Healthy"
  BY <1>1, <1>3 DEF HealthTick, Fit
<1> QED
  BY <1>2, <1>3

LEMMA HealthTickBase == ASSUME Base, HealthTick PROVE Base'
<1>1. phase = "running" /\ (sup.state # "Synchronizing" => sup.pos = position)
  BY HealthTickIs, AtSelect
<1>2. ExchangeType' /\ FeedType' /\ HeldType'
  BY HealthTickIs DEF Base, ExchangeType, FeedType, HeldType, exchange, feed
<1>3. Placed'
  BY <1>1, HealthTickIs, SomeSymbols DEF Base, Placed, Listing, Reading
<1> QED
  BY <1>2, <1>3 DEF Base

LEMMA DeadlineBase == ASSUME Base, Deadline PROVE Base'
<1>1. phase = "running" /\ Fit(sup) /\ pc = "select"
  BY AtSelect DEF Deadline
<1>2. Fit(sup)'
  BY <1>1 DEF Fit, Deadline, held
<1>3. ExchangeType' /\ FeedType' /\ HeldType'
  BY DEF Deadline, Base, ExchangeType, FeedType, HeldType, exchange, feed, held
<1>4. Placed'
  BY <1>1, <1>2, SomeSymbols DEF Deadline, Base, Placed, Listing, Reading, held, exchange
<1> QED
  BY <1>3, <1>4 DEF Base

LEMMA SelectBase == ASSUME Base, Select PROVE Base'
  BY MarketEventBase, OutOfOrderBase, AccountEventBase, OrderEventBase, StopEventBase,
     HealthTickBase, DeadlineBase
  DEF Select

LEMMA RestartBase == ASSUME Base, Restart PROVE Base'
<1>1. phase = "startup" /\ Blank
  BY DEF Restart, Base, Placed, Reading, Listing
<1>2. ExchangeType' /\ FeedType' /\ HeldType'
  BY DEF Restart, Base, ExchangeType, FeedType, HeldType, exchange, feed, held
<1>3. Placed'
  BY <1>1, BoundsAssumption
  DEF Restart, Base, Placed, Blank, Reading, Listing, feed, held, exchange
<1> QED
  BY <1>2, <1>3 DEF Base

LEMMA NextBase == ASSUME Base, [Next]_vars PROVE Base'
<1>1. CASE Task
  BY <1>1, TaskBase
<1>2. CASE Select
  BY <1>2, SelectBase
<1>3. CASE Exchange
  BY <1>3, FillBase, ExpireBase DEF Exchange
<1>4. CASE Stream
  BY <1>4, StreamBase
<1>5. CASE Crash
  BY <1>5, EndsBase DEF Crash
<1>6. CASE Restart
  BY <1>6, RestartBase
<1>7. CASE UNCHANGED vars
  <2>1. ExchangeType' /\ FeedType' /\ HeldType'
    BY <1>7 DEF vars, Base, ExchangeType, FeedType, HeldType, exchange, feed, held
  <2>2. Placed'
    BY <1>7, TaskRests DEF vars, feed, exchange, Base, Placed
  <2> QED
    BY <2>1, <2>2 DEF Base
<1> QED
  BY <1>1, <1>2, <1>3, <1>4, <1>5, <1>6, <1>7 DEF Next

LEMMA BaseHolds == Spec => []Base
  BY InitBase, NextBase, PTL DEF Spec
-----------------------------------------------------------------------------
(* What follows from Base.                                                 *)

\* Every variable of the live session has its type: run() of
\* bin/anchorbell_live.rs and the exchange it talks to, in any session.
THEOREM TypeCorrect == Spec => []TypeOK
<1>1. ASSUME Base PROVE TypeOK
  <2>1. \A i \in DOMAIN queue :
          \/ queue[i] \in {ListenKeyExpired, RecoveryRequired}
          \/ queue[i].kind = "order" /\ queue[i] = OrderUpdate(queue[i].symbol, queue[i].at)
          \/ queue[i].kind = "account"
             /\ queue[i] = AccountUpdate(queue[i].symbol, queue[i].position, queue[i].at)
    <3> TAKE i \in DOMAIN queue
    <3>1. queue[i] \in Event
      BY <1>1, ElementOfSeq DEF Base, FeedType
    <3> QED
      BY <3>1 DEF Event, AccountUpdates, OrderUpdates, AccountUpdate, OrderUpdate
  <2>2. /\ pc \in {"readOrders", "readPositions", "select", "sweep", "trade", "exit",
                   "closing", "ended"}
        /\ phase \in {"startup", "running", "recovery", "final"}
        /\ todo \in Seq(Symbols)
        /\ outcome \in {"running", "failed", "rejected", "residual", "completed"}
        /\ faults \in 0..MaxFaults /\ sessions \in 1..MaxSessions
    BY <1>1 DEF Base, Placed, Reading, Listing
  <2> QED
    BY <1>1, <2>1, <2>2 DEF TypeOK, Base, ExchangeType, FeedType, HeldType
<1> QED
  BY <1>1, BaseHolds, PTL

\* No event, tick, fault or snapshot, in whatever order, makes a call of the
\* runner to its supervisor answer Err, nor a decision a halt that ends the
\* run: the `?` and the bail! of run() around on_reconnect, mark_snapshot_loaded,
\* reconciliation_clean, confirm_flattened, apply_user_event and evaluate.
THEOREM NoCallIsRejected == Spec => []NoProtocolError
<1>1. Base => NoProtocolError
  BY DEF Base, Placed, NoProtocolError
<1> QED
  BY <1>1, BaseHolds, PTL
-----------------------------------------------------------------------------
(* New risk needs evidence.                                                *)

EntriesKept == \A o \in orders' : ~o.reduceOnly => \E q \in orders : q.id = o.id /\ ~q.reduceOnly

\* Orders that only go leave no new entry; an exit that comes is no entry.
LEMMA FillKeeps == ASSUME Base, NEW o \in orders, Fill(o) PROVE EntriesKept
<1>1. PICK n \in 1..Reducible(o) :
        orders' = orders \ {o} \/ orders' = (orders \ {o}) \cup {[o EXCEPT !.quantity = @ - n]}
  BY DEF Fill
<1>2. o \in Order
  BY DEF Base, ExchangeType
<1>3. LET r == [o EXCEPT !.quantity = @ - n] IN r.id = o.id /\ r.reduceOnly = o.reduceOnly
  BY <1>2 DEF Order
<1> QED
  BY <1>1, <1>3 DEF EntriesKept

LEMMA FewerKeep == orders' \subseteq orders => EntriesKept
  BY DEF EntriesKept

LEMMA EndsKeep == UNCHANGED exchange => EntriesKept
  BY FewerKeep DEF exchange

LEMMA CancelKeeps == CancelWorking => EntriesKept
  BY FewerKeep DEF CancelWorking, Cancelled, exchange

LEMMA PlaceExitKeeps == ASSUME Base, PlaceExit PROVE EntriesKept
<1>1. CASE UNCHANGED exchange
  BY <1>1, EndsKeep
<1>2. ASSUME NEW side, NEW quantity, Place(Head(todo), side, quantity, TRUE)
      PROVE  EntriesKept
  <2>1. \A o \in orders' : o \in orders \/ o.reduceOnly
    BY <1>2 DEF Place
  <2> QED
    BY <2>1 DEF EntriesKept
<1> QED
  BY <1>1, <1>2, PlaceExitIs

LEMMA StepKeeps == ASSUME Base, [Next]_vars, ~PlaceEntry PROVE EntriesKept
<1>1. CASE ReadOrders \/ StartupSnapshot \/ RecoverySnapshot \/ FinalSnapshot \/ Pass
  BY <1>1, EndsKeep DEF ReadOrders, StartupSnapshot, RecoverySnapshot, FinalSnapshot, Pass
<1>2. CASE Sweep \/ HaltQuote
  BY <1>2, CancelKeeps, HaltQuoteIs DEF Sweep
<1>3. CASE BeginExit
  BY <1>3, FewerKeep DEF BeginExit, Cancelled
<1>4. CASE PlaceExit
  BY <1>4, PlaceExitKeeps
<1>5. CASE Select
  <2>1. UNCHANGED exchange
    BY <1>5 DEF Select, MarketEvent, OutOfOrderEvent, AccountEvent, OrderEvent, ExpiredEvent,
                RecoveryNotice, HealthTick, Deadline, Turn
  <2> QED
    BY <2>1, EndsKeep
<1>6. CASE Exchange
  <2>1. \A o \in orders : Expire(o) => EntriesKept
    BY FewerKeep DEF Expire
  <2> QED
    BY <1>6, <2>1, FillKeeps DEF Exchange
<1>7. CASE Stream \/ Crash \/ Restart \/ UNCHANGED vars
  <2>1. UNCHANGED exchange
    BY <1>7 DEF Stream, StreamConnects, StreamDies, StreamEnds, ListenKeyExpires, RenewalFails,
                Reorder, Crash, Restart, vars
  <2> QED
    BY <2>1, EndsKeep
<1> QED
  BY <1>1, <1>2, <1>3, <1>4, <1>5, <1>6, <1>7 DEF Next, Task

\* Whatever stops and restarts a session, an order that is not reduce-only is
\* only submitted by a Healthy supervisor with an open recovery gate and, after
\* a stop, with an account snapshot of that recovery epoch: the trade part of
\* the event loop of run(), for any order of the events that lead to it.
THEOREM EntriesNeedASnapshot == Spec => EntryAfterSnapshot
<1> DEFINE Evidence == \A o \in NewOrders : ~o.reduceOnly =>
                          /\ sup.state = "Healthy" /\ ResumeGateOpen(sup.rec)
                          /\ sup.rec.begun => sup.rec.snapshot
<1>1. ASSUME Base, [Next]_vars PROVE Evidence
  <2>1. CASE PlaceEntry
    <3>1. CASE UNCHANGED exchange
      BY <3>1 DEF exchange, NewOrders
    <3>2. CASE pc = "trade" /\ sup.state = "Healthy"
      <4>1. sup.rec \in {NewRecovery, Resumed}
        BY <1>1, <3>2 DEF Base, Placed, Fit, Reading, Listing
      <4>2. ResumeGateOpen(sup.rec) /\ (sup.rec.begun => sup.rec.snapshot)
        BY <4>1 DEF NewRecovery, Resumed, ResumeGateOpen
      <4> QED
        BY <3>2, <4>2
    <3> QED
      BY <1>1, <2>1, <3>1, <3>2, PlaceEntryIs
  <2>2. CASE ~PlaceEntry
    BY <1>1, <2>2, StepKeeps DEF EntriesKept, NewOrders
  <2> QED
    BY <2>1, <2>2
<1> QED
  BY <1>1, BaseHolds, PTL DEF Spec, EntryAfterSnapshot
-----------------------------------------------------------------------------
(* The session implements TradingPermit.                                   *)

LEMMA NoNewEntries == EntriesKept => Promise!NoNewEntry
  BY DEF EntriesKept, Promise!NoNewEntry

\* The permit a session has, by the state of its supervisor.
LEMMA PermitIs ==
    /\ pc = "ended" => Permit = "withdrawn"
    /\ pc # "ended" =>
        /\ sup.state = "Synchronizing" /\ sup.rec.begun => Permit = "verifying"
        /\ sup.state = "Synchronizing" /\ ~sup.rec.begun => Permit = "unverified"
        /\ sup.state = "Healthy" => Permit = "granted"
        /\ sup.state = "RiskStopped" => Permit = "revoked"
        /\ sup.state = "Flattening" => Permit = "reducing"
  BY DEF Permit

LEMMA PermitIsNext ==
    /\ pc' = "ended" => Permit' = "withdrawn"
    /\ pc' # "ended" =>
        /\ sup'.state = "Synchronizing" /\ sup'.rec.begun => Permit' = "verifying"
        /\ sup'.state = "Synchronizing" /\ ~sup'.rec.begun => Permit' = "unverified"
        /\ sup'.state = "Healthy" => Permit' = "granted"
        /\ sup'.state = "RiskStopped" => Permit' = "revoked"
        /\ sup'.state = "Flattening" => Permit' = "reducing"
  BY DEF Permit

LEMMA InitPromise == Init => Promise!Init
<1> SUFFICES ASSUME Init PROVE Promise!Init
  OBVIOUS
<1>1. Permit = "unverified"
  BY DEF Init, Permit, NewSupervisor, NewRecovery
<1>2. {o.id : o \in {q \in orders : ~q.reduceOnly}} = {}
  BY DEF Init
<1>3. position = Flat
  BY DEF Init
<1> QED
  BY <1>1, <1>2, <1>3 DEF Promise!Init

\* A running session is not withdrawn.
LEMMA StillPermitted ==
    ASSUME Base, pc # "ended"
    PROVE  /\ Permit # "withdrawn"
           /\ sup.state \in {"Synchronizing", "Healthy", "RiskStopped", "Flattening"}
<1>1. Fit(sup) \/ Recovering(sup)
  BY NothingHeld DEF Base, Placed, Blank
<1>2. sup.state \in {"Synchronizing", "Healthy", "RiskStopped", "Flattening"}
  BY <1>1 DEF Fit, Recovering
<1>3. Permit # "withdrawn"
  BY <1>2 DEF Permit
<1> QED
  BY <1>2, <1>3

\* Steps that leave the permit alone, and steps that end the session.
LEMMA SamePermit ==
    ASSUME Base, EntriesKept, UNCHANGED sup, pc' = pc \/ (pc # "ended" /\ pc' # "ended")
    PROVE  Promise!Next
<1>1. Permit' = Permit
  <2>1. sup' = sup /\ (pc' = "ended" <=> pc = "ended")
    OBVIOUS
  <2> QED
    BY <2>1, PermitIs, PermitIsNext, StillPermitted
<1> QED
  BY <1>1, NoNewEntries DEF Promise!Next, Promise!Market

LEMMA EndsPermit ==
    ASSUME Base, NEW how, Ends(how), UNCHANGED exchange, pc # "ended"
    PROVE  Promise!Next
<1>1. Permit' = "withdrawn"
  BY PermitIsNext DEF Ends
<1> QED
  BY <1>1, NoNewEntries, EndsKeep, StillPermitted DEF Promise!Next, Promise!Withdraw

\* The turns of the loop, by what the event left for the turn.
LEMMA TurnedPermit ==
    ASSUME Base, pc = "select", EntriesKept, NEW s, NEW p, NEW w, NEW rest, NEW seen, Fit(s),
           Turned(s, p, w, rest, seen),
           \/ s.state = sup.state
           \/ sup.state = "Flattening" /\ s.state = "Healthy" /\ p = Flat
           \/ s.state = "RiskStopped"
    PROVE  Promise!Next
<1>1. Fit(sup) /\ Promise!NoNewEntry
  BY AtSelect, NoNewEntries
<1>2. pc' # "ended" /\ position' = p
  BY DEF Turned
<1>3. NewRecovery.begun = FALSE /\ Reconnected.begun = TRUE
  BY DEF NewRecovery, Reconnected
<1>4. Permit = CASE sup.state = "Synchronizing" -> "unverified"
                 [] sup.state = "Healthy"       -> "granted"
                 [] sup.state = "RiskStopped"   -> "revoked"
                 [] sup.state = "Flattening"    -> "reducing"
  BY <1>1, <1>3 DEF Permit, Fit
<1>5. CASE s.state = "RiskStopped" /\ Recovering(sup')
  <2>1. Permit' = "verifying"
    BY <1>2, <1>3, <1>5, PermitIsNext DEF Recovering
  <2>2. Permit \in {"unverified", "granted", "reducing", "revoked"}
    BY <1>1, <1>4 DEF Fit
  <2> QED
    BY <1>1, <2>1, <2>2 DEF Promise!Next, Promise!Revoke, Promise!Verify
<1>6. ASSUME Fit(sup'), \/ sup'.state = s.state
                        \/ s.state = "Synchronizing" /\ sup'.state = "Healthy"
      PROVE  Promise!Next
  <2>1. CASE s.state = sup.state
    <3>1. CASE sup'.state = "Synchronizing"
      <4>1. Permit' = "unverified" /\ Permit = "unverified"
        BY <1>2, <1>3, <1>4, <1>6, <2>1, <3>1, PermitIsNext DEF Fit
      <4> QED
        BY <1>1, <4>1 DEF Promise!Next, Promise!Market
    <3>2. CASE sup'.state = "Healthy" /\ s.state = "Synchronizing"
      <4>1. Permit' = "granted" /\ Permit = "unverified"
        BY <1>2, <1>4, <2>1, <3>2, PermitIsNext
      <4> QED
        BY <1>1, <4>1 DEF Promise!Next, Promise!Grant
    <3>3. CASE sup'.state = s.state /\ s.state # "Synchronizing"
      <4>1. Permit' = Permit
        BY <1>2, <1>4, <1>6, <2>1, <3>3, PermitIsNext DEF Fit
      <4> QED
        BY <1>1, <4>1 DEF Promise!Next, Promise!Market
    <3> QED
      BY <1>6, <3>1, <3>2, <3>3
  <2>2. CASE sup.state = "Flattening" /\ s.state = "Healthy" /\ p = Flat
    <3>1. Permit' = "granted" /\ Permit = "reducing" /\ position' = Flat
      BY <1>2, <1>4, <1>6, <2>2, PermitIsNext
    <3>2. (position = Flat)'
      BY <3>1 DEF Flat
    <3> QED
      BY <1>1, <3>1, <3>2 DEF Promise!Next, Promise!Flattened
  <2>3. CASE s.state = "RiskStopped"
    <3>1. Permit' = "revoked"
      BY <1>2, <1>6, <2>3, PermitIsNext
    <3>2. Permit \in {"unverified", "granted", "reducing", "revoked"}
      BY <1>1, <1>4 DEF Fit
    <3> QED
      BY <1>1, <3>1, <3>2 DEF Promise!Next, Promise!Revoke, Promise!Market
  <2> QED
    BY <2>1, <2>2, <2>3
<1> QED
  BY <1>5, <1>6 DEF Turned
\* The steps of the select.
LEMMA SelectPermit == ASSUME Base, Select PROVE Promise!Next
<1>1. EntriesKept
  <2>1. UNCHANGED exchange
    BY DEF Select, MarketEvent, OutOfOrderEvent, AccountEvent, OrderEvent, ExpiredEvent,
           RecoveryNotice, HealthTick, Deadline, Turn
  <2> QED
    BY <2>1, EndsKeep
<1>2. CASE MarketEvent
  <2>1. pc = "select" /\ Turned(sup, position, working, queue, lastUser)
    BY <1>2, MarketEventTurns
  <2> QED
    BY <1>1, <2>1, AtSelect, TurnedPermit
<1>3. CASE AccountEvent
  <2>1. PICK s, p, seen :
        /\ s \in SupervisorRecord
        /\ Turned(s, p, working, Tail(queue), seen) /\ Fit(s)
        /\ \/ s.state = sup.state
           \/ sup.state = "Flattening" /\ s.state = "Healthy" /\ p = Flat
    BY <1>3, AccountEventTurns
  <2>2. pc = "select"
    BY <1>3 DEF AccountEvent, NextIs
  <2> QED
    BY <1>1, <2>1, <2>2, TurnedPermit
<1>4. CASE OrderEvent
  <2>1. PICK s, w, seen :
        /\ s \in SupervisorRecord
        /\ Turned(s, position, w, Tail(queue), seen) /\ Fit(s)
        /\ \/ s.state = sup.state
           \/ sup.state = "Flattening" /\ s.state = "Healthy" /\ position = Flat
    BY <1>4, OrderEventTurns
  <2>2. pc = "select"
    BY <1>4 DEF OrderEvent, NextIs
  <2> QED
    BY <1>1, <2>1, <2>2, TurnedPermit
<1>5. CASE ExpiredEvent \/ RecoveryNotice
  <2>1. pc = "select" /\ \E s \in SupervisorRecord :
           /\ Turned(s, position, working, Tail(queue), lastUser) /\ Fit(s)
           /\ s.state = "RiskStopped"
    BY <1>5, StopEventTurns
  <2> QED
    BY <1>1, <2>1, TurnedPermit
<1>6. CASE HealthTick
  <2>1. pc = "select" /\ pc' = "sweep" /\ Fit(sup) /\ Promise!NoNewEntry
    BY <1>1, <1>6, HealthTickIs, AtSelect, NoNewEntries
  <2>2. CASE sup.state = "Healthy"
    <3>1. Permit = "granted" /\ Permit' = "revoked"
      BY <1>6, <2>1, <2>2, HealthTickIs, PermitIs, PermitIsNext
    <3> QED
      BY <2>1, <3>1 DEF Promise!Next, Promise!Revoke
  <2>3. CASE sup.state # "Healthy"
    <3>1. sup'.state = sup.state /\ sup'.rec = sup.rec
      BY <1>6, <2>3, HealthTickIs
    <3>2. Permit' = Permit
      BY <2>1, <3>1, PermitIs, PermitIsNext, StillPermitted
    <3> QED
      BY <2>1, <3>2 DEF Promise!Next, Promise!Market
  <2> QED
    BY <2>2, <2>3
<1>7. CASE OutOfOrderEvent \/ Deadline
  <2>1. UNCHANGED sup /\ pc = "select" /\ pc' # "ended"
    BY <1>7 DEF OutOfOrderEvent, Deadline, flow, held
  <2> QED
    BY <1>1, <2>1, SamePermit
<1> QED
  BY <1>2, <1>3, <1>4, <1>5, <1>6, <1>7 DEF Select

\* Cancelling the working order of the next symbol.
LEMMA CancelPermit == ASSUME Base, pc \in Listing, CancelWorking PROVE Promise!Next
<1>1. pc # "ended"
  BY DEF Listing
<1>2. CASE Ends("failed") /\ UNCHANGED exchange
  BY <1>1, <1>2, EndsPermit
<1>3. CASE NextSymbol /\ UNCHANGED sup
  <2>1. pc' # "ended"
    BY <1>1, <1>3 DEF NextSymbol
  <2> QED
    BY <1>1, <1>3, <2>1, CancelKeeps, SamePermit
<1> QED
  BY <1>2, <1>3 DEF CancelWorking, held

\* The steps of the task outside the select.
LEMMA TaskPermit == ASSUME Base, Task PROVE Promise!Next
<1>1. CASE ReadOrders \/ Pass
  <2>1. EntriesKept /\ UNCHANGED sup /\ pc # "ended" /\ pc' # "ended"
    BY <1>1, EndsKeep DEF ReadOrders, Pass, NextSymbol, held
  <2> QED
    BY <2>1, SamePermit
<1>2. CASE StartupSnapshot
  <2>1. pc # "ended" /\ UNCHANGED exchange
    BY <1>2 DEF StartupSnapshot
  <2>2. CASE Ambiguous
    BY <1>2, <2>1, <2>2, EndsPermit DEF StartupSnapshot
  <2>3. CASE ~Ambiguous
    <3>1. UNCHANGED sup /\ pc' = "select"
      BY <1>2, <2>3 DEF StartupSnapshot
    <3> QED
      BY <2>1, <3>1, EndsKeep, SamePermit
  <2> QED
    BY <2>2, <2>3
<1>3. CASE RecoverySnapshot
  <2>1. pc # "ended" /\ UNCHANGED exchange
    BY <1>3 DEF RecoverySnapshot
  <2>2. CASE Ambiguous
    BY <1>3, <2>1, <2>2, EndsPermit DEF RecoverySnapshot
  <2>3. CASE ~Ambiguous
    <3>1. Recovering(sup)
      BY <1>3, <2>3, RecoverySnapshotIs DEF Base, Placed
    <3>2. Permit = "verifying"
      BY <2>1, <3>1, PermitIs DEF Recovering, Reconnected
    <3>3. Permit' = "granted"
      BY <1>3, <2>3, RecoverySnapshotIs, PermitIsNext
    <3> QED
      BY <2>1, <3>2, <3>3, EndsKeep, NoNewEntries DEF Promise!Next, Promise!Grant
  <2> QED
    BY <2>2, <2>3
<1>4. CASE FinalSnapshot
  BY <1>4, EndsPermit DEF FinalSnapshot
<1>5. CASE Sweep
  BY <1>5, CancelPermit DEF Sweep, Listing
<1>6. CASE HaltQuote
  BY <1>6, HaltQuoteIs, CancelPermit DEF Listing
<1>7. CASE PlaceEntry
  <2>1. pc = "trade"
    BY <1>7 DEF PlaceEntry
  <2>2. CASE Ends("failed") /\ UNCHANGED <<exchange, faults, sessions>>
    BY <2>1, <2>2, EndsPermit
  <2>3. CASE sup.state = "Healthy" /\ NextSymbol /\ UNCHANGED sup
    <3>1. Permit = "granted" /\ pc' # "ended" /\ sup'.state = "Healthy"
      BY <2>1, <2>3, PermitIs DEF NextSymbol
    <3>2. Permit' = "granted"
      BY <3>1, PermitIsNext
    <3> QED
      BY <3>1, <3>2 DEF Promise!Next, Promise!Enter
  <2> QED
    BY <1>7, <2>2, <2>3, PlaceEntryIs
<1>8. CASE PlaceExit
  <2>1. pc = "exit"
    BY <1>8 DEF PlaceExit
  <2>2. CASE Ends("failed") /\ UNCHANGED <<exchange, faults, sessions>>
    BY <2>1, <2>2, EndsPermit
  <2>3. CASE NextSymbol /\ UNCHANGED sup
    <3>1. pc' # "ended"
      BY <2>1, <2>3 DEF NextSymbol
    <3> QED
      BY <1>8, <2>1, <2>3, <3>1, PlaceExitKeeps, SamePermit
  <2> QED
    BY <1>8, <2>2, <2>3, PlaceExitIs
<1>9. CASE BeginExit
  <2>1. PICK side \in {"Buy", "Sell"}, gate \in Gates :
        Evaluate(sup, Head(todo), EntryIntent(side), gate) = Decision("Flatten", "FundingWindow")
    BY <1>9 DEF BeginExit, Decides
  <2>2. sup.state = "Healthy" /\ sup.pos[Head(todo)] # 0
    BY <2>1 DEF Evaluate, MayNotTrade, Decision
  <2>3. pc = "trade" /\ sup' = BeginFlatten(sup) /\ pc' = "exit" /\ EntriesKept
    BY <1>9, FewerKeep DEF BeginExit, Cancelled
  <2>4. position # Flat
    <3>1. Head(todo) \in Symbols /\ sup.pos = position
      BY <2>2, <2>3, TodoFields DEF Listing, Base, Placed
    <3> QED
      BY <2>2, <3>1 DEF Flat
  <2>5. sup'.state = "Flattening"
    BY <2>2, <2>3 DEF BeginFlatten, BeginFlattenOk, Base, HeldType, SupervisorRecord
  <2>6. Permit = "granted" /\ Permit' = "reducing"
    BY <2>2, <2>3, <2>5, PermitIs, PermitIsNext
  <2> QED
    BY <2>3, <2>4, <2>6, NoNewEntries DEF Promise!Next, Promise!Reduce
<1> QED
  BY <1>1, <1>2, <1>3, <1>4, <1>5, <1>6, <1>7, <1>8, <1>9 DEF Task

LEMMA NextPermit == ASSUME Base, Next PROVE Promise!Next
<1>1. CASE Task
  BY <1>1, TaskPermit
<1>2. CASE Select
  BY <1>2, SelectPermit
<1>3. CASE Exchange
  <2>1. UNCHANGED <<flow, held>> /\ EntriesKept
    <3>1. \A o \in orders : Expire(o) => UNCHANGED <<flow, held>> /\ EntriesKept
      BY FewerKeep DEF Expire
    <3>2. \A o \in orders : Fill(o) => UNCHANGED <<flow, held>>
      BY DEF Fill
    <3> QED
      BY <1>3, <3>1, <3>2, FillKeeps DEF Exchange
  <2> QED
    BY <2>1, SamePermit DEF flow, held
<1>4. CASE Stream
  <2>1. UNCHANGED <<flow, held, exchange>>
    BY <1>4 DEF Stream, StreamConnects, StreamDies, StreamEnds, ListenKeyExpires, RenewalFails,
                Reorder
  <2> QED
    BY <2>1, EndsKeep, SamePermit DEF flow, held
<1>5. CASE Crash
  BY <1>5, EndsPermit DEF Crash
<1>6. CASE Restart
  <2>1. pc = "ended" /\ pc' = "readOrders" /\ sup' = NewSupervisor /\ UNCHANGED exchange
    BY <1>6 DEF Restart, held, Base, Placed, Blank, Reading, Listing
  <2>2. Permit = "withdrawn"
    BY <2>1, PermitIs
  <2>3. Permit' = "unverified"
    BY <2>1, PermitIsNext DEF NewSupervisor, NewRecovery
  <2> QED
    BY <2>1, <2>2, <2>3, EndsKeep, NoNewEntries DEF Promise!Next, Promise!NewSession
<1> QED
  BY <1>1, <1>2, <1>3, <1>4, <1>5, <1>6 DEF Next

\* The live session implements TradingPermit, the contract of run() about new
\* risk: an entry needs a granted permit, every stop revokes it, and only a
\* verification or a completed flatten grants it again.
THEOREM SessionImplementsPermit == Spec => ImplementsPermit
<1>1. Init => Promise!Init
  BY InitPromise
<1>2. ASSUME Base, [Next]_vars PROVE [Promise!Next]_(Promise!vars)
  <2>1. CASE Next
    BY <1>2, <2>1, NextPermit
  <2>2. CASE UNCHANGED vars
    <3>1. EntriesKept /\ UNCHANGED <<flow, held>>
      BY <2>2, EndsKeep DEF vars
    <3> QED
      BY <1>2, <3>1, SamePermit DEF flow, held
  <2> QED
    BY <1>2, <2>1, <2>2
<1> QED
  BY <1>1, <1>2, BaseHolds, PTL DEF Spec, ImplementsPermit, Promise!Spec
-----------------------------------------------------------------------------
(* The runner's view of the account.                                       *)

\* What ViewInv says of one symbol.
Sound(s) ==
    /\ Waiting(s) \/ position[s] = remote[s]
    /\ \A i \in DOMAIN queue : LastOf(s, i) => queue[i].position = remote[s] \/ Doomed(i)

\* Events come at the end of the channel, none of them about the position of s.
LEMMA AppendSound ==
    ASSUME FeedType, NEW events \in Seq(Event), queue' = queue \o events, UNCHANGED lastUser,
           NEW s \in Symbols, position'[s] = position[s], remote'[s] = remote[s], Sound(s),
           \A i \in 1..Len(events) : ~(events[i].kind = "account" /\ events[i].symbol = s)
    PROVE  Sound(s)'
<1>1. /\ Len(queue) \in Nat /\ DOMAIN queue = 1..Len(queue)
      /\ Len(events) \in Nat
      /\ DOMAIN queue' = 1..(Len(queue) + Len(events))
      /\ \A i \in 1..Len(queue) : queue'[i] = queue[i]
      /\ \A i \in Len(queue) + 1 .. Len(queue) + Len(events) :
            queue'[i] = events[i - Len(queue)]
  BY ConcatProperties, LenProperties DEF FeedType
<1>2. \A i \in DOMAIN queue' : queue'[i].kind = "account" /\ queue'[i].symbol = s
                               => i \in DOMAIN queue
  <2> SUFFICES ASSUME NEW i \in DOMAIN queue', ~(i \in 1..Len(queue))
               PROVE  ~(queue'[i].kind = "account" /\ queue'[i].symbol = s)
    BY <1>1
  <2>1. i \in Len(queue) + 1 .. Len(queue) + Len(events) /\ i - Len(queue) \in 1..Len(events)
    BY <1>1
  <2> QED
    BY <1>1, <2>1
<1>3. \A i \in DOMAIN queue : i \in DOMAIN queue' /\ queue'[i] = queue[i]
  BY <1>1
<1>4. Waiting(s)' \/ position'[s] = remote'[s]
  BY <1>3 DEF Sound, Waiting
<1>5. ASSUME NEW i \in DOMAIN queue', LastOf(s, i)'
      PROVE  queue'[i].position = remote'[s] \/ Doomed(i)'
  <2>1. i \in DOMAIN queue /\ LastOf(s, i)
    BY <1>2, <1>3, <1>5 DEF LastOf
  <2>2. CASE queue[i].position = remote[s]
    BY <1>3, <2>1, <2>2
  <2>3. CASE Doomed(i)
    BY <1>3, <2>1, <2>3 DEF Doomed, IsUserEvent
  <2> QED
    BY <2>1, <2>2, <2>3 DEF Sound
<1> QED
  BY <1>4, <1>5 DEF Sound

LEMMA SameSound ==
    ASSUME UNCHANGED <<queue, lastUser>>, NEW s, position'[s] = position[s],
           remote'[s] = remote[s], Sound(s)
    PROVE  Sound(s)'
  BY DEF Sound, Waiting, LastOf, Doomed, IsUserEvent

\* The head of the channel goes: if it is about the position of s, it is applied
\* in order or is not the last word on it.
LEMMA PopSound ==
    ASSUME Base, queue # <<>>, queue' = Tail(queue), NEW s \in Symbols, Sound(s),
           lastUser' \in Nat, lastUser' >= lastUser, remote' = remote,
           IsUserEvent(Head(queue)) => Head(queue).at <= lastUser',
           \/ /\ ~(Head(queue).kind = "account" /\ Head(queue).symbol = s)
              /\ position'[s] = position[s]
           \/ /\ Head(queue).kind = "account" /\ Head(queue).symbol = s
              /\ \/ Head(queue).at >= lastUser /\ position'[s] = Head(queue).position
                 \/ ~LastOf(s, 1)
    PROVE  Sound(s)'
<1> DEFINE e == Head(queue)
           n == Len(queue')
<1>1. /\ e \in Event /\ e = queue[1] /\ n \in Nat /\ Len(queue) = n + 1
      /\ DOMAIN queue = 1..(n + 1) /\ DOMAIN queue' = 1..n
      /\ \A i \in 1..n : queue'[i] = queue[i + 1]
      /\ lastUser \in Nat
  BY HeadOfQueue, LenProperties DEF Base, FeedType, HeldType
<1>2. \A i \in 1..n + 1 : queue[i] \in Event
  BY <1>1, ElementOfSeq DEF Base, FeedType
<1>3. \A i \in 1..n + 1 : queue[i].at \in Nat
  BY <1>2, EventFields
<1> HIDE DEF e, n
<1>4. \A i \in 1..n : i + 1 \in 1..n + 1 /\ i + 1 > 1
  BY <1>1
<1>5. \A i \in 1..n : Doomed(i + 1) => Doomed(i)'
  <2> SUFFICES ASSUME NEW i \in 1..n, Doomed(i + 1) PROVE Doomed(i)'
    OBVIOUS
  <2>1. queue'[i] = queue[i + 1] /\ queue[i + 1].at \in Nat
    BY <1>1, <1>3, <1>4
  <2>2. CASE queue[i + 1].at < lastUser
    BY <1>1, <2>1, <2>2 DEF Doomed
  <2>3. ASSUME NEW j \in 1..n + 1, j < i + 1, IsUserEvent(queue[j]), queue[i + 1].at < queue[j].at
        PROVE  Doomed(i)'
    <3>1. CASE j = 1
      <4>1. queue[j].at <= lastUser' /\ queue[j].at \in Nat
        BY <1>1, <1>3, <2>3, <3>1 DEF e
      <4>2. queue[i + 1].at < lastUser'
        <5>1. \A a, b, c \in Nat : a < b /\ b <= c => a < c
          OBVIOUS
        <5> QED
          BY <2>1, <2>3, <4>1, <5>1
      <4>3. queue'[i].at < lastUser'
        BY <2>1, <4>2
      <4> QED
        BY <4>3 DEF Doomed
    <3>2. CASE j # 1
      <4>1. j - 1 \in 1..n /\ j - 1 < i /\ queue'[j - 1] = queue[j]
        <5>1. j - 1 \in 1..n /\ j - 1 < i /\ (j - 1) + 1 = j
          BY <1>1, <2>3, <3>2
        <5> QED
          BY <1>1, <5>1
      <4> QED
        BY <1>1, <2>1, <2>3, <4>1 DEF Doomed, IsUserEvent
    <3> QED
      BY <3>1, <3>2
  <2> QED
    BY <1>1, <2>2, <2>3 DEF Doomed
<1>6. \A i \in 1..n : LastOf(s, i)' => LastOf(s, i + 1)
  <2> SUFFICES ASSUME NEW i \in 1..n, LastOf(s, i)' PROVE LastOf(s, i + 1)
    OBVIOUS
  <2>1. queue'[i] = queue[i + 1] /\ i + 1 \in DOMAIN queue
    BY <1>1, <1>4
  <2>2. ASSUME NEW j \in DOMAIN queue, j > i + 1
        PROVE  ~(queue[j].kind = "account" /\ queue[j].symbol = s)
    <3>1. j - 1 \in 1..n /\ j - 1 > i /\ (j - 1) + 1 = j
      BY <1>1, <2>2
    <3>2. queue'[j - 1] = queue[j]
      BY <1>1, <3>1
    <3> QED
      BY <1>1, <3>1, <3>2 DEF LastOf
  <2> QED
    BY <2>1, <2>2 DEF LastOf
<1>7. ASSUME NEW i \in DOMAIN queue', LastOf(s, i)'
      PROVE  queue'[i].position = remote'[s] \/ Doomed(i)'
  <2>1. i \in 1..n /\ i + 1 \in DOMAIN queue /\ LastOf(s, i + 1) /\ queue'[i] = queue[i + 1]
    BY <1>1, <1>4, <1>6, <1>7
  <2>2. queue[i + 1].position = remote[s] \/ Doomed(i + 1)
    BY <2>1 DEF Sound
  <2> QED
    BY <1>5, <2>1, <2>2
<1>8. Waiting(s)' \/ position'[s] = remote'[s]
  <2>1. ASSUME NEW i \in 1..n, queue[i + 1].kind = "account", queue[i + 1].symbol = s
        PROVE  Waiting(s)'
    BY <1>1, <2>1 DEF Waiting
  <2>2. ASSUME NEW i \in DOMAIN queue, i # 1, queue[i].kind = "account", queue[i].symbol = s
        PROVE  Waiting(s)'
    <3>1. i - 1 \in 1..n /\ (i - 1) + 1 = i
      BY <1>1, <2>2
    <3> QED
      BY <2>1, <2>2, <3>1
  <2>3. CASE ~(e.kind = "account" /\ e.symbol = s)
    <3>1. position'[s] = position[s]
      BY <2>3 DEF e
    <3>2. Waiting(s) => Waiting(s)'
      BY <1>1, <2>2, <2>3 DEF Waiting
    <3> QED
      BY <3>1, <3>2 DEF Sound
  <2>4. CASE e.kind = "account" /\ e.symbol = s
    <3>1. LastOf(s, 1) => e.at >= lastUser /\ position'[s] = e.position
      BY <2>4 DEF e
    <3>2. CASE LastOf(s, 1)
      <4>1. ~Doomed(1)
        <5>1. ~(queue[1].at < lastUser)
          BY <1>1, <1>3, <3>1, <3>2
        <5>2. \A j \in DOMAIN queue : ~(j < 1)
          BY <1>1
        <5> QED
          BY <5>1, <5>2 DEF Doomed
      <4>2. queue[1].position = remote[s]
        BY <1>1, <3>2, <4>1 DEF Sound, LastOf
      <4> QED
        BY <1>1, <3>1, <3>2, <4>2
    <3>3. CASE ~LastOf(s, 1)
      <4>1. PICK j \in DOMAIN queue : j > 1 /\ queue[j].kind = "account" /\ queue[j].symbol = s
        BY <1>1, <2>4, <3>3 DEF LastOf
      <4>2. j # 1
        BY <1>1, <4>1
      <4> QED
        BY <2>2, <4>1, <4>2
    <3> QED
      BY <3>2, <3>3
  <2> QED
    BY <2>3, <2>4
<1> QED
  BY <1>7, <1>8 DEF Sound
\* Events come at the end, one of them with the position the exchange now has.
LEMMA TellSound ==
    ASSUME FeedType, NEW events \in Seq(Event), queue' = queue \o events,
           NEW s \in Symbols, NEW k \in 1..Len(events),
           events[k].kind = "account", events[k].symbol = s, events[k].position = remote'[s],
           \A i \in 1..Len(events) : i # k => events[i].kind # "account"
    PROVE  Sound(s)'
<1> DEFINE n == Len(queue)
<1>1. /\ n \in Nat /\ Len(events) \in Nat
      /\ DOMAIN queue' = 1..(n + Len(events))
      /\ \A i \in n + 1 .. n + Len(events) : queue'[i] = events[i - n]
  BY ConcatProperties, LenProperties DEF FeedType
<1> HIDE DEF n
<1>2. n + k \in DOMAIN queue' /\ queue'[n + k] = events[k]
  <2>1. n + k \in n + 1 .. n + Len(events) /\ (n + k) - n = k
    BY <1>1
  <2> QED
    BY <1>1, <2>1
<1>3. Waiting(s)'
  BY <1>2 DEF Waiting
<1>4. ASSUME NEW i \in DOMAIN queue', LastOf(s, i)' PROVE queue'[i].position = remote'[s]
  <2>1. queue'[i].kind = "account"
    BY <1>4 DEF LastOf
  <2>2. ~(n + k > i)
    BY <1>2, <1>4 DEF LastOf
  <2>3. i \in n + 1 .. n + Len(events) /\ i - n \in 1..Len(events)
    BY <1>1, <2>2
  <2>4. i - n = k
    BY <1>1, <2>1, <2>3
  <2> QED
    BY <1>1, <2>3, <2>4
<1> QED
  BY <1>3, <1>4 DEF Sound

\* A swap of the last two user events leaves the older one doomed.
LEMMA ReorderSound ==
    ASSUME Base, Reorder, NEW s \in Symbols, Sound(s)
    PROVE  Sound(s)'
<1> DEFINE m == Len(queue) - 1
<1>1. /\ Len(queue) \in Nat /\ Len(queue) >= 2 /\ DOMAIN queue = 1..Len(queue)
      /\ queue \in Seq(Event)
  BY LenProperties DEF Reorder, Base, FeedType
<1>2. m \in 1..Len(queue) /\ m + 1 \in 1..Len(queue) /\ Len(queue) = m + 1 /\ m \in Nat \ {0}
  BY <1>1
<1>3. /\ IsUserEvent(queue[m]) /\ IsUserEvent(queue[m + 1]) /\ queue[m].at < queue[m + 1].at
      /\ queue' = [queue EXCEPT ![m] = queue[m + 1], ![m + 1] = queue[m]]
      /\ UNCHANGED <<lastUser, position, remote>>
  BY DEF Reorder, held, exchange
<1> HIDE DEF m
<1>4. DOMAIN queue' = 1..m + 1 /\ DOMAIN queue = 1..m + 1
  BY <1>1, <1>2, <1>3
<1>5. queue'[m] = queue[m + 1] /\ queue'[m + 1] = queue[m]
  BY <1>1, <1>2, <1>3
<1>6. \A i \in 1..m + 1 : i < m => queue'[i] = queue[i]
  BY <1>1, <1>2, <1>3
<1>7. \A i \in 1..m + 1 : i < m \/ i = m \/ i = m + 1
  BY <1>2
<1>8. m < m + 1 /\ m \in 1..m + 1 /\ m + 1 \in 1..m + 1 /\ \A i \in 1..m + 1 : i < m => i # m + 1
  BY <1>2
<1>9. Waiting(s) => Waiting(s)'
  BY <1>4, <1>5, <1>6, <1>7, <1>8 DEF Waiting
<1>10. ASSUME NEW i \in 1..m + 1, LastOf(s, i)'
       PROVE  queue'[i].position = remote'[s] \/ Doomed(i)'
  <2>1. CASE i = m + 1
    <3>1. queue'[i].at < queue'[m].at /\ IsUserEvent(queue'[m]) /\ m < i
      BY <1>3, <1>5, <1>8, <2>1
    <3> QED
      BY <1>4, <1>8, <3>1 DEF Doomed
  <2>2. CASE i = m
    <3>1. queue[m + 1].kind = "account" /\ queue[m + 1].symbol = s
      BY <1>5, <1>10, <2>2 DEF LastOf
    <3>2. LastOf(s, m + 1)
      <4>1. \A j \in 1..m + 1 : ~(j > m + 1)
        BY <1>2
      <4> QED
        BY <1>4, <1>8, <3>1, <4>1 DEF LastOf
    <3>3. queue[m + 1].position = remote[s] \/ Doomed(m + 1)
      BY <1>4, <1>8, <3>2 DEF Sound
    <3>4. ASSUME Doomed(m + 1) PROVE Doomed(i)'
      <4>1. CASE queue[m + 1].at < lastUser
        BY <1>3, <1>5, <2>2, <4>1 DEF Doomed
      <4>2. ASSUME NEW j \in 1..m + 1, j < m + 1, IsUserEvent(queue[j]),
                   queue[m + 1].at < queue[j].at
            PROVE  Doomed(i)'
        <5>1. j # m
          <6>1. queue[m].at \in Nat /\ queue[m + 1].at \in Nat
            BY <1>1, <1>2, ElementOfSeq, EventFields
          <6> QED
            BY <1>3, <4>2, <6>1
        <5>2. j < m /\ queue'[j] = queue[j]
          BY <1>2, <1>6, <4>2, <5>1
        <5> QED
          BY <1>4, <1>5, <2>2, <4>2, <5>2 DEF Doomed
      <4> QED
        BY <1>4, <3>4, <4>1, <4>2 DEF Doomed
    <3> QED
      BY <1>3, <1>5, <2>2, <3>3, <3>4
  <2>3. CASE i < m
    <3>1. LastOf(s, i)
      <4>1. queue[i].kind = "account" /\ queue[i].symbol = s
        BY <1>6, <1>10, <2>3 DEF LastOf
      <4>2. ASSUME NEW j \in 1..m + 1, j > i PROVE ~(queue[j].kind = "account" /\ queue[j].symbol = s)
        <5>1. m > i /\ m + 1 > i
          BY <1>2, <2>3
        <5>2. ~(queue'[m].kind = "account" /\ queue'[m].symbol = s)
              /\ ~(queue'[m + 1].kind = "account" /\ queue'[m + 1].symbol = s)
          BY <1>4, <1>8, <1>10, <5>1 DEF LastOf
        <5>3. CASE j < m
          BY <1>4, <1>6, <1>10, <4>2, <5>3 DEF LastOf
        <5> QED
          BY <1>5, <1>7, <5>2, <5>3
      <4> QED
        BY <1>4, <4>1, <4>2 DEF LastOf
    <3>2. queue[i].position = remote[s] \/ Doomed(i)
      BY <1>4, <3>1 DEF Sound
    <3>3. ASSUME Doomed(i) PROVE Doomed(i)'
      <4>1. CASE queue[i].at < lastUser
        BY <1>3, <1>6, <2>3, <4>1 DEF Doomed
      <4>2. ASSUME NEW j \in 1..m + 1, j < i, IsUserEvent(queue[j]), queue[i].at < queue[j].at
            PROVE  Doomed(i)'
        <5>1. j < m
          BY <1>2, <2>3, <4>2
        <5> QED
          BY <1>4, <1>6, <2>3, <4>2, <5>1 DEF Doomed
      <4> QED
        BY <1>4, <3>3, <4>1, <4>2 DEF Doomed
    <3> QED
      BY <1>3, <1>6, <2>3, <3>2, <3>3
  <2> QED
    BY <1>7, <2>1, <2>2, <2>3
<1> QED
  BY <1>3, <1>4, <1>9, <1>10 DEF Sound
Viewed == pc # "ended" /\ phase # "startup"

LEMMA ViewIs == ViewInv <=> (Viewed => \A s \in Symbols \ lost : Sound(s))
  BY DEF ViewInv, Viewed, Sound

LEMMA ViewIsNext == ViewInv' <=> (Viewed' => \A s \in Symbols \ lost' : Sound(s)')
  BY DEF ViewInv, Viewed, Sound

\* Steps that touch neither the channel nor a position.
LEMMA ViewKept ==
    ASSUME ViewInv, UNCHANGED <<queue, lastUser, position, remote>>, lost \subseteq lost',
           Viewed' => Viewed
    PROVE  ViewInv'
<1>1. ASSUME Viewed', NEW s \in Symbols \ lost' PROVE Sound(s)'
  <2>1. Sound(s)
    BY <1>1, ViewIs
  <2> QED
    BY <2>1, SameSound
<1> QED
  BY <1>1, ViewIsNext

LEMMA ViewEnds == ASSUME NEW how, Ends(how) PROVE ViewInv'
  BY DEF Ends, ViewInv

\* Events that say nothing of a position.
LEMMA ViewAppend ==
    ASSUME Base, ViewInv, NEW events \in Seq(Event), queue' = queue \o events, lost' = lost,
           \A i \in 1..Len(events) : events[i].kind # "account",
           UNCHANGED <<lastUser, position, remote>>, Viewed' => Viewed
    PROVE  ViewInv'
<1>1. ASSUME Viewed', NEW s \in Symbols \ lost' PROVE Sound(s)'
  <2>1. Sound(s)
    BY <1>1, ViewIs
  <2> QED
    BY <2>1, AppendSound DEF Base
<1> QED
  BY <1>1, ViewIsNext

LEMMA ViewEmit ==
    ASSUME Base, ViewInv, NEW events \in Seq(Event), Emit(events),
           \A i \in 1..Len(events) : events[i].kind # "account",
           UNCHANGED <<lastUser, position, remote>>, Viewed' => Viewed
    PROVE  ViewInv'
<1>1. Reported(events) = {}
  <2>1. DOMAIN events = 1..Len(events)
    BY LenProperties
  <2> QED
    BY <2>1 DEF Reported
<1>2. CASE stream = "up"
  <2>1. queue' = queue \o events /\ lost' = lost
    BY <1>1, <1>2 DEF Emit
  <2> QED
    BY <2>1, ViewAppend
<1>3. CASE stream # "up"
  BY <1>3, ViewKept DEF Emit
<1> QED
  BY <1>2, <1>3

LEMMA FillView == ASSUME Base, ViewInv, NEW o \in orders, Fill(o) PROVE ViewInv'
<1>1. PICK n \in 1..Reducible(o), accountFirst \in BOOLEAN :
      LET p == remote[o.symbol] + Signed(o, n)
          account == AccountUpdate(o.symbol, p, clock')
          terminal == OrderUpdate(o.symbol, clock')
      IN  /\ clock' = clock + 1
          /\ remote' = [remote EXCEPT ![o.symbol] = p]
          /\ IF n = o.quantity
             THEN /\ orders' = orders \ {o}
                  /\ Emit(IF accountFirst THEN <<account, terminal>> ELSE <<terminal, account>>)
             ELSE /\ orders' = (orders \ {o}) \cup {[o EXCEPT !.quantity = @ - n]}
                  /\ accountFirst
                  /\ Emit(<<account>>)
          /\ UNCHANGED <<flow, held, stream, nextId, faults, sessions>>
  BY DEF Fill
<1> DEFINE p == remote[o.symbol] + Signed(o, n)
           account == AccountUpdate(o.symbol, p, clock')
           terminal == OrderUpdate(o.symbol, clock')
<1>2. /\ o \in Order /\ o.symbol \in Symbols /\ o.quantity \in Nat \ {0} /\ ExchangeType /\ FeedType
  BY OrderFields DEF Base, ExchangeType
<1>3. n \in Nat
  <2>1. Reducible(o) \in 0..o.quantity
    BY <1>2, ReducibleBound DEF ExchangeType
  <2> QED
    BY <1>2, <2>1
<1>4. p \in Int /\ clock' \in Nat \ {0} /\ remote' = [remote EXCEPT ![o.symbol] = p]
      /\ UNCHANGED <<flow, held>>
  BY <1>1, <1>2, <1>3 DEF ExchangeType, Signed
<1>5. /\ account \in Event /\ terminal \in Event
      /\ account.kind = "account" /\ account.symbol = o.symbol /\ account.position = p
      /\ terminal.kind # "account"
  BY <1>2, <1>4, EventFields DEF AccountUpdate, OrderUpdate
<1> DEFINE Tells(events, k) ==
             /\ Emit(events) /\ k \in 1..Len(events) /\ events[k] = account
             /\ \A i \in 1..Len(events) : i # k => events[i].kind # "account"
<1>6. PICK events \in Seq(Event), k \in Nat : Tells(events, k)
  <2> HIDE DEF account, terminal
  <2>1. CASE n # o.quantity
    <3> DEFINE q == <<account>>
    <3>1. Emit(q)
      BY <1>1, <2>1 DEF account
    <3>2. q \in Seq(Event) /\ Len(q) = 1 /\ q[1] = account
      BY <1>5
    <3> HIDE DEF q
    <3>3. Tells(q, 1)
      BY <3>1, <3>2
    <3> QED
      BY <3>2, <3>3
  <2>2. CASE n = o.quantity /\ accountFirst
    <3> DEFINE q == <<account, terminal>>
    <3>1. Emit(q)
      BY <1>1, <2>2 DEF account, terminal
    <3>2. q \in Seq(Event) /\ Len(q) = 2 /\ q[1] = account /\ q[2] = terminal
      BY <1>5
    <3> HIDE DEF q
    <3>3. Tells(q, 1)
      BY <1>5, <3>1, <3>2
    <3> QED
      BY <3>2, <3>3
  <2>3. CASE n = o.quantity /\ ~accountFirst
    <3> DEFINE q == <<terminal, account>>
    <3>1. Emit(q)
      BY <1>1, <2>3 DEF account, terminal
    <3>2. q \in Seq(Event) /\ Len(q) = 2 /\ q[1] = terminal /\ q[2] = account
      BY <1>5
    <3> HIDE DEF q
    <3>3. Tells(q, 2)
      BY <1>5, <3>1, <3>2
    <3> QED
      BY <3>2, <3>3
  <2> QED
    BY <2>1, <2>2, <2>3
<1>7. /\ remote'[o.symbol] = p
      /\ \A s \in Symbols : s # o.symbol => remote'[s] = remote[s]
      /\ events[k].kind = "account" /\ events[k].symbol = o.symbol /\ events[k].position = p
  BY <1>2, <1>4, <1>5, <1>6 DEF ExchangeType
<1> HIDE DEF account, terminal, p
<1>8. ASSUME Viewed', NEW s \in Symbols \ lost' PROVE Sound(s)'
  <2>1. Viewed /\ UNCHANGED <<position, lastUser>>
    BY <1>4, <1>8 DEF Viewed, flow, held
  <2>2. CASE stream = "up"
    <3>1. queue' = queue \o events /\ lost' = lost \ Reported(events)
      BY <1>6, <2>2 DEF Emit
    <3>2. ASSUME s # o.symbol PROVE s \notin lost
      <4>1. \A i \in DOMAIN events : events[i].kind = "account" => events[i].symbol = o.symbol
        BY <1>6, <1>7, LenProperties
      <4> QED
        BY <1>8, <3>1, <3>2, <4>1 DEF Reported
    <3>3. CASE s = o.symbol
      BY <1>2, <1>6, <1>7, <3>1, <3>3, TellSound
    <3>4. CASE s # o.symbol
      <4>1. \A i \in 1..Len(events) : ~(events[i].kind = "account" /\ events[i].symbol = s)
        BY <1>6, <1>7, <3>4
      <4>2. Sound(s)
        BY <1>8, <2>1, <3>2, <3>4, ViewIs
      <4> QED
        BY <1>2, <1>7, <2>1, <3>1, <3>4, <4>1, <4>2, AppendSound
    <3> QED
      BY <3>3, <3>4
  <2>3. CASE stream # "up"
    <3>1. UNCHANGED queue /\ lost \subseteq lost' /\ o.symbol \in lost'
      <4>1. /\ UNCHANGED queue
            /\ lost' = lost \cup Reported(events)
        BY <1>6, <2>1, <2>3 DEF Emit, Viewed
      <4>2. k \in DOMAIN events
        BY <1>6, LenProperties
      <4> QED
        BY <1>7, <4>1, <4>2 DEF Reported
    <3>2. Sound(s) /\ s # o.symbol
      BY <1>8, <2>1, <3>1, ViewIs
    <3> QED
      BY <1>7, <1>8, <2>1, <3>1, <3>2, SameSound
  <2> QED
    BY <2>2, <2>3
<1> QED
  BY <1>8, ViewIsNext

\* The updates of cancelled orders say nothing of a position.
LEMMA CancelledView ==
    ASSUME Base, ViewInv, NEW c \in SUBSET orders, Cancelled(c),
           UNCHANGED <<lastUser, position, remote>>, Viewed' => Viewed
    PROVE  ViewInv'
<1>1. Updates(c) \in Seq(Event) /\ Emit(Updates(c))
  BY UpdatesType DEF Cancelled
<1>2. \A i \in DOMAIN Updates(c) : Updates(c)[i].kind # "account"
  BY DEF Updates, OrderUpdate
<1>3. DOMAIN Updates(c) = 1..Len(Updates(c))
  BY <1>1, LenProperties
<1> QED
  BY <1>1, <1>2, <1>3, ViewEmit
\* A snapshot adopts the exchange's positions; what it settles is no longer lost,
\* unless an older update of the symbol still waits.
LEMMA AdoptView ==
    ASSUME Base, AdoptSnapshot, UNCHANGED <<queue, lastUser, remote>>,
           \A s \in Symbols \ lost : Waiting(s) => Sound(s)
    PROVE  ViewInv'
<1>1. ASSUME NEW s \in Symbols \ lost' PROVE Sound(s)'
  <2>1. position' = remote /\ lost' = {x \in lost : Waiting(x)}
    BY DEF AdoptSnapshot
  <2>2. position'[s] = remote'[s]
    BY <2>1
  <2>3. CASE ~Waiting(s)
    <3>1. \A i \in DOMAIN queue' : ~LastOf(s, i)'
      BY <2>3 DEF LastOf, Waiting
    <3> QED
      BY <2>2, <3>1 DEF Sound
  <2>4. CASE Waiting(s)
    <3>1. Sound(s)
      BY <1>1, <2>1, <2>4
    <3> QED
      BY <2>2, <3>1 DEF Sound, LastOf, Doomed, IsUserEvent
  <2> QED
    BY <2>3, <2>4
<1> QED
  BY <1>1, ViewIsNext

LEMMA StartupSnapshotView == ASSUME Base, StartupSnapshot PROVE ViewInv'
<1>1. CASE Ambiguous
  BY <1>1, ViewEnds DEF StartupSnapshot
<1>2. CASE ~Ambiguous
  <2>1. AdoptSnapshot /\ UNCHANGED <<queue, lastUser, remote>> /\ phase = "startup"
    BY <1>2 DEF StartupSnapshot, feed, exchange
  <2>2. queue = <<>>
    BY <2>1 DEF Base, Placed, Blank
  <2>3. \A s : ~Waiting(s)
    BY <2>2 DEF Waiting
  <2> QED
    BY <2>1, <2>3, AdoptView
<1> QED
  BY <1>1, <1>2

LEMMA RecoverySnapshotView == ASSUME Base, ViewInv, RecoverySnapshot PROVE ViewInv'
<1>1. CASE Ambiguous
  BY <1>1, ViewEnds DEF RecoverySnapshot
<1>2. CASE ~Ambiguous
  <2>1. AdoptSnapshot /\ UNCHANGED <<queue, lastUser, remote>>
    BY <1>2, RecoverySnapshotIs DEF feed, exchange
  <2>2. Viewed
    BY DEF RecoverySnapshot, Viewed
  <2> QED
    BY <2>1, <2>2, AdoptView, ViewIs
<1> QED
  BY <1>1, <1>2

LEMMA CancelWorkingView ==
    ASSUME Base, ViewInv, pc \in Listing, CancelWorking
    PROVE  ViewInv'
<1> DEFINE s == Head(todo)
           open == {o \in orders : o.id = working[s]}
<1>1. Viewed
  BY DEF Viewed, Listing, Base, Placed, Reading
<1>2. CASE working[s] = NoOrder
  BY <1>1, <1>2, ViewKept DEF CancelWorking, held, feed, exchange
<1>3. CASE working[s] # NoOrder /\ open = {}
  BY <1>3, ViewEnds DEF CancelWorking
<1>4. CASE working[s] # NoOrder /\ open # {}
  <2>1. Cancelled(open) /\ UNCHANGED <<lastUser, position, remote>> /\ open \in SUBSET orders
    BY <1>4 DEF CancelWorking
  <2> HIDE DEF open
  <2> QED
    BY <1>1, <2>1, CancelledView
<1> QED
  BY <1>2, <1>3, <1>4

LEMMA PlaceView ==
    ASSUME Base, ViewInv, pc \in Listing, UNCHANGED <<position, lastUser, feed, remote, lost>>
    PROVE  ViewInv'
<1>1. Viewed
  BY DEF Viewed, Listing, Base, Placed, Reading
<1> QED
  BY <1>1, ViewKept DEF feed

LEMMA TaskView == ASSUME Base, ViewInv, Task PROVE ViewInv'
<1>1. CASE ReadOrders
  BY <1>1, ViewKept DEF ReadOrders, Viewed, feed, exchange
<1>2. CASE StartupSnapshot
  BY <1>2, StartupSnapshotView
<1>3. CASE RecoverySnapshot
  BY <1>3, RecoverySnapshotView
<1>4. CASE FinalSnapshot
  BY <1>4, ViewEnds DEF FinalSnapshot
<1>5. CASE Sweep
  BY <1>5, CancelWorkingView DEF Sweep, Listing
<1>6. CASE HaltQuote
  BY <1>6, HaltQuoteIs, CancelWorkingView DEF Listing
<1>7. CASE Pass
  BY <1>7, PlaceView DEF Pass, Listing, held, feed, exchange
<1>8. CASE PlaceEntry
  BY <1>8, PlaceEntryIs, ViewEnds, PlaceView DEF Listing
<1>9. CASE PlaceExit
  BY <1>9, PlaceExitIs, ViewEnds, PlaceView DEF Listing
<1>10. CASE BeginExit
  <2>1. Cancelled(FlattenCancels(Head(todo))) /\ UNCHANGED <<lastUser, position, remote>> /\ Viewed
    BY <1>10 DEF BeginExit, Viewed, Listing, Base, Placed, Reading
  <2> QED
    BY <2>1, CancelledView DEF FlattenCancels
<1> QED
  BY <1>1, <1>2, <1>3, <1>4, <1>5, <1>6, <1>7, <1>8, <1>9, <1>10 DEF Task

\* A later report of the symbol waits behind the head of the channel.
LEMMA ReportedLater ==
    ASSUME Base, queue # <<>>, NEW s \in Reported(Tail(queue))
    PROVE  ~LastOf(s, 1)
<1>1. PICK i \in DOMAIN Tail(queue) : Tail(queue)[i].kind = "account" /\ Tail(queue)[i].symbol = s
  BY DEF Reported
<1>2. i + 1 \in DOMAIN queue /\ i + 1 > 1 /\ queue[i + 1] = Tail(queue)[i]
  BY LenProperties, HeadTailProperties DEF Base, FeedType
<1> QED
  BY <1>1, <1>2 DEF LastOf

\* The head of the channel is handled or skipped.
LEMMA PopView ==
    ASSUME Base, ViewInv, pc = "select", queue # <<>>, queue' = Tail(queue), remote' = remote,
           lost \subseteq lost', lastUser' \in Nat, lastUser' >= lastUser,
           IsUserEvent(Head(queue)) => Head(queue).at <= lastUser',
           \A s \in Symbols \ lost' :
              \/ /\ ~(Head(queue).kind = "account" /\ Head(queue).symbol = s)
                 /\ position'[s] = position[s]
              \/ /\ Head(queue).kind = "account" /\ Head(queue).symbol = s
                 /\ \/ Head(queue).at >= lastUser /\ position'[s] = Head(queue).position
                    \/ ~LastOf(s, 1)
    PROVE  ViewInv'
<1>1. Viewed
  BY AtSelect DEF Viewed
<1>2. ASSUME NEW s \in Symbols \ lost' PROVE Sound(s)'
  <2>1. Sound(s)
    BY <1>1, <1>2, ViewIs
  <2> QED
    BY <1>2, <2>1, PopSound
<1> QED
  BY <1>2, ViewIsNext

LEMMA SelectView == ASSUME Base, ViewInv, Select PROVE ViewInv'
<1> DEFINE e == Head(queue)
<1>0. pc = "select"
  BY DEF Select, MarketEvent, OutOfOrderEvent, AccountEvent, OrderEvent, ExpiredEvent,
         RecoveryNotice, HealthTick, Deadline, NextIs
<1>1. Viewed /\ lastUser \in Nat /\ position \in [Symbols -> Int]
  BY <1>0, AtSelect DEF Viewed, Base, HeldType
<1>2. ASSUME queue # <<>> PROVE e.at \in Nat /\ (e.kind = "expired" => e.at = 0)
                                /\ (e.kind \in {"account", "order"} => e.at > 0)
                                /\ (e.kind = "account" => e.symbol \in Symbols)
  BY <1>2, HeadOfQueue, EventFields
<1>3. CASE MarketEvent
  <2>1. Turned(sup, position, working, queue, lastUser)
    BY <1>3, MarketEventTurns
  <2> QED
    BY <1>1, <2>1, ViewKept DEF Turned, exchange
<1>4. CASE AccountEvent
  <2>1. queue # <<>> /\ e.kind = "account" /\ InOrder(e)
    BY <1>4 DEF AccountEvent, NextIs
  <2>2. PICK machine \in SupervisorRecord :
          Turned(machine, [position EXCEPT ![e.symbol] = e.position], working, Tail(queue),
                 Larger(lastUser, e.at))
    BY <1>4, AccountEventTurns
  <2>3. /\ queue' = Tail(queue) /\ remote' = remote /\ lost' = lost
        /\ position' = [position EXCEPT ![e.symbol] = e.position]
        /\ lastUser' = Larger(lastUser, e.at)
    BY <2>2 DEF Turned, exchange
  <2>4. e.at >= lastUser
    BY <1>1, <1>2, <2>1 DEF InOrder
  <2>5. lastUser' \in Nat /\ lastUser' >= lastUser /\ e.at <= lastUser'
    BY <1>1, <1>2, <2>1, <2>3, LargerNat
  <2>6. \A s \in Symbols : IF s = e.symbol THEN position'[s] = e.position
                                           ELSE position'[s] = position[s]
    BY <1>1, <2>3
  <2> QED
    BY <1>0, <2>1, <2>3, <2>4, <2>5, <2>6, PopView
<1>5. CASE OrderEvent
  <2>1. queue # <<>> /\ e.kind = "order"
    BY <1>5 DEF OrderEvent, NextIs
  <2>2. PICK machine \in SupervisorRecord :
          Turned(machine, position, [working EXCEPT ![e.symbol] = NoOrder], Tail(queue),
                 Larger(lastUser, e.at))
    BY <1>5, OrderEventTurns
  <2>3. /\ queue' = Tail(queue) /\ remote' = remote /\ lost' = lost /\ position' = position
        /\ lastUser' = Larger(lastUser, e.at)
    BY <2>2 DEF Turned, exchange
  <2>4. lastUser' \in Nat /\ lastUser' >= lastUser /\ e.at <= lastUser'
    BY <1>1, <1>2, <2>1, <2>3, LargerNat
  <2> QED
    BY <1>0, <2>1, <2>3, <2>4, PopView
<1>6. CASE ExpiredEvent \/ RecoveryNotice
  <2>1. queue # <<>> /\ e.kind \in {"expired", "recovery"}
    BY <1>6, StopEventTurns
  <2>2. PICK s \in SupervisorRecord : Turned(s, position, working, Tail(queue), lastUser)
    BY <1>6, StopEventTurns
  <2>3. /\ queue' = Tail(queue) /\ remote' = remote /\ lost' = lost /\ position' = position
        /\ lastUser' = lastUser
    BY <2>2 DEF Turned, exchange
  <2>4. IsUserEvent(e) => e.at <= lastUser'
    BY <1>1, <1>2, <2>1, <2>3 DEF IsUserEvent
  <2>5. lastUser' \in Nat /\ lastUser' >= lastUser
    BY <1>1, <2>3
  <2> QED
    BY <1>0, <2>1, <2>3, <2>4, <2>5, PopView
<1>7. CASE OutOfOrderEvent
  <2>1. /\ queue # <<>> /\ queue' = Tail(queue) /\ ~InOrder(e)
        /\ lost' = IF e.kind = "account" /\ e.symbol \notin Reported(Tail(queue))
                   THEN lost \cup {e.symbol} ELSE lost
        /\ UNCHANGED <<held, exchange>>
    BY <1>7 DEF OutOfOrderEvent
  <2>2. e.at < lastUser /\ lastUser' = lastUser /\ position' = position /\ remote' = remote
    BY <2>1 DEF InOrder, held, exchange
  <2>3. lastUser' \in Nat /\ lastUser' >= lastUser /\ e.at <= lastUser'
    BY <1>1, <1>2, <2>1, <2>2
  <2>4. ASSUME NEW s \in Symbols \ lost', e.kind = "account", e.symbol = s
        PROVE  ~LastOf(s, 1)
    BY <1>0, <2>1, <2>4, ReportedLater
  <2> QED
    BY <1>0, <2>1, <2>2, <2>3, <2>4, PopView
<1>8. CASE HealthTick \/ Deadline
  BY <1>1, <1>8, ViewKept DEF HealthTick, Deadline, held, feed, exchange
<1> QED
  BY <1>3, <1>4, <1>5, <1>6, <1>7, <1>8 DEF Select

LEMMA StreamView == ASSUME Base, ViewInv, Stream PROVE ViewInv'
<1>1. /\ UNCHANGED <<lastUser, position, remote, lost>> /\ (Viewed' => Viewed)
  BY DEF Stream, StreamConnects, StreamDies, StreamEnds, ListenKeyExpires, RenewalFails, Reorder,
         flow, held, exchange, Viewed
<1>2. CASE StreamConnects \/ StreamDies
  BY <1>1, <1>2, ViewKept DEF StreamConnects, StreamDies
<1>3. CASE StreamEnds \/ RenewalFails \/ ListenKeyExpires
  <2>1. \E events \in Seq(Event) :
           /\ queue' = queue \o events
           /\ \A i \in 1..Len(events) : events[i].kind # "account"
    <3>1. CASE StreamEnds \/ RenewalFails
      <4> DEFINE q == <<RecoveryRequired>>
      <4>1. queue' = queue \o q
        <5>1. queue \in Seq(Event) /\ queue' = Append(queue, RecoveryRequired)
          BY <3>1 DEF StreamEnds, RenewalFails, Base, FeedType
        <5> QED
          BY <5>1, EventFields, AppendIsConcat
      <4>2. q \in Seq(Event) /\ Len(q) = 1 /\ q[1].kind # "account"
        BY EventFields DEF RecoveryRequired
      <4> HIDE DEF q
      <4> QED
        BY <4>1, <4>2
    <3>2. CASE ListenKeyExpires
      <4> DEFINE q == <<ListenKeyExpired, RecoveryRequired>>
      <4>1. queue' = queue \o q
        BY <3>2 DEF ListenKeyExpires
      <4>2. q \in Seq(Event) /\ Len(q) = 2 /\ q[1].kind # "account" /\ q[2].kind # "account"
        BY EventFields DEF RecoveryRequired, ListenKeyExpired
      <4> HIDE DEF q
      <4> QED
        BY <4>1, <4>2
    <3> QED
      BY <1>3, <3>1, <3>2
  <2> QED
    BY <1>1, <2>1, ViewAppend
<1>4. CASE Reorder
  <2>1. ASSUME Viewed', NEW s \in Symbols \ lost' PROVE Sound(s)'
    <3>1. Sound(s)
      BY <1>1, <2>1, ViewIs
    <3> QED
      BY <1>4, <3>1, ReorderSound
  <2> QED
    BY <2>1, ViewIsNext
<1> QED
  BY <1>2, <1>3, <1>4 DEF Stream

LEMMA NextView == ASSUME Base, ViewInv, [Next]_vars PROVE ViewInv'
<1>1. CASE Task
  BY <1>1, TaskView
<1>2. CASE Select
  BY <1>2, SelectView
<1>3. CASE Exchange
  <2>1. ASSUME NEW o \in orders, Expire(o) PROVE ViewInv'
    <3> DEFINE q == <<OrderUpdate(o.symbol, clock')>>
    <3>1. o.symbol \in Symbols /\ clock' \in Nat \ {0} /\ Emit(q)
      BY <2>1, OrderFields DEF Base, ExchangeType, Expire
    <3>2. q \in Seq(Event) /\ Len(q) = 1 /\ q[1].kind # "account"
      BY <3>1, EventFields DEF OrderUpdate
    <3>3. UNCHANGED <<lastUser, position, remote>> /\ (Viewed' => Viewed)
      BY <2>1 DEF Expire, flow, held, Viewed
    <3> HIDE DEF q
    <3>4. \A i \in 1..Len(q) : q[i].kind # "account"
      BY <3>2
    <3> QED
      BY <3>1, <3>2, <3>3, <3>4, ViewEmit
  <2> QED
    BY <1>3, <2>1, FillView DEF Exchange
<1>4. CASE Stream
  BY <1>4, StreamView
<1>5. CASE Crash
  BY <1>5, ViewEnds DEF Crash
<1>6. CASE Restart
  <2>1. phase' = "startup"
    BY <1>6 DEF Restart, Base, Placed, Reading, Listing
  <2> QED
    BY <2>1 DEF ViewInv
<1>7. CASE UNCHANGED vars
  BY <1>7, ViewKept DEF vars, flow, held, feed, exchange, Viewed
<1> QED
  BY <1>1, <1>2, <1>3, <1>4, <1>5, <1>6, <1>7 DEF Next

LEMMA ViewHolds == Spec => []ViewInv
<1>1. Init => ViewInv
  BY DEF Init, ViewInv
<1> QED
  BY <1>1, NextView, BaseHolds, PTL DEF Spec

\* Outside a snapshot, and up to updates that wait or are known as lost, the
\* positions of run(), those its supervisor decides on and those of the exchange
\* are the same, through every interleaving of fills, user events, reorderings,
\* dead streams, recoveries and crashes.
THEOREM AccountsStayTrue == Spec => []AccountsAgree
<1>1. ASSUME Base, ViewInv, TypeOK PROVE AccountsAgree
  <2>1. ViewAgreement
    BY <1>1 DEF ViewInv, ViewAgreement
  <2>2. SupervisorMirrors
    BY <1>1 DEF Base, Placed, SupervisorMirrors
  <2> QED
    BY <1>1, <2>1, <2>2 DEF AccountsAgree
<1> QED
  BY <1>1, BaseHolds, ViewHolds, TypeCorrect, PTL
-----------------------------------------------------------------------------
(* One flatten order per symbol.                                           *)

LEMMA FewerExits ==
    ASSUME ExitInv, orders' \subseteq orders,
           pc' = "exit" => pc = "exit" /\ todo' = todo
    PROVE  ExitInv'
  BY DEF ExitInv, OneExitPerSymbol

LEMMA FillExits == ASSUME Base, ExitInv, NEW o \in orders, Fill(o) PROVE ExitInv'
<1>1. PICK n \in 1..Reducible(o) :
        /\ orders' = orders \ {o} \/ orders' = (orders \ {o}) \cup {[o EXCEPT !.quantity = @ - n]}
        /\ UNCHANGED flow
  BY DEF Fill
<1>2. CASE orders' = orders \ {o}
  BY <1>1, <1>2, FewerExits DEF flow
<1>3. CASE orders' = (orders \ {o}) \cup {[o EXCEPT !.quantity = @ - n]}
  <2> DEFINE r == [o EXCEPT !.quantity = @ - n]
  <2>1. r.symbol = o.symbol /\ r.reduceOnly = o.reduceOnly
    BY DEF Base, ExchangeType, Order
  <2>2. orders' = (orders \ {o}) \cup {r}
    BY <1>3
  <2> HIDE DEF r
  <2>3. OneExitPerSymbol'
    <3>1. ASSUME NEW x \in orders', x.reduceOnly
          PROVE  (x = r /\ o.reduceOnly) \/ (x # o /\ x \in orders)
      BY <2>1, <2>2, <3>1
    <3>2. \A x, y \in orders' : x.reduceOnly /\ y.reduceOnly /\ x.symbol = y.symbol => x = y
      BY <2>1, <3>1 DEF ExitInv, OneExitPerSymbol
    <3> QED
      BY <3>2 DEF OneExitPerSymbol
  <2>4. pc' = "exit" => \A q \in orders' : q.symbol # Head(todo')
    BY <1>1, <2>1, <2>2 DEF ExitInv, flow
  <2> QED
    BY <2>3, <2>4 DEF ExitInv
<1> QED
  BY <1>1, <1>2, <1>3

\* Orders that are placed, for the head of the list, leave the task outside an exit.
LEMMA PlaceExits ==
    ASSUME Base, ExitInv, pc \in {"trade", "exit"}, NextSymbol, NEW side, NEW quantity,
           NEW reduceOnly \in BOOLEAN, Place(Head(todo), side, quantity, reduceOnly),
           reduceOnly => pc = "exit"
    PROVE  ExitInv'
<1> DEFINE new == [id |-> nextId, symbol |-> Head(todo), side |-> side,
                   quantity |-> quantity, reduceOnly |-> reduceOnly]
<1>1. orders' = orders \cup {new} /\ pc' # "exit"
  BY DEF Place, NextSymbol
<1>2. new.symbol = Head(todo) /\ new.reduceOnly = reduceOnly
  OBVIOUS
<1> HIDE DEF new
<1>3. OneExitPerSymbol'
  <2>1. CASE reduceOnly
    <3>1. \A o \in orders : o.symbol # new.symbol
      BY <1>2, <2>1 DEF ExitInv
    <3> QED
      BY <1>1, <3>1 DEF ExitInv, OneExitPerSymbol
  <2>2. CASE ~reduceOnly
    BY <1>1, <1>2, <2>2 DEF ExitInv, OneExitPerSymbol
  <2> QED
    BY <2>1, <2>2
<1> QED
  BY <1>1, <1>3 DEF ExitInv

LEMMA EndsExits == ASSUME ExitInv, NEW how, Ends(how), UNCHANGED exchange PROVE ExitInv'
  BY FewerExits DEF Ends, exchange

LEMMA CancelWorkingExits == ASSUME ExitInv, CancelWorking PROVE ExitInv'
<1>1. CASE UNCHANGED exchange /\ Ends("failed")
  BY <1>1, EndsExits
<1>2. CASE NextSymbol /\ orders' \subseteq orders /\ pc' # "exit"
  BY <1>2, FewerExits
<1>3. NextSymbol => pc' # "exit" \/ pc = "exit"
  BY DEF NextSymbol
<1>4. NextSymbol => pc' # "exit"
  BY DEF NextSymbol
<1> QED
  BY <1>1, <1>2, <1>4 DEF CancelWorking, Cancelled, exchange

LEMMA TaskExits == ASSUME Base, ExitInv, Task PROVE ExitInv'
<1>1. CASE ReadOrders
  BY <1>1, FewerExits DEF ReadOrders, exchange
<1>2. CASE StartupSnapshot
  BY <1>2, EndsExits, FewerExits DEF StartupSnapshot, exchange
<1>3. CASE RecoverySnapshot
  BY <1>3, EndsExits, FewerExits DEF RecoverySnapshot, exchange
<1>4. CASE FinalSnapshot
  BY <1>4, EndsExits DEF FinalSnapshot
<1>5. CASE Sweep \/ HaltQuote
  BY <1>5, HaltQuoteIs, CancelWorkingExits DEF Sweep
<1>6. CASE Pass
  BY <1>6, FewerExits DEF Pass, NextSymbol, exchange
<1>7. CASE PlaceEntry
  <2>1. CASE Ends("failed") /\ UNCHANGED <<exchange, faults, sessions>>
    BY <2>1, EndsExits
  <2>2. ASSUME NEW side, NEW quantity, pc = "trade", NextSymbol,
               Place(Head(todo), side, quantity, FALSE)
        PROVE  ExitInv'
    BY <2>2, PlaceExits
  <2> QED
    BY <1>7, <2>1, <2>2, PlaceEntryIs
<1>8. CASE PlaceExit
  <2>1. CASE Ends("failed") /\ UNCHANGED <<exchange, faults, sessions>>
    BY <2>1, EndsExits
  <2>2. ASSUME NEW side, NEW quantity, pc = "exit", NextSymbol,
               Place(Head(todo), side, quantity, TRUE)
        PROVE  ExitInv'
    BY <2>2, PlaceExits
  <2> QED
    BY <1>8, <2>1, <2>2, PlaceExitIs
<1>9. CASE BeginExit
  <2>1. /\ pc' = "exit" /\ todo' = todo
        /\ orders' = orders \ {o \in orders : o.symbol = Head(todo)}
    BY <1>9 DEF BeginExit, Cancelled, FlattenCancels
  <2> QED
    BY <2>1 DEF ExitInv, OneExitPerSymbol
<1> QED
  BY <1>1, <1>2, <1>3, <1>4, <1>5, <1>6, <1>7, <1>8, <1>9 DEF Task

LEMMA NextExits == ASSUME Base, ExitInv, [Next]_vars PROVE ExitInv'
<1>1. CASE Task
  BY <1>1, TaskExits
<1>2. CASE Select
  <2>1. UNCHANGED exchange /\ pc = "select"
    BY <1>2 DEF Select, MarketEvent, OutOfOrderEvent, AccountEvent, OrderEvent, ExpiredEvent,
                RecoveryNotice, HealthTick, Deadline, NextIs, Turn
  <2>2. pc' # "exit"
    BY <1>2, <2>1 DEF Select, MarketEvent, OutOfOrderEvent, AccountEvent, OrderEvent,
                ExpiredEvent, RecoveryNotice, HealthTick, Deadline, Turn, Ends, flow
  <2> QED
    BY <2>1, <2>2, FewerExits DEF exchange
<1>3. CASE Exchange
  <2>1. \A o \in orders : Expire(o) => ExitInv'
    BY FewerExits DEF Expire, flow
  <2> QED
    BY <1>3, <2>1, FillExits DEF Exchange
<1>4. CASE Stream
  <2>1. UNCHANGED <<flow, exchange>>
    BY <1>4 DEF Stream, StreamConnects, StreamDies, StreamEnds, ListenKeyExpires, RenewalFails,
                Reorder
  <2> QED
    BY <2>1, FewerExits DEF flow, exchange
<1>5. CASE Crash
  BY <1>5, EndsExits DEF Crash
<1>6. CASE Restart
  BY <1>6, FewerExits DEF Restart, exchange
<1>7. CASE UNCHANGED vars
  BY <1>7, FewerExits DEF vars, flow, exchange
<1> QED
  BY <1>1, <1>2, <1>3, <1>4, <1>5, <1>6, <1>7 DEF Next

\* A symbol never has two reduce-only orders at the exchange, across windows
\* that begin again, recoveries that adopt an exit and processes that restart:
\* the flatten of run(), which cancels every order of the symbol before it exits.
THEOREM OneExit == Spec => []OneExitPerSymbol
<1>1. Init => ExitInv
  BY DEF Init, ExitInv, OneExitPerSymbol
<1>2. ExitInv => OneExitPerSymbol
  BY DEF ExitInv
<1> QED
  BY <1>1, <1>2, NextExits, BaseHolds, PTL DEF Spec
-----------------------------------------------------------------------------
(* What a session leaves behind.  The two reads of the final snapshot are  *)
(* not one: orders fill and expire between them, but none appears.         *)

\* Between the two reads every order at the exchange is one that was listed, or what is
\* left of it.
ListedInv == pc = "readPositions" => \A o \in orders : \E l \in listed : l.id = o.id

Completes == outcome # "completed" /\ outcome' = "completed"

\* A step that begins no read of positions and reports no completion.
LEMMA NotReading == ASSUME pc' # "readPositions", ~Completes PROVE ListedInv' /\ ~Completes
  BY DEF ListedInv

LEMMA SelectLists == ASSUME Select PROVE pc' # "readPositions" /\ ~Completes
<1>1. ASSUME NEW s, NEW ready, NEW p, NEW w, NEW rest, NEW seen, Turn(s, ready, p, w, rest, seen)
      PROVE  pc' # "readPositions" /\ ~Completes
  BY <1>1 DEF Turn, Ends, Completes
<1>2. CASE MarketEvent \/ AccountEvent \/ OrderEvent \/ ExpiredEvent \/ RecoveryNotice
  BY <1>1, <1>2 DEF MarketEvent, AccountEvent, OrderEvent, ExpiredEvent, RecoveryNotice
<1>3. CASE OutOfOrderEvent \/ HealthTick \/ Deadline
  BY <1>3 DEF OutOfOrderEvent, HealthTick, Deadline, flow, Completes
<1> QED
  BY <1>2, <1>3 DEF Select

LEMMA TaskLists ==
    ASSUME Base, Task, ~ReadOrders, ~FinalSnapshot
    PROVE  pc' # "readPositions" /\ ~Completes
<1>1. ASSUME CancelWorking, pc # "readPositions" PROVE pc' # "readPositions" /\ ~Completes
  BY <1>1 DEF CancelWorking, NextSymbol, Ends, Completes
<1>2. CASE StartupSnapshot \/ RecoverySnapshot
  BY <1>2 DEF StartupSnapshot, RecoverySnapshot, Ends, Completes
<1>3. CASE Sweep \/ HaltQuote
  BY <1>1, <1>3 DEF Sweep, HaltQuote, Ends, Completes
<1>4. CASE Pass \/ BeginExit
  BY <1>4 DEF Pass, BeginExit, NextSymbol, Completes
<1>5. CASE PlaceEntry \/ PlaceExit
  BY <1>5 DEF PlaceEntry, PlaceExit, NextSymbol, Ends, Completes
<1> QED
  BY <1>2, <1>3, <1>4, <1>5 DEF Task

\* A fill takes an order away or leaves its rest under the same number.
LEMMA ExchangeLists == ASSUME Base, ListedInv, Exchange PROVE ListedInv' /\ ~Completes
<1>1. PICK o \in orders : Fill(o) \/ Expire(o)
  BY DEF Exchange
<1>2. UNCHANGED <<pc, outcome, listed>>
  BY <1>1 DEF Fill, Expire, flow, held
<1>3. \A q \in orders' : \E r \in orders : r.id = q.id
  <2>1. CASE Expire(o)
    BY <2>1 DEF Expire
  <2>2. CASE Fill(o)
    <3>1. PICK n \in 1..Reducible(o) :
            orders' = orders \ {o} \/ orders' = (orders \ {o}) \cup {[o EXCEPT !.quantity = @ - n]}
      BY <2>2 DEF Fill
    <3>2. [o EXCEPT !.quantity = @ - n].id = o.id
      BY DEF Base, ExchangeType, Order
    <3> QED
      BY <3>1, <3>2
  <2> QED
    BY <1>1, <2>1, <2>2
<1> QED
  BY <1>2, <1>3 DEF ListedInv, Completes

LEMMA NextLists ==
    ASSUME Base, ListedInv, [Next]_vars
    PROVE  ListedInv' /\ (Completes => remote = Flat /\ orders = {})
<1>1. CASE ReadOrders
  BY <1>1 DEF ReadOrders, exchange, ListedInv, Completes
<1>2. CASE FinalSnapshot
  <2>1. pc' # "readPositions"
    BY <1>2 DEF FinalSnapshot, Ends
  <2>2. Completes => remote = Flat /\ listed = {}
    BY <1>2 DEF FinalSnapshot, Ends, Residual, Completes
  <2>3. listed = {} => orders = {}
    BY <1>2 DEF FinalSnapshot, ListedInv
  <2> QED
    BY <2>1, <2>2, <2>3 DEF ListedInv
<1>3. CASE Task /\ ~ReadOrders /\ ~FinalSnapshot
  BY <1>3, TaskLists, NotReading
<1>4. CASE Select
  BY <1>4, SelectLists, NotReading
<1>5. CASE Exchange
  BY <1>5, ExchangeLists
<1>6. CASE Crash \/ Restart
  BY <1>6, NotReading DEF Crash, Restart, Ends, Completes
<1>7. CASE Stream \/ UNCHANGED vars
  <2>1. UNCHANGED <<pc, outcome, listed, orders>>
    BY <1>7 DEF Stream, StreamConnects, StreamDies, StreamEnds, ListenKeyExpires, RenewalFails,
                Reorder, flow, held, exchange, vars
  <2> QED
    BY <2>1 DEF ListedInv, Completes
<1> QED
  BY <1>1, <1>2, <1>3, <1>4, <1>5, <1>6, <1>7 DEF Next

\* A session that reports completion has left neither a position nor an order at the
\* exchange, though its final snapshot (authoritative_account_snapshot) is two requests and
\* the exchange goes on between them: what it listed covers what is left.
THEOREM NothingIsLeft == Spec => CompletedIsFlat
<1> DEFINE Leaves == outcome # "completed" /\ outcome' = "completed" => remote = Flat /\ orders = {}
<1>1. Init => ListedInv
  BY DEF Init, ListedInv
<1>2. Base /\ ListedInv /\ [Next]_vars => ListedInv' /\ Leaves
  BY NextLists DEF Completes
<1> QED
  BY <1>1, <1>2, BaseHolds, PTL DEF Spec, CompletedIsFlat
=============================================================================
