---------------------------- MODULE LiveSession ----------------------------
(***************************************************************************)
(* The live runner, run() of bin/anchorbell_live.rs, against the exchange: *)
(* its event loop, the supervisor it drives, its own view of positions and *)
(* working orders, the REST calls it awaits, the user-data stream that     *)
(* feeds its queue, and crashes and restarts of the whole process.         *)
(*                                                                         *)
(* The loop is one task, so the code between two awaits is one step.  The  *)
(* program counter names the await the task is at:                         *)
(*   readOrders, readPositions  the two reads of the account snapshot      *)
(*   select                     the select! of the loop                    *)
(*   sweep                      cancelling working orders when not ready   *)
(*   trade                      the decision for the next symbol           *)
(*   exit                       the reduce-only order of a flatten         *)
(*   closing                    cancelling working orders at the deadline  *)
(*   ended                      the process has returned or died           *)
(* Simplifications:                                                        *)
(*  - Market, FX and clock inputs are reduced to what they decide: whether *)
(*    the control plane calls execution ready, whether make_intent yields  *)
(*    an intent and for which side, and the input gate evaluate() meets.   *)
(*  - Orders are submitted (send_orders is set); prices are left out.      *)
(*  - Any REST, file or feed error the code answers by returning Err, and  *)
(*    a kill of the process, is Crash: the exchange keeps what it has.  A  *)
(*    lost response to a submitted order is the submission, then Crash.    *)
(*  - User events that only refresh times (NEW, PARTIALLY_FILLED) run the  *)
(*    same iteration as a market event.                                    *)
(*  - Nobody else trades the account.                                      *)
(***************************************************************************)
EXTENDS ExecutionSupervisor, Sequences, FiniteSets

CONSTANTS SymbolOrder,   \* the configured symbols, in the order of the loop
          Quantity,      \* args.quantity: the size make_intent asks for
          Gates,         \* the input gates evaluate() may meet
          MaxOrders,     \* bound: orders submitted in a behaviour
          MaxQueue,      \* bound: user events and notices waiting in the channel
          MaxFaults,     \* bound: faults of the user-data stream
          MaxSessions    \* bound: processes started

ASSUME SymbolOrderAssumption ==
    /\ SymbolOrder \in Seq(Symbols)
    /\ \A s \in Symbols : \E i \in DOMAIN SymbolOrder : SymbolOrder[i] = s
    /\ \A i, j \in DOMAIN SymbolOrder : SymbolOrder[i] = SymbolOrder[j] => i = j
ASSUME QuantityAssumption == Quantity \in Nat \ {0}
ASSUME GatesAssumption == Gates \subseteq InputGate
ASSUME BoundsAssumption ==
    MaxOrders \in Nat /\ MaxQueue \in Nat /\ MaxFaults \in Nat /\ MaxSessions \in Nat \ {0}

VARIABLES
  \* the task
  pc, phase, todo, outcome,
  \* what the task holds
  sup, supervisorReady, position, working, listed, lastUser,
  \* the user-data stream and the channel it fills
  stream, queue,
  \* the exchange
  remote, orders, clock, nextId,
  \* bounds used up, and the history the properties read
  faults, sessions, lost

flow     == <<pc, phase, todo, outcome>>
held     == <<sup, supervisorReady, position, working, listed, lastUser>>
feed     == <<stream, queue>>
exchange == <<remote, orders, clock, nextId>>
vars     == <<flow, held, feed, exchange, faults, sessions, lost>>

NoOrder  == 0
OrderIds == 1..MaxOrders

Order == [id: OrderIds, symbol: Symbols, side: {"Buy", "Sell"},
          quantity: Nat \ {0}, reduceOnly: BOOLEAN]

\* What waits in the channel.  A terminal order update only names its symbol:
\* the runner reads nothing else of it.
AccountUpdate(s, p, t) == [kind |-> "account", symbol |-> s, position |-> p, at |-> t]
OrderUpdate(s, t)      == [kind |-> "order", symbol |-> s, at |-> t]
ListenKeyExpired       == [kind |-> "expired", at |-> 0]
RecoveryRequired       == [kind |-> "recovery", at |-> 0]

IsUserEvent(e) == e.kind \in {"account", "order", "expired"}

Waiting(s) == \E i \in DOMAIN queue : queue[i].kind = "account" /\ queue[i].symbol = s

Smaller(a, b) == IF a < b THEN a ELSE b
Larger(a, b)  == IF a < b THEN b ELSE a

-----------------------------------------------------------------------------
(* Starting and ending.                                                    *)

Flat == [s \in Symbols |-> 0]
NoWorking == [s \in Symbols |-> NoOrder]

Init ==
    /\ pc = "readOrders" /\ phase = "startup" /\ todo = <<>> /\ outcome = "running"
    /\ sup = NewSupervisor /\ supervisorReady = FALSE
    /\ position = Flat /\ working = NoWorking /\ listed = {} /\ lastUser = 0
    /\ stream = "down" /\ queue = <<>>
    /\ remote = Flat /\ orders = {} /\ clock = 0 /\ nextId = 1
    /\ faults = 0 /\ sessions = 1 /\ lost = {}

\* The process is gone: its memory, its channel and its stream with it.
Ends(how) ==
    /\ pc' = "ended" /\ phase' = "startup" /\ todo' = <<>> /\ outcome' = how
    /\ sup' = NewSupervisor /\ supervisorReady' = FALSE
    /\ position' = Flat /\ working' = NoWorking /\ listed' = {} /\ lastUser' = 0
    /\ stream' = "down" /\ queue' = <<>> /\ lost' = {}

Crash ==
    /\ pc # "ended"
    /\ Ends("failed")
    /\ UNCHANGED <<exchange, faults, sessions>>

Restart ==
    /\ pc = "ended" /\ sessions < MaxSessions
    /\ pc' = "readOrders" /\ outcome' = "running"
    /\ sessions' = sessions + 1
    /\ UNCHANGED <<phase, todo, held, feed, exchange, faults, lost>>

-----------------------------------------------------------------------------
(* The exchange and the user-data stream.                                  *)

\* The symbols these events report a position of.
Reported(events) == {events[i].symbol : i \in {j \in DOMAIN events : events[j].kind = "account"}}

\* What the exchange emits reaches the channel while the stream is up; otherwise
\* nobody ever repeats it.  An account update holds the whole position, so one
\* that reaches the channel makes up for those lost before it.
Emit(events) ==
    IF stream = "up"
    THEN queue' = queue \o events /\ lost' = lost \ Reported(events)
    ELSE /\ lost' = IF pc = "ended" THEN lost ELSE lost \cup Reported(events)
         /\ UNCHANGED queue

\* The bound on what the exchange and the stream put in the channel on their own.
Room(n) == Len(queue) + n <= MaxQueue

Signed(o, n) == IF o.side = "Buy" THEN n ELSE -n

\* A reduce-only order never trades past zero.
Reducible(o) ==
    IF ~o.reduceOnly THEN o.quantity
    ELSE IF (o.side = "Sell") = (remote[o.symbol] > 0)
         THEN Smaller(o.quantity, Magnitude(remote[o.symbol]))
         ELSE 0

\* Order and account updates of a fill carry the same time and come in either order.
Fill(o) == Room(2) /\ \E n \in 1..Reducible(o), accountFirst \in BOOLEAN :
    LET p == remote[o.symbol] + Signed(o, n)
        account == AccountUpdate(o.symbol, p, clock')
        terminal == OrderUpdate(o.symbol, clock')
    IN  /\ clock' = clock + 1
        /\ remote' = [remote EXCEPT ![o.symbol] = p]
        /\ IF n = o.quantity
           THEN /\ orders' = orders \ {o}
                /\ Emit(IF accountFirst THEN <<account, terminal>> ELSE <<terminal, account>>)
           ELSE /\ orders' = (orders \ {o}) \cup {[o EXCEPT !.quantity = @ - n]}
                /\ accountFirst
                /\ Emit(<<account>>)
        /\ UNCHANGED <<flow, held, stream, nextId, faults, sessions>>

\* The exchange drops an order on its own.
Expire(o) ==
    /\ Room(1)
    /\ clock' = clock + 1
    /\ orders' = orders \ {o}
    /\ Emit(<<OrderUpdate(o.symbol, clock')>>)
    /\ UNCHANGED <<flow, held, stream, remote, nextId, faults, sessions>>

\* The session is running and its startup snapshot is behind it.
Running == pc # "ended" /\ phase # "startup"

Fault == faults < MaxFaults /\ faults' = faults + 1

\* spawn_user_data connects: at the start, and after every renewed listen key.
StreamConnects ==
    /\ Running /\ stream = "down"
    /\ stream' = "up"
    /\ UNCHANGED <<flow, held, queue, exchange, faults, sessions, lost>>

\* The socket goes silent; the 30 s read timeout has not noticed yet.
StreamDies ==
    /\ Running /\ stream = "up" /\ Fault
    /\ stream' = "dead"
    /\ UNCHANGED <<flow, held, queue, exchange, sessions, lost>>

\* The stream task notices, or its keepalive fails: the runner is told.
StreamEnds ==
    /\ Running /\ stream = "dead"
    /\ Room(1)
    /\ stream' = "down"
    /\ queue' = Append(queue, RecoveryRequired)
    /\ UNCHANGED <<flow, held, exchange, faults, sessions, lost>>

\* The listen key expires: the event, then the end of the stream.
ListenKeyExpires ==
    /\ Running /\ stream = "up" /\ Fault
    /\ Room(2)
    /\ stream' = "down"
    /\ queue' = queue \o <<ListenKeyExpired, RecoveryRequired>>
    /\ UNCHANGED <<flow, held, exchange, sessions, lost>>

\* A listen key cannot be renewed; the stream task reports it and tries again.
RenewalFails ==
    /\ Running /\ stream = "down" /\ Fault
    /\ Room(1)
    /\ queue' = Append(queue, RecoveryRequired)
    /\ UNCHANGED <<flow, held, stream, exchange, sessions, lost>>

\* The exchange emits two updates in the wrong order.
Reorder ==
    /\ Len(queue) >= 2 /\ Fault
    /\ LET i == Len(queue) - 1 IN
        /\ IsUserEvent(queue[i]) /\ IsUserEvent(queue[i + 1])
        /\ 0 < queue[i].at /\ queue[i].at < queue[i + 1].at
        /\ queue' = [queue EXCEPT ![i] = queue[i + 1], ![i + 1] = queue[i]]
    /\ UNCHANGED <<flow, held, stream, exchange, sessions, lost>>

-----------------------------------------------------------------------------
(* The account snapshot: two reads, one after the other, of what then only *)
(* changes behind the runner's back.                                       *)

ReadOrders ==
    /\ pc = "readOrders"
    /\ pc' = "readPositions" /\ listed' = orders
    /\ UNCHANGED <<phase, todo, outcome, sup, supervisorReady, position, working,
                   lastUser, feed, exchange, faults, sessions, lost>>

ListedOf(s) == {o.id : o \in {l \in listed : l.symbol = s}}

\* The rows of a snapshot must name at most one managed order per symbol.
Ambiguous == \E s \in Symbols : Cardinality(ListedOf(s)) > 1

SnapshotWorking ==
    [s \in Symbols |-> IF ListedOf(s) = {} THEN NoOrder ELSE CHOOSE id \in ListedOf(s) : TRUE]

BugAdoptSnapshot ==
    /\ position' = position /\ working' = SnapshotWorking /\ listed' = {}
    /\ lost' = {s \in lost : Waiting(s)}

\* The position read settles what was lost before it, except for a symbol with
\* an older account update still in the channel, which will be applied after it.
AdoptSnapshot ==
    /\ position' = remote /\ working' = SnapshotWorking /\ listed' = {}
    /\ lost' = {s \in lost : Waiting(s)}

StartupSnapshot ==
    /\ pc = "readPositions" /\ phase = "startup"
    /\ IF Ambiguous
       THEN Ends("failed")
       ELSE /\ AdoptSnapshot
            /\ pc' = "select" /\ phase' = "running"
            /\ UNCHANGED <<todo, outcome, sup, supervisorReady, lastUser, feed>>
    /\ UNCHANGED <<exchange, faults, sessions>>

\* The supervisor after adopt_remote_position for every symbol.
Adopted == [sup EXCEPT !.pos = remote]

RecoverySnapshot ==
    LET loaded == MarkSnapshotLoaded(Adopted) IN
    /\ pc = "readPositions" /\ phase = "recovery"
    /\ IF Ambiguous
       THEN Ends("failed")
       ELSE IF ~MarkSnapshotLoadedOk(Adopted) \/ ~ReconciliationCleanOk(loaded)
       THEN Ends("rejected")
       ELSE /\ AdoptSnapshot
            /\ sup' = ReconciliationClean(loaded) /\ supervisorReady' = TRUE
            /\ pc' = "trade" /\ phase' = "running" /\ todo' = SymbolOrder
            /\ UNCHANGED <<outcome, lastUser, feed>>
    /\ UNCHANGED <<exchange, faults, sessions>>

\* What is left at the exchange, according to the snapshot.
BugResidual == remote # Flat
Residual == remote # Flat \/ listed # {}

FinalSnapshot ==
    /\ pc = "readPositions" /\ phase = "final"
    /\ Ends(IF Residual THEN "residual" ELSE "completed")
    /\ UNCHANGED <<exchange, faults, sessions>>

-----------------------------------------------------------------------------
(* The select! and one turn of the event branch.                           *)

\* A stopped supervisor is reconnected as soon as execution is ready.
BugRecovers(executionReady, s) == executionReady /\ s.state = "RiskStopped" /\ ~s.unknown
Recovers(executionReady, s) == executionReady /\ s.state = "RiskStopped"

\* The rest of a turn, once the event has been applied: `s`, `ready`, `p` and
\* `w` are the supervisor, supervisor_ready, positions and working orders it
\* left, `rest` what still waits in the channel, `seen` the latest event time.
\* A supervisor call that answers Err ends the run.
Turn(s, ready, p, w, rest, seen) == \E executionReady \in BOOLEAN :
    LET observed == ObservePositions(s, p)
        recovers == Recovers(executionReady, observed)
        starts   == ~recovers /\ ~ready /\ observed.state = "Synchronizing"
        after    == IF recovers THEN OnReconnect(observed)
                    ELSE IF starts THEN ReconciliationClean(observed)
                    ELSE observed
        rejected == after.state = "Halted" \/ (recovers /\ ~OnReconnectOk(observed))
        trades   == executionReady /\ after.state = "Healthy"
    IN  /\ IF rejected
           THEN Ends("rejected")
           ELSE /\ sup' = after /\ supervisorReady' = (ready \/ starts)
                /\ position' = p /\ working' = w /\ queue' = rest /\ lastUser' = seen
                /\ pc' = IF recovers THEN "readOrders"
                         ELSE IF ~executionReady THEN "sweep"
                         ELSE IF trades THEN "trade" ELSE "select"
                /\ phase' = IF recovers THEN "recovery" ELSE phase
                /\ todo' = IF ~executionReady \/ trades THEN SymbolOrder ELSE <<>>
                /\ UNCHANGED <<outcome, listed, stream, lost>>
        /\ UNCHANGED <<exchange, faults, sessions>>

\* Market and FX events, and user events that only refresh times.  They share
\* the channel with the user events but not their producer, so one may come at
\* any moment.
MarketEvent ==
    /\ pc = "select"
    /\ Turn(sup, supervisorReady, position, working, queue, lastUser)

NextIs(kind) == pc = "select" /\ queue # <<>> /\ Head(queue).kind = kind

InOrder(e) == ~(0 < e.at /\ e.at < lastUser)

\* An event older than the latest one seen, of any symbol, is skipped; a position
\* it reported is lost when no later report of it waits.
OutOfOrderEvent ==
    /\ pc = "select" /\ queue # <<>>
    /\ queue' = Tail(queue)
    /\ LET e == Head(queue) IN
        /\ ~InOrder(e)
        /\ lost' = IF e.kind = "account" /\ e.symbol \notin Reported(Tail(queue))
                   THEN lost \cup {e.symbol} ELSE lost
    /\ UNCHANGED <<flow, held, stream, exchange, faults, sessions>>

\* What the turn of a user event does before the common rest of the turn.
FlattenSettled(s, p) ==
    IF s.state = "Flattening" /\ p = Flat THEN ConfirmFlattened(s) ELSE s

AccountEvent ==
    /\ NextIs("account") /\ InOrder(Head(queue))
    /\ LET e == Head(queue)
           p == [position EXCEPT ![e.symbol] = e.position]
           s == OnAccountUpdate(sup, [x \in {e.symbol} |-> e.position], FALSE)
       IN  Turn(FlattenSettled(s, p), supervisorReady, p, working,
                Tail(queue), Larger(lastUser, e.at))

\* A terminal update forgets the symbol's working order, whatever order the
\* update is about.
OrderEvent ==
    /\ NextIs("order") /\ InOrder(Head(queue))
    /\ LET e == Head(queue)
           s == OnOrderUpdate(sup, e.symbol, TRUE)
       IN  Turn(FlattenSettled(s, position), supervisorReady, position,
                [working EXCEPT ![e.symbol] = NoOrder],
                Tail(queue), Larger(lastUser, e.at))

ExpiredEvent ==
    /\ NextIs("expired")
    /\ Turn(OnListenKeyExpired(sup), FALSE, position, working, Tail(queue), lastUser)

RecoveryNotice ==
    /\ NextIs("recovery")
    /\ Turn(OnDisconnect(sup), FALSE, position, working, Tail(queue), lastUser)

BugHealthTick ==
    /\ pc = "select" /\ sup.state = "Healthy"
    /\ sup' = OnDisconnect(sup) /\ supervisorReady' = FALSE
    /\ pc' = "sweep" /\ todo' = SymbolOrder
    /\ UNCHANGED <<phase, outcome, position, working, listed, lastUser,
                   feed, exchange, faults, sessions, lost>>

\* The 250 ms tick finds that execution is not ready.
HealthTick ==
    /\ pc = "select"
    /\ IF sup.state = "Healthy"
       THEN sup' = OnDisconnect(sup) /\ supervisorReady' = FALSE
       ELSE UNCHANGED <<sup, supervisorReady>>
    /\ pc' = "sweep" /\ todo' = SymbolOrder
    /\ UNCHANGED <<phase, outcome, position, working, listed, lastUser,
                   feed, exchange, faults, sessions, lost>>

Deadline ==
    /\ pc = "select"
    /\ pc' = "closing" /\ todo' = SymbolOrder
    /\ UNCHANGED <<phase, outcome, held, feed, exchange, faults, sessions, lost>>

-----------------------------------------------------------------------------
(* Cancelling and placing, one symbol of the list at a time.               *)

\* On to the next symbol, or out of the list.
NextSymbol ==
    /\ todo' = Tail(todo)
    /\ pc' = IF Len(todo) > 1 THEN IF pc = "exit" THEN "trade" ELSE pc
             ELSE IF pc = "closing" THEN "readOrders" ELSE "select"
    /\ phase' = IF Len(todo) = 1 /\ pc = "closing" THEN "final" ELSE phase
    /\ UNCHANGED outcome

Updates(cancelled) ==
    [i \in 1..Cardinality(cancelled) |-> OrderUpdate((CHOOSE o \in cancelled : TRUE).symbol, clock')]

\* The exchange cancels these orders of one symbol, if there are any.
Cancelled(cancelled) ==
    /\ clock' = clock + 1
    /\ orders' = orders \ cancelled
    /\ Emit(Updates(cancelled))

\* working.remove and cancel_order for the head of the list.  An order that is
\* no longer open is an error of the exchange, and the error ends the run.
CancelWorking ==
    LET s == Head(todo)
        open == {o \in orders : o.id = working[s]}
    IN  IF working[s] = NoOrder
        THEN NextSymbol /\ UNCHANGED <<held, feed, exchange, lost>>
        ELSE IF open = {}
        THEN Ends("failed") /\ UNCHANGED exchange
        ELSE /\ NextSymbol /\ Cancelled(open)
             /\ working' = [working EXCEPT ![s] = NoOrder]
             /\ UNCHANGED <<sup, supervisorReady, position, listed, lastUser,
                            stream, remote, nextId>>

Sweep ==
    /\ pc \in {"sweep", "closing"}
    /\ CancelWorking
    /\ UNCHANGED <<faults, sessions>>

Place(s, side, quantity, reduceOnly) ==
    /\ orders' = orders \cup {[id |-> nextId, symbol |-> s, side |-> side,
                               quantity |-> quantity, reduceOnly |-> reduceOnly]}
    /\ nextId' = nextId + 1
    /\ working' = [working EXCEPT ![s] = nextId]

EntryIntent(side) ==
    [side |-> side, quantity |-> Quantity, postOnly |-> TRUE, reduceOnly |-> FALSE]

Decides(side, decision) == \E gate \in Gates :
    Evaluate(sup, Head(todo), EntryIntent(side), gate) = decision

\* make_intent has nothing to propose, the gate answers NoAction, or it allows
\* an entry for a symbol that has a working order.
Pass ==
    /\ pc = "trade"
    /\ NextSymbol
    /\ UNCHANGED <<held, feed, exchange, faults, sessions, lost>>

\* normalize_quantity refuses a quantity that what is left of the limit has
\* reduced to nothing, and the refusal ends the run.
Refused(quantity) == quantity <= 0

PlaceEntry == \E side \in {"Buy", "Sell"} :
    LET s == Head(todo)
        quantity == Smaller(Quantity, MaxPosition - Magnitude(position[s]))
    IN  /\ pc = "trade" /\ nextId \in OrderIds
        /\ Decides(side, Decision("Allow", "Clear")) /\ working[s] = NoOrder
        /\ IF Refused(quantity)
           THEN Ends("failed") /\ UNCHANGED exchange
           ELSE /\ NextSymbol /\ Place(s, side, quantity, FALSE)
                /\ UNCHANGED <<sup, supervisorReady, position, listed, lastUser,
                               feed, remote, clock, lost>>
        /\ UNCHANGED <<faults, sessions>>

\* What cancel_symbol_orders cancels: all the orders of the symbol, known or not.
BugFlattenCancels(s) == {o \in orders : o.id = working[s]}
FlattenCancels(s) == {o \in orders : o.symbol = s}

\* begin_flatten, then every order of the symbol is cancelled at the exchange.
\* (Only while an order identity is left for the exit: the bound of MaxOrders.)
BeginExit ==
    /\ pc = "trade" /\ nextId \in OrderIds
    /\ \E side \in {"Buy", "Sell"} : Decides(side, Decision("Flatten", "FundingWindow"))
    /\ sup' = BeginFlatten(sup)
    /\ pc' = "exit"
    /\ Cancelled(FlattenCancels(Head(todo)))
    /\ working' = [working EXCEPT ![Head(todo)] = NoOrder]
    /\ UNCHANGED <<phase, todo, outcome, supervisorReady, position, listed, lastUser,
                   stream, remote, nextId, faults, sessions>>

\* The reduce-only order of a flatten.  The exchange refuses one that would not
\* reduce, and the refusal ends the run.
PlaceExit ==
    LET s == Head(todo)
        exit == [symbol |-> s, side |-> IF position[s] > 0 THEN "Sell" ELSE "Buy",
                 quantity |-> Magnitude(position[s]), reduceOnly |-> TRUE]
    IN  /\ pc = "exit"
        /\ IF Reducible(exit) = 0
           THEN Ends("failed") /\ UNCHANGED exchange
           ELSE /\ NextSymbol /\ Place(s, exit.side, exit.quantity, TRUE)
                /\ UNCHANGED <<sup, supervisorReady, position, listed, lastUser,
                               feed, remote, clock, lost>>
        /\ UNCHANGED <<faults, sessions>>

\* The halts that only withdraw the quote of the symbol; any other ends the run.
Withdrawing == {"NotHealthy", "MarketStale", "FxStale", "AnchorUnavailable"}

HaltQuote == \E side \in {"Buy", "Sell"}, gate \in Gates :
    LET decision == Evaluate(sup, Head(todo), EntryIntent(side), gate) IN
    /\ pc = "trade" /\ decision.kind = "Halt"
    /\ IF decision.reason \in Withdrawing
       THEN CancelWorking
       ELSE Ends("rejected") /\ UNCHANGED exchange
    /\ UNCHANGED <<faults, sessions>>

Task == \/ ReadOrders \/ StartupSnapshot \/ RecoverySnapshot \/ FinalSnapshot
        \/ Sweep \/ Pass \/ PlaceEntry \/ BeginExit \/ PlaceExit \/ HaltQuote

Select == \/ MarketEvent \/ OutOfOrderEvent \/ AccountEvent \/ OrderEvent
          \/ ExpiredEvent \/ RecoveryNotice \/ HealthTick \/ Deadline

Exchange == \E o \in orders : Fill(o) \/ Expire(o)

Stream == \/ StreamConnects \/ StreamDies \/ StreamEnds
          \/ ListenKeyExpires \/ RenewalFails \/ Reorder

Next == Task \/ Select \/ Exchange \/ Stream \/ Crash \/ Restart

Spec == Init /\ [][Next]_vars

\* A turn of the event branch that finds execution ready.
ReadyTurn == MarketEvent /\ pc' # "sweep"

\* The task goes on with what it has begun: its requests are answered or fail.
\* Nothing is assumed of the market, the exchange or the stream.
FairSpec == Spec /\ WF_vars(Task)

\* Execution is never ready again: no turn finds it ready, nor does the 250 ms
\* tick, which keeps getting its turn as select! picks at random among the
\* branches that are ready.
NeverReadyAgain == SF_vars(HealthTick) /\ <>[][~ReadyTurn]_vars

\* A calm session: no crash, no deadline, no fault, no order expires, execution is
\* always ready, every event is handled and every order fills in the end.
ReadyAccountEvent == AccountEvent /\ pc' # "sweep"
ReadyOrderEvent == OrderEvent /\ pc' # "sweep"
CalmNext == \/ Task \/ ReadyTurn \/ ReadyAccountEvent \/ ReadyOrderEvent
            \/ StreamConnects \/ \E o \in orders : Fill(o)
CalmSpec ==
    /\ Init /\ [][CalmNext]_vars
    /\ WF_vars(Task) /\ SF_vars(ReadyTurn)
    /\ SF_vars(ReadyAccountEvent) /\ SF_vars(ReadyOrderEvent)
    /\ \A id \in OrderIds : SF_vars(\E o \in orders : o.id = id /\ Fill(o))

-----------------------------------------------------------------------------
(* Properties.                                                             *)

\* Every variable has its type.
TypeOK ==
    /\ pc \in {"readOrders", "readPositions", "select", "sweep", "trade", "exit",
               "closing", "ended"}
    /\ phase \in {"startup", "running", "recovery", "final"}
    /\ todo \in Seq(Symbols)
    /\ outcome \in {"running", "failed", "rejected", "residual", "completed"}
    /\ sup \in SupervisorRecord /\ supervisorReady \in BOOLEAN
    /\ position \in [Symbols -> Int] /\ working \in [Symbols -> OrderIds \cup {NoOrder}]
    /\ listed \subseteq Order /\ lastUser \in Nat
    /\ stream \in {"up", "dead", "down"}
    /\ \A i \in DOMAIN queue :
          \/ queue[i] \in {ListenKeyExpired, RecoveryRequired}
          \/ queue[i].kind = "order" /\ queue[i] = OrderUpdate(queue[i].symbol, queue[i].at)
          \/ queue[i].kind = "account"
             /\ queue[i] = AccountUpdate(queue[i].symbol, queue[i].position, queue[i].at)
    /\ remote \in [Symbols -> Int] /\ orders \subseteq Order
    /\ clock \in Nat /\ nextId \in 1..MaxOrders + 1
    /\ faults \in 0..MaxFaults /\ sessions \in 1..MaxSessions /\ lost \subseteq Symbols

\* The runner drives its supervisor only along paths the supervisor accepts:
\* whatever the order of events, ticks, faults and snapshots, no call answers
\* Err and ends the session, and no decision is a halt it cannot handle.
NoProtocolError == outcome # "rejected"

\* Once the startup snapshot is read, the runner's position of a symbol is the
\* exchange's, up to the updates that still wait in the channel, with one excuse:
\* the latest update of the symbol was lost (emitted while the stream was dead or
\* down) or skipped (out of order).  The excuse ends with the symbol's next
\* update to reach the channel and with the next snapshot read when none waits.
\* It does not end by itself: a fill lost between a snapshot and the connection
\* of the stream, or skipped, stays unknown to a session that meets neither.
ViewAgreement ==
    pc # "ended" /\ phase # "startup" =>
        \A s \in Symbols \ lost : Waiting(s) \/ position[s] = remote[s]

\* The decisions are made on the positions the runner itself goes by.
SupervisorMirrors == pc \in {"trade", "exit"} => sup.pos = position

\* The runner, its supervisor and the exchange go by the same account.
AccountsAgree == TypeOK /\ ViewAgreement /\ SupervisorMirrors

\* There is never more than one flatten order per symbol, across recoveries that
\* adopt one and windows that begin again.
OneExitPerSymbol == \A o, q \in orders :
    o.reduceOnly /\ q.reduceOnly /\ o.symbol = q.symbol => o = q

NewOrders == orders' \ {o \in orders' : \E q \in orders : q.id = o.id}

\* New risk needs evidence: an order that is not reduce-only is submitted only
\* by a Healthy supervisor whose recovery gate is open, and, once anything has
\* stopped the session, only after an account snapshot of that recovery epoch.
EntryAfterSnapshot ==
    [][\A o \in NewOrders : ~o.reduceOnly =>
          /\ sup.state = "Healthy" /\ ResumeGateOpen(sup.rec)
          /\ sup.rec.begun => sup.rec.snapshot]_vars

\* A session that reports completion leaves nothing behind: at that moment the
\* exchange holds no position and no order of it.
CompletedIsFlat ==
    [][outcome # "completed" /\ outcome' = "completed" => remote = Flat /\ orders = {}]_vars

\* What the session promises about new risk (see TradingPermit).
Permit ==
    IF pc = "ended" THEN "withdrawn"
    ELSE CASE sup.state = "Synchronizing" -> IF sup.rec.begun THEN "verifying" ELSE "unverified"
           [] sup.state = "Healthy"       -> "granted"
           [] sup.state = "RiskStopped"   -> "revoked"
           [] sup.state = "Flattening"    -> "reducing"
           [] sup.state = "Halted"        -> "withdrawn"

Promise == INSTANCE TradingPermit WITH
    EntryIds <- OrderIds,
    permit   <- Permit,
    entries  <- {o.id : o \in {q \in orders : ~q.reduceOnly}},
    flat     <- position = Flat

ImplementsPermit == Promise!Spec

\* A stopped session is not stopped for good: as long as a turn that finds execution
\* ready is not put off for ever, each RiskStopped is followed by Healthy, however
\* many faults and notices come while it recovers.
RecoveryCompletes ==
    SF_vars(ReadyTurn) =>
        (pc # "ended" /\ sup.state = "RiskStopped" ~> pc = "ended" \/ sup.state = "Healthy")

\* When execution is never ready again, every working order the runner knows of
\* is withdrawn, also those it holds while stopped or flattening.
QuotesWithdrawn ==
    NeverReadyAgain => <>[](working = NoWorking)

\* Two resting entry orders of one symbol are twice the risk one decision took:
\* the runner submits an entry only for a symbol that has no other at the exchange.
OneEntryPerSymbol == \A o, q \in orders :
    ~o.reduceOnly /\ ~q.reduceOnly /\ o.symbol = q.symbol => o = q

\* No new risk while the account is known not to be watched: after a failure of
\* the user-data stream an entry is submitted only once the stream is connected
\* again, or while the notice of the failure still waits to be handled.
RiskNeedsUserStream ==
    [][\A o \in NewOrders : ~o.reduceOnly /\ faults > 0 /\ stream = "down" =>
          \E i \in DOMAIN queue : queue[i] = RecoveryRequired]_vars

\* A flatten cancels what could increase risk: once it has begun and the turn is
\* over, no entry order the runner knows of rests on any symbol.
FlattenCancelsEntries ==
    pc = "select" /\ sup.state = "Flattening" =>
        \A o \in orders : ~o.reduceOnly => working[o.symbol] # o.id

\* A flatten ends: it reaches flat, or the session ends.
FlattenCompletes == sup.state = "Flattening" ~> sup.state # "Flattening"
=============================================================================
