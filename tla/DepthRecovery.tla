--------------------------- MODULE DepthRecovery ---------------------------
(***************************************************************************)
(* How a simulation batch keeps its order books: simulation_batch.rs with  *)
(* LocalOrderBook, and the copies of the books in the ledgers' engines     *)
(* (simulation/runtime.rs, load_depth_snapshot and on_depth_update).       *)
(*                                                                         *)
(* The exchange's book of a symbol has one bid and, at a fixed distance,   *)
(* one ask; its n-th update moves both.  Events tell of one or more        *)
(* updates, reach the batch through a bounded queue, and some are lost on  *)
(* the way.  A task of its own fetches snapshots; requests and results are *)
(* queued.                                                                 *)
(* A deadline that keeps a symbol from asking again is over at any time.   *)
(* The ledgers get the same calls, so one stands for all.                  *)
(*                                                                         *)
(* A replay that succeeds has used every buffered diff, so nothing is ever *)
(* put into replay_events, which is left out.                              *)
(***************************************************************************)
EXTENDS Naturals, Sequences, FiniteSets, SequencesExt

CONSTANTS Instruments,
          Prices,        \* the exchange's bids
          Spread,        \* from the bid to the ask
          MaxUpdates,    \* bound: updates of a symbol's book at the exchange
          MaxLosses,     \* bound: events lost on the way
          MaxFailures,   \* bound: snapshots that cannot be fetched
          QueueCapacity, \* market_event_queue_capacity
          BufferCapacity \* 10 000 diffs in the code

ASSUME CapacityAssumption == QueueCapacity \in Nat \ {0} /\ BufferCapacity \in Nat \ {0}
ASSUME SpreadAssumption == Spread \in Nat \ {0} /\ Prices \subseteq Nat

------------------------------------------------------------------------------
(* LocalOrderBook, orderbook.rs: a book built from one snapshot and the    *)
(* diffs after it, checked by their sequence numbers.  Each method is an   *)
(* operator that answers the book it leaves and how the call ended.        *)
(*                                                                         *)
(* A side of the book is the set of the prices with a quantity; what the   *)
(* quantity is decides nothing here.  A diff sets levels absolutely: its   *)
(* bids and asks map prices to "there is a quantity now".  Levels are      *)
(* valid: the parsers of snapshots and diffs refuse the others.            *)

EmptyBook == [bids |-> {}, asks |-> {}, last |-> 0, valid |-> FALSE, awaiting_first_diff |-> FALSE]

Answer(book, result) == [book |-> book, result |-> result]

Invalid(book) == [book EXCEPT !.valid = FALSE]

\* The rule for the diff that follows a snapshot: it covers the next update, or
\* the one before it is in the snapshot and this one is not.
BugBridgesSnapshot(update, last) == update.final > last

BridgesSnapshot(update, last) ==
    \/ update.first <= last + 1 /\ update.final >= last + 1
    \/ update.previous <= last /\ update.final > last

InsertLevels(side, levels) ==
    (side \ DOMAIN levels) \cup {price \in DOMAIN levels : levels[price]}

CrossedBook(book) == \E bid \in book.bids, ask \in book.asks : bid >= ask

WithLevels(book, update) ==
    [book EXCEPT !.bids = InsertLevels(@, update.bids), !.asks = InsertLevels(@, update.asks)]

Advanced(book, update) == [book EXCEPT !.last = update.final, !.awaiting_first_diff = FALSE]

LoadSnapshot(book, last, bids, asks) ==
    IF CrossedBook([bids |-> bids, asks |-> asks])
    THEN Answer(book, "crossed")
    ELSE Answer([bids |-> bids, asks |-> asks, last |-> last,
                 valid |-> TRUE, awaiting_first_diff |-> TRUE], "loaded")

SequenceOk(book, update) ==
    IF book.awaiting_first_diff THEN BridgesSnapshot(update, book.last)
                                ELSE update.previous = book.last

ApplyDiff(book, update) ==
    IF book.last = 0 \/ ~book.valid THEN Answer(book, "snapshot_required")
    ELSE IF update.final <= book.last THEN Answer(book, "duplicate")
    ELSE IF ~SequenceOk(book, update) THEN Answer(Invalid(book), "gap")
    ELSE LET next == WithLevels(book, update) IN
         IF CrossedBook(next) THEN Answer(Invalid(next), "crossed")
                              ELSE Answer(Advanced(next, update), "applied")

\* apply_bridge(): unlike a diff, a crossing bridge leaves the book valid.
ApplyBridge(book, update) ==
    IF ~BridgesSnapshot(update, book.last) THEN Answer(Invalid(book), "gap")
    ELSE LET next == WithLevels(book, update) IN
         IF CrossedBook(next) THEN Answer(next, "crossed")
                              ELSE Answer(Advanced(next, update), "applied")

Good(answer) == answer.result \in {"loaded", "applied", "duplicate"}

\* The snapshot, the first buffered diff that bridges it, and all that follow it;
\* the first failure is the answer.
LoadSnapshotAndReplay(book, last, bids, asks, buffered) ==
    LET loaded == LoadSnapshot(book, last, bids, asks)
        first  == SelectInSeq(buffered, LAMBDA update : BridgesSnapshot(update, last))
        after[k \in first .. Len(buffered)] ==
            IF k = first THEN ApplyBridge(loaded.book, buffered[k])
            ELSE IF Good(after[k - 1]) THEN ApplyDiff(after[k - 1].book, buffered[k])
            ELSE after[k - 1]
    IN  IF ~Good(loaded) THEN loaded
        ELSE IF first = 0 THEN Answer(Invalid(loaded.book), "gap")
        ELSE after[Len(buffered)]

------------------------------------------------------------------------------
(* The books of a batch.                                                   *)

VARIABLES
  bid,       \* the exchange: the bids of each symbol, version by version
  told,      \* the last update an event told of
  events,    \* event_rx
  dropped,   \* event_dropped # 0
  requests,  \* depth_resync_request_rx
  fetching,  \* what depth_resync_task is at: a symbol, or Idle
  results,   \* depth_resync_result_rx
  book,      \* depth_books
  buffer,    \* depth_buffers
  waiting,   \* the symbols whose next_depth_resync_at_ms lies ahead
  ledger,    \* local_book of the engines
  ended,     \* why the run has ended, or "no"
  losses, failures

feed   == <<bid, told, events, dropped, losses>>
task   == <<requests, fetching, failures>>
depthVars == <<feed, task, results, book, buffer, waiting, ledger, ended>>

Idle    == <<"idle">>
Version(s) == Len(bid[s])

\* The exchange's book as of its n-th update.
TrueBids(s, n) == {bid[s][n]}
TrueAsks(s, n) == {bid[s][n] + Spread}

\* The levels a diff of updates first..final sets.
DiffLevels(s, first, final, at) == [price \in {bid[s][n] + at : n \in (first - 1)..final} |->
                                    price = bid[s][final] + at]

Diff(s, first, final) ==
    [symbol |-> s, first |-> first, final |-> final, previous |-> told[s],
     bids |-> DiffLevels(s, first, final, 0), asks |-> DiffLevels(s, first, final, Spread)]

RequestCapacity == 2 * Cardinality(Instruments)

------------------------------------------------------------------------------
DepthInit ==
    /\ bid \in [Instruments -> {<<price>> : price \in Prices}]
    /\ told = [s \in Instruments |-> 1]
    /\ events = <<>> /\ dropped = FALSE /\ losses = 0
    /\ requests = <<>> /\ fetching = Idle /\ results = <<>> /\ failures = 0
    /\ book = [s \in Instruments |-> EmptyBook]
    /\ buffer = [s \in Instruments |-> <<>>]
    /\ waiting = {}
    /\ ledger = [s \in Instruments |-> EmptyBook]
    /\ ended = "no"

\* The exchange's book moves.
Move(s) ==
    /\ Version(s) < MaxUpdates
    /\ \E price \in Prices :
          /\ price # bid[s][Version(s)]
          /\ bid' = [bid EXCEPT ![s] = Append(@, price)]
    /\ UNCHANGED <<told, events, dropped, losses, task, results, book, buffer, waiting, ledger, ended>>

\* The stream tells what has changed since it told last; an event that does not
\* fit into the queue is counted as dropped, one may be lost in a reconnect.
Tell(s) ==
    /\ told[s] < Version(s)
    /\ told' = [told EXCEPT ![s] = Version(s)]
    /\ IF Len(events) < QueueCapacity
       THEN events' = Append(events, Diff(s, told[s] + 1, Version(s))) /\ UNCHANGED dropped
       ELSE dropped' = TRUE /\ UNCHANGED events
    /\ UNCHANGED <<bid, losses, task, results, book, buffer, waiting, ledger, ended>>

Lose(s) ==
    /\ told[s] < Version(s) /\ losses < MaxLosses
    /\ told' = [told EXCEPT ![s] = Version(s)]
    /\ losses' = losses + 1
    /\ UNCHANGED <<bid, events, dropped, task, results, book, buffer, waiting, ledger, ended>>

------------------------------------------------------------------------------
(* The batch takes an event.                                               *)

Takes ==
    /\ ended = "no" /\ events # <<>>
    /\ events' = Tail(events)
    /\ UNCHANGED <<bid, told, dropped, losses, fetching, failures, results>>

Overflow ==
    /\ Takes /\ dropped
    /\ ended' = "dropped"
    /\ UNCHANGED <<requests, book, buffer, waiting, ledger>>

\* Not before the deadline, and a request that does not fit is given up.
AsksFor(s) ==
    IF s \in waiting THEN UNCHANGED <<requests, waiting>>
    ELSE /\ waiting' = waiting \cup {s}
         /\ requests' = IF Len(requests) < RequestCapacity THEN Append(requests, s) ELSE requests

\* A book that waits for its snapshot: the diff is kept for it.
BufferDiff ==
    /\ Takes /\ ~dropped
    /\ LET diff == Head(events) s == diff.symbol IN
       /\ ~book[s].valid
       /\ IF Len(buffer[s]) >= BufferCapacity
          THEN ended' = "buffer_overflow" /\ UNCHANGED <<buffer, requests, waiting>>
          ELSE buffer' = [buffer EXCEPT ![s] = Append(@, diff)] /\ AsksFor(s) /\ UNCHANGED ended
    /\ UNCHANGED <<book, ledger>>

\* A diff of a valid book goes on to the ledgers, also a duplicate; after a gap it
\* is the first of a new buffer, and the ledgers are told nothing.
ApplyEvent ==
    /\ Takes /\ ~dropped
    /\ LET diff == Head(events) s == diff.symbol answer == ApplyDiff(book[s], diff) IN
       /\ book[s].valid
       /\ book' = [book EXCEPT ![s] = answer.book]
       /\ \/ /\ Good(answer)
             /\ ledger' = [ledger EXCEPT ![s] = ApplyDiff(@, diff).book]
             /\ UNCHANGED <<buffer, requests, waiting, ended>>
          \/ /\ answer.result = "gap"
             /\ buffer' = [buffer EXCEPT ![s] = <<diff>>]
             /\ AsksFor(s)
             /\ UNCHANGED <<ledger, ended>>
          \/ /\ answer.result = "crossed"
             /\ ended' = "crossed"
             /\ UNCHANGED <<buffer, requests, waiting, ledger>>

------------------------------------------------------------------------------
(* The task that fetches snapshots.                                        *)

TakeRequest ==
    /\ fetching = Idle /\ requests # <<>>
    /\ fetching' = Head(requests) /\ requests' = Tail(requests)
    /\ UNCHANGED <<feed, failures, results, book, buffer, waiting, ledger, ended>>

Send(result) ==
    /\ fetching # Idle /\ Len(results) < RequestCapacity
    /\ results' = Append(results, result)
    /\ fetching' = Idle
    /\ UNCHANGED <<feed, requests, book, buffer, waiting, ledger, ended>>

\* The snapshot is of the book as it is when the exchange answers.
Fetch ==
    /\ fetching # Idle
    /\ Send([symbol |-> fetching, last |-> Version(fetching)])
    /\ UNCHANGED failures

FetchFails ==
    /\ failures < MaxFailures /\ failures' = failures + 1
    /\ Send([symbol |-> fetching, last |-> 0])

------------------------------------------------------------------------------
(* The batch takes a result.                                               *)

TakesResult ==
    /\ ended = "no" /\ results # <<>>
    /\ results' = Tail(results)
    /\ UNCHANGED <<feed, task>>

NotNeeded ==
    /\ TakesResult /\ book[Head(results).symbol].valid
    /\ UNCHANGED <<book, buffer, waiting, ledger, ended>>

Failed ==
    /\ TakesResult
    /\ LET result == Head(results) IN
       /\ ~book[result.symbol].valid /\ result.last = 0
       /\ waiting' = waiting \cup {result.symbol}
    /\ UNCHANGED <<book, buffer, ledger, ended>>

LedgersLoad(s, last) ==
    ledger' = [ledger EXCEPT ![s] = LoadSnapshot(@, last, TrueBids(s, last), TrueAsks(s, last)).book]

\* The snapshot bridges to the buffered diffs, or is newer than all of them, or
\* there is a gap and both are thrown away.
Installs ==
    /\ TakesResult
    /\ LET s == Head(results).symbol
           last == Head(results).last
           replayed == LoadSnapshotAndReplay(book[s], last, TrueBids(s, last), TrueAsks(s, last), buffer[s])
       IN
       /\ ~book[s].valid /\ last # 0
       /\ \/ /\ Good(replayed)
             /\ book' = [book EXCEPT ![s] = replayed.book]
             /\ LedgersLoad(s, last)
             /\ buffer' = [buffer EXCEPT ![s] = <<>>] /\ waiting' = waiting \ {s}
             /\ UNCHANGED ended
          \/ /\ replayed.result = "gap"
             /\ buffer' = [buffer EXCEPT ![s] = <<>>]
             /\ IF buffer[s] # <<>> /\ Last(buffer[s]).final <= last
                THEN /\ book' = [book EXCEPT ![s] = LoadSnapshot(replayed.book, last, TrueBids(s, last),
                                                                 TrueAsks(s, last)).book]
                     /\ LedgersLoad(s, last)
                     /\ waiting' = waiting \ {s}
                ELSE /\ book' = [book EXCEPT ![s] = replayed.book]
                     /\ waiting' = waiting \cup {s}
                     /\ UNCHANGED ledger
             /\ UNCHANGED ended
          \/ /\ replayed.result = "crossed"
             /\ ended' = "crossed"
             /\ book' = [book EXCEPT ![s] = replayed.book]
             /\ UNCHANGED <<buffer, waiting, ledger>>

DeadlinePasses(s) ==
    /\ s \in waiting
    /\ waiting' = waiting \ {s}
    /\ UNCHANGED <<feed, task, results, book, buffer, ledger, ended>>

DepthNext ==
    \/ \E s \in Instruments : Move(s) \/ Tell(s) \/ Lose(s) \/ DeadlinePasses(s)
    \/ Overflow \/ BufferDiff \/ ApplyEvent
    \/ TakeRequest \/ Fetch \/ FetchFails
    \/ NotNeeded \/ Failed \/ Installs

DepthSpec == DepthInit /\ [][DepthNext]_depthVars

------------------------------------------------------------------------------
IsTrue(s, b) == b.bids = TrueBids(s, b.last) /\ b.asks = TrueAsks(s, b.last)

\* A book that says it is valid is the exchange's book as of its last update: a lost
\* diff, a snapshot older or newer than the buffered diffs, a duplicate, or a result
\* that arrives late never leaves another one (orderbook.rs, LocalOrderBook).
ValidBooksAreTrue == \A s \in Instruments : book[s].valid => IsTrue(s, book[s])

\* So is a ledger's copy: it may be old, but it is no mixture of two versions.
LedgerBooksAreTrue == \A s \in Instruments : ledger[s].valid => IsTrue(s, ledger[s])

\* Losses of the feed never end the run by themselves: no book made of genuine
\* snapshots and diffs is ever found crossed.
NoFalseCross == ended # "crossed"

\* Whatever is lost on the way: the three of them.
BooksAreTrue == ValidBooksAreTrue /\ LedgerBooksAreTrue /\ NoFalseCross

\* The comment of on_depth_update: the batch keeps the ledgers' copies synchronized.
LedgerSynchronized ==
    \A s \in Instruments : book[s].valid => ledger[s].valid /\ ledger[s].last = book[s].last
=============================================================================
