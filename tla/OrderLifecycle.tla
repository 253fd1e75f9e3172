--------------------------- MODULE OrderLifecycle ---------------------------
(***************************************************************************)
(* One maker order on both sides of the wire: the runner's MakerOrder      *)
(* (engine/src/execution/lifecycle.rs), the exchange's order, the reports  *)
(* in between, and the comparison of the two after a disconnect            *)
(* (engine/src/execution/reconciliation.rs).                               *)
(*                                                                         *)
(* A report may be lost with the connection; a request to cancel crosses   *)
(* fills on the way. Prices, sides and identities other than "ours" and    *)
(* "not ours" are left out.                                                *)
(***************************************************************************)
EXTENDS Integers, Sequences, FiniteSets

CONSTANTS
    Quantity,     \* the order's quantity
    MaxReports    \* reports on the way at a time

ASSUME LifecycleAssumption == Quantity \in Nat \ {0} /\ MaxReports \in Nat \ {0}

Terminal == {"Filled", "Canceled", "Expired", "Rejected"}
Statuses == {"New", "Submitted", "Acknowledged", "PartiallyFilled",
             "CancelRequested"} \cup Terminal
Orders == [status : Statuses, filled : 0 .. Quantity]

\* A LifecycleEvent; `quantity` is what a fill adds, and 0 otherwise.
Report(kind, k) == [kind |-> kind, quantity |-> k]

Moved(order, status) == [order EXCEPT !.status = status]

\* MakerOrder::record_fill.
FillFits(order, event) ==
    /\ event.quantity > 0
    /\ order.filled + event.quantity <= Quantity
    /\ event.kind = "Filled" => order.filled + event.quantity = Quantity

Recorded(order, event) ==
    [status |-> IF event.kind = "Filled" \/ order.filled + event.quantity = Quantity
                THEN "Filled" ELSE "PartiallyFilled",
     filled |-> order.filled + event.quantity]

\* Which event is accepted in which status, apart from fills.
Step == [Submitted |-> {"New"},
         Acknowledged |-> {"Submitted"},
         CancelRequested |-> {"Acknowledged", "PartiallyFilled"},
         Canceled |-> {"CancelRequested"},
         Expired |-> {"Acknowledged", "PartiallyFilled", "CancelRequested"},
         Rejected |-> {"Submitted", "Acknowledged"}]
Fills == {"PartialFill", "Filled"}

\* MakerOrder::apply.
BugAccepts(order, event) ==
    IF event.kind \in Fills
    THEN /\ order.status \in {"Acknowledged", "PartiallyFilled", "CancelRequested"}
         /\ FillFits(order, event)
    ELSE order.status \in Step[event.kind]
Accepts(order, event) ==
    IF event.kind \in Fills
    THEN order.status \in {"Acknowledged", "PartiallyFilled"} /\ FillFits(order, event)
    ELSE order.status \in Step[event.kind]

Apply(order, event) ==
    IF ~Accepts(order, event) THEN order
    ELSE IF event.kind \in Fills THEN Recorded(order, event)
    ELSE Moved(order, event.kind)

-----------------------------------------------------------------------------
(* reconcile(), on sets of snapshots with distinct identities: locals are  *)
(* [id, terminal, executed], remotes [id, status, executed]. The action    *)
(* list is a set; its order is that of the snapshots.                      *)

Halt(why) == [act |-> "Halt", why |-> why]
Continue == [act |-> "Continue"]

BugOrderActions(local, remote) ==
    IF remote.executed > local.executed
    THEN {[act |-> "ApplyRemoteFill", quantity |-> remote.executed - local.executed]}
    ELSE {}
OrderActions(local, remote) ==
    IF remote.executed < local.executed THEN {Halt("executed quantity regressed")}
    ELSE (IF remote.executed > local.executed
          THEN {[act |-> "ApplyRemoteFill",
                 quantity |-> remote.executed - local.executed]}
          ELSE {})
         \cup
         (IF remote.status \in {"Canceled", "Expired", "Rejected"} /\ ~local.terminal
          THEN {[act |-> "ApplyRemoteStatus", status |-> remote.status]}
          ELSE IF remote.status \in {"Filled", "New", "PartiallyFilled"} /\ local.terminal
          THEN {Halt("conflicts with a terminal local order")}
          ELSE {})

PositionActions(local, remote) ==
    IF local = remote THEN {}
    ELSE {[act |-> "AdoptRemotePosition", from |-> local, to |-> remote],
          [act |-> "RecordExternalAdjustment", delta |-> remote - local]}

Ids(snapshots) == {s.id : s \in snapshots}

Reconcile(locals, remotes, localPosition, remotePosition) ==
    LET found ==
          {[act |-> "CancelRemoteOrder", id |-> i] : i \in Ids(remotes) \ Ids(locals)}
          \cup {Halt("absent remotely") :
                  l \in {l \in locals : l.id \notin Ids(remotes) /\ ~l.terminal}}
          \cup (UNION {OrderActions(p[1], p[2]) :
                         p \in {p \in locals \X remotes : p[1].id = p[2].id}})
          \cup PositionActions(localPosition, remotePosition)
    IN  IF found = {} THEN {Continue} ELSE found

-----------------------------------------------------------------------------
VARIABLES
    order,     \* the runner's MakerOrder
    remote,    \* the exchange's order: status and executed quantity
    reports    \* on the way from the exchange

lifecycleVars == <<order, remote, reports>>

LifecycleInit ==
    /\ order = [status |-> "New", filled |-> 0]
    /\ remote = [status |-> "none", executed |-> 0]
    /\ reports = <<>>

Resting == remote.status \in {"New", "PartiallyFilled"}
Reported(report) == Len(reports) < MaxReports /\ reports' = Append(reports, report)

Submit ==
    /\ order.status = "New"
    /\ order' = Apply(order, Report("Submitted", 0))
    /\ \/ remote' = [remote EXCEPT !.status = "New"] /\ Reported(Report("Acknowledged", 0))
       \/ remote' = [remote EXCEPT !.status = "Rejected"] /\ Reported(Report("Rejected", 0))

RequestCancel ==
    /\ Accepts(order, Report("CancelRequested", 0))
    /\ order' = Apply(order, Report("CancelRequested", 0))
    /\ UNCHANGED <<remote, reports>>

ExchangeFills ==
    /\ Resting
    /\ \E k \in 1 .. Quantity - remote.executed :
         LET full == remote.executed + k = Quantity
         IN  /\ remote' = [status |-> IF full THEN "Filled" ELSE "PartiallyFilled",
                           executed |-> remote.executed + k]
             /\ Reported(Report(IF full THEN "Filled" ELSE "PartialFill", k))
    /\ UNCHANGED order

ExchangeCancels ==
    /\ Resting /\ order.status = "CancelRequested"
    /\ remote' = [remote EXCEPT !.status = "Canceled"]
    /\ Reported(Report("Canceled", 0))
    /\ UNCHANGED order

ExchangeExpires ==
    /\ Resting
    /\ remote' = [remote EXCEPT !.status = "Expired"]
    /\ Reported(Report("Expired", 0))
    /\ UNCHANGED order

Deliver ==
    /\ reports # <<>>
    /\ order' = Apply(order, Head(reports)) /\ reports' = Tail(reports)
    /\ UNCHANGED remote

Lose ==
    /\ reports # <<>>
    /\ reports' = Tail(reports)
    /\ UNCHANGED <<order, remote>>

LifecycleNext ==
    \/ Submit \/ RequestCancel \/ ExchangeFills \/ ExchangeCancels
    \/ ExchangeExpires \/ Deliver \/ Lose

LifecycleSpec == LifecycleInit /\ [][LifecycleNext]_lifecycleVars

-----------------------------------------------------------------------------
\* The runner never believes more is executed than is, and an order is Filled
\* for it exactly when its whole quantity is (MakerOrder::record_fill).
FillsAreReal ==
    /\ order.filled <= remote.executed
    /\ (order.status = "Filled") = (order.filled = Quantity)

\* When no report is on the way, reconcile() answers Continue only if the two
\* sides agree on what is executed and on whether the order is over: a fill
\* that was lost, or refused because it crossed a cancel request, is found.
NothingSlips ==
    (reports = <<>> /\ remote.status # "none") =>
        LET local == [id |-> 1, terminal |-> order.status \in Terminal,
                      executed |-> order.filled]
            there == [id |-> 1, status |-> remote.status, executed |-> remote.executed]
        IN  Continue \in Reconcile({local}, {there}, order.filled, remote.executed)
              => /\ order.filled = remote.executed
                 /\ (order.status \in Terminal) = ~Resting

\* Every step of a MakerOrder is one the common contract accepts.
ContractState ==
    [New |-> "Intent", Submitted |-> "Submitted", Acknowledged |-> "Accepted",
     PartiallyFilled |-> "PartiallyFilled", Filled |-> "Filled",
     CancelRequested |-> "CancelPending", Canceled |-> "Canceled",
     Expired |-> "Canceled", Rejected |-> "Rejected"]
Contract == INSTANCE OrderContract WITH
                Quantities <- 0 .. Quantity,
                state <- ContractState[order.status],
                quantity <- order.filled
KeepsContract == Contract!ContractSpec
=============================================================================
