--------------------------- MODULE OrderContract ---------------------------
(***************************************************************************)
(* What every order promises, in simulation, replay and live               *)
(* (engine/src/execution/lifecycle_contract.rs, order_manager.rs): its     *)
(* state never goes back in the declared order, its executed quantity      *)
(* never shrinks, and its time never regresses. OrderManager is this       *)
(* projection for one order.                                               *)
(* Identities and average prices are left out: an event for another order  *)
(* is refused before anything is looked at.                                *)
(***************************************************************************)
EXTENDS Integers, Sequences

\* OrderLifecycleState, in its derived order.
States == <<"Intent", "Submitted", "Accepted", "PartiallyFilled", "Filled",
            "CancelPending", "Canceled", "Rejected", "Unknown">>
StateNames == {States[i] : i \in 1 .. Len(States)}
Rank == [s \in StateNames |-> CHOOSE i \in 1 .. Len(States) : States[i] = s]

NoView == [state |-> "none"]
Events(quantities, times) ==
    [state : StateNames, quantity : quantities, at : times]

\* The checks of UnifiedOrderState::apply, in its order.
Regressed(view, event) ==
    Rank[event.state] < Rank[view.state] /\ event.state # "Unknown"

Refusal(view, event) ==
    IF event.quantity < 0 THEN "NegativeQuantity"
    ELSE IF view = NoView THEN "none"
    ELSE IF event.at < view.at THEN "TimestampRegression"
    ELSE IF Regressed(view, event) THEN "StateRegression"
    ELSE IF event.quantity < view.quantity THEN "NegativeQuantity"
    ELSE "none"

\* OrderManager::apply_event: the first event creates the projection.
Project(view, event) ==
    IF Refusal(view, event) = "none" THEN event ELSE view

\* OrderManager::is_terminal.
ManagerTerminal(view) ==
    view # NoView /\ view.state \in {"Filled", "Canceled", "Rejected", "Unknown"}

-----------------------------------------------------------------------------
\* The contract as a specification of its own: an order moves by events the
\* projection accepts.
CONSTANT Quantities
VARIABLES state, quantity

ContractInit == state = "Intent" /\ quantity = 0

Moves ==
    \E s \in StateNames, q \in Quantities :
        /\ Refusal([state |-> state, quantity |-> quantity, at |-> 0],
                   [state |-> s, quantity |-> q, at |-> 0]) = "none"
        /\ state' = s /\ quantity' = q

ContractSpec == ContractInit /\ [][Moves]_<<state, quantity>>
=============================================================================
