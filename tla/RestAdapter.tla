----------------------------- MODULE RestAdapter ---------------------------
(***************************************************************************)
(* What a deployment may do (engine/src/execution/deployment.rs,           *)
(* environment.rs): which environment it talks to, whether production was  *)
(* enabled, and whether orders may be submitted. The values come from the  *)
(* process environment in the trading binaries and from the operator's     *)
(* form in the dashboard; both pass FromValues.                            *)
(*                                                                         *)
(* And the REST adapter of the exchange (execution/rest.rs) as an          *)
(* operation on what the exchange does with a request: the policy gate     *)
(* before anything is sent, the check of the request, the classes of       *)
(* answers with the errors they become, and the comparison of the answer   *)
(* with the order that was asked for.  Signing, encoding and decimals are  *)
(* left out; a text that is not what the adapter expects is one value.     *)
(***************************************************************************)

Environments == {"testnet", "production"}

\* What an operator asks for. `confirmed` stands for the confirmation phrase
\* being exactly LIVE_TRADING_CONFIRMATION.
Requests == [environment : Environments, production : BOOLEAN,
             submission : BOOLEAN, confirmed : BOOLEAN]

Configs == [environment : Environments, allow_production : BOOLEAN,
            allow_live_orders : BOOLEAN]

\* The two errors of DeploymentConfig::from_values.
Rejected(r) ==
    /\ r.environment = "production"
    /\ \/ ~r.production
       \/ r.submission /\ ~r.confirmed

\* The configuration it returns otherwise.
FromValues(r) ==
    [environment |-> r.environment,
     allow_production |-> r.production,
     allow_live_orders |-> /\ r.submission
                           /\ r.environment = "testnet" \/ r.confirmed]

\* DeploymentConfig::policy.
Policy(config, loaded) ==
    [environment |-> config.environment,
     allow_live_orders |-> config.allow_live_orders,
     allow_production |-> config.allow_production,
     credentials_loaded |-> loaded]

-----------------------------------------------------------------------------
\* The operations of the adapter and, of each, whether it needs the permission
\* to submit orders.
Operations == {"place_maker_order", "place_emergency_reduce_only_taker", "cancel_order",
               "cancel_all_open_orders", "query_order", "position_mode", "commission_rate",
               "position_risk"}
RequiresOrderPermission(op) ==
    op \in {"place_maker_order", "place_emergency_reduce_only_taker", "cancel_order",
            "cancel_all_open_orders"}

\* DeploymentPolicy::validate_for and validate_for_order.
ValidFor(policy, environment) ==
    /\ policy.environment = environment
    /\ policy.credentials_loaded
    /\ environment = "production" => policy.allow_production
ValidForOrder(policy, environment) ==
    ValidFor(policy, environment) /\ policy.allow_live_orders

Gate(policy, environment, op) ==
    IF RequiresOrderPermission(op) THEN ValidForOrder(policy, environment)
                                   ELSE ValidFor(policy, environment)

\* What can come back for a request that was sent: nothing, a status of an
\* error with a body that is the exchange's JSON or some gateway's text, or a
\* success whose body cannot be read, cannot be decoded, reports another code,
\* speaks of another order, or is the answer.
Errors == {"4xx_json", "4xx_text", "503_json", "503_text", "5xx_json", "5xx_text"}
Answers == Errors \cup {"transport", "body_lost", "undecodable", "other_code",
                        "other_identity", "matching"}

\* Only some operations answer with a code, or name an order or a symbol.
Codes(op) == op = "cancel_all_open_orders"
Identifies(op) == op \notin {"cancel_all_open_orders", "position_mode", "position_risk"}
AnswersTo(op) == Answers \ ((IF Codes(op) THEN {} ELSE {"other_code"})
                             \cup (IF Identifies(op) THEN {} ELSE {"other_identity"}))

\* Plausible bug: an error of the exchange's own is taken at its word, whatever its status.
BugExchangeError(answer) ==
    IF answer \in {"4xx_json", "5xx_json", "503_json"} THEN "Exchange" ELSE "HttpStatus"

\* exchange_error: only 503 is an unknown execution; with any other status, 5xx as well, the
\* exchange's JSON is its error.
ExchangeError(answer) ==
    IF answer \in {"503_json", "503_text"} THEN "UnknownExecution"
    ELSE IF answer \in {"4xx_json", "5xx_json"} THEN "Exchange" ELSE "HttpStatus"

Outcomes == {"Ok", "Policy", "UnknownExecution", "Transport", "Exchange", "HttpStatus",
             "Decode", "InvalidOrderResponse"}

\* What execute_signed and the caller's reading of the body make of it.
Outcome(op, answer) ==
    IF answer \in {"transport", "body_lost"}
    THEN IF RequiresOrderPermission(op) THEN "UnknownExecution" ELSE "Transport"
    ELSE IF answer \in Errors THEN ExchangeError(answer)
    ELSE IF answer = "undecodable" THEN "Decode"
    ELSE IF answer = "other_code" THEN "Exchange"
    ELSE IF answer = "other_identity" THEN "InvalidOrderResponse" ELSE "Ok"

\* What stands for "nothing happened at the exchange".  A caller cannot tell it from the same
\* error under a 5xx, which says nothing of the kind.
NothingThere(outcome, answer) ==
    outcome = "Policy" \/ (outcome = "Exchange" /\ answer # "5xx_json")
=============================================================================
