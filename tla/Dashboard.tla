----------------------------- MODULE Dashboard ------------------------------
(***************************************************************************)
(* The operator's console (engine/src/bin/anchorbell_dashboard.rs) and the *)
(* trading process it starts, up to that process's first call of the REST  *)
(* adapter.  Requests are handled concurrently, each by a task of its own; *)
(* a handler is atomic between two acquisitions of a lock.                 *)
(*                                                                         *)
(* Simplifications: HTTP, paths, logs and the read-only checks are left    *)
(* out; backtest behaves as simulation does here; credentials are the      *)
(* environment they were entered for.                                      *)
(***************************************************************************)
EXTENDS RestAdapter, Naturals, Sequences

CONSTANTS Headers,        \* values of the session header of a request
          Valid,          \* those that are well-formed session keys
          Default,        \* the key of every other request
          Handlers,       \* requests being handled at a time
          Forms,          \* what operators enter in the session form
          MaxProcesses,   \* bound: processes ever spawned
          Asked,          \* the operations of the adapter a process may ask for
          InheritedConfirmation  \* the console's own environment holds the phrase

ASSUME FormsAreRequests == Forms \subseteq Requests
ASSUME AskedAreOperations == Asked \subseteq Operations
ASSUME KeysAreHeaders == Valid \subseteq Headers /\ Default \in Valid
ASSUME InheritedIsBoolean == InheritedConfirmation \in BOOLEAN

Modes == {"live", "simulation"}
None == "none"
NoChild == 0
Idle == [step |-> "idle"]

VARIABLES sessions,   \* key -> configuration, credentials, and (ghost) the form in force
          slots,      \* key -> mode -> the child process known to the console
          processes,  \* the processes spawned, in order
          handlers    \* handler -> where its start request is

vars == <<sessions, slots, processes, handlers>>

\* DashboardState::for_session: what a request's header selects.
ForSession(header) == IF header \in Valid THEN header ELSE Default
Keys == {ForSession(h) : h \in Headers}

BlankForm == [environment |-> "testnet", production |-> FALSE,
              submission |-> FALSE, confirmed |-> FALSE]
BlankSession == [config |-> FromValues(BlankForm), credentials |-> None, form |-> BlankForm]

Credentials == Environments \cup {None}
Ids == 1..Len(processes)
Alive(p) == processes[p].state # "exited"

Init == /\ sessions = [k \in Keys |-> BlankSession]
        /\ slots = [k \in Keys |-> [m \in Modes |-> NoChild]]
        /\ processes = <<>>
        /\ handlers = [h \in Handlers |-> Idle]
-----------------------------------------------------------------------------
(* The session form and the credential buttons: one lock, one step. *)

UpdateSession(k, form, entered) ==
    /\ ~Rejected(form)
    /\ sessions' = [sessions EXCEPT ![k] =
            [config |-> FromValues(form),
             credentials |-> IF entered THEN form.environment ELSE None,
             form |-> form]]
    /\ UNCHANGED <<slots, processes, handlers>>

\* Plausible bug: the credentials are kept whatever environment they are for.
BugSaved(session, environment) ==
    [session EXCEPT !.credentials = environment]

Saved(session, environment) ==
    IF session.config.environment = environment
    THEN [session EXCEPT !.credentials = environment]
    ELSE session

SaveCredentials(k, environment) ==
    /\ sessions' = [sessions EXCEPT ![k] = Saved(@, environment)]
    /\ UNCHANGED <<slots, processes, handlers>>

DeleteCredentials(k, environment) ==
    /\ sessions[k].config.environment = environment
    /\ sessions' = [sessions EXCEPT ![k].credentials = None]
    /\ UNCHANGED <<slots, processes, handlers>>

ClearSession(k) ==
    /\ sessions' = [sessions EXCEPT ![k] = BlankSession]
    /\ UNCHANGED <<slots, processes, handlers>>
-----------------------------------------------------------------------------
(* start_runtime: the check of the slot, the spawn and the store of the child are
   three steps, with the registry lock released in between. *)

\* A child that has ended is forgotten by whoever looks at the slot.
Swept(child) == IF child # NoChild /\ ~Alive(child) THEN NoChild ELSE child

StartChecks(h, k, mode, allow) ==
    /\ handlers[h] = Idle
    /\ slots' = [slots EXCEPT ![k][mode] = Swept(@)]
    /\ handlers' = IF Swept(slots[k][mode]) # NoChild THEN handlers
                   ELSE [handlers EXCEPT ![h] = [step |-> "spawn", session |-> k,
                                                 mode |-> mode, allow |-> allow]]
    /\ UNCHANGED <<sessions, processes>>

\* Plausible bug: the request's flag alone decides.
BugSendOrders(allow, config) == allow

SendOrders(allow, config) == allow /\ config.allow_live_orders

\* The environment variables and arguments of the child, and the operator's
\* authority at that moment.
Spawned(r, session) ==
    LET send == r.mode = "live" /\ SendOrders(r.allow, session.config) IN
    [session |-> r.session, mode |-> r.mode,
     environment |-> session.config.environment,
     deployment |-> [environment |-> session.config.environment,
                     production |-> session.config.allow_production,
                     submission |-> send,
                     confirmed |-> send \/ InheritedConfirmation],
     sendOrders |-> send,
     credentials |-> session.credentials,
     form |-> session.form, asked |-> r.allow,
     state |-> "starting", call |-> None, outcome |-> None, answer |-> None,
     effect |-> FALSE]

\* Live needs credentials, and production its authorisation.
StartRefused(r, session) ==
    /\ r.mode = "live"
    /\ \/ session.credentials = None
       \/ session.config.environment = "production" /\ ~session.config.allow_production

StartSpawns(h) ==
    LET r == handlers[h]
        session == sessions[r.session] IN
    /\ r.step = "spawn"
    /\ UNCHANGED <<sessions, slots>>
    /\ \/ /\ ~StartRefused(r, session)
          /\ Len(processes) < MaxProcesses
          /\ processes' = Append(processes, Spawned(r, session))
          /\ handlers' = [handlers EXCEPT ![h] = [step |-> "store", session |-> r.session,
                                                  mode |-> r.mode, child |-> Len(processes) + 1]]
       \/ \* refused, or no binary, log file or process could be had
          /\ handlers' = [handlers EXCEPT ![h] = Idle]
          /\ UNCHANGED processes

StartStores(h) ==
    LET r == handlers[h] IN
    /\ r.step = "store"
    /\ slots' = [slots EXCEPT ![r.session][r.mode] = r.child]
    /\ handlers' = [handlers EXCEPT ![h] = Idle]
    /\ UNCHANGED <<sessions, processes>>

\* stop_runtime kills the child of the slot, or answers that nothing runs.
Stop(k, mode) ==
    /\ slots[k][mode] # NoChild
    /\ processes' = [processes EXCEPT ![slots[k][mode]].state = "exited"]
    /\ slots' = [slots EXCEPT ![k][mode] = NoChild]
    /\ UNCHANGED <<sessions, handlers>>

\* runtimes_response: mode_snapshot of every mode.
Observe(k) ==
    /\ slots' = [slots EXCEPT ![k] = [m \in Modes |-> Swept(@[m])]]
    /\ UNCHANGED <<sessions, processes, handlers>>
-----------------------------------------------------------------------------
(* The process: anchorbell_live's checks of its deployment, then its calls. *)

PolicyOf(process) == Policy(FromValues(process.deployment), process.credentials # None)

Preflight(process) ==
    IF process.mode = "simulation" THEN "running"
    ELSE IF \/ Rejected(process.deployment)
            \/ process.credentials = None
            \/ process.sendOrders /\ ~PolicyOf(process).allow_live_orders
            \/ ~ValidFor(PolicyOf(process), process.environment)
         THEN "exited" ELSE "running"

ProcessStarts(p) ==
    /\ processes[p].state = "starting"
    /\ processes' = [processes EXCEPT ![p].state = Preflight(processes[p])]
    /\ UNCHANGED <<sessions, slots, handlers>>

\* What the exchange did when the answer came out as it did.
Executed(answer) ==
    IF answer \in {"4xx_json", "4xx_text", "other_code"} THEN {FALSE}
    ELSE IF answer = "matching" THEN {TRUE} ELSE BOOLEAN

Admitted(process, op) == Gate(PolicyOf(process), process.environment, op)

\* One call of the adapter, of any kind: whether a mutation may pass is up to the
\* adapter's gate alone. An error ends the process.
Called(process, op, answer, executed) ==
    LET outcome == IF Admitted(process, op) THEN Outcome(op, answer) ELSE "Policy" IN
    [process EXCEPT
        !.call = op, !.outcome = outcome,
        !.answer = IF Admitted(process, op) THEN answer ELSE None,
        !.effect = Admitted(process, op) /\ executed /\ RequiresOrderPermission(op),
        !.state = IF outcome = "Ok" THEN @ ELSE "exited"]

Calls(p, op) ==
    /\ processes[p].state = "running" /\ processes[p].mode = "live"
    /\ processes[p].call = None
    /\ \E answer \in AnswersTo(op) : \E executed \in Executed(answer) :
         processes' = [processes EXCEPT ![p] = Called(@, op, answer, executed)]
    /\ UNCHANGED <<sessions, slots, handlers>>

ProcessEnds(p) ==
    /\ processes[p].state = "running"
    /\ processes' = [processes EXCEPT ![p].state = "exited"]
    /\ UNCHANGED <<sessions, slots, handlers>>

Next ==
    \/ \E header \in Headers : LET k == ForSession(header) IN
         \/ \E form \in Forms, entered \in BOOLEAN : UpdateSession(k, form, entered)
         \/ \E e \in Environments : SaveCredentials(k, e) \/ DeleteCredentials(k, e)
         \/ ClearSession(k)
         \/ \E h \in Handlers, m \in Modes, allow \in BOOLEAN : StartChecks(h, k, m, allow)
         \/ \E m \in Modes : Stop(k, m)
         \/ Observe(k)
    \/ \E h \in Handlers : StartSpawns(h) \/ StartStores(h)
    \/ \E p \in Ids : \/ ProcessStarts(p) \/ ProcessEnds(p)
                      \/ \E op \in Asked : Calls(p, op)

Spec == Init /\ [][Next]_vars
-----------------------------------------------------------------------------
(* A process was given credentials that were entered for the environment the process
   talks to: form, save button and start read and write the session one after the
   other, in any order. *)
CredentialsFitEnvironment ==
    \A p \in Ids : processes[p].credentials # None =>
        processes[p].credentials = processes[p].environment

(* Whatever changed the account was allowed when the process was started: by the
   form that was in force, by the start request, and in production by the explicit
   permission and the confirmation phrase. It passes the session, the start request,
   the child's environment, its checks and the adapter's gate. *)
TradesOnlyAsAuthorised ==
    \A p \in Ids : processes[p].effect =>
        /\ processes[p].asked /\ processes[p].form.submission
        /\ processes[p].environment = "production" =>
              processes[p].form.production /\ processes[p].form.confirmed

(* What the caller of the adapter is told is so: an order reported as placed is at the
   exchange, and one that the gate or the exchange refused is not; whatever else may stand
   for an execution, but for a 5xx with the exchange's JSON, is not reported as a refusal. *)
OutcomesAreTrue ==
    \A p \in Ids : RequiresOrderPermission(processes[p].call) =>
        /\ processes[p].outcome = "Ok" => processes[p].effect
        /\ NothingThere(processes[p].outcome, processes[p].answer) => ~processes[p].effect

(* What the 409 answer of a start request promises: a session runs at most one
   process of a mode. *)
OneProcessPerMode ==
    \A p, q \in Ids : /\ Alive(p) /\ Alive(q)
                      /\ processes[p].session = processes[q].session
                      /\ processes[p].mode = processes[q].mode => p = q
=============================================================================
