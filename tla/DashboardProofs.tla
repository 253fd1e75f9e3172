--------------------------- MODULE DashboardProofs --------------------------
(***************************************************************************)
(* For any forms, headers, handlers and number of processes: credentials   *)
(* fit the environment they are used in, nothing changes the account but   *)
(* what the operator's form and start request allowed, and what an order   *)
(* call reports is what happened.                                          *)
(*                                                                         *)
(* The inductive invariant ties three places together: a session holds     *)
(* what its form in force makes of it, a process was made from one such    *)
(* session, and an effect passed the gate of the process's deployment.     *)
(***************************************************************************)
EXTENDS Dashboard, TLAPS

Sessions == [config : Configs, credentials : Credentials, form : Requests]
Starts == [step : {"idle"}]
          \cup [step : {"spawn"}, session : Keys, mode : Modes, allow : BOOLEAN]
          \cup [step : {"store"}, session : Keys, mode : Modes, child : Nat]
Processes == [session : Keys, mode : Modes, environment : Environments,
              deployment : Requests, sendOrders : BOOLEAN, credentials : Credentials,
              form : Requests, asked : BOOLEAN, state : {"starting", "running", "exited"},
              call : Operations \cup {None}, outcome : Outcomes \cup {None},
              answer : Answers \cup {None}, effect : BOOLEAN]

TypeInv == /\ sessions \in [Keys -> Sessions]
           /\ processes \in Seq(Processes)
           /\ handlers \in [Handlers -> Starts]

\* A session is what its form makes of it, up to its credentials.
Coherent(session) == /\ ~Rejected(session.form)
                     /\ session.config = FromValues(session.form)
                     /\ session.credentials \in {None, session.form.environment}

\* What a process was told of its call is so.
Truthful(process) ==
    RequiresOrderPermission(process.call) =>
        /\ process.outcome = "Ok" => process.effect
        /\ NothingThere(process.outcome, process.answer) => ~process.effect

\* A process was made from a coherent session, and acted within its deployment.
Sound(process) ==
    /\ ~Rejected(process.form)
    /\ process.environment = process.form.environment
    /\ process.credentials \in {None, process.environment}
    /\ process.deployment.environment = process.environment
    /\ process.deployment.submission = process.sendOrders
    /\ process.sendOrders => process.asked /\ FromValues(process.form).allow_live_orders
    /\ process.effect => PolicyOf(process).allow_live_orders
    /\ Truthful(process)

IInv == /\ TypeInv
        /\ \A k \in Keys : Coherent(sessions[k])
        /\ \A p \in Ids : Sound(processes[p])


USE InheritedIsBoolean, AskedAreOperations, FormsAreRequests, KeysAreHeaders

\* The console's key for a request is one it has a session for.
LEMMA KeyOfHeader == ASSUME NEW header \in Headers PROVE ForSession(header) \in Keys
BY DEF Keys

\* An accepted form makes a coherent session.
LEMMA FormCoherent ==
    ASSUME NEW form \in Requests, ~Rejected(form),
           NEW credentials \in {None, form.environment}
    PROVE  LET session == [config |-> FromValues(form), credentials |-> credentials,
                           form |-> form]
           IN session \in Sessions /\ Coherent(session)
BY DEF Requests, Configs, FromValues, Sessions, Coherent, Credentials, Environments

LEMMA BlankCoherent == BlankSession \in Sessions /\ Coherent(BlankSession)
<1>1. BlankForm \in Requests /\ ~Rejected(BlankForm)
    BY DEF BlankForm, Requests, Environments, Rejected
<1>2. QED
    BY <1>1, FormCoherent DEF BlankSession

\* A live process gets the session's environment and credentials, and the order
\* permission only on top of the session's.
LEMMA SpawnedSound ==
    ASSUME NEW r \in [step : {"spawn"}, session : Keys, mode : Modes, allow : BOOLEAN],
           NEW session \in Sessions, Coherent(session)
    PROVE  Spawned(r, session) \in Processes /\ Sound(Spawned(r, session))
<1> DEFINE send == r.mode = "live" /\ SendOrders(r.allow, session.config)
<1>1. /\ r.session \in Keys /\ r.mode \in Modes /\ r.allow \in BOOLEAN
      /\ session.form \in Requests /\ session.credentials \in Credentials
      /\ session.config \in Configs /\ session.config.environment \in Environments
      /\ session.config.allow_production \in BOOLEAN /\ send \in BOOLEAN
    BY DEF Sessions, SendOrders, Configs
<1>2. Spawned(r, session) \in Processes
  <2> DEFINE deployment == [environment |-> session.config.environment,
                            production |-> session.config.allow_production,
                            submission |-> send,
                            confirmed |-> send \/ InheritedConfirmation]
  <2>1. deployment \in Requests
      BY <1>1 DEF Requests
  <2> HIDE DEF send, deployment
  <2>2. Spawned(r, session) =
          [session |-> r.session, mode |-> r.mode,
           environment |-> session.config.environment, deployment |-> deployment,
           sendOrders |-> send, credentials |-> session.credentials,
           form |-> session.form, asked |-> r.allow, state |-> "starting",
           call |-> None, outcome |-> None, answer |-> None, effect |-> FALSE]
      BY DEF Spawned, send, deployment
  <2>3. QED
      BY <1>1, <2>1, <2>2 DEF Processes
<1>3. session.config.environment = session.form.environment
    BY DEF Coherent, FromValues
<1>4. Sound(Spawned(r, session))
    BY <1>3 DEF Sound, Spawned, Coherent, SendOrders, Truthful, RequiresOrderPermission, None
<1>5. QED
    BY <1>2, <1>4

\* Appending a process, or changing one, keeps what holds for every process.
LEMMA AppendSound ==
    ASSUME processes \in Seq(Processes), \A p \in Ids : Sound(processes[p]),
           NEW q \in Processes, Sound(q), processes' = Append(processes, q)
    PROVE  processes' \in Seq(Processes) /\ \A p \in Ids' : Sound(processes[p])'
<1>1. /\ processes' \in Seq(Processes) /\ Len(processes') = Len(processes) + 1
      /\ \A i \in 1..Len(processes) : processes'[i] = processes[i]
      /\ processes'[Len(processes) + 1] = q /\ Len(processes) \in Nat
    OBVIOUS
<1>2. \A i \in 1..Len(processes') : i \in 1..Len(processes) \/ i = Len(processes) + 1
    BY <1>1
<1>3. QED
    BY <1>1, <1>2 DEF Ids, Sound, PolicyOf, Truthful

LEMMA ExceptSound ==
    ASSUME processes \in Seq(Processes), \A p \in Ids : Sound(processes[p]),
           NEW i \in Ids, NEW q \in Processes, Sound(q),
           processes' = [processes EXCEPT ![i] = q]
    PROVE  processes' \in Seq(Processes) /\ \A p \in Ids' : Sound(processes[p])'
<1>1. /\ processes' \in Seq(Processes) /\ Len(processes') = Len(processes)
      /\ \A j \in 1..Len(processes) : processes'[j] = IF j = i THEN q ELSE processes[j]
    BY DEF Ids
<1>2. QED
    BY <1>1 DEF Ids, Sound, PolicyOf, Truthful

-----------------------------------------------------------------------------
LEMMA InitInv == Init => IInv
<1> SUFFICES ASSUME Init PROVE IInv
    OBVIOUS
<1>1. TypeInv
    BY BlankCoherent DEF Init, TypeInv, Starts, Idle
<1>2. \A k \in Keys : Coherent(sessions[k])
    BY BlankCoherent DEF Init
<1>3. Ids = {}
    BY DEF Init, Ids
<1>4. QED
    BY <1>1, <1>2, <1>3 DEF IInv

\* The requests that write the session.
LEMMA SessionStep ==
    ASSUME IInv, NEW k \in Keys,
           NEW session \in Sessions, Coherent(session),
           sessions' = [sessions EXCEPT ![k] = session],
           UNCHANGED <<slots, processes, handlers>>
    PROVE  IInv'
<1>1. TypeInv' /\ \A j \in Keys : sessions'[j] = IF j = k THEN session ELSE sessions[j]
    BY DEF IInv, TypeInv
<1>2. \A j \in Keys : Coherent(sessions[j])'
    BY <1>1 DEF IInv, Coherent
<1>3. (\A p \in Ids : Sound(processes[p]))'
    BY DEF IInv, Ids, Sound, PolicyOf, Truthful
<1>4. QED
    BY <1>1, <1>2, <1>3 DEF IInv

\* The steps that write neither a session nor a process.
LEMMA HandlerStep ==
    ASSUME IInv, handlers' \in [Handlers -> Starts], UNCHANGED <<sessions, processes>>
    PROVE  IInv'
<1>1. TypeInv' /\ \A k \in Keys : Coherent(sessions[k])'
    BY DEF IInv, TypeInv, Coherent
<1>2. (\A p \in Ids : Sound(processes[p]))'
    BY DEF IInv, Ids, Sound, PolicyOf, Truthful
<1>3. QED
    BY <1>1, <1>2 DEF IInv

\* The steps that change one process.
LEMMA ProcessStep ==
    ASSUME IInv, NEW p \in Ids, NEW q \in Processes, Sound(q),
           processes' = [processes EXCEPT ![p] = q], UNCHANGED <<sessions, handlers>>
    PROVE  IInv'
<1>1. processes' \in Seq(Processes) /\ \A i \in Ids' : Sound(processes[i])'
    BY ExceptSound DEF IInv, TypeInv
<1>2. QED
    BY <1>1 DEF IInv, TypeInv, Coherent

\* A process that only changes its state stays sound.
LEMMA StateChange ==
    ASSUME NEW q \in Processes, Sound(q), NEW s \in {"starting", "running", "exited"}
    PROVE  /\ [q EXCEPT !.state = s] \in Processes
           /\ Sound([q EXCEPT !.state = s])
BY DEF Processes, Sound, PolicyOf, Truthful

LEMMA StartSpawnsInv ==
    ASSUME IInv, NEW h \in Handlers, StartSpawns(h) PROVE IInv'
<1> DEFINE r == handlers[h]
<1>1. /\ r \in [step : {"spawn"}, session : Keys, mode : Modes, allow : BOOLEAN]
      /\ handlers \in [Handlers -> Starts] /\ processes \in Seq(Processes)
    BY DEF IInv, TypeInv, StartSpawns, Starts
<1>2. CASE handlers' = [handlers EXCEPT ![h] = Idle] /\ UNCHANGED processes
  <2>1. Idle \in Starts
      BY DEF Idle, Starts
  <2>2. QED
      BY <1>1, <1>2, <2>1, HandlerStep DEF StartSpawns
<1>3. CASE /\ processes' = Append(processes, Spawned(r, sessions[r.session]))
           /\ handlers' = [handlers EXCEPT ![h] =
                  [step |-> "store", session |-> r.session, mode |-> r.mode,
                   child |-> Len(processes) + 1]]
  <2>1. sessions[r.session] \in Sessions /\ Coherent(sessions[r.session])
      BY <1>1 DEF IInv, TypeInv
  <2>2. /\ Spawned(r, sessions[r.session]) \in Processes
        /\ Sound(Spawned(r, sessions[r.session]))
      BY <1>1, <2>1, SpawnedSound
  <2>3. processes' \in Seq(Processes) /\ \A i \in Ids' : Sound(processes[i])'
      BY <1>1, <1>3, <2>2, AppendSound DEF IInv
  <2>4. [step |-> "store", session |-> r.session, mode |-> r.mode,
         child |-> Len(processes) + 1] \in Starts
      BY <1>1 DEF Starts
  <2>5. handlers' \in [Handlers -> Starts]
      BY <1>1, <1>3, <2>4
  <2>6. QED
      BY <2>3, <2>5 DEF IInv, TypeInv, Coherent, StartSpawns
<1>4. QED
    BY <1>2, <1>3 DEF StartSpawns

\* An answer that is read as success comes of an execution, and one that is read as a
\* definite refusal of none.
LEMMA OutcomeTells ==
    ASSUME NEW op \in Operations, RequiresOrderPermission(op),
           NEW answer \in AnswersTo(op), NEW executed \in Executed(answer)
    PROVE  /\ Outcome(op, answer) = "Ok" => executed
           /\ NothingThere(Outcome(op, answer), answer) => ~executed
BY DEF AnswersTo, Answers, Errors, Executed, Outcome, ExchangeError, NothingThere

\* A call has an effect only through the gate, and its outcome tells of it.
LEMMA CalledSound ==
    ASSUME NEW process \in Processes, Sound(process), NEW op \in Asked,
           NEW answer \in AnswersTo(op), NEW executed \in Executed(answer)
    PROVE  /\ Called(process, op, answer, executed) \in Processes
           /\ Sound(Called(process, op, answer, executed))
<1> DEFINE outcome == IF Admitted(process, op) THEN Outcome(op, answer) ELSE "Policy"
           answered == IF Admitted(process, op) THEN answer ELSE None
           effect == Admitted(process, op) /\ executed /\ RequiresOrderPermission(op)
<1>1. outcome \in Outcomes \cup {None} /\ op \in Operations \cup {None}
  <2>1. op \in Operations
      OBVIOUS
  <2>2. ExchangeError(answer) \in Outcomes
      BY DEF ExchangeError, Outcomes
  <2>3. Outcome(op, answer) \in Outcomes /\ "Policy" \in Outcomes
      BY <2>2 DEF Outcome, Outcomes
  <2>4. QED
      BY <2>1, <2>3
<1>2. effect \in BOOLEAN /\ executed \in BOOLEAN /\ answered \in Answers \cup {None}
    BY DEF Executed, AnswersTo
<1>3. effect => PolicyOf(process).allow_live_orders
    BY DEF Admitted, Gate, ValidForOrder
<1>4. Called(process, op, answer, executed) \in Processes
    <2> HIDE DEF outcome, answered, effect
    <2>1. Called(process, op, answer, executed) =
             [process EXCEPT !.call = op, !.outcome = outcome, !.answer = answered, !.effect = effect,
                             !.state = IF outcome = "Ok" THEN @ ELSE "exited"]
        BY DEF Called, outcome, answered, effect
    <2>2. QED
        BY <1>1, <1>2, <2>1 DEF Processes
<1>5. ASSUME RequiresOrderPermission(op)
      PROVE  (outcome = "Ok" => effect) /\ (NothingThere(outcome, answered) => ~effect)
    BY <1>1, <1>5, OutcomeTells
<1>6. Truthful(Called(process, op, answer, executed))
    BY <1>5 DEF Truthful, Called, Processes
<1>7. Sound(Called(process, op, answer, executed))
    BY <1>3, <1>6 DEF Sound, PolicyOf, Called, Processes
<1>8. QED
    BY <1>4, <1>7

LEMMA CallsInv ==
    ASSUME IInv, NEW p \in Ids, NEW op \in Asked, Calls(p, op) PROVE IInv'
<1>1. processes[p] \in Processes /\ Sound(processes[p]) /\ processes \in Seq(Processes)
    BY DEF IInv, TypeInv, Ids
<1>2. PICK answer \in AnswersTo(op) : \E executed \in Executed(answer) :
         processes' = [processes EXCEPT ![p] = Called(processes[p], op, answer, executed)]
    BY <1>1 DEF Calls
<1>3. PICK executed \in Executed(answer) :
         processes' = [processes EXCEPT ![p] = Called(processes[p], op, answer, executed)]
    BY <1>2
<1>4. QED
    BY <1>1, <1>3, CalledSound, ProcessStep DEF Calls

LEMMA StepInv == IInv /\ [Next]_vars => IInv'
<1> SUFFICES ASSUME IInv, [Next]_vars PROVE IInv'
    OBVIOUS
<1> USE DEF IInv, TypeInv
<1>1. ASSUME NEW header \in Headers, NEW form \in Forms, NEW entered \in BOOLEAN,
             UpdateSession(ForSession(header), form, entered)
      PROVE  IInv'
  <2> DEFINE credentials == IF entered THEN form.environment ELSE None
  <2>1. form \in Requests /\ credentials \in {None, form.environment}
      OBVIOUS
  <2>2. QED
      BY <1>1, <2>1, FormCoherent, KeyOfHeader, SessionStep DEF UpdateSession
<1>2. ASSUME NEW header \in Headers, NEW e \in Environments,
             SaveCredentials(ForSession(header), e) \/ DeleteCredentials(ForSession(header), e)
      PROVE  IInv'
  <2> DEFINE k == ForSession(header)
             session == sessions[k]
  <2>1. k \in Keys /\ session \in Sessions /\ Coherent(session)
      BY KeyOfHeader
  <2>2. CASE SaveCredentials(k, e)
    <3>1. Saved(session, e) \in Sessions /\ Coherent(Saved(session, e))
        BY <2>1 DEF Saved, Sessions, Coherent, Credentials, FromValues
    <3>2. QED
        BY <2>1, <2>2, <3>1, SessionStep DEF SaveCredentials
  <2>3. CASE DeleteCredentials(k, e)
    <3>1. [session EXCEPT !.credentials = None] \in Sessions
        BY <2>1 DEF Sessions, Credentials
    <3>2. Coherent([session EXCEPT !.credentials = None])
        BY <2>1 DEF Sessions, Coherent
    <3>3. sessions' = [sessions EXCEPT ![k] = [session EXCEPT !.credentials = None]]
        BY <2>1, <2>3 DEF DeleteCredentials
    <3>4. QED
        BY <2>1, <2>3, <3>1, <3>2, <3>3, SessionStep DEF DeleteCredentials
  <2>4. QED
      BY <1>2, <2>2, <2>3
<1>3. ASSUME NEW header \in Headers, ClearSession(ForSession(header)) PROVE IInv'
    BY <1>3, BlankCoherent, KeyOfHeader, SessionStep DEF ClearSession
<1>4. ASSUME NEW header \in Headers, NEW h \in Handlers, NEW m \in Modes,
             NEW allow \in BOOLEAN, StartChecks(h, ForSession(header), m, allow)
      PROVE  IInv'
  <2>1. [step |-> "spawn", session |-> ForSession(header), mode |-> m, allow |-> allow]
            \in Starts
      BY KeyOfHeader DEF Starts
  <2>2. handlers' \in [Handlers -> Starts]
      BY <1>4, <2>1 DEF StartChecks
  <2>3. QED
      BY <1>4, <2>2, HandlerStep DEF StartChecks
<1>5. ASSUME NEW header \in Headers, NEW m \in Modes, Stop(ForSession(header), m)
      PROVE  IInv'
  <2> DEFINE p == slots[ForSession(header)][m]
  <2>1. CASE p \in Ids
    <3>1. processes[p] \in Processes /\ Sound(processes[p])
        BY <2>1 DEF Ids
    <3>2. processes' = [processes EXCEPT ![p] = [processes[p] EXCEPT !.state = "exited"]]
        BY <1>5, <2>1 DEF Stop, Ids
    <3>3. QED
        BY <1>5, <2>1, <3>1, <3>2, StateChange, ProcessStep DEF Stop
  <2>2. CASE p \notin Ids
    <3>1. processes' = processes
        BY <1>5, <2>2 DEF Stop, Ids
    <3>2. QED
        BY <1>5, <3>1, HandlerStep DEF Stop
  <2>3. QED
      BY <2>1, <2>2
<1>6. ASSUME NEW header \in Headers, Observe(ForSession(header)) PROVE IInv'
    BY <1>6, HandlerStep DEF Observe
<1>7. ASSUME NEW h \in Handlers, StartSpawns(h) PROVE IInv'
    BY <1>7, StartSpawnsInv
<1>8. ASSUME NEW h \in Handlers, StartStores(h) PROVE IInv'
  <2>1. handlers' \in [Handlers -> Starts]
      BY <1>8 DEF StartStores, Starts, Idle
  <2>2. QED
      BY <1>8, <2>1, HandlerStep DEF StartStores
<1>9. ASSUME NEW p \in Ids, ProcessStarts(p) \/ ProcessEnds(p) PROVE IInv'
  <2>1. processes[p] \in Processes /\ Sound(processes[p])
      BY DEF Ids
  <2>2. PICK s \in {"starting", "running", "exited"} :
           processes' = [processes EXCEPT ![p] = [processes[p] EXCEPT !.state = s]]
      BY <1>9 DEF ProcessStarts, ProcessEnds, Preflight, Ids
  <2>3. QED
      BY <1>9, <2>1, <2>2, StateChange, ProcessStep DEF ProcessStarts, ProcessEnds
<1>10. ASSUME NEW p \in Ids, NEW op \in Asked, Calls(p, op) PROVE IInv'
    BY <1>10, CallsInv
<1>11. CASE UNCHANGED vars
    BY <1>11, HandlerStep DEF vars
<1>12. QED
    BY <1>1, <1>2, <1>3, <1>4, <1>5, <1>6, <1>7, <1>8, <1>9, <1>10, <1>11 DEF Next

(* The inductive invariant holds of the console and the processes it starts. *)
THEOREM Invariance == Spec => []IInv
BY InitInv, StepInv, PTL DEF Spec

(* Credentials are only ever used in the environment they were entered for:
   update_session, save_credentials and start_runtime. *)
THEOREM CredentialsFit == Spec => []CredentialsFitEnvironment
<1>1. IInv => CredentialsFitEnvironment
    BY DEF IInv, Sound, CredentialsFitEnvironment
<1>2. QED
    BY <1>1, Invariance, PTL

(* Whatever changed the account was permitted by the form and by the start request
   it came from: from_values, start_runtime and execute_signed. *)
THEOREM Authorised == Spec => []TradesOnlyAsAuthorised
<1>1. ASSUME IInv PROVE TradesOnlyAsAuthorised
  <2> SUFFICES ASSUME NEW p \in Ids, processes[p].effect
               PROVE  /\ processes[p].asked /\ processes[p].form.submission
                      /\ processes[p].environment = "production" =>
                            processes[p].form.production /\ processes[p].form.confirmed
      BY DEF TradesOnlyAsAuthorised
  <2>1. Sound(processes[p])
      BY <1>1 DEF IInv
  <2>2. processes[p].sendOrders
      BY <2>1 DEF Sound, PolicyOf, Policy, FromValues
  <2>3. QED
      BY <2>1, <2>2 DEF Sound, Rejected, FromValues
<1>2. QED
    BY <1>1, Invariance, PTL

(* What a call for an order reports is what happened at the exchange: an Ok is an
   execution, and a rejection by the policy or an error of the exchange's is none, unless
   that error came with a 5xx (execute_signed, exchange_error, the checks of the answers). *)
THEOREM OutcomesHold == Spec => []OutcomesAreTrue
<1>1. IInv => OutcomesAreTrue
    BY DEF IInv, Sound, Truthful, OutcomesAreTrue
<1>2. QED
    BY <1>1, Invariance, PTL
=============================================================================
