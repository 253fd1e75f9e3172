----------------------------- MODULE PublicRest -----------------------------
(***************************************************************************)
(* How processes on one machine share the exchange's public REST limits:   *)
(* RequestCoordinator of network.rs, PublicRestGovernor, the cooldown file *)
(* and the lease file of market/metadata.rs, and the two callers that use  *)
(* them, get_json() of the metadata client and quote() of market/fx.rs.    *)
(*                                                                         *)
(* Every file operation is a step of its own.  Time is relative: what is   *)
(* left of a pause or a cooldown, and the age of the lease, in units.      *)
(***************************************************************************)
EXTENDS Integers, FiniteSets, FiniteSetsExt

CONSTANTS Processes,
          Requests,    \* the tasks that call the exchange
          Owner,       \* the process of each
          Client,      \* "fx" or "metadata"
          Weight,      \* of the path each requests
          Capacity,    \* PUBLIC_REST_WEIGHT_CAPACITY, refilled by one each unit
          Backoff,     \* cooldown() of each request class
          RetryAfter,  \* the delays the exchange may ask for
          MaxAge,      \* CROSS_PROCESS_LEASE_MAX_AGE
          MaxAttempts, \* MAX_ATTEMPTS
          MaxCalls, MaxCrashes  \* bounds: calls of each task, crashes

Clients == {"fx", "metadata"}

ASSUME RestAssumption ==
    /\ "nobody" \notin Requests
    /\ Owner \in [Requests -> Processes] /\ Client \in [Requests -> Clients]
    /\ Capacity \in Nat \ {0} /\ Weight \in [Requests -> 1..Capacity]
    /\ Backoff \in [Clients -> Nat] /\ IsFiniteSet(RetryAfter)
    /\ RetryAfter \subseteq Nat \ {0} /\ RetryAfter # {}
    /\ MaxAge \in Nat \ {0} /\ MaxAttempts \in Nat /\ MaxCalls \in Nat /\ MaxCrashes \in Nat

VARIABLES file,     \* the cooldown file: what is left of its deadline
          temp,     \* the temporary file it is written to, one name for all
          lease,    \* the lease file
          governor, \* by process: cooldown, pace and weight
          bucket,   \* by process and client: the coordinator's pause
          task,     \* by request
          abandoned,\* history: a lease file was left behind
          crashes

shared == <<file, temp, lease>>
restVars == <<shared, governor, bucket, task, abandoned, crashes>>

Absent   == -1                       \* no file
NoLease  == [by |-> "nobody", age |-> 0]
Longest  == Max(RetryAfter)
Later(a, b) == Max({a, b})
Less(n)  == IF n > 0 THEN n - 1 ELSE n

Full == [cooldown |-> 0, pace |-> 0, weight |-> Capacity]
Idle(calls) == [at |-> "idle", calls |-> calls, attempt |-> 0, deadline |-> 0, read |-> 0]

RestInit ==
    /\ file = Absent /\ temp = Absent /\ lease = NoLease
    /\ governor = [p \in Processes |-> Full]
    /\ bucket = [p \in Processes |-> [c \in Clients |-> 0]]
    /\ task = [t \in Requests |-> Idle(0)]
    /\ abandoned = FALSE /\ crashes = 0

Waiting == {"acquire", "pace", "lease", "break"}
Persisting == {"write", "rename", "remove", "retry"}

\* quote() keeps the lease to its end, get_json() gives it up with the response.
Quoting(t) == Client[t] = "fx"
Holding(t) == task[t].at = "send" \/ (Quoting(t) /\ task[t].at \in Persisting)

Goes(t, to) == task' = [task EXCEPT ![t].at = to]

------------------------------------------------------------------------------
(* Before a request.                                                       *)

Begin(t) ==
    /\ task[t].at = "idle" /\ task[t].calls < MaxCalls
    /\ task' = [task EXCEPT ![t].at = "acquire", ![t].calls = @ + 1]
    /\ UNCHANGED <<shared, governor, bucket, abandoned, crashes>>

\* The longer of the process's own cooldown and the one in the file.
Heeded(own, read) == Later(own, read)

\* RequestCoordinator::acquire(), where the next one of the class waits for the
\* spacing, and persisted_cooldown_deadline(), once before the wait.
Acquire(t) ==
    LET p == Owner[t] c == Client[t] IN
    /\ task[t].at = "acquire" /\ bucket[p][c] = 0
    /\ bucket' = [bucket EXCEPT ![p][c] = 1]
    /\ governor' = [governor EXCEPT ![p].cooldown = Heeded(@, file)]
    /\ task' = [task EXCEPT ![t].at = "pace", ![t].read = Later(file, 0)]
    /\ UNCHANGED <<shared, abandoned, crashes>>

\* wait_for(): no cooldown, the last request a pause ago, and weight enough.
MayGo(g, weight) == g.cooldown = 0 /\ g.pace = 0 /\ g.weight >= weight

Pace(t) ==
    /\ task[t].at = "pace" /\ MayGo(governor[Owner[t]], Weight[t])
    /\ governor' = [governor EXCEPT ![Owner[t]].weight = @ - Weight[t], ![Owner[t]].pace = 1]
    /\ Goes(t, "lease")
    /\ UNCHANGED <<shared, bucket, abandoned, crashes>>

TakeLease(t) ==
    /\ task[t].at = "lease" /\ lease = NoLease
    /\ lease' = [by |-> t, age |-> 0]
    /\ Goes(t, "send")
    /\ UNCHANGED <<file, temp, governor, bucket, abandoned, crashes>>

BugAnyIsStale(age) == TRUE
BugNoneIsStale(age) == FALSE
TakesForStale(age) == age > MaxAge

\* The age is read, and the file removed in a step of its own.
FindStale(t) ==
    /\ task[t].at = "lease" /\ lease # NoLease /\ TakesForStale(lease.age)
    /\ Goes(t, "break")
    /\ UNCHANGED <<shared, governor, bucket, abandoned, crashes>>

BreakLease(t) ==
    /\ task[t].at = "break"
    /\ lease' = NoLease
    /\ Goes(t, "lease")
    /\ UNCHANGED <<file, temp, governor, bucket, abandoned, crashes>>

------------------------------------------------------------------------------
(* The request and its response.                                           *)

\* Dropping the lease removes the file, whoever's it is by then.
GivesUp(t, holding) == lease' = IF holding THEN NoLease ELSE lease

Ends(t) == task' = [task EXCEPT ![t] = Idle(@.calls)]

\* Transport failures are retried by get_json() only.
Retries(t) ==
    IF ~Quoting(t) /\ task[t].attempt < MaxAttempts
    THEN task' = [task EXCEPT ![t].at = "acquire", ![t].attempt = @ + 1, ![t].read = 0]
    ELSE Ends(t)

TransportFails(t) ==
    /\ task[t].at = "send"
    /\ GivesUp(t, TRUE)
    /\ Retries(t)
    /\ UNCHANGED <<file, temp, governor, bucket, abandoned, crashes>>

BugNoted(g, soft, delay) ==
    [g EXCEPT !.weight = IF soft THEN Min({@, 1}) ELSE @, !.cooldown = delay]

\* note_public_rest_response(): a used weight near the limit empties the bucket.
Noted(g, soft, delay) ==
    [g EXCEPT !.weight = IF soft THEN Min({@, 1}) ELSE @, !.cooldown = Later(@, delay)]

Succeeds(t) ==
    /\ task[t].at = "send"
    /\ GivesUp(t, TRUE)
    /\ \E soft \in BOOLEAN : governor' = [governor EXCEPT ![Owner[t]] = Noted(@, soft, 0)]
    /\ Ends(t)
    /\ UNCHANGED <<file, temp, bucket, abandoned, crashes>>

\* The body is lost after a good response: as a transport failure.
BodyFails(t) ==
    /\ task[t].at = "send"
    /\ GivesUp(t, TRUE)
    /\ \E soft \in BOOLEAN : governor' = [governor EXCEPT ![Owner[t]] = Noted(@, soft, 0)]
    /\ Retries(t)
    /\ UNCHANGED <<file, temp, bucket, abandoned, crashes>>

\* 418 or 429.  The class backs off for its own delay, the governor for the exchange's.
IsLimited(t) ==
    /\ task[t].at = "send"
    /\ GivesUp(t, ~Quoting(t))
    /\ bucket' = [bucket EXCEPT ![Owner[t]][Client[t]] = Later(@, Backoff[Client[t]])]
    /\ \E delay \in RetryAfter, soft \in BOOLEAN :
          /\ governor' = [governor EXCEPT ![Owner[t]] = Noted(@, soft, delay)]
          /\ task' = [task EXCEPT ![t].at = "write", ![t].deadline = delay]
    /\ UNCHANGED <<file, temp, abandoned, crashes>>

------------------------------------------------------------------------------
(* persist_cooldown_deadline().                                            *)

WriteTemp(t) ==
    /\ task[t].at = "write"
    /\ temp' = task[t].deadline
    /\ task' = [task EXCEPT ![t].at = "rename", ![t].deadline = 0]
    /\ UNCHANGED <<file, lease, governor, bucket, abandoned, crashes>>

Persisted(t) == Ends(t) /\ GivesUp(t, Quoting(t))

\* Another task may have renamed the temporary file; then the file goes.
RenameTemp(t) ==
    /\ task[t].at = "rename"
    /\ IF temp # Absent THEN file' = temp /\ temp' = Absent /\ Persisted(t)
       ELSE /\ UNCHANGED <<file, temp>>
            /\ IF file = Absent THEN Persisted(t) ELSE Goes(t, "remove") /\ UNCHANGED lease
    /\ UNCHANGED <<governor, bucket, abandoned, crashes>>

RemoveFile(t) ==
    /\ task[t].at = "remove"
    /\ file' = Absent
    /\ Goes(t, "retry")
    /\ UNCHANGED <<temp, lease, governor, bucket, abandoned, crashes>>

RenameAgain(t) ==
    /\ task[t].at = "retry"
    /\ IF temp # Absent THEN file' = temp /\ temp' = Absent ELSE UNCHANGED <<file, temp>>
    /\ Persisted(t)
    /\ UNCHANGED <<governor, bucket, abandoned, crashes>>

------------------------------------------------------------------------------
(* Time and failure.                                                       *)

Elapsed(g) == [cooldown |-> Less(g.cooldown), pace |-> Less(g.pace), weight |-> Min({g.weight + 1, Capacity})]

\* A lease is held for at most two timeouts, far less than MaxAge.
Tick ==
    /\ file' = Less(file) /\ temp' = Less(temp)
    /\ lease' = IF lease = NoLease THEN lease ELSE [lease EXCEPT !.age = Min({@ + 1, MaxAge + 1})]
    /\ \A t \in Requests : Holding(t) /\ lease.by = t => lease.age < MaxAge
    /\ governor' = [p \in Processes |-> Elapsed(governor[p])]
    /\ bucket' = [p \in Processes |-> [c \in Clients |-> Less(bucket[p][c])]]
    /\ task' = [t \in Requests |-> [task[t] EXCEPT !.deadline = Less(@), !.read = Less(@)]]
    /\ UNCHANGED <<abandoned, crashes>>

\* A process dies and another takes its place.
Crash(p) ==
    /\ crashes < MaxCrashes /\ crashes' = crashes + 1
    /\ abandoned' = (abandoned \/ \E t \in Requests : Owner[t] = p /\ Holding(t))
    /\ task' = [t \in Requests |-> IF Owner[t] = p THEN Idle(task[t].calls) ELSE task[t]]
    /\ governor' = [governor EXCEPT ![p] = Full]
    /\ bucket' = [bucket EXCEPT ![p] = [c \in Clients |-> 0]]
    /\ UNCHANGED shared

Waits(t)    == Acquire(t) \/ Pace(t) \/ TakeLease(t) \/ FindStale(t) \/ BreakLease(t)
Answered(t) == TransportFails(t) \/ Succeeds(t) \/ BodyFails(t) \/ IsLimited(t)
Persists(t) == WriteTemp(t) \/ RenameTemp(t) \/ RemoveFile(t) \/ RenameAgain(t)
Advances(t) == Waits(t) \/ Answered(t) \/ Persists(t)

RestNext ==
    \/ \E t \in Requests : Begin(t) \/ Waits(t) \/ Answered(t) \/ Persists(t)
    \/ \E p \in Processes : Crash(p)
    \/ Tick

RestSpec == RestInit /\ [][RestNext]_restVars

\* tokio runs a task that can run, and time passes.
RestFairSpec == RestSpec /\ WF_restVars(Tick) /\ \A t \in Requests : WF_restVars(Advances(t))

------------------------------------------------------------------------------
\* Until a process has died with the lease, one task at a time, of all processes,
\* has a request under way, and the lease file is its own.
OneRequestAtATime ==
    ~abandoned => \A t \in Requests : Holding(t) => lease.by = t

\* A request is not sent before the cooldown its task has read from the file is
\* over, whatever the responses to other requests of the process come to mean.
CooldownHeeded ==
    \A t \in Requests : task[t].at \in {"lease", "break", "send"} => task[t].read = 0

\* Every request comes to an end, also when the holder of the lease has died: a
\* stale lease is removed (the comment on CrossProcessRestLease).
RequestsEnd ==
    (\E t \in Requests : task[t].at # "idle") ~> (\A t \in Requests : task[t].at = "idle")

\* The comment on note_public_rest_response: it extends the cooldown of all processes.
CooldownOnlyExtends == [][Tick \/ file' >= file]_restVars
=============================================================================
