---------------------------- MODULE ControlPlane ----------------------------
(***************************************************************************)
(* The control plane of the live runner: runtime/control_plane.rs over the *)
(* SystemRegistry of platform.rs, driven the way run() of                  *)
(* bin/anchorbell_live.rs drives it.  Systems report health by signals; a  *)
(* report expires after the system's interval; execution is ready when the *)
(* execution gateway and everything it depends on, directly or not, are    *)
(* ready and fresh.  LiveSession leaves this verdict open; here it is made.*)
(*                                                                         *)
(* Time is counted in units; one event of the runner and the verdict that  *)
(* follows it in the same turn happen at one time.  Left out: telemetry    *)
(* (queue depth, error rate, diagnostics), the published transitions, and  *)
(* degrade and mark_halted, which the live runner never calls.             *)
(***************************************************************************)
EXTENDS Naturals, FiniteSets

CONSTANTS Systems,     \* the registered systems
          DependsOn,   \* SystemDescriptor.dependencies of each system
          Interval,    \* SystemDescriptor.health_interval_ms of each system
          Listens,     \* for each signal, the systems registered for it
          Gateway,     \* the system with the role ExecutionGateway
          MaxTime      \* bound: the last time a behaviour reaches

Signals == {"runtime_bootstrap", "market_events", "reference_data", "user_data"}

ASSUME DependsOnAssumption == DependsOn \in [Systems -> SUBSET Systems]
ASSUME IntervalAssumption == Interval \in [Systems -> Nat \ {0}]
ASSUME ListensAssumption == Listens \in [Signals -> SUBSET Systems]
ASSUME GatewayAssumption == Gateway \in Systems
ASSUME MaxTimeAssumption == MaxTime \in Nat \ {0}
ASSUME SystemsAssumption == IsFiniteSet(Systems)

\* What the catalog of platform.rs has: a system is registered for one signal at most,
\* and the gateway rests, within three levels, on a system registered for each source.
Sources == {"runtime_bootstrap", "market_events", "reference_data"}
Below(systems) == systems \cup UNION {DependsOn[d] : d \in systems}

ASSUME OneSignalAssumption ==
    \A a, b \in Signals : a # b => Listens[a] \cap Listens[b] = {}
ASSUME SourcesAssumption ==
    \A signal \in Sources : Below(Below(Below({Gateway}))) \cap Listens[signal] # {}

VARIABLES now,        \* the clock of the runner
          health,     \* the HealthSnapshot of each system
          running,    \* the run has not returned an error
          reported    \* history: when each signal last reported, 0 for never

vars == <<now, health, running, reported>>

Snapshot == [state: {"Discovered", "Ready"}, at: Nat, stale: BOOLEAN]

\* Every variable has its type, and no report comes from the future.
TypeOK ==
    /\ now \in 1..MaxTime /\ running \in BOOLEAN
    /\ health \in [Systems -> Snapshot] /\ \A s \in Systems : health[s].at <= now
    /\ reported \in [Signals -> 0..MaxTime]

\* bootstrap_health(0): discovered, and stale until a first report.
Init ==
    /\ now = 1 /\ running = TRUE
    /\ health = [s \in Systems |-> [state |-> "Discovered", at |-> 0, stale |-> TRUE]]
    /\ reported = [signal \in Signals |-> 0]

-----------------------------------------------------------------------------
(* Freshness and readiness.                                                *)

FreshAt(s, snapshot) ==
    /\ ~snapshot.stale /\ snapshot.at <= now
    /\ now - snapshot.at <= Interval[s]

\* mark_stale_at
MarkStale(h) == [s \in Systems |-> [h[s] EXCEPT !.stale = ~FreshAt(s, h[s])]]

\* Each system with all it depends on: what readiness_visit visits.  The registry
\* has refused cycles, so as many rounds as there are systems reach everything.
BugClosure == [s \in Systems |-> {s} \cup DependsOn[s]]
Closure == [s \in Systems |->
    LET reached[n \in 0..Cardinality(Systems)] ==
            IF n = 0 THEN {s}
            ELSE LET before == reached[n - 1]
                 IN  before \cup UNION {DependsOn[d] : d \in before}
    IN  reached[Cardinality(Systems)]]

\* readiness_at, for a registry whose stale marks are up to date.
ReadyAt(h, s) == \A d \in Closure[s] :
    h[d].state = "Ready" /\ ~h[d].stale /\ FreshAt(d, h[d])

ExecutionReady == ReadyAt(MarkStale(health), Gateway)

-----------------------------------------------------------------------------
(* The runner's reports, each followed by the verdict of the same turn.    *)

Regresses(signal, at) == \E s \in Listens[signal] : at < health[s].at

\* heartbeat_signal: a report older than the last one of a system is refused,
\* and the runner answers the refusal by returning.
Report(signal, at) ==
    LET beaten == [s \in Systems |->
                     IF s \in Listens[signal]
                     THEN [state |-> "Ready", at |-> at, stale |-> FALSE]
                     ELSE health[s]]
    IN  /\ running
        /\ IF Regresses(signal, at)
           THEN running' = FALSE /\ UNCHANGED <<health, reported>>
           ELSE /\ health' = MarkStale(beaten)
                /\ reported' = [reported EXCEPT ![signal] = at]
                /\ UNCHANGED running
        /\ UNCHANGED now

\* bootstrap_ready, once, when the startup reconciliation has succeeded; the
\* event loop comes after it.
Booted == reported["runtime_bootstrap"] # 0

BootstrapReady == ~Booted /\ Report("runtime_bootstrap", now)

ObserveMarket   == Booted /\ Report("market_events", now)
ObserveUserData == Booted /\ Report("user_data", now)

\* A quote is reported at the time it was observed, which may be long ago when
\* it comes from the cache.
ObserveReference == Booted /\ \E at \in 1..now : Report("reference_data", at)

\* The 250 ms tick.
Tick ==
    /\ running /\ Booted
    /\ health' = MarkStale(health)
    /\ UNCHANGED <<now, running, reported>>

TimePasses ==
    /\ running /\ now < MaxTime
    /\ now' = now + 1
    /\ UNCHANGED <<health, running, reported>>

Next == \/ BootstrapReady \/ ObserveMarket \/ ObserveUserData \/ ObserveReference
        \/ Tick \/ TimePasses

Spec == Init /\ [][Next]_vars

-----------------------------------------------------------------------------

\* Execution is never ready on part of its inputs: the bootstrap, the market and
\* the reference have each reported, and within the interval of a system that
\* listens to them, though the gateway itself only depends on systems that listen
\* to the market and the reference is two levels further down.
AdmissionNeedsEverySource ==
    ExecutionReady =>
        \A signal \in Sources :
            /\ reported[signal] # 0
            /\ \E s \in Listens[signal] : now - reported[signal] <= Interval[s]

\* A report older than one already taken never replaces it: the evidence a later
\* verdict rests on only gets newer, whatever the cache answers.
EvidenceOnlyAdvances ==
    [][\A s \in Systems : health'[s].at >= health[s].at]_vars

\* Recovery needs fresh inputs and nothing else: when the market has reported at
\* this very moment and the reference within its interval, execution is ready.
FreshInputsAdmit ==
    Booted /\ reported["market_events"] = now
    /\ (\A s \in Listens["reference_data"] :
          reported["reference_data"] # 0 /\ now - reported["reference_data"] <= Interval[s])
        => ExecutionReady
=============================================================================
