--------------------------- MODULE SystemRegistry ---------------------------
(***************************************************************************)
(* The registry of platform.rs and the control plane over it as any caller *)
(* may use them: reports of single systems and of signals, at times that   *)
(* the clock of the caller or of the exchange gives; systems that are      *)
(* halted or degraded; policies that are replaced while the rest runs.     *)
(* ControlPlane has what the live runner does with it.                     *)
(*                                                                         *)
(* A descriptor is its dependencies; what replace_policy() does not let    *)
(* change is a constant.  Telemetry is whether invariants have failed, and *)
(* the published transitions are left out.                                 *)
(***************************************************************************)
EXTENDS Naturals, FiniteSets

CONSTANTS
    Catalog,      \* the registered systems
    Requires,     \* their dependencies at the start
    LayerOf,      \* PlatformLayer, as a number
    Governed,     \* those with Mutability::GovernedPolicy
    IntervalOf,   \* health_interval_ms
    SignalsOf,    \* by signal: its systems, in the order of their ids
    Replacements, \* bound: the sets of dependencies a replacement may name
    LastMoment,   \* bound of the clock
    MaxCalls      \* bound: calls other than signals

VARIABLES
    requires,     \* descriptors
    snapshot,     \* health
    moment,       \* the clock
    calls,
    stopped       \* history: systems whose last word but heartbeats was a halt or a
                  \* broken invariant

registryVars == <<requires, snapshot, moment, calls, stopped>>

RegistryInit ==
    /\ requires = Requires
    /\ snapshot = [s \in Catalog |-> [state |-> "Discovered", at |-> 0, stale |-> TRUE,
                                      broken |-> FALSE]]
    /\ moment = 1 /\ calls = 0 /\ stopped = {}

-----------------------------------------------------------------------------
(* Topology.                                                               *)

\* dependency_closure(): in as many rounds as there are systems.
ClosureIn(graph, s) ==
    LET reach[n \in 0 .. Cardinality(Catalog)] ==
            IF n = 0 THEN {s}
            ELSE LET before == reach[n - 1] IN before \cup UNION {graph[d] : d \in before}
    IN  reach[Cardinality(Catalog)]

\* validate_topology(): all registered, none upward, no cycle.
Valid(graph) ==
    /\ \A s \in Catalog : graph[s] \subseteq Catalog
    /\ \A s \in Catalog : \A d \in graph[s] : LayerOf[d] <= LayerOf[s]
    /\ \A s \in Catalog : \A d \in graph[s] : s \notin ClosureIn(graph, d)

\* The catalog of platform.rs, which from_catalog() accepts; and whatever a system of the
\* immutable core rests on in it, as far as it is of the core, it rests on without the help
\* of a policy.
CoreOnly(graph) == [s \in Catalog |-> IF s \in Governed THEN {} ELSE graph[s]]

ASSUME CatalogAssumption ==
    IsFiniteSet(Catalog) /\ Requires \in [Catalog -> SUBSET Catalog] /\ Valid(Requires)
ASSUME CoreAssumption ==
    \A s \in Catalog \ Governed :
        ClosureIn(Requires, s) \ Governed \subseteq ClosureIn(CoreOnly(Requires), s)

BugReplaceable(s) == TRUE
Replaceable(s) == s \in Governed

\* replace_policy(): any other field that differs is an error as well, and an invalid
\* topology puts the previous descriptor back.
ReplacePolicy(s, dependencies) ==
    LET replaced == [requires EXCEPT ![s] = dependencies]
    IN  /\ calls < MaxCalls /\ calls' = calls + 1
        /\ requires' = IF Replaceable(s) /\ Valid(replaced) THEN replaced ELSE requires
        /\ UNCHANGED <<snapshot, moment, stopped>>

-----------------------------------------------------------------------------
(* Health.                                                                 *)

IsFresh(s, h) == ~h.stale /\ h.at <= moment /\ moment - h.at <= IntervalOf[s]

\* report_health(): a report that is older than the last one is an error.
Accepts(s, at) == at >= snapshot[s].at
Reports(s, h) == snapshot' = IF Accepts(s, h.at) THEN [snapshot EXCEPT ![s] = h] ELSE snapshot

\* heartbeat(): what it makes of the last snapshot.
BugBeaten(h, at) == [h EXCEPT !.state = "Ready", !.at = at, !.stale = FALSE]
Beaten(h, at) ==
    [h EXCEPT !.state = IF h.state = "Halted" \/ (h.state = "Degraded" /\ h.broken)
                        THEN h.state ELSE "Ready",
              !.at = at, !.stale = FALSE]

Calls_ == calls < MaxCalls /\ calls' = calls + 1 /\ UNCHANGED <<requires, moment>>

Heartbeat(s, at) == Calls_ /\ Reports(s, Beaten(snapshot[s], at)) /\ UNCHANGED stopped

\* heartbeat_signal(): the first refusal ends it, after the systems before.
HeartbeatSignal(signal, at) ==
    LET systems == SignalsOf[signal]
        refused == {i \in DOMAIN systems : ~Accepts(systems[i], at)}
        done    == {systems[i] : i \in {j \in DOMAIN systems : \A k \in refused : j < k}}
    IN  /\ snapshot' = [s \in Catalog |-> IF s \in done THEN Beaten(snapshot[s], at) ELSE snapshot[s]]
        /\ UNCHANGED <<requires, moment, calls, stopped>>

\* degrade() and mark_halted(): all but state and time as it was.
Marks(s, at, state) ==
    /\ Calls_
    /\ Reports(s, [snapshot[s] EXCEPT !.state = state, !.at = at, !.stale = FALSE])
    /\ stopped' = IF ~Accepts(s, at) THEN stopped
                  ELSE IF state = "Halted" \/ snapshot[s].broken THEN stopped \cup {s}
                  ELSE stopped \ {s}

\* report_system_health() of a subsystem with a broken invariant, or mended.
ReportsItself(s, at, state, broken) ==
    /\ Calls_
    /\ Reports(s, [state |-> state, at |-> at, stale |-> FALSE, broken |-> broken])
    /\ stopped' = IF ~Accepts(s, at) THEN stopped
                  ELSE IF broken THEN stopped \cup {s} ELSE stopped \ {s}

\* mark_stale_at()
MarkStaleAt ==
    /\ snapshot' = [s \in Catalog |-> [snapshot[s] EXCEPT !.stale = ~IsFresh(s, snapshot[s])]]
    /\ UNCHANGED <<requires, moment, calls, stopped>>

Elapses ==
    /\ moment < LastMoment /\ moment' = moment + 1
    /\ UNCHANGED <<requires, snapshot, calls, stopped>>

-----------------------------------------------------------------------------
(* Readiness.                                                              *)

Tradable(s) == LET h == snapshot[s] IN h.state = "Ready" /\ ~h.broken /\ IsFresh(s, h)

\* readiness_visit(): a system and everything it depends on.
Ready(s) == \A d \in ClosureIn(requires, s) : Tradable(d)

\* readiness_for_role() and readiness_for_capability(): one provider is enough.
SomeReady(providers) == \E s \in providers : Ready(s)

\* The exchange's clock may be ahead, and the next report be older than the last one.
Times == {moment, moment + 1}

RegistryNext ==
    \/ \E s \in Catalog, at \in Times : Heartbeat(s, at)
    \/ \E s \in Catalog, at \in Times, state \in {"Degraded", "Halted"} : Marks(s, at, state)
    \/ \E s \in Catalog, at \in Times, broken \in BOOLEAN :
          ReportsItself(s, at, IF broken THEN "Degraded" ELSE "Ready", broken)
    \/ \E signal \in DOMAIN SignalsOf, at \in Times : HeartbeatSignal(signal, at)
    \/ \E s \in Catalog, dependencies \in Replacements :
          ReplacePolicy(s, dependencies)
    \/ MarkStaleAt
    \/ Elapses

RegistrySpec == RegistryInit /\ [][RegistryNext]_registryVars

-----------------------------------------------------------------------------
\* Whatever policies are replaced, one after the other: the topology stays one that
\* from_catalog() would accept, and a system of the immutable core rests on every system
\* of the core that it rested on at the start, though a path between them may lead
\* through a policy.
CoreIsKept ==
    /\ Valid(requires)
    /\ \A s \in Catalog \ Governed :
          ClosureIn(Requires, s) \ Governed \subseteq ClosureIn(requires, s)

\* A system that was halted, or whose invariants are broken, makes nothing ready that rests
\* on it, however many heartbeats come after and whichever way its dependents are wired by
\* then: only a report about the system itself ends that.
StopsHold ==
    \A s \in Catalog :
        Ready(s) => ClosureIn(requires, s) \cap stopped = {}

\* A halt that is reported with a time before the last report's is refused, and the
\* system goes on as ready.
HaltIsTaken == [][\A s \in Catalog, at \in Times : Marks(s, at, "Halted") => s \in stopped']_registryVars
=============================================================================
