--------------------------- MODULE RegistryProofs ---------------------------
(***************************************************************************)
(* StopsHold and CoreIsKept of SystemRegistry, for every catalog, graph    *)
(* and number of calls; and FeedIsSound of ReferenceFeed, the poller with  *)
(* the live runner's control plane behind it, for any number of systems    *)
(* and currencies.                                                         *)
(***************************************************************************)
EXTENDS SystemRegistry, ReferenceFeed, FiniteSetTheorems, TLAPS

States == {"Discovered", "Ready", "Degraded", "Halted"}
Snapshots == [state: States, at: Nat, stale: BOOLEAN, broken: BOOLEAN]

TypeInv ==
    /\ snapshot \in [Catalog -> Snapshots]
    /\ moment \in Nat
    /\ stopped \subseteq Catalog

\* What keeps a stopped system from being tradable outlasts heartbeats: the state Halted
\* or a broken invariant.
Marked == \A s \in stopped : snapshot[s].state = "Halted" \/ snapshot[s].broken

RegistryInv == TypeInv /\ Marked

-----------------------------------------------------------------------------
\* Heartbeats keep what a report said of the system itself (heartbeat()).
LEMMA BeatenKeeps ==
    ASSUME NEW h \in Snapshots, NEW at \in Nat
    PROVE  /\ Beaten(h, at) \in Snapshots
           /\ Beaten(h, at).broken = h.broken
           /\ h.state = "Halted" => Beaten(h, at).state = "Halted"
  BY DEF Beaten, Snapshots, States

LEMMA InitEstablishes == RegistryInit => RegistryInv
  BY DEF RegistryInit, RegistryInv, TypeInv, Marked, Snapshots, States

\* A report replaces the snapshot of one system or is refused.
LEMMA ReportsKeep ==
    ASSUME TypeInv, NEW s \in Catalog, NEW h \in Snapshots, Reports(s, h)
    PROVE  /\ snapshot' \in [Catalog -> Snapshots]
           /\ \A d \in Catalog : d # s => snapshot'[d] = snapshot[d]
           /\ snapshot'[s] = IF Accepts(s, h.at) THEN h ELSE snapshot[s]
  BY DEF TypeInv, Reports, Snapshots

LEMMA StepKeeps == RegistryInv /\ [RegistryNext]_registryVars => RegistryInv'
<1> SUFFICES ASSUME RegistryInv, [RegistryNext]_registryVars PROVE RegistryInv'
  OBVIOUS
<1> USE DEF RegistryInv
<1>t. \A at \in Times : at \in Nat
  BY DEF Times, TypeInv
<1>1. ASSUME NEW s \in Catalog, NEW at \in Times, Heartbeat(s, at) PROVE RegistryInv'
  <2>1. snapshot[s] \in Snapshots
    BY DEF TypeInv
  <2>2. /\ Beaten(snapshot[s], at) \in Snapshots
        /\ Beaten(snapshot[s], at).broken = snapshot[s].broken
        /\ snapshot[s].state = "Halted" => Beaten(snapshot[s], at).state = "Halted"
    BY <1>t, <2>1, BeatenKeeps
  <2>3. /\ Reports(s, Beaten(snapshot[s], at)) /\ stopped' = stopped /\ moment' = moment
    BY <1>1 DEF Heartbeat, Calls_
  <2>4. /\ snapshot' \in [Catalog -> Snapshots]
        /\ \A d \in Catalog : d # s => snapshot'[d] = snapshot[d]
        /\ snapshot'[s] = IF Accepts(s, Beaten(snapshot[s], at).at)
                          THEN Beaten(snapshot[s], at) ELSE snapshot[s]
    BY <2>2, <2>3, ReportsKeep
  <2>5. Marked'
    BY <2>2, <2>3, <2>4 DEF Marked, TypeInv
  <2> QED
    BY <2>3, <2>4, <2>5 DEF TypeInv
<1>2. ASSUME NEW s \in Catalog, NEW at \in Times, NEW state \in {"Degraded", "Halted"},
             Marks(s, at, state)
      PROVE  RegistryInv'
  <2> DEFINE h == [snapshot[s] EXCEPT !.state = state, !.at = at, !.stale = FALSE]
  <2>1. h \in Snapshots /\ h.state = state /\ h.at = at /\ h.broken = snapshot[s].broken
    BY <1>t DEF TypeInv, Snapshots, States
  <2>2. Reports(s, h) /\ moment' = moment
    BY <1>2 DEF Marks, Calls_
  <2>3. /\ snapshot' \in [Catalog -> Snapshots]
        /\ \A d \in Catalog : d # s => snapshot'[d] = snapshot[d]
        /\ snapshot'[s] = IF Accepts(s, at) THEN h ELSE snapshot[s]
    BY <2>1, <2>2, ReportsKeep
  <2>4. stopped' = IF ~Accepts(s, at) THEN stopped
                   ELSE IF state = "Halted" \/ snapshot[s].broken THEN stopped \cup {s}
                   ELSE stopped \ {s}
    BY <1>2 DEF Marks
  <2>5. Marked'
    <3> SUFFICES ASSUME NEW d \in stopped' PROVE snapshot'[d].state = "Halted" \/ snapshot'[d].broken
      BY DEF Marked
    <3>1. d \in Catalog
      BY <2>4 DEF TypeInv
    <3>2. CASE d # s
      BY <3>1, <3>2, <2>3, <2>4 DEF Marked
    <3>3. CASE d = s /\ ~Accepts(s, at)
      BY <3>3, <2>3, <2>4 DEF Marked
    <3>4. CASE d = s /\ Accepts(s, at)
      BY <3>4, <2>1, <2>3, <2>4
    <3> QED
      BY <3>2, <3>3, <3>4
  <2> HIDE DEF h
  <2> QED
    BY <2>2, <2>3, <2>4, <2>5 DEF TypeInv
<1>3. ASSUME NEW s \in Catalog, NEW at \in Times, NEW broken \in BOOLEAN,
             ReportsItself(s, at, IF broken THEN "Degraded" ELSE "Ready", broken)
      PROVE  RegistryInv'
  <2> DEFINE h == [state |-> IF broken THEN "Degraded" ELSE "Ready", at |-> at, stale |-> FALSE,
                   broken |-> broken]
  <2>1. h \in Snapshots /\ h.at = at /\ h.broken = broken
    BY <1>t DEF Snapshots, States
  <2>2. Reports(s, h) /\ moment' = moment
    BY <1>3 DEF ReportsItself, Calls_
  <2>3. /\ snapshot' \in [Catalog -> Snapshots]
        /\ \A d \in Catalog : d # s => snapshot'[d] = snapshot[d]
        /\ snapshot'[s] = IF Accepts(s, at) THEN h ELSE snapshot[s]
    BY <2>1, <2>2, ReportsKeep
  <2>4. stopped' = IF ~Accepts(s, at) THEN stopped
                   ELSE IF broken THEN stopped \cup {s} ELSE stopped \ {s}
    BY <1>3 DEF ReportsItself
  <2>5. Marked'
    <3> SUFFICES ASSUME NEW d \in stopped' PROVE snapshot'[d].state = "Halted" \/ snapshot'[d].broken
      BY DEF Marked
    <3>1. d \in Catalog
      BY <2>4 DEF TypeInv
    <3>2. CASE d # s
      BY <3>1, <3>2, <2>3, <2>4 DEF Marked
    <3>3. CASE d = s /\ ~Accepts(s, at)
      BY <3>3, <2>3, <2>4 DEF Marked
    <3>4. CASE d = s /\ Accepts(s, at)
      BY <3>4, <2>1, <2>3, <2>4
    <3> QED
      BY <3>2, <3>3, <3>4
  <2> HIDE DEF h
  <2> QED
    BY <2>2, <2>3, <2>4, <2>5 DEF TypeInv
<1>4. ASSUME NEW signal \in DOMAIN SignalsOf, NEW at \in Times, HeartbeatSignal(signal, at)
      PROVE  RegistryInv'
  <2> DEFINE refused == {i \in DOMAIN SignalsOf[signal] : ~Accepts(SignalsOf[signal][i], at)}
             done == {SignalsOf[signal][i] :
                        i \in {j \in DOMAIN SignalsOf[signal] : \A k \in refused : j < k}}
  <2>1. /\ snapshot' = [s \in Catalog |-> IF s \in done THEN Beaten(snapshot[s], at)
                                          ELSE snapshot[s]]
        /\ stopped' = stopped /\ moment' = moment
    BY <1>4 DEF HeartbeatSignal
  <2> HIDE DEF done, refused
  <2>2. \A s \in Catalog : /\ Beaten(snapshot[s], at) \in Snapshots
                           /\ Beaten(snapshot[s], at).broken = snapshot[s].broken
                           /\ snapshot[s].state = "Halted" => Beaten(snapshot[s], at).state = "Halted"
    BY <1>t, BeatenKeeps DEF TypeInv
  <2>3. snapshot' \in [Catalog -> Snapshots]
    BY <2>1, <2>2 DEF TypeInv
  <2>4. Marked'
    <3> SUFFICES ASSUME NEW d \in stopped PROVE snapshot'[d].state = "Halted" \/ snapshot'[d].broken
      BY <2>1 DEF Marked
    <3>1. d \in Catalog /\ (snapshot[d].state = "Halted" \/ snapshot[d].broken)
      BY DEF Marked, TypeInv
    <3> QED
      BY <3>1, <2>1, <2>2
  <2> QED
    BY <2>1, <2>3, <2>4 DEF TypeInv
<1>5. ASSUME NEW s \in Catalog, NEW dependencies \in Replacements, ReplacePolicy(s, dependencies)
      PROVE  RegistryInv'
  BY <1>5 DEF ReplacePolicy, TypeInv, Marked
<1>6. CASE MarkStaleAt
  <2>1. /\ snapshot' = [s \in Catalog |-> [snapshot[s] EXCEPT !.stale = ~IsFresh(s, snapshot[s])]]
        /\ stopped' = stopped /\ moment' = moment
    BY <1>6 DEF MarkStaleAt
  <2>2. snapshot' \in [Catalog -> Snapshots]
    BY <2>1 DEF TypeInv, Snapshots, IsFresh
  <2>3. Marked'
    BY <2>1 DEF Marked, TypeInv, Snapshots
  <2> QED
    BY <2>1, <2>2, <2>3 DEF TypeInv
<1>7. CASE Elapses
  BY <1>7 DEF Elapses, TypeInv, Marked
<1>8. CASE UNCHANGED registryVars
  BY <1>8 DEF registryVars, TypeInv, Marked
<1> QED
  BY <1>1, <1>2, <1>3, <1>4, <1>5, <1>6, <1>7, <1>8 DEF RegistryNext

-----------------------------------------------------------------------------
\* A halted or broken system is not tradable, so nothing that rests on it is ready.
LEMMA MarkedStops == RegistryInv => StopsHold
  BY DEF RegistryInv, TypeInv, Marked, StopsHold, Ready, Tradable, Snapshots, States

\* Whatever heartbeats, signals, expiries and replacements follow, in any catalog: a system
\* that was halted or whose invariants are broken makes nothing ready that rests on it.
THEOREM StopsAreKept == RegistrySpec => []StopsHold
<1>1. RegistryInit => RegistryInv
  BY InitEstablishes
<1>2. RegistryInv /\ [RegistryNext]_registryVars => RegistryInv'
  BY StepKeeps
<1>3. RegistryInv => StopsHold
  BY MarkedStops
<1> QED
  BY <1>1, <1>2, <1>3, PTL DEF RegistrySpec
-----------------------------------------------------------------------------
(* Closures.  Both registries compute one in rounds; a round adds what the  *)
(* systems reached so far depend on.                                        *)

\* What holds at 0 and passes from each number to the next holds of every number: a
\* set without its first element would have as many elements as with it.
LEMMA Induction ==
    ASSUME NEW S, 0 \in S, \A n \in Nat : n \in S => n + 1 \in S
    PROVE  Nat \subseteq S
<1> SUFFICES ASSUME NEW n \in Nat, n \notin S PROVE FALSE
  OBVIOUS
<1> DEFINE U == {m \in 0 .. n : m \notin S}
           V == U \ {n}
           f == [m \in U |-> m - 1]
<1>1. IsFiniteSet(U) /\ IsFiniteSet(V) /\ Cardinality(V) < Cardinality(U)
  <2>1. IsFiniteSet(0 .. n)
    BY FS_Interval
  <2>2. IsFiniteSet(U)
    BY <2>1, FS_Subset
  <2>3. n \in U
    OBVIOUS
  <2> HIDE DEF U
  <2>4. IsFiniteSet(V) /\ Cardinality(V) = Cardinality(U) - 1 /\ Cardinality(U) \in Nat
    BY <2>2, <2>3, FS_RemoveElement, FS_CardinalityType
  <2> QED
    BY <2>2, <2>4
<1>2. \A m \in U : m - 1 \in V
  <2> SUFFICES ASSUME NEW m \in U PROVE m - 1 \in V
    OBVIOUS
  <2>1. m # 0 /\ m - 1 \in Nat
    OBVIOUS
  <2>2. m - 1 \notin S
    BY <2>1
  <2> QED
    BY <2>1, <2>2
<1>3. f \in [U -> V]
  BY <1>2
<1>4. \A x, y \in U : x # y => f[x] # f[y]
  OBVIOUS
<1> HIDE DEF U, V, f
<1> QED
  BY <1>1, <1>3, <1>4, FS_PigeonHole

Wider(graph, set) == set \cup UNION {graph[d] : d \in set}

\* The rounds from s on: what a closure computes round by round.
AreRounds(f, graph, s, n) ==
    f = [i \in 0 .. n |-> IF i = 0 THEN {s} ELSE Wider(graph, f[i - 1])]

Rounds(graph, s, n) == CHOOSE f : AreRounds(f, graph, s, n)

LEMMA RoundsExist ==
    ASSUME NEW graph, NEW s, NEW n \in Nat
    PROVE  AreRounds(Rounds(graph, s, n), graph, s, n)
<1> DEFINE S == {m \in Nat : \E f : AreRounds(f, graph, s, m)}
<1>1. 0 \in S
  <2>1. AreRounds([i \in 0 .. 0 |-> {s}], graph, s, 0)
    BY DEF AreRounds
  <2> QED
    BY <2>1
<1>2. ASSUME NEW m \in Nat, m \in S PROVE m + 1 \in S
  <2>1. PICK f : AreRounds(f, graph, s, m)
    BY <1>2
  <2> DEFINE g == [i \in 0 .. m + 1 |-> IF i <= m THEN f[i] ELSE Wider(graph, f[m])]
  <2>2. g = [i \in 0 .. m + 1 |-> IF i = 0 THEN {s} ELSE Wider(graph, g[i - 1])]
    <3>1. ASSUME NEW i \in 0 .. m + 1
          PROVE  g[i] = IF i = 0 THEN {s} ELSE Wider(graph, g[i - 1])
      <4>1. CASE i = 0
        BY <2>1, <4>1 DEF AreRounds
      <4>2. CASE i # 0 /\ i <= m
        <5>1. i \in 0 .. m /\ i - 1 \in 0 .. m
          BY <4>2
        <5>2. f[i] = Wider(graph, f[i - 1])
          BY <2>1, <4>2, <5>1 DEF AreRounds
        <5>3. g[i] = f[i] /\ g[i - 1] = f[i - 1]
          BY <4>2, <5>1
        <5> QED
          BY <4>2, <5>2, <5>3
      <4>3. CASE i = m + 1
        <5>1. g[i] = Wider(graph, f[m]) /\ g[i - 1] = f[m] /\ i # 0
          BY <4>3
        <5> QED
          BY <5>1
      <4> QED
        BY <4>1, <4>2, <4>3
    <3>2. g = [i \in 0 .. m + 1 |-> g[i]]
      OBVIOUS
    <3> HIDE DEF g
    <3> QED
      BY <3>1, <3>2
  <2>3. AreRounds(g, graph, s, m + 1)
    BY <2>2 DEF AreRounds
  <2> QED
    BY <2>3
<1>3. n \in S
  <2> HIDE DEF S
  <2>1. Nat \subseteq S
    BY <1>1, <1>2, Induction
  <2> QED
    BY <2>1
<1> QED
  BY <1>3 DEF Rounds

LEMMA RoundsStep ==
    ASSUME NEW graph, NEW s, NEW n \in Nat
    PROVE  /\ Rounds(graph, s, n)[0] = {s}
           /\ \A i \in 0 .. n : i < n =>
                Rounds(graph, s, n)[i + 1] = Wider(graph, Rounds(graph, s, n)[i])
<1> DEFINE f == Rounds(graph, s, n)
<1>1. f = [i \in 0 .. n |-> IF i = 0 THEN {s} ELSE Wider(graph, f[i - 1])]
  BY RoundsExist DEF AreRounds
<1> HIDE DEF f
<1>2. f[0] = {s}
  BY <1>1
<1>3. ASSUME NEW i \in 0 .. n, i < n PROVE f[i + 1] = Wider(graph, f[i])
  <2>1. i + 1 \in 0 .. n /\ i + 1 # 0 /\ (i + 1) - 1 = i
    BY <1>3
  <2> QED
    BY <1>1, <2>1
<1> QED
  BY <1>2, <1>3 DEF f

\* A closure is the last round.
LEMMA ClosureInIsRound ==
    ASSUME NEW graph, NEW s
    PROVE  ClosureIn(graph, s) = Rounds(graph, s, Cardinality(Catalog))[Cardinality(Catalog)]
  BY DEF ClosureIn, Rounds, AreRounds, Wider

LEMMA ClosureIsRound ==
    ASSUME NEW s \in Systems
    PROVE  Closure[s] = Rounds(DependsOn, s, Cardinality(Systems))[Cardinality(Systems)]
  BY DEF Closure, Rounds, AreRounds, Wider

\* More edges, and a start within the graph: what is reached in the smaller graph is
\* reached in the larger one.
LEMMA WiderGraphReachesMore ==
    ASSUME NEW G, NEW less, NEW more, NEW s \in G, NEW n \in Nat,
           \A d \in G : less[d] \subseteq more[d] /\ less[d] \subseteq G
    PROVE  Rounds(less, s, n)[n] \subseteq Rounds(more, s, n)[n]
<1> DEFINE f == Rounds(less, s, n)
           g == Rounds(more, s, n)
           S == {i \in Nat : i <= n => f[i] \subseteq g[i] /\ f[i] \subseteq G}
<1> HIDE DEF f, g
<1>1. 0 \in S
  <2>1. f[0] = {s} /\ g[0] = {s}
    BY RoundsStep DEF f, g
  <2> QED
    BY <2>1
<1>2. ASSUME NEW i \in Nat, i \in S PROVE i + 1 \in S
  <2> SUFFICES ASSUME i + 1 <= n PROVE f[i + 1] \subseteq g[i + 1] /\ f[i + 1] \subseteq G
    OBVIOUS
  <2>1. f[i] \subseteq g[i] /\ f[i] \subseteq G
    BY <1>2
  <2>2. f[i + 1] = Wider(less, f[i]) /\ g[i + 1] = Wider(more, g[i])
    BY RoundsStep DEF f, g
  <2> QED
    BY <2>1, <2>2 DEF Wider
<1>3. n \in S
  <2> HIDE DEF S
  <2>1. Nat \subseteq S
    BY <1>1, <1>2, Induction
  <2> QED
    BY <2>1
<1> QED
  BY <1>3 DEF f, g

\* No round loses what an earlier one has reached.
LEMMA RoundsGrow ==
    ASSUME NEW graph, NEW s, NEW n \in Nat, NEW i \in 0 .. n
    PROVE  Rounds(graph, s, n)[i] \subseteq Rounds(graph, s, n)[n]
<1> DEFINE f == Rounds(graph, s, n)
           S == {k \in Nat : i + k <= n => f[i] \subseteq f[i + k]}
<1> HIDE DEF f
<1>1. 0 \in S
  OBVIOUS
<1>2. ASSUME NEW k \in Nat, k \in S PROVE k + 1 \in S
  <2> SUFFICES ASSUME i + (k + 1) <= n PROVE f[i] \subseteq f[i + (k + 1)]
    OBVIOUS
  <2>1. f[i] \subseteq f[i + k] /\ i + k \in 0 .. n /\ i + k < n
    BY <1>2
  <2>2. f[(i + k) + 1] = Wider(graph, f[i + k])
    BY <2>1, RoundsStep DEF f
  <2>3. (i + k) + 1 = i + (k + 1)
    OBVIOUS
  <2> QED
    BY <2>1, <2>2, <2>3 DEF Wider
<1>3. n - i \in S
  <2> HIDE DEF S
  <2>1. Nat \subseteq S
    BY <1>1, <1>2, Induction
  <2> QED
    BY <2>1
<1>4. i + (n - i) = n
  OBVIOUS
<1> QED
  BY <1>3, <1>4 DEF f

-----------------------------------------------------------------------------
(* The immutable core.                                                      *)

\* Only descriptors of governed policies are ever replaced, and only by a topology that
\* is valid: replace_policy().
Topologies == {graph \in [Catalog -> SUBSET Catalog] : Valid(graph)}

CoreInv ==
    /\ requires \in Topologies
    /\ \A s \in Catalog \ Governed : requires[s] = Requires[s]

LEMMA CoreInvHolds == RegistrySpec => []CoreInv
<1>1. RegistryInit => CoreInv
  BY CatalogAssumption DEF RegistryInit, CoreInv, Topologies
<1>2. CoreInv /\ [RegistryNext]_registryVars => CoreInv'
  <2> SUFFICES ASSUME CoreInv, [RegistryNext]_registryVars PROVE CoreInv'
    OBVIOUS
  <2>1. CASE requires' = requires
    BY <2>1 DEF CoreInv
  <2>2. ASSUME NEW s \in Catalog, NEW dependencies, ReplacePolicy(s, dependencies)
        PROVE  CoreInv'
    <3> DEFINE replaced == [requires EXCEPT ![s] = dependencies]
    <3>1. CASE requires' = replaced /\ s \in Governed /\ Valid(replaced)
      <4>1. replaced \in [Catalog -> SUBSET Catalog]
        <5>1. \A d \in Catalog : replaced[d] \subseteq Catalog
          BY <3>1 DEF Valid
        <5> QED
          BY <5>1 DEF CoreInv, Topologies
      <4>2. \A d \in Catalog \ Governed : replaced[d] = Requires[d]
        BY <3>1 DEF CoreInv, Topologies
      <4> HIDE DEF replaced
      <4> QED
        BY <3>1, <4>1, <4>2 DEF CoreInv, Topologies
    <3>2. CASE requires' = requires
      BY <2>1, <3>2
    <3> HIDE DEF replaced
    <3>3. requires' = IF Replaceable(s) /\ Valid(replaced) THEN replaced ELSE requires
      BY <2>2 DEF ReplacePolicy, replaced
    <3> QED
      BY <3>1, <3>2, <3>3 DEF Replaceable
  <2> QED
    BY <2>1, <2>2 DEF RegistryNext, Heartbeat, Marks, ReportsItself, HeartbeatSignal, Calls_,
                      MarkStaleAt, Elapses, registryVars
<1> QED
  BY <1>1, <1>2, PTL DEF RegistrySpec

\* The core's own edges are all still there, so what it reaches through them is too.
LEMMA CoreInvKeeps == CoreInv => CoreIsKept
<1> SUFFICES ASSUME CoreInv, NEW s \in Catalog \ Governed
             PROVE  ClosureIn(Requires, s) \ Governed \subseteq ClosureIn(requires, s)
  BY DEF CoreIsKept, CoreInv, Topologies
<1>1. Cardinality(Catalog) \in Nat
  BY CatalogAssumption, FS_CardinalityType
<1>2. \A d \in Catalog : /\ CoreOnly(Requires)[d] \subseteq requires[d]
                         /\ CoreOnly(Requires)[d] \subseteq Catalog
  BY CatalogAssumption DEF CoreOnly, CoreInv, Topologies
<1>3. ClosureIn(CoreOnly(Requires), s) \subseteq ClosureIn(requires, s)
  BY <1>1, <1>2, WiderGraphReachesMore, ClosureInIsRound
<1> QED
  BY <1>3, CoreAssumption

\* However often policies are replaced, by whatever sets of dependencies: the topology is one
\* that validate_topology() accepts, and the core rests on all of the core that it rested on
\* in the catalog.
THEOREM CoreStays == RegistrySpec => []CoreIsKept
  BY CoreInvHolds, CoreInvKeeps, PTL

-----------------------------------------------------------------------------
(* The reference feed in front of the live runner's control plane.          *)

\* Three rounds reach what is three levels down: the systems that listen to a source are
\* more than two.
LEMMA ManySystems == Cardinality(Systems) \in Nat /\ Cardinality(Systems) >= 3
<1>1. PICK b : b \in Listens["runtime_bootstrap"]
  BY SourcesAssumption DEF Sources
<1>2. PICK m : m \in Listens["market_events"]
  BY SourcesAssumption DEF Sources
<1>3. PICK r : r \in Listens["reference_data"]
  BY SourcesAssumption DEF Sources
<1>4. b # m /\ b # r /\ m # r
  BY <1>1, <1>2, <1>3, OneSignalAssumption DEF Signals
<1>5. {b, m, r} \subseteq Systems
  BY <1>1, <1>2, <1>3, ListensAssumption DEF Signals
<1>6. Cardinality({b, m, r}) = 3
  <2>1. Cardinality({b}) = 1 /\ IsFiniteSet({b})
    BY FS_Singleton
  <2>2. Cardinality({b} \cup {m}) = 2 /\ IsFiniteSet({b} \cup {m})
    BY <1>4, <2>1, FS_AddElement
  <2>3. Cardinality(({b} \cup {m}) \cup {r}) = 3
    BY <1>4, <2>2, FS_AddElement
  <2>4. ({b} \cup {m}) \cup {r} = {b, m, r}
    OBVIOUS
  <2> QED
    BY <2>3, <2>4
<1>7. Cardinality({b, m, r}) <= Cardinality(Systems)
  BY <1>5, SystemsAssumption, FS_Subset
<1> QED
  BY <1>6, <1>7, SystemsAssumption, FS_CardinalityType

\* The gateway rests on a system registered for each source.
LEMMA GatewayRests ==
    ASSUME NEW signal \in Sources
    PROVE  \E s \in Closure[Gateway] : s \in Listens[signal]
<1> DEFINE n == Cardinality(Systems)
           f == Rounds(DependsOn, Gateway, n)
<1>1. n \in Nat /\ n >= 3
  BY ManySystems
<1> HIDE DEF n
<1>2. /\ f[0] = {Gateway}
      /\ f[0 + 1] = Wider(DependsOn, f[0])
      /\ f[1 + 1] = Wider(DependsOn, f[1])
      /\ f[2 + 1] = Wider(DependsOn, f[2])
  <2>1. 0 \in 0 .. n /\ 1 \in 0 .. n /\ 2 \in 0 .. n /\ 0 < n /\ 1 < n /\ 2 < n
    BY <1>1
  <2> QED
    BY <1>1, <2>1, RoundsStep
<1> HIDE DEF f
<1>3. f[3] = Below(Below(Below({Gateway})))
  BY <1>2 DEF Below, Wider
<1>4. f[3] \subseteq f[n]
  <2>1. 3 \in 0 .. n
    BY <1>1
  <2> QED
    BY <1>1, <2>1, RoundsGrow DEF f
<1>5. Closure[Gateway] = f[n]
  BY ClosureIsRound, GatewayAssumption DEF f, n
<1> QED
  BY <1>3, <1>4, <1>5, SourcesAssumption

\* The report a system goes by is the last one of the signal it is registered for.
LastReports ==
    \A signal \in Signals : /\ reported[signal] <= now
                            /\ \A s \in Listens[signal] :
                                  /\ health[s].at = reported[signal]
                                  /\ health[s].state = "Ready" => reported[signal] # 0

\* Where the poller's quotes are counted: only a poll under way has fewer of them than
\* there are currencies, and none when it begins.
Pollers == [at : {"poll", "send", "sleep"}, quotes : Seq(Nat), delay : Refresh .. MaxBackoff,
            wake : Nat]

PollerShape ==
    /\ poller \in Pollers /\ queue \in Seq(Nat) /\ lagged \in BOOLEAN
    /\ cache \in [Names -> 0 .. now]
    /\ \A i \in 1 .. Len(poller.quotes) : poller.quotes[i] \in 1 .. now
    /\ \A i \in 1 .. Len(queue) : queue[i] \in 1 .. now
    /\ Len(poller.quotes) <= Len(Currencies)
    /\ poller.at = "poll" => Len(poller.quotes) < Len(Currencies)
    /\ poller.at = "sleep" => Len(poller.quotes) = 0

\* Fetched quotes are in the order of their observation, from the last report over the
\* channel to the poll under way.
QuotesInOrder ==
    ~lagged =>
        /\ running
        /\ \A i \in 1 .. Len(queue) : reported["reference_data"] <= queue[i]
        /\ \A i, j \in 1 .. Len(queue) : i < j => queue[i] <= queue[j]
        /\ \A i \in 1 .. Len(poller.quotes) : reported["reference_data"] <= poller.quotes[i]
        /\ \A i, j \in 1 .. Len(poller.quotes) : i < j => poller.quotes[i] <= poller.quotes[j]
        /\ \A i \in 1 .. Len(queue), j \in 1 .. Len(poller.quotes) : queue[i] <= poller.quotes[j]

FeedInv == TypeOK /\ LastReports /\ PollerShape /\ QuotesInOrder

\* A report of a signal at a time between the last one and now.
LEMMA ReportKeeps ==
    ASSUME TypeOK, LastReports, NEW signal \in Signals, NEW at \in 1 .. now, Report(signal, at)
    PROVE  /\ TypeOK' /\ LastReports' /\ now' = now
           /\ \A other \in Signals : other # signal => reported'[other] = reported[other]
           /\ reported'[signal] \in {reported[signal], at}
           /\ reported[signal] <= at => reported'[signal] = at /\ running' = running
<1> DEFINE beaten == [s \in Systems |->
                        IF s \in Listens[signal]
                        THEN [state |-> "Ready", at |-> at, stale |-> FALSE]
                        ELSE health[s]]
<1>1. now' = now /\ now \in 1 .. MaxTime /\ running \in BOOLEAN /\ MaxTime \in Nat
  BY MaxTimeAssumption DEF Report, TypeOK
<1>2. \A s \in Listens[signal] : health[s].at = reported[signal]
  BY DEF LastReports
<1>3. reported[signal] <= at => ~Regresses(signal, at)
  <2>1. reported[signal] \in Nat /\ at \in Nat
    BY <1>1 DEF TypeOK
  <2> QED
    BY <1>2, <2>1 DEF Regresses
<1>4. beaten \in [Systems -> Snapshot] /\ \A s \in Systems : beaten[s].at <= now
  BY <1>1 DEF TypeOK, Snapshot
<1>5. ASSUME running' = FALSE, health' = health, reported' = reported, Regresses(signal, at)
      PROVE  /\ TypeOK' /\ LastReports'
             /\ \A other \in Signals : other # signal => reported'[other] = reported[other]
             /\ reported'[signal] \in {reported[signal], at}
             /\ reported[signal] <= at => reported'[signal] = at /\ running' = running
  BY <1>1, <1>3, <1>5 DEF TypeOK, LastReports
<1>6. ASSUME health' = MarkStale(beaten), reported' = [reported EXCEPT ![signal] = at],
             running' = running
      PROVE  /\ TypeOK' /\ LastReports'
             /\ \A other \in Signals : other # signal => reported'[other] = reported[other]
             /\ reported'[signal] \in {reported[signal], at}
             /\ reported[signal] <= at => reported'[signal] = at /\ running' = running
  <2> HIDE DEF beaten
  <2>1. /\ health' \in [Systems -> Snapshot]
        /\ \A s \in Systems : health'[s].at = beaten[s].at /\ health'[s].state = beaten[s].state
    <3>1. \A s \in Systems : FreshAt(s, beaten[s]) \in BOOLEAN
      BY DEF FreshAt
    <3> QED
      BY <1>4, <1>6, <3>1 DEF MarkStale, Snapshot
  <2>2. /\ reported' \in [Signals -> 0 .. MaxTime] /\ reported'[signal] = at
        /\ \A other \in Signals : other # signal => reported'[other] = reported[other]
    BY <1>1, <1>6 DEF TypeOK
  <2>3. TypeOK'
    BY <1>1, <1>4, <1>6, <2>1, <2>2 DEF TypeOK
  <2>4. LastReports'
    <3> SUFFICES ASSUME NEW other \in Signals
                 PROVE  /\ reported'[other] <= now'
                        /\ \A s \in Listens[other] :
                              /\ health'[s].at = reported'[other]
                              /\ health'[s].state = "Ready" => reported'[other] # 0
      BY DEF LastReports
    <3>1. CASE other = signal
      <4>1. \A s \in Listens[signal] : s \in Systems /\ beaten[s].at = at
        BY ListensAssumption DEF beaten
      <4> QED
        BY <1>1, <2>1, <2>2, <3>1, <4>1
    <3>2. CASE other # signal
      <4>1. \A s \in Listens[other] : s \in Systems /\ beaten[s] = health[s]
        BY <3>2, ListensAssumption, OneSignalAssumption DEF beaten
      <4> QED
        BY <1>1, <2>1, <2>2, <3>2, <4>1 DEF LastReports
    <3> QED
      BY <3>1, <3>2
  <2> QED
    BY <1>6, <2>2, <2>3, <2>4
<1> QED
  BY <1>1, <1>5, <1>6 DEF Report

LEMMA InitFeed == FeedInit => FeedInv
<1> SUFFICES ASSUME FeedInit PROVE FeedInv
  OBVIOUS
<1> USE DEF FeedInit, Init
<1>1. TypeOK
  BY MaxTimeAssumption DEF TypeOK, Snapshot
<1>2. LastReports
  BY ListensAssumption DEF LastReports
<1>3. PollerShape
  <2>1. Len(Currencies) >= 1
    BY FeedAssumption
  <2>2. cache \in [Names -> 0 .. now]
    OBVIOUS
  <2>3. poller \in Pollers /\ Len(poller.quotes) = 0
    BY FeedAssumption DEF Pollers
  <2>4. queue \in Seq(Nat)
    <3>1. queue = <<>>
      OBVIOUS
    <3> HIDE DEF FeedInit, Init
    <3> QED
      BY <3>1
  <2>7. lagged \in BOOLEAN
    BY Zenon
  <2>6. Len(queue) = 0
    <3>1. queue = <<>>
      OBVIOUS
    <3> HIDE DEF FeedInit, Init
    <3> QED
      BY <3>1
  <2>5. Len(Currencies) \in Nat
    BY FeedAssumption
  <2> HIDE DEF FeedInit, Init
  <2> QED
    BY <2>1, <2>2, <2>3, <2>4, <2>5, <2>6, <2>7 DEF PollerShape
<1>4. QuotesInOrder
  BY DEF QuotesInOrder
<1> QED
  BY <1>1, <1>2, <1>3, <1>4 DEF FeedInv

\* A report at this moment is never refused and comes after every quote.
LEMMA ReportNowKeeps ==
    ASSUME FeedInv, NEW signal \in Signals, signal # "reference_data", Report(signal, now),
           UNCHANGED feed
    PROVE  FeedInv'
<1>1. now \in 1 .. now /\ reported[signal] <= now
  BY MaxTimeAssumption DEF FeedInv, TypeOK, LastReports
<1>2. /\ TypeOK' /\ LastReports' /\ now' = now /\ running' = running
      /\ reported'["reference_data"] = reported["reference_data"]
  BY <1>1, ReportKeeps DEF FeedInv, Signals
<1>3. PollerShape'
  BY <1>2 DEF FeedInv, PollerShape, feed
<1>4. QuotesInOrder'
  BY <1>2 DEF FeedInv, QuotesInOrder, feed
<1> QED
  BY <1>2, <1>3, <1>4 DEF FeedInv

\* What leaves the control plane alone leaves its part of the invariant alone.
LEMMA PlaneKept ==
    ASSUME TypeOK, LastReports, UNCHANGED vars
    PROVE  TypeOK' /\ LastReports'
  BY DEF vars, TypeOK, LastReports

\* midpoint() answers a quote no newer than now, or none.
LEMMA MidpointAnswers ==
    ASSUME FeedInv, NEW c \in Names, NEW answer \in Midpoint(c)
    PROVE  answer.at \in 0 .. now /\ answer.cache \in 0 .. now
<1>1. cache[c] \in 0 .. now /\ now \in Nat
  BY MaxTimeAssumption DEF FeedInv, PollerShape, TypeOK
<1> QED
  BY <1>1 DEF Midpoint, Fetched, Fallback, Answers, Refused

LEMMA PollKeeps == ASSUME FeedInv, Poll PROVE FeedInv'
<1> DEFINE i == Len(poller.quotes) + 1
           c == Currencies[i]
<1>1. /\ poller \in Pollers /\ queue \in Seq(Nat) /\ now \in Nat /\ poller.at = "poll"
      /\ UNCHANGED <<vars, queue>>
      /\ i \in 1 .. Len(Currencies) /\ c \in Names
  BY FeedAssumption, MaxTimeAssumption DEF FeedInv, PollerShape, TypeOK, Poll, Names, Pollers
<1>2. PICK answer \in Midpoint(c) :
          /\ cache' = [cache EXCEPT ![c] = answer.cache]
          /\ lagged' = (lagged \/ answer.at \in 1 .. now - 1)
          /\ poller' = IF answer.at = Refused
                       THEN Sleeps(Min({2 * poller.delay, MaxBackoff}), <<>>)
                       ELSE [poller EXCEPT !.quotes = Append(@, answer.at),
                                           !.at = IF i = Len(Currencies) THEN "send" ELSE "poll"]
  BY DEF Poll
<1>3. answer.at \in 0 .. now /\ answer.cache \in 0 .. now
  BY <1>1, MidpointAnswers
<1>l. ~lagged' => ~lagged /\ answer.at \notin 1 .. now - 1
  BY <1>2, Zenon
<1> HIDE DEF i, c
<1>4. /\ TypeOK' /\ LastReports' /\ now' = now /\ queue' = queue /\ running' = running
      /\ reported' = reported
  BY <1>1, PlaneKept DEF FeedInv, vars
<1>5. cache' \in [Names -> 0 .. now] /\ lagged' \in BOOLEAN
  BY <1>1, <1>2, <1>3 DEF FeedInv, PollerShape
<1>6. CASE answer.at = Refused
  <2> DEFINE delay == Min({2 * poller.delay, MaxBackoff})
  <2>1. delay \in Refresh .. MaxBackoff
    <3>1. poller.delay \in Refresh .. MaxBackoff /\ Refresh \in Nat /\ MaxBackoff \in Nat
      BY <1>1, FeedAssumption DEF Pollers
    <3>2. delay = IF 2 * poller.delay <= MaxBackoff THEN 2 * poller.delay ELSE MaxBackoff
      BY <3>1 DEF Min
    <3> QED
      BY <3>1, <3>2
  <2> HIDE DEF delay
  <2>2. poller' = Sleeps(delay, <<>>)
    BY <1>2, <1>6 DEF delay
  <2>3. poller' \in Pollers /\ poller'.at = "sleep" /\ Len(poller'.quotes) = 0
    BY <1>1, <2>1, <2>2, FeedAssumption DEF Sleeps, Pollers
  <2>4. PollerShape'
    BY <1>1, <1>4, <1>5, <2>3 DEF FeedInv, PollerShape
  <2>5. QuotesInOrder'
    BY <1>l, <1>4, <2>3 DEF FeedInv, QuotesInOrder
  <2> QED
    BY <1>4, <2>4, <2>5 DEF FeedInv
<1>7. CASE answer.at # Refused
  <2> DEFINE quotes == Append(poller.quotes, answer.at)
             n == Len(poller.quotes)
  <2>1. /\ poller' = [poller EXCEPT !.quotes = quotes,
                                    !.at = IF i = Len(Currencies) THEN "send" ELSE "poll"]
        /\ answer.at \in 1 .. now
    BY <1>2, <1>3, <1>7 DEF Refused
  <2>2. /\ quotes \in Seq(Nat) /\ Len(quotes) = n + 1 /\ quotes[n + 1] = answer.at /\ n \in Nat
        /\ \A k \in 1 .. n : quotes[k] = poller.quotes[k]
    BY <1>1, <2>1 DEF Pollers
  <2> HIDE DEF quotes
  <2>3. /\ poller' \in Pollers /\ poller'.quotes = quotes
        /\ poller'.at = IF i = Len(Currencies) THEN "send" ELSE "poll"
    BY <1>1, <2>1, <2>2 DEF Pollers
  <2>4. /\ n + 1 = i /\ i <= Len(Currencies) /\ Len(Currencies) \in Nat
        /\ \A k \in 1 .. n : poller.quotes[k] \in 1 .. now
    BY <1>1, FeedAssumption DEF i, FeedInv, PollerShape
  <2> HIDE DEF n
  <2>5. \A k \in 1 .. Len(quotes) : quotes[k] \in 1 .. now
    BY <2>1, <2>2, <2>4
  <2>6. PollerShape'
    BY <1>1, <1>4, <1>5, <2>2, <2>3, <2>4, <2>5 DEF FeedInv, PollerShape
  <2>7. QuotesInOrder'
    <3> SUFFICES ASSUME ~lagged'
                 PROVE  /\ running
                        /\ \A k \in 1 .. Len(queue) : reported["reference_data"] <= queue[k]
                        /\ \A k, j \in 1 .. Len(queue) : k < j => queue[k] <= queue[j]
                        /\ \A k \in 1 .. Len(quotes) : reported["reference_data"] <= quotes[k]
                        /\ \A k, j \in 1 .. Len(quotes) : k < j => quotes[k] <= quotes[j]
                        /\ \A k \in 1 .. Len(queue), j \in 1 .. Len(quotes) :
                              queue[k] <= quotes[j]
      BY <1>4, <2>3 DEF QuotesInOrder
    <3>1. ~lagged /\ answer.at = now
      BY <1>l, <2>1, <1>1
    <3>2. /\ running
          /\ \A k \in 1 .. Len(queue) : reported["reference_data"] <= queue[k]
          /\ \A k, j \in 1 .. Len(queue) : k < j => queue[k] <= queue[j]
          /\ \A k \in 1 .. n : reported["reference_data"] <= poller.quotes[k]
          /\ \A k, j \in 1 .. n : k < j => poller.quotes[k] <= poller.quotes[j]
          /\ \A k \in 1 .. Len(queue), j \in 1 .. n : queue[k] <= poller.quotes[j]
      BY <3>1 DEF FeedInv, QuotesInOrder, n
    <3>3. reported["reference_data"] <= now /\ \A k \in 1 .. Len(queue) : queue[k] <= now
      BY DEF FeedInv, LastReports, PollerShape, Signals
    <3>4. \A k \in 1 .. Len(quotes) : k \in 1 .. n \/ k = n + 1
      BY <2>2
    <3>5. \A k \in 1 .. Len(quotes) : reported["reference_data"] <= quotes[k]
      BY <2>2, <3>1, <3>2, <3>3, <3>4
    <3>6. ASSUME NEW k \in 1 .. Len(quotes), NEW j \in 1 .. Len(quotes), k < j
          PROVE  quotes[k] <= quotes[j]
      <4>1. k \in 1 .. n
        BY <2>2, <3>4, <3>6
      <4>2. CASE j \in 1 .. n
        BY <2>2, <3>2, <3>6, <4>1, <4>2
      <4>3. CASE j = n + 1
        <5>1. quotes[k] \in 1 .. now /\ now \in Nat
          BY <1>1, <2>5
        <5>2. quotes[j] = now
          BY <2>2, <3>1, <4>3
        <5> QED
          BY <5>1, <5>2
      <4> QED
        BY <3>4, <4>2, <4>3
    <3>7. \A k \in 1 .. Len(queue), j \in 1 .. Len(quotes) : queue[k] <= quotes[j]
      BY <2>2, <3>1, <3>2, <3>3, <3>4
    <3> QED
      BY <3>2, <3>5, <3>6, <3>7
  <2> QED
    BY <1>4, <2>6, <2>7 DEF FeedInv
<1> QED
  BY <1>6, <1>7

LEMMA SendKeeps == ASSUME FeedInv, Send PROVE FeedInv'
<1> DEFINE n == Len(queue)
           m == Len(poller.quotes)
<1>1. /\ poller \in Pollers /\ queue \in Seq(Nat) /\ poller.quotes \in Seq(Nat) /\ now \in Nat
      /\ poller.delay \in Nat
      /\ queue' = queue \o poller.quotes /\ poller' = Sleeps(Refresh, <<>>)
      /\ UNCHANGED <<vars, cache, lagged>>
  BY FeedAssumption, MaxTimeAssumption DEF FeedInv, PollerShape, TypeOK, Send, Pollers
<1>2. /\ TypeOK' /\ LastReports' /\ now' = now /\ running' = running /\ reported' = reported
  BY <1>1, PlaneKept DEF FeedInv, vars
<1>3. /\ queue' \in Seq(Nat) /\ Len(queue') = n + m /\ n \in Nat /\ m \in Nat
      /\ \A k \in 1 .. n : queue'[k] = queue[k]
      /\ \A k \in 1 .. m : queue'[n + k] = poller.quotes[k]
  BY <1>1
<1>4. \A k \in 1 .. Len(queue') : k \in 1 .. n \/ (k - n \in 1 .. m /\ k = n + (k - n))
  BY <1>3
<1>5. poller' \in Pollers /\ poller'.at = "sleep" /\ Len(poller'.quotes) = 0
  BY <1>1, FeedAssumption DEF Sleeps, Pollers
<1>6. PollerShape'
  <2>1. \A k \in 1 .. Len(queue') : queue'[k] \in 1 .. now
    <3>1. /\ \A k \in 1 .. n : queue[k] \in 1 .. now
          /\ \A k \in 1 .. m : poller.quotes[k] \in 1 .. now
      BY DEF FeedInv, PollerShape
    <3> QED
      BY <1>3, <1>4, <3>1
  <2> QED
    BY <1>1, <1>2, <1>3, <1>5, <2>1 DEF FeedInv, PollerShape
<1>7. QuotesInOrder'
  <2> SUFFICES ASSUME ~lagged
               PROVE  /\ running
                      /\ \A k \in 1 .. Len(queue') : reported["reference_data"] <= queue'[k]
                      /\ \A k, j \in 1 .. Len(queue') : k < j => queue'[k] <= queue'[j]
    BY <1>1, <1>2, <1>5 DEF QuotesInOrder
  <2>1. /\ running
        /\ \A k \in 1 .. n : reported["reference_data"] <= queue[k]
        /\ \A k, j \in 1 .. n : k < j => queue[k] <= queue[j]
        /\ \A k \in 1 .. m : reported["reference_data"] <= poller.quotes[k]
        /\ \A k, j \in 1 .. m : k < j => poller.quotes[k] <= poller.quotes[j]
        /\ \A k \in 1 .. n, j \in 1 .. m : queue[k] <= poller.quotes[j]
    BY DEF FeedInv, QuotesInOrder
  <2> HIDE DEF n, m
  <2>2. \A k \in 1 .. Len(queue') : reported["reference_data"] <= queue'[k]
    BY <1>3, <1>4, <2>1
  <2>3. ASSUME NEW k \in 1 .. Len(queue'), NEW j \in 1 .. Len(queue'), k < j
        PROVE  queue'[k] <= queue'[j]
    <3>1. CASE k \in 1 .. n /\ j \in 1 .. n
      BY <1>3, <2>1, <2>3, <3>1
    <3>2. CASE k \in 1 .. n /\ j - n \in 1 .. m
      BY <1>3, <1>4, <2>1, <3>2
    <3>3. CASE k - n \in 1 .. m /\ j - n \in 1 .. m
      <4>1. k - n < j - n
        BY <1>3, <2>3
      <4>2. k = n + (k - n) /\ j = n + (j - n)
        BY <1>3
      <4>3. queue'[n + (k - n)] = poller.quotes[k - n] /\ queue'[n + (j - n)] = poller.quotes[j - n]
        BY <1>3, <3>3
      <4>4. poller.quotes[k - n] <= poller.quotes[j - n]
        BY <2>1, <3>3, <4>1
      <4> QED
        BY <4>2, <4>3, <4>4
    <3> QED
      BY <1>3, <1>4, <2>3, <3>1, <3>2, <3>3
  <2> QED
    BY <2>1, <2>2, <2>3
<1> QED
  BY <1>2, <1>6, <1>7 DEF FeedInv

LEMMA TakeQuoteKeeps == ASSUME FeedInv, TakeQuote PROVE FeedInv'
<1> DEFINE at == Head(queue)
           n == Len(queue)
<1>1. /\ queue \in Seq(Nat) /\ queue # <<>> /\ queue' = Tail(queue)
      /\ UNCHANGED <<cache, poller, lagged>> /\ Report("reference_data", at)
  BY DEF FeedInv, PollerShape, TakeQuote
<1>2. /\ n \in Nat \ {0} /\ at = queue[1] /\ Len(queue') = n - 1 /\ queue' \in Seq(Nat)
      /\ \A k \in 1 .. n - 1 : queue'[k] = queue[k + 1]
  BY <1>1
<1>3. at \in 1 .. now
  BY <1>2 DEF FeedInv, PollerShape
<1> HIDE DEF at, n
<1>4. /\ TypeOK' /\ LastReports' /\ now' = now
      /\ reported["reference_data"] <= at => reported'["reference_data"] = at /\ running' = running
  BY <1>1, <1>3, ReportKeeps DEF FeedInv, Signals
<1>5. PollerShape'
  <2>1. \A k \in 1 .. n : queue[k] \in 1 .. now
    BY DEF FeedInv, PollerShape, n
  <2>2. \A k \in 1 .. Len(queue') : queue'[k] \in 1 .. now
    BY <1>2, <2>1
  <2> QED
    BY <1>1, <1>2, <1>4, <2>2 DEF FeedInv, PollerShape
<1>6. QuotesInOrder'
  <2> SUFFICES ASSUME ~lagged
               PROVE  /\ running'
                      /\ \A k \in 1 .. n - 1 : reported'["reference_data"] <= queue'[k]
                      /\ \A k, j \in 1 .. n - 1 : k < j => queue'[k] <= queue'[j]
                      /\ \A k \in 1 .. Len(poller.quotes) :
                            reported'["reference_data"] <= poller.quotes[k]
                      /\ \A k, j \in 1 .. Len(poller.quotes) :
                            k < j => poller.quotes[k] <= poller.quotes[j]
                      /\ \A k \in 1 .. n - 1, j \in 1 .. Len(poller.quotes) :
                            queue'[k] <= poller.quotes[j]
    BY <1>1, <1>2 DEF QuotesInOrder
  <2>1. /\ running
        /\ \A k \in 1 .. n : reported["reference_data"] <= queue[k]
        /\ \A k, j \in 1 .. n : k < j => queue[k] <= queue[j]
        /\ \A k, j \in 1 .. Len(poller.quotes) : k < j => poller.quotes[k] <= poller.quotes[j]
        /\ \A k \in 1 .. n, j \in 1 .. Len(poller.quotes) : queue[k] <= poller.quotes[j]
    BY DEF FeedInv, QuotesInOrder, n
  <2>2. 1 \in 1 .. n /\ \A k \in 1 .. n - 1 : k + 1 \in 1 .. n /\ 1 < k + 1
    BY <1>2
  <2>3. reported'["reference_data"] = at /\ running' = running
    BY <1>2, <1>4, <2>1, <2>2
  <2>4. \A k \in 1 .. n - 1 : at <= queue'[k]
    BY <1>2, <2>1, <2>2
  <2>5. \A k, j \in 1 .. n - 1 : k < j => queue'[k] <= queue'[j]
    BY <1>2, <2>1, <2>2
  <2>6. \A k \in 1 .. n - 1, j \in 1 .. Len(poller.quotes) : queue'[k] <= poller.quotes[j]
    BY <1>2, <2>1, <2>2
  <2>7. \A j \in 1 .. Len(poller.quotes) : at <= poller.quotes[j]
    BY <1>2, <2>1, <2>2
  <2> QED
    BY <2>1, <2>3, <2>4, <2>5, <2>6, <2>7
<1> QED
  BY <1>4, <1>5, <1>6 DEF FeedInv

LEMMA TickKeeps == ASSUME FeedInv, Tick, UNCHANGED feed PROVE FeedInv'
<1>1. /\ now' = now /\ running' = running /\ reported' = reported /\ health' = MarkStale(health)
  BY DEF Tick
<1>2. /\ health' \in [Systems -> Snapshot]
      /\ \A s \in Systems : health'[s].at = health[s].at /\ health'[s].state = health[s].state
  <2>1. \A s \in Systems : FreshAt(s, health[s]) \in BOOLEAN
    BY DEF FreshAt
  <2> QED
    BY <1>1, <2>1 DEF MarkStale, Snapshot, FeedInv, TypeOK
<1>3. TypeOK'
  BY <1>1, <1>2 DEF FeedInv, TypeOK
<1>4. LastReports'
  <2>1. \A signal \in Signals : Listens[signal] \subseteq Systems
    BY ListensAssumption
  <2> QED
    BY <1>1, <1>2, <2>1 DEF FeedInv, LastReports
<1>5. PollerShape' /\ QuotesInOrder'
  BY <1>1 DEF FeedInv, PollerShape, QuotesInOrder, feed
<1> QED
  BY <1>3, <1>4, <1>5 DEF FeedInv

LEMMA TimeKeeps == ASSUME FeedInv, TimePasses, UNCHANGED feed PROVE FeedInv'
<1>1. /\ now' = now + 1 /\ now \in Nat /\ now < MaxTime /\ MaxTime \in Nat
      /\ running' = running /\ reported' = reported /\ health' = health
  BY MaxTimeAssumption DEF TimePasses, FeedInv, TypeOK
<1>2. TypeOK'
  BY <1>1 DEF FeedInv, TypeOK, Snapshot
<1>3. LastReports'
  BY <1>1 DEF FeedInv, LastReports, TypeOK
<1>4. PollerShape'
  <2>1. 1 .. now \subseteq 1 .. now' /\ 0 .. now \subseteq 0 .. now'
    BY <1>1
  <2>2. cache' \in [Names -> 0 .. now']
    BY <2>1 DEF FeedInv, PollerShape, feed
  <2> QED
    BY <2>1, <2>2 DEF FeedInv, PollerShape, feed
<1>5. QuotesInOrder'
  BY <1>1 DEF FeedInv, QuotesInOrder, feed
<1> QED
  BY <1>2, <1>3, <1>4, <1>5 DEF FeedInv

LEMMA NextFeed == FeedInv /\ [FeedNext]_feedVars => FeedInv'
<1> SUFFICES ASSUME FeedInv, [FeedNext]_feedVars PROVE FeedInv'
  OBVIOUS
<1>1. CASE BootstrapReady /\ UNCHANGED feed
  BY <1>1, ReportNowKeeps DEF BootstrapReady, Signals
<1>2. CASE ObserveMarket /\ UNCHANGED feed
  BY <1>2, ReportNowKeeps DEF ObserveMarket, Signals
<1>3. CASE Tick /\ UNCHANGED feed
  BY <1>3, TickKeeps
<1>4. CASE TimePasses /\ UNCHANGED feed
  BY <1>4, TimeKeeps
<1>5. CASE Poll
  BY <1>5, PollKeeps
<1>6. CASE Send
  BY <1>6, SendKeeps
<1>7. CASE WakeUp
  <2>1. /\ UNCHANGED <<vars, cache, queue, lagged>> /\ poller.at = "sleep"
        /\ poller' = [poller EXCEPT !.at = "poll"]
    BY <1>7 DEF WakeUp
  <2>2. TypeOK' /\ LastReports' /\ now' = now /\ running' = running /\ reported' = reported
    BY <2>1, PlaneKept DEF FeedInv, vars
  <2>a. poller \in Pollers /\ Len(poller.quotes) = 0
    BY <2>1 DEF FeedInv, PollerShape
  <2>b. Len(Currencies) > 0
    BY FeedAssumption
  <2>3. poller' \in Pollers /\ poller'.quotes = poller.quotes /\ poller'.at = "poll"
    BY <2>1, <2>a DEF Pollers
  <2>4. PollerShape'
    BY <2>1, <2>2, <2>3, <2>a, <2>b DEF FeedInv, PollerShape
  <2>5. QuotesInOrder'
    BY <2>1, <2>2, <2>3 DEF FeedInv, QuotesInOrder
  <2> QED
    BY <2>2, <2>4, <2>5 DEF FeedInv
<1>8. CASE TakeQuote
  BY <1>8, TakeQuoteKeeps
<1>9. CASE OtherProcess
  <2>1. PICK c \in Names : cache' = [cache EXCEPT ![c] = now]
    BY <1>9 DEF OtherProcess
  <2>2. UNCHANGED <<vars, poller, queue, lagged>>
    BY <1>9 DEF OtherProcess
  <2>3. TypeOK' /\ LastReports' /\ now' = now /\ running' = running /\ reported' = reported
    BY <2>2, PlaneKept DEF FeedInv, vars
  <2>4. cache' \in [Names -> 0 .. now]
    BY <2>1, MaxTimeAssumption DEF FeedInv, PollerShape, TypeOK
  <2>5. PollerShape' /\ QuotesInOrder'
    BY <2>2, <2>3, <2>4 DEF FeedInv, PollerShape, QuotesInOrder
  <2> QED
    BY <2>3, <2>5 DEF FeedInv
<1>10. CASE UNCHANGED feedVars
  <2>1. UNCHANGED vars /\ UNCHANGED feed
    BY <1>10 DEF feedVars
  <2>2. TypeOK' /\ LastReports'
    BY <2>1, PlaneKept DEF FeedInv
  <2>3. PollerShape' /\ QuotesInOrder'
    BY <2>1 DEF FeedInv, PollerShape, QuotesInOrder, feed, vars
  <2> QED
    BY <2>2, <2>3 DEF FeedInv
<1> QED
  BY <1>1, <1>2, <1>3, <1>4, <1>5, <1>6, <1>7, <1>8, <1>9, <1>10 DEF FeedNext

\* A gateway that is ready rests, for each source, on a system that is, and its report is
\* the source's last one.
LEMMA ReadyMeansFresh == FeedInv => AdmissionNeedsEverySource
<1> SUFFICES ASSUME FeedInv, ExecutionReady, NEW signal \in Sources
             PROVE  /\ reported[signal] # 0
                    /\ \E s \in Listens[signal] : now - reported[signal] <= Interval[s]
  BY DEF AdmissionNeedsEverySource
<1>1. PICK s \in Closure[Gateway] : s \in Listens[signal]
  BY GatewayRests
<1>2. signal \in Signals /\ s \in Systems
  BY <1>1, ListensAssumption DEF Sources, Signals
<1> DEFINE h == MarkStale(health)
<1>3. h[s].at = health[s].at /\ h[s].state = health[s].state
  BY <1>2 DEF MarkStale, FeedInv, TypeOK, Snapshot
<1>4. h[s].state = "Ready" /\ FreshAt(s, h[s])
  BY <1>1 DEF ExecutionReady, ReadyAt
<1> HIDE DEF h
<1>5. health[s].at = reported[signal] /\ (health[s].state = "Ready" => reported[signal] # 0)
  BY <1>1, <1>2 DEF FeedInv, LastReports
<1> QED
  BY <1>1, <1>3, <1>4, <1>5 DEF FreshAt

LEMMA InvMeansSound == FeedInv => FeedIsSound
<1> SUFFICES ASSUME FeedInv PROVE FeedIsSound
  OBVIOUS
<1>1. FeedTypeOK
  BY DEF FeedInv, PollerShape, Pollers, FeedTypeOK
<1>2. FetchedQuotesAccepted
  BY DEF FeedInv, QuotesInOrder, FetchedQuotesAccepted
<1> QED
  BY <1>1, <1>2, ReadyMeansFresh DEF FeedIsSound

\* The FX poller, its cache files and the control plane it reports to (market/fx.rs,
\* runtime/control_plane.rs): execution is never ready without a fresh report of every
\* source, and a feed that fetches all it sends never ends the run.
THEOREM FeedStaysSound == FeedSpec => []FeedIsSound
<1>1. FeedInit => FeedInv
  BY InitFeed
<1>2. FeedInv /\ [FeedNext]_feedVars => FeedInv'
  BY NextFeed
<1>3. FeedInv => FeedIsSound
  BY InvMeansSound
<1> QED
  BY <1>1, <1>2, <1>3, PTL DEF FeedSpec
=============================================================================
