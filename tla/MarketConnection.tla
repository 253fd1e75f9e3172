-------------------------- MODULE MarketConnection --------------------------
(***************************************************************************)
(* One public market shard: the reconnect policy                           *)
(* (engine/src/market/connection.rs) and the stream loop around it         *)
(* (engine/src/market/live.rs), and how a universe of symbols is split     *)
(* into shards (engine/src/market/subscription.rs).                        *)
(*                                                                         *)
(* Time is counted in ticks. A timeout is taken when it is due: the clock  *)
(* does not pass it. The exchange may stop sending data on a connection    *)
(* that stays open, and sends control frames at least PingEvery apart.     *)
(***************************************************************************)
EXTENDS Integers, Sequences, FiniteSets

CONSTANTS
    ReadTimeout,    \* read_timeout_ms
    PingEvery,      \* least distance of two control frames
    StableAfter,    \* stable_connection_reset_after
    RotateAfter,    \* the planned rotation age
    FirstDelay, MaxDelay,   \* initial_delay and max_delay
    MaxAttempts     \* max_attempts

ASSUME ConnectionAssumption ==
    /\ {ReadTimeout, PingEvery, StableAfter, RotateAfter,
        FirstDelay, MaxDelay, MaxAttempts} \subseteq Nat \ {0}
    /\ PingEvery > ReadTimeout

VARIABLES
    stream,      \* connecting, reading, waiting or restarting
    attempts,    \* ConnectionSupervisor::attempts
    age,         \* since connected_at
    quiet,       \* since the last message, which the read timeout measures
    silence,     \* since the last market event, or since the connection
    control,     \* since the last control frame
    delay        \* what is left of a sleep

connectionVars == <<stream, attempts, age, quiet, silence, control, delay>>

Least(a, b) == IF a < b THEN a ELSE b

\* ReconnectPolicy::delay_for and allows_attempt.
DelayFor(attempt) == Least(FirstDelay * 2 ^ Least(attempt, 16), MaxDelay)
AllowsAttempt(attempt) == attempt < MaxAttempts

ConnectionInit ==
    /\ stream = "connecting" /\ attempts = 0 /\ age = 0 /\ quiet = 0
    /\ silence = 0 /\ control = PingEvery /\ delay = 0

\* run_forever sleeps a second and starts over with a fresh supervisor.
Restarts ==
    /\ stream' = "restarting" /\ delay' = 1 /\ attempts' = 0

\* on_disconnect(): a stable connection forgives the failures before it.
Attempts(stable) == IF stable THEN 0 ELSE attempts

OnDisconnect(stable) ==
    LET tried == Attempts(stable)
    IN  IF AllowsAttempt(tried)
        THEN /\ stream' = "waiting" /\ delay' = DelayFor(tried)
             /\ attempts' = tried + 1
         ELSE Restarts

Stable == age >= StableAfter
Gone == age' = 0 /\ quiet' = 0 /\ silence' = 0 /\ UNCHANGED control

Connects ==
    /\ stream = "connecting"
    /\ stream' = "reading" /\ age' = 0 /\ quiet' = 0 /\ silence' = 0
    /\ control' = PingEvery
    /\ UNCHANGED <<attempts, delay>>

ConnectFails ==
    /\ stream = "connecting"
    /\ OnDisconnect(FALSE) /\ Gone

\* A market event; one that arrives at the rotation age ends the connection,
\* and one that cannot be parsed (or is too large) ends run_until_error.
Data ==
    /\ stream = "reading"
    /\ \/ /\ age >= RotateAfter /\ OnDisconnect(Stable) /\ Gone
       \/ /\ age < RotateAfter
          /\ quiet' = 0 /\ silence' = 0
          /\ UNCHANGED <<stream, attempts, age, control, delay>>
       \/ /\ age < RotateAfter /\ Restarts /\ Gone

\* A ping or pong proves that the transport lives, and restarts the read
\* timeout with it.
Control ==
    /\ stream = "reading" /\ control >= PingEvery
    /\ control' = 0
    /\ \/ /\ age >= RotateAfter /\ OnDisconnect(Stable)
          /\ age' = 0 /\ quiet' = 0 /\ silence' = 0
       \/ /\ age < RotateAfter /\ quiet' = 0
          /\ UNCHANGED <<stream, attempts, age, silence, delay>>

\* The read timeout; application_stale() compares with the same limit.
BugStale == silence >= RotateAfter
StaleShard == silence >= ReadTimeout
ReadTimesOut ==
    /\ stream = "reading" /\ quiet >= ReadTimeout
    /\ \/ StaleShard /\ OnDisconnect(Stable) /\ Gone
       \/ /\ ~StaleShard /\ quiet' = 0
          /\ UNCHANGED <<stream, attempts, age, silence, control, delay>>

Closes ==
    /\ stream = "reading"
    /\ OnDisconnect(Stable) /\ Gone

Wakes ==
    /\ stream \in {"waiting", "restarting"} /\ delay = 0
    /\ stream' = "connecting"
    /\ UNCHANGED <<attempts, age, quiet, silence, control, delay>>

Tick ==
    /\ stream = "reading" => quiet < ReadTimeout
    /\ stream \in {"waiting", "restarting"} => delay > 0
    /\ stream # "connecting"
    /\ delay' = IF stream = "reading" THEN delay ELSE delay - 1
    /\ IF stream = "reading"
       THEN /\ age' = Least(age + 1, RotateAfter)
            /\ quiet' = quiet + 1 /\ silence' = silence + 1
            /\ control' = Least(control + 1, PingEvery)
       ELSE UNCHANGED <<age, quiet, silence, control>>
    /\ UNCHANGED <<stream, attempts>>

ConnectionNext ==
    \/ Connects \/ ConnectFails \/ Data \/ Control \/ ReadTimesOut
    \/ Closes \/ Wakes \/ Tick

ConnectionSpec == ConnectionInit /\ [][ConnectionNext]_connectionVars

-----------------------------------------------------------------------------
(* SubscriptionPlan::new on a set of symbols: sorted, then cut into shards *)
(* of at most `capacity`; `rank` is the order of the names.                *)

Shard(symbols, rank, capacity, i) ==
    {s \in symbols :
        Cardinality({t \in symbols : rank[t] < rank[s]}) \div capacity = i - 1}
ShardPlan(symbols, rank, capacity) ==
    [i \in 1 .. (Cardinality(symbols) + capacity - 1) \div capacity |->
        Shard(symbols, rank, capacity, i)]

-----------------------------------------------------------------------------
\* No connection is kept that has delivered no market event for more than two
\* read timeouts, although control frames restart the timeout and prove that
\* the transport lives (run_until_error, application_stale).
SilentShardsAreRecycled == stream = "reading" => silence <= 2 * ReadTimeout
=============================================================================
