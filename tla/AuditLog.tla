------------------------------ MODULE AuditLog ------------------------------
(***************************************************************************)
(* The audit file of health transitions (runtime/audit.rs), to which the   *)
(* processes of a machine append under a lock file.  A lock that is older  *)
(* than a minute is removed by whoever finds it, in two steps; the one who *)
(* ends removes the lock file, whosever it is.                             *)
(*                                                                         *)
(* A line holds its sequence number, or 0 when it cannot be read: a        *)
(* process that dies while it writes leaves the beginning of a line, and   *)
(* the next line is appended to it.                                        *)
(***************************************************************************)
EXTENDS Integers, Sequences, FiniteSets

CONSTANTS
    Writers,      \* the processes
    MaxTries,     \* the 200 attempts at the lock
    MaxEvents,    \* bound: transitions of a process
    MaxDeaths     \* bound

ASSUME WritersAssumption == IsFiniteSet(Writers) /\ "nobody" \notin Writers
ASSUME DeathsAssumption == MaxDeaths \in Nat

VARIABLES
    log,      \* the lines of the file
    torn,     \* its last line has no end
    guard,    \* the lock file: who created it, and whether it is a minute old
    sink,     \* by process: where append_health_transition() is
    number,   \* by process: AuditSink::next_sequence
    events,   \* by process: transitions so far
    noted,    \* history: the numbers whose append returned Ok
    stolen    \* history: the lock of a living process has been removed for stale

auditVars == <<log, torn, guard, sink, number, events, noted, stolen>>

NoGuard == [by |-> "nobody", old |-> FALSE]
AtRest == [at |-> "idle", tries |-> 0]
Dead == {p \in Writers : sink[p].at = "dead"}
Inside == {p \in Writers : sink[p].at \in {"number", "write", "noted"}}

AuditInit ==
    /\ log = <<>> /\ torn = FALSE /\ guard = NoGuard
    /\ sink = [p \in Writers |-> AtRest] /\ number = [p \in Writers |-> 1]
    /\ events = [p \in Writers |-> 0] /\ noted = {} /\ stolen = FALSE

At(p, where) == sink[p].at = where
Reaches(p, where) == sink' = [sink EXCEPT ![p].at = where]

-----------------------------------------------------------------------------
\* A transition to append.
Emit(p) ==
    /\ At(p, "idle") /\ events[p] < MaxEvents
    /\ events' = [events EXCEPT ![p] = @ + 1]
    /\ sink' = [sink EXCEPT ![p] = [at |-> "lock", tries |-> 0]]
    /\ UNCHANGED <<log, torn, guard, number, noted, stolen>>

\* AuditFileLock::acquire(): create_new, or a look at the age of the lock that is there.
Lock(p) ==
    /\ At(p, "lock")
    /\ IF guard = NoGuard THEN guard' = [by |-> p, old |-> FALSE] /\ Reaches(p, "number")
       ELSE IF sink[p].tries = MaxTries THEN Reaches(p, "idle") /\ UNCHANGED guard
       ELSE /\ sink' = [sink EXCEPT ![p] = [at |-> IF guard.old THEN "break" ELSE "lock",
                                            tries |-> @.tries + 1]]
            /\ UNCHANGED guard
    /\ UNCHANGED <<log, torn, number, events, noted, stolen>>

\* The lock that was found old is removed by its name: another one may have taken it for
\* stale as well, and have created a new one since.
Break(p) ==
    /\ At(p, "break") /\ Reaches(p, "lock") /\ guard' = NoGuard
    /\ stolen' = (stolen \/ guard.by \in Writers \ Dead)
    /\ UNCHANGED <<log, torn, number, events, noted>>

\* The number after the last line that can be read.
Persisted ==
    LET read == {i \in DOMAIN log : log[i] # 0}
    IN  IF read = {} THEN 1 ELSE log[CHOOSE i \in read : \A j \in read : j <= i] + 1

BugNumbered(p) == number[p]
\* persisted_next_sequence(), and what this process knows itself.
Numbered(p) == IF Persisted > number[p] THEN Persisted ELSE number[p]

Number(p) ==
    /\ At(p, "number") /\ Reaches(p, "write")
    /\ number' = [number EXCEPT ![p] = Numbered(p)]
    /\ UNCHANGED <<log, torn, guard, events, noted, stolen>>

WriteLine(p) ==
    /\ At(p, "write") /\ Reaches(p, "noted")
    /\ log' = IF torn THEN log ELSE Append(log, number[p])
    /\ torn' = FALSE
    /\ UNCHANGED <<guard, number, events, noted, stolen>>

\* The end of append_health_transition(), and of the lock.
Note(p) ==
    /\ At(p, "noted") /\ Reaches(p, "idle")
    /\ noted' = noted \cup {number[p]}
    /\ number' = [number EXCEPT ![p] = @ + 1]
    /\ guard' = NoGuard
    /\ UNCHANGED <<log, torn, events, stolen>>

\* The file cannot be read or written: an error, which ends the run.
Errs(p) ==
    /\ sink[p].at \in {"number", "write"} /\ Reaches(p, "idle") /\ guard' = NoGuard
    /\ UNCHANGED <<log, torn, number, events, noted, stolen>>

Perishes(p) ==
    /\ ~At(p, "dead") /\ Cardinality(Dead) < MaxDeaths
    /\ Reaches(p, "dead")
    /\ \/ UNCHANGED <<log, torn>>
       \/ /\ At(p, "write") /\ torn' = TRUE
          /\ log' = IF torn THEN log ELSE Append(log, 0)
    /\ UNCHANGED <<guard, number, events, noted, stolen>>

\* A minute passes over a lock; who holds it and lives is done before.
Ages ==
    /\ guard # NoGuard /\ ~guard.old /\ guard.by \in Dead
    /\ guard' = [guard EXCEPT !.old = TRUE]
    /\ UNCHANGED <<log, torn, sink, number, events, noted, stolen>>

AuditNext ==
    \/ \E p \in Writers :
          \/ Emit(p) \/ Lock(p) \/ Break(p) \/ Number(p) \/ WriteLine(p) \/ Note(p)
          \/ Errs(p) \/ Perishes(p)
    \/ Ages

AuditSpec == AuditInit /\ [][AuditNext]_auditVars

-----------------------------------------------------------------------------
\* The sequence of the audit file, as audit_sink_writes_versioned_transition expects it
\* across writers: the lines that can be read are numbered upwards as long as no process has
\* removed the lock of a living one for stale; and whether one has or not, each death makes
\* one line unreadable at most, and costs one at most of those that were reported as written
\* (the line that is appended to a torn one).
SequenceIsKept ==
    /\ ~stolen => \A i, j \in DOMAIN log : i < j /\ log[i] # 0 /\ log[j] # 0 => log[i] < log[j]
    /\ Cardinality({i \in DOMAIN log : log[i] = 0}) <= Cardinality(Dead)
    /\ Cardinality({n \in noted : \A i \in DOMAIN log : log[i] # n}) <= Cardinality(Dead)

\* Two that wait for the lock of one that died: both find it old, and the second removes
\* the lock of the first.
WritersExclude == Cardinality(Inside) <= 1
=============================================================================
