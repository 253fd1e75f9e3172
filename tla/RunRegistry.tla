---------------------------- MODULE RunRegistry ----------------------------
(***************************************************************************)
(* The run registry, runtime/run_registry.rs: one JSON record per run, all *)
(* of them under one lock file, read and replaced by several tasks.        *)
(*                                                                         *)
(* A runner owns one run and has two tasks that write its record: main,    *)
(* which takes the run through its life, and the heartbeat.  A third task, *)
(* watch, stands for whoever looks after the runs of others.  Each method  *)
(*     acquires the lock; reads; changes and writes; drops the lock        *)
(* and these are separate steps: other tasks run in between.               *)
(* Simplifications:                                                        *)
(*  - The record keeps what the methods decide by: the status, the owner   *)
(*    and the counters.  Times are left out: that the lock file is older   *)
(*    than 30 s is the step LockExpires, and a run is stale when its       *)
(*    heartbeat has stopped.                                               *)
(*  - A task that holds the lock and goes on holds it for less than 30 s.  *)
(*  - The 40 attempts of acquire_lock are MaxAttempts.                     *)
(***************************************************************************)
EXTENDS Naturals, FiniteSets

CONSTANTS Processes,     \* the processes
          Runners,       \* those with a run of their own; the others watch
          AutoRestart,   \* spec.auto_restart
          MaxAttempts,   \* bound: attempts of acquire_lock (40 in the code)
          MaxRenames,    \* bound: attempts of replace_file (5 in the code)
          MaxBeats,      \* bound: rounds of a heartbeat loop
          MaxRecoveries, \* bound: calls of the watch task
          MaxCrashes,    \* bound: processes that die
          MaxIoErrors    \* bound: file operations that fail

ASSUME BoundsAssumption ==
    /\ MaxAttempts \in Nat \ {0} /\ MaxRenames \in Nat \ {0}
    /\ MaxBeats \in Nat /\ MaxRecoveries \in Nat /\ MaxCrashes \in Nat /\ MaxIoErrors \in Nat
ASSUME RunnersAssumption == Runners \subseteq Processes
ASSUME AutoRestartAssumption == AutoRestart \in BOOLEAN

VARIABLES
  lock,       \* .registry.lock: the task that created it, Free or Leaked
  old,        \* the lock file is older than 30 s
  record,     \* run.json of each run, or NoRecord
  task,       \* where each task is
  stage,      \* how far main of each process has come
  beating,    \* the heartbeat loop goes on
  alive,      \* the processes that run
  owners,     \* history: the processes a claim of the run answered Ok
  promised,   \* history: the last status main was told is written
  abandoned,  \* history: a lock file was left behind
  beats, recoveries, crashes, ioErrors

shared  == <<lock, old, record>>
process == <<stage, beating, alive>>
history == <<owners, promised, abandoned>>
bounds  == <<beats, recoveries, crashes, ioErrors>>
vars    == <<shared, task, process, history, bounds>>

Roles    == {"main", "beat", "watch"}
Tasks    == Processes \X Roles
Of(t)    == t[1]
Role(t)  == t[2]

Free     == <<"free">>
Leaked   == <<"leaked">>
NoOwner  == <<"none">>
ASSUME NoOwnerAssumption == NoOwner \notin Processes
NoRecord == [status |-> "None"]
Status   == {"Created", "Starting", "Running", "Recovering", "Completed", "Failed", "Halted"}
Record   == [status: Status, owner: Processes \cup {NoOwner}, attempts: Nat, restarts: Nat]

\* What main does one after the other; at "running" it works until it ends in one
\* of the two ways.
Stages      == {"create", "claim", "checkpoint", "run", "heartbeat", "running"}
Following   == [create |-> "claim", claim |-> "checkpoint", checkpoint |-> "run",
                run |-> "heartbeat", heartbeat |-> "running"]
MainCalls(p) == IF stage[p] = "running" THEN {"complete", "fail"} ELSE {stage[p]}

Idle    == [at |-> "idle"]
Holding == {"read", "write", "drop"}
Holders == {t \in Tasks : task[t].at \in Holding}

------------------------------------------------------------------------------
(* The records the methods write.                                          *)

NewRecord == [status |-> "Created", owner |-> NoOwner, attempts |-> 0, restarts |-> 0]

BugLeaseConflict(r, p) == r.owner # NoOwner /\ r.attempts = 0

LeaseConflict(r, p) == r.owner \notin {NoOwner, p}

Claimed(r, p) == [r EXCEPT !.status = "Starting", !.owner = p, !.attempts = @ + 1]

\* transition(); the callers ask for Running and Completed.
Transitioned(r, status) == [r EXCEPT !.status = status]

Failed(r) == [r EXCEPT !.status = "Failed"]

Recoverable(r) == r.status = "Running"

Recovered(r) ==
    IF AutoRestart THEN [r EXCEPT !.status = "Recovering", !.restarts = @ + 1]
                   ELSE [r EXCEPT !.status = "Halted"]

BugChanged(call, r) ==
    CASE call.op = "create"   -> NewRecord
      [] call.op = "claim"    -> Claimed(r, call.by)
      [] call.op = "complete" -> Transitioned(r, "Completed")
      [] OTHER                -> Transitioned(r, "Running")

\* What a call makes of the record it has read.
Changed(call, r) ==
    CASE call.op = "create"   -> NewRecord
      [] call.op = "claim"    -> Claimed(r, call.by)
      [] call.op = "run"      -> Transitioned(r, "Running")
      [] call.op = "complete" -> Transitioned(r, "Completed")
      [] call.op = "fail"     -> Failed(r)
      [] call.op = "recover"  -> Recovered(r)
      [] OTHER                -> r   \* checkpoint() and heartbeat(): digests and times

------------------------------------------------------------------------------
Init ==
    /\ lock = Free /\ old = FALSE
    /\ record = [p \in Runners |-> NoRecord]
    /\ task = [t \in Tasks |-> Idle]
    /\ stage = [p \in Runners |-> "create"]
    /\ beating = [p \in Runners |-> FALSE]
    /\ alive = Processes
    /\ owners = [p \in Runners |-> {}]
    /\ promised = [p \in Runners |-> "None"]
    /\ abandoned = FALSE
    /\ beats = 0 /\ recoveries = 0 /\ crashes = 0 /\ ioErrors = 0

Goes(t, where) == task' = [task EXCEPT ![t] = where]

Calls(t, op, run) ==
    /\ Of(t) \in alive /\ task[t] = Idle
    /\ Goes(t, [at |-> "acquire", op |-> op, by |-> Of(t), run |-> run, tries |-> MaxAttempts])

CallMain(p) ==
    /\ \E op \in MainCalls(p) : Calls(<<p, "main">>, op, p)
    /\ UNCHANGED <<shared, process, history, bounds>>

\* The loop of spawn_heartbeat() wakes up.
CallBeat(p) ==
    /\ beating[p] /\ beats < MaxBeats
    /\ Calls(<<p, "beat">>, "heartbeat", p)
    /\ beats' = beats + 1
    /\ UNCHANGED <<shared, process, history, recoveries, crashes, ioErrors>>

\* Somebody tries to take over the run of another process, or to recover it.
CallWatch(p, run) ==
    /\ run # p /\ recoveries < MaxRecoveries
    /\ \E op \in {"claim", "recover"} : Calls(<<p, "watch">>, op, run)
    /\ recoveries' = recoveries + 1
    /\ UNCHANGED <<shared, process, history, beats, crashes, ioErrors>>

------------------------------------------------------------------------------
(* acquire_lock().                                                         *)

\* create_new answers Ok to exactly one creator of the file.
CreateLock(t) ==
    /\ task[t].at = "acquire" /\ task[t].tries > 0 /\ lock = Free
    /\ lock' = t /\ old' = FALSE
    /\ Goes(t, [task[t] EXCEPT !.at = "read"])
    /\ UNCHANGED <<record, process, history, bounds>>

Returns(t, ok) == Goes(t, [task[t] EXCEPT !.at = IF ok THEN "ok" ELSE "err"])

\* The time cannot be written into the new file: the call fails, the file stays.
WriteLockFails(t) ==
    /\ task[t].at = "acquire" /\ task[t].tries > 0 /\ lock = Free
    /\ ioErrors < MaxIoErrors /\ ioErrors' = ioErrors + 1
    /\ lock' = Leaked /\ old' = FALSE /\ abandoned' = TRUE
    /\ Returns(t, FALSE)
    /\ UNCHANGED <<record, process, owners, promised, beats, recoveries, crashes>>

BugTakesForStale == TRUE
TakesForStale == old

\* The file exists.  Its age is read here; it is removed in a step of its own,
\* whoever's file it is by then.
LockIsTaken(t) ==
    /\ task[t].at = "acquire" /\ task[t].tries > 0 /\ lock # Free
    /\ Goes(t, [task[t] EXCEPT !.tries = @ - 1,
                               !.at = IF TakesForStale THEN "break" ELSE "acquire"])
    /\ UNCHANGED <<shared, process, history, bounds>>

BreakLock(t) ==
    /\ task[t].at = "break"
    /\ lock' = Free /\ old' = FALSE
    /\ Goes(t, [task[t] EXCEPT !.at = "acquire"])
    /\ UNCHANGED <<record, process, history, bounds>>

LockTimeout(t) ==
    /\ task[t].at = "acquire" /\ task[t].tries = 0
    /\ Returns(t, FALSE)
    /\ UNCHANGED <<shared, process, history, bounds>>

------------------------------------------------------------------------------
(* Under the lock.                                                         *)

Drops(t, ok) == Goes(t, [task[t] EXCEPT !.at = "drop", !.tries = IF ok THEN 1 ELSE 0])

\* The heartbeat of the run has stopped for longer than max_stale_ms.
Stale(run) == run \notin alive \/ ~beating[run]

\* A record that is not there, or is another's, is an error; one that needs no recovery
\* is left as it is.
RefusesRecord(call, r) ==
    \/ call.op # "create" /\ r = NoRecord
    \/ call.op = "claim" /\ r # NoRecord /\ LeaseConflict(r, call.by)
LeavesRecord(call, r) ==
    call.op = "recover" /\ r # NoRecord /\ ~(Stale(call.run) /\ Recoverable(r))

ReadRecord(t) ==
    /\ task[t].at = "read"
    /\ LET call == task[t]
           r    == record[call.run]
       IN  IF RefusesRecord(call, r) THEN Drops(t, FALSE)
           ELSE IF LeavesRecord(call, r) THEN Drops(t, TRUE)
           ELSE Goes(t, [at |-> "write", op |-> call.op, by |-> call.by, run |-> call.run,
                         copy |-> r, tries |-> MaxRenames])
    /\ UNCHANGED <<shared, process, history, bounds>>

\* replace_file(): the temporary file is renamed over the record.
WriteRecord(t) ==
    /\ task[t].at = "write"
    /\ record' = [record EXCEPT ![task[t].run] = Changed(task[t], task[t].copy)]
    /\ Goes(t, [at |-> "drop", op |-> task[t].op, by |-> task[t].by, run |-> task[t].run, tries |-> 1])
    /\ UNCHANGED <<lock, old, process, history, bounds>>

\* The rename fails: the record is removed before the next attempt, and the last
\* failure is the answer.
RenameFails(t) ==
    /\ task[t].at = "write"
    /\ ioErrors < MaxIoErrors /\ ioErrors' = ioErrors + 1
    /\ record' = [record EXCEPT ![task[t].run] = NoRecord]
    /\ IF task[t].tries > 1
       THEN Goes(t, [task[t] EXCEPT !.tries = @ - 1])
       ELSE Goes(t, [at |-> "drop", op |-> task[t].op, by |-> task[t].by, run |-> task[t].run,
                     tries |-> 0])
    /\ UNCHANGED <<lock, old, process, history, beats, recoveries, crashes>>

\* Dropping RegistryLock removes the file, whoever's it is by then.
DropLock(t) ==
    /\ task[t].at = "drop"
    /\ lock' = Free /\ old' = FALSE
    /\ Returns(t, task[t].tries = 1)
    /\ UNCHANGED <<record, process, history, bounds>>

------------------------------------------------------------------------------
(* What the callers do with the answer.                                    *)

Dies(p) ==
    /\ alive' = alive \ {p}
    /\ task' = [t \in Tasks |-> IF Of(t) = p THEN Idle ELSE task[t]]
    /\ abandoned' = (abandoned \/ \E t \in Holders : Of(t) = p)
    /\ beating' = [r \in Runners |-> beating[r] /\ r # p]

Written == [run |-> "Running", complete |-> "Completed", fail |-> "Failed"]

\* An error ends the process, as does the end of its work; whatever the heartbeat
\* is doing then ends with it.
MainReturns(p) ==
    LET t == <<p, "main">> op == task[t].op ok == task[t].at = "ok" IN
    /\ task[t].at \in {"ok", "err"}
    /\ owners' = IF ok /\ op = "claim" THEN [owners EXCEPT ![p] = @ \cup {p}] ELSE owners
    /\ promised' = IF ok /\ op \in DOMAIN Written
                   THEN [promised EXCEPT ![p] = Written[op]] ELSE promised
    /\ IF ok /\ op \in DOMAIN Following
       THEN /\ Goes(t, Idle)
            /\ stage' = [stage EXCEPT ![p] = Following[op]]
            /\ beating' = IF op = "heartbeat" THEN [beating EXCEPT ![p] = TRUE] ELSE beating
            /\ UNCHANGED <<alive, abandoned>>
       ELSE Dies(p) /\ UNCHANGED stage
    /\ UNCHANGED <<shared, bounds>>

\* The loop ends at the first error.
BeatReturns(p) ==
    LET t == <<p, "beat">> IN
    /\ task[t].at \in {"ok", "err"}
    /\ beating' = [beating EXCEPT ![p] = @ /\ task[t].at = "ok"]
    /\ Goes(t, Idle)
    /\ UNCHANGED <<shared, stage, alive, history, bounds>>

WatchReturns(p) ==
    LET t == <<p, "watch">> IN
    /\ task[t].at \in {"ok", "err"}
    /\ owners' = IF task[t].at = "ok" /\ task[t].op = "claim"
                 THEN [owners EXCEPT ![task[t].run] = @ \cup {p}] ELSE owners
    /\ Goes(t, Idle)
    /\ UNCHANGED <<shared, process, promised, abandoned, bounds>>

------------------------------------------------------------------------------
(* The environment.                                                        *)

Crash(p) ==
    /\ p \in alive /\ crashes < MaxCrashes /\ crashes' = crashes + 1
    /\ Dies(p)
    /\ UNCHANGED <<shared, stage, owners, promised, beats, recoveries, ioErrors>>

\* A lock file nobody will remove any more grows older than 30 s.
LockExpires ==
    /\ lock # Free /\ lock \notin Holders /\ ~old
    /\ old' = TRUE
    /\ UNCHANGED <<lock, record, task, process, history, bounds>>

Acquires(t) == CreateLock(t) \/ LockIsTaken(t) \/ BreakLock(t) \/ LockTimeout(t)
Proceeds(t) == ReadRecord(t) \/ WriteRecord(t) \/ DropLock(t)
Faults(t)   == WriteLockFails(t) \/ RenameFails(t)

Next ==
    \/ \E p \in Runners : CallMain(p) \/ CallBeat(p) \/ MainReturns(p) \/ BeatReturns(p)
    \/ \E p \in Processes : WatchReturns(p) \/ Crash(p) \/ \E run \in Runners : CallWatch(p, run)
    \/ \E t \in Tasks : Acquires(t) \/ Proceeds(t) \/ Faults(t)
    \/ LockExpires

Spec == Init /\ [][Next]_vars

------------------------------------------------------------------------------
TypeOK ==
    /\ lock \in Tasks \cup {Free, Leaked} /\ old \in BOOLEAN
    /\ record \in [Runners -> Record \cup {NoRecord}]
    /\ \A t \in Tasks : task[t].at \in {"idle", "acquire", "break", "ok", "err"} \cup Holding
    /\ stage \in [Runners -> Stages] /\ beating \in [Runners -> BOOLEAN]
    /\ alive \subseteq Processes
    /\ owners \in [Runners -> SUBSET Processes]
    /\ promised \in [Runners -> {"None", "Running", "Completed", "Failed"}]
    /\ abandoned \in BOOLEAN
    /\ beats \in 0..MaxBeats /\ recoveries \in 0..MaxRecoveries
    /\ crashes \in 0..MaxCrashes /\ ioErrors \in 0..MaxIoErrors

\* As long as no lock file has been left behind, one task at a time reads and
\* writes under the lock, and the lock file is that task's own.
LockExcludes ==
    ~abandoned => \A t \in Holders : lock = t

\* A status main was told is written is the status of the record, until main asks
\* for the next one, dies, or the run is recovered as stale: a heartbeat that read
\* the record before does not write the old one back.  An end is kept for good.
KeptAs(p) ==
    CASE promised[p] \in {"Completed", "Failed"} -> {promised[p]}
      [] promised[p] = "Running" /\ p \in alive -> {"Running", "Recovering", "Halted"}
      [] OTHER -> Status

StatusKept ==
    ~abandoned => \A p \in Runners :
        (record[p] # NoRecord /\ task[<<p, "main">>] = Idle) => record[p].status \in KeptAs(p)

\* A run is claimed by one process at most (the test of the module and LeaseConflict),
\* as long as no lock file has been left behind.
OneOwner == ~abandoned => \A run \in Runners : Cardinality(owners[run]) <= 1

\* A run that has been created has its record as long as no file operation fails,
\* also when a process dies while it replaces it.
RecordSurvives ==
    ioErrors = 0 => \A p \in Runners : stage[p] # "create" => record[p] # NoRecord

\* The record says what its run was told it says, is there to say it, and every
\* variable has its type.
RecordHolds == TypeOK /\ StatusKept /\ RecordSurvives
=============================================================================
