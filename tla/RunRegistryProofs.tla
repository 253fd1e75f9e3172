------------------------- MODULE RunRegistryProofs --------------------------
(* RunRegistry for any processes, runners and bounds, in three layers: who  *)
(* is under the lock (LockInv), what the calls under way know and what      *)
(* their callers have been told (CallInv), and that the records, on file    *)
(* or in a writer's hands, agree with it (RecordInv).  Then the other files *)
(* of a run: RecordWriter for any capacity, flush interval and length of    *)
(* the segments (RecordsInv), and AuditLog for any processes (AuditInv).    *)
EXTENDS RunRegistry, RecordWriter, AuditLog, FiniteSetTheorems, TLAPS

\* Tasks are somewhere; the rest of a task's record matters to no lock.
Placed == DOMAIN task = Tasks /\ \A t \in Tasks : "at" \in DOMAIN task[t]

\* As long as no lock file was left behind, none grows old: it belongs to the one task
\* under the lock, and nobody is about to remove it as stale.
LockInv ==
    /\ Placed
    /\ ~abandoned =>
          /\ ~old
          /\ lock \in Holders \cup {Free}
          /\ \A t \in Holders : lock = t
          /\ \A t \in Tasks : task[t].at # "break"

USE DEF Holding

LEMMA FreeIsNoTask == Free \notin Tasks
  BY DEF Free, Tasks

\* Only the place of the task changes.
LEMMA Moves ==
    ASSUME Placed, NEW t \in Tasks, NEW where, "at" \in DOMAIN where, Goes(t, where)
    PROVE  /\ Placed'
           /\ task'[t] = where
           /\ \A u \in Tasks : u # t => task'[u] = task[u]
  BY DEF Placed, Goes

LEMMA InitLocks == Init => LockInv
  BY DEF Init, LockInv, Placed, Holders, Idle, Free

\* A step outside of the lock, from and to a place outside of it.
LEMMA OutsideKeeps ==
    ASSUME LockInv, NEW t \in Tasks, NEW where, "at" \in DOMAIN where,
           task[t].at \notin Holding, where.at \notin Holding \cup {"break"},
           Goes(t, where), UNCHANGED <<lock, old>>, abandoned => abandoned'
    PROVE  LockInv'
<1>1. Placed' /\ task'[t] = where /\ \A u \in Tasks : u # t => task'[u] = task[u]
  BY Moves DEF LockInv
<1>2. Holders' = Holders
  BY <1>1 DEF Holders
<1> QED
  BY <1>1, <1>2 DEF LockInv

\* A step under the lock.
LEMMA InsideKeeps ==
    ASSUME LockInv, NEW t \in Tasks, NEW where, "at" \in DOMAIN where,
           task[t].at \in Holding, where.at \in Holding,
           Goes(t, where), UNCHANGED <<lock, old, abandoned>>
    PROVE  LockInv'
<1>1. Placed' /\ task'[t] = where /\ \A u \in Tasks : u # t => task'[u] = task[u]
  BY Moves DEF LockInv
<1>2. Holders' = Holders
  BY <1>1 DEF Holders
<1> QED
  BY <1>1, <1>2 DEF LockInv

\* The end of a process: who held the lock left its file behind.
LEMMA DeathKeeps ==
    ASSUME LockInv, NEW p \in Processes, Dies(p), UNCHANGED <<lock, old>>
    PROVE  LockInv'
<1>1. Placed'
  BY DEF Dies, LockInv, Placed, Idle
<1>2. ASSUME ~abandoned' PROVE ~abandoned /\ Holders' = Holders
  BY <1>2 DEF Dies, Holders, Idle
<1>3. \A t \in Tasks : task'[t].at \in {"idle", task[t].at}
  BY DEF Dies, Idle
<1> QED
  BY <1>1, <1>2, <1>3 DEF LockInv

-----------------------------------------------------------------------------
LEMMA AcquireKeeps == ASSUME LockInv, NEW t \in Tasks, Acquires(t) PROVE LockInv'
<1>p. Placed
  BY DEF LockInv
<1>1. CASE CreateLock(t)
  <2> DEFINE where == [task[t] EXCEPT !.at = "read"]
  <2>1. "at" \in DOMAIN where /\ where.at = "read" /\ Goes(t, where)
    BY <1>p, <1>1 DEF CreateLock, Placed
  <2> HIDE DEF where
  <2>2. Placed' /\ task'[t] = where /\ \A u \in Tasks : u # t => task'[u] = task[u]
    BY <1>p, <2>1, Moves
  <2>3. lock = Free /\ lock' = t /\ ~old' /\ abandoned' = abandoned
    BY <1>1 DEF CreateLock, history
  <2>4. ASSUME ~abandoned PROVE Holders = {}
    BY <2>3, <2>4, FreeIsNoTask DEF LockInv, Holders
  <2>5. ASSUME ~abandoned PROVE Holders' = {t}
    BY <2>1, <2>2, <2>4, <2>5 DEF Holders
  <2> QED
    BY <2>1, <2>2, <2>3, <2>5 DEF LockInv
<1>2. CASE LockIsTaken(t)
  <2>1. task[t].at = "acquire" /\ UNCHANGED <<lock, old, abandoned>>
    BY <1>2 DEF LockIsTaken, shared, history
  <2> DEFINE where == [task[t] EXCEPT !.tries = @ - 1,
                               !.at = IF TakesForStale THEN "break" ELSE "acquire"]
  <2>2. Goes(t, where)
    BY <1>2 DEF LockIsTaken
  <2>3. "at" \in DOMAIN where /\ where.at = IF old THEN "break" ELSE "acquire"
    BY <1>p DEF Placed, TakesForStale
  <2> HIDE DEF where
  <2>4. Placed' /\ task'[t] = where /\ \A u \in Tasks : u # t => task'[u] = task[u]
    BY <1>p, <2>2, <2>3, Moves
  <2>5. Holders' = Holders
    BY <2>1, <2>3, <2>4 DEF Holders
  <2> QED
    BY <2>1, <2>3, <2>4, <2>5 DEF LockInv
<1>3. CASE BreakLock(t)
  <2> DEFINE where == [task[t] EXCEPT !.at = "acquire"]
  <2>1. abandoned /\ abandoned' = abandoned /\ Goes(t, where)
    BY <1>3 DEF BreakLock, LockInv, history
  <2>2. "at" \in DOMAIN where
    BY <1>p DEF Placed
  <2> HIDE DEF where
  <2> QED
    BY <1>p, <2>1, <2>2, Moves DEF LockInv
<1>4. CASE LockTimeout(t)
  <2> DEFINE where == [task[t] EXCEPT !.at = IF FALSE THEN "ok" ELSE "err"]
  <2>1. "at" \in DOMAIN where /\ where.at = "err"
    BY <1>p DEF Placed
  <2>2. Goes(t, where) /\ task[t].at = "acquire" /\ UNCHANGED <<lock, old, abandoned>>
    BY <1>4 DEF LockTimeout, Returns, shared, history
  <2> HIDE DEF where
  <2> QED
    BY <2>1, <2>2, OutsideKeeps
<1> QED
  BY <1>1, <1>2, <1>3, <1>4 DEF Acquires

LEMMA ProceedKeeps == ASSUME LockInv, NEW t \in Tasks, Proceeds(t) PROVE LockInv'
<1>p. Placed
  BY DEF LockInv
<1>1. CASE ReadRecord(t)
  <2>1. task[t].at = "read" /\ UNCHANGED <<lock, old, abandoned>>
    BY <1>1 DEF ReadRecord, shared, history
  <2>2. PICK where : "at" \in DOMAIN where /\ where.at \in Holding /\ Goes(t, where)
    <3>1. CASE Drops(t, FALSE) \/ Drops(t, TRUE)
      <4> DEFINE no == [task[t] EXCEPT !.at = "drop", !.tries = IF FALSE THEN 1 ELSE 0]
                 yes == [task[t] EXCEPT !.at = "drop", !.tries = IF TRUE THEN 1 ELSE 0]
      <4>1. /\ "at" \in DOMAIN no /\ no.at \in Holding
            /\ "at" \in DOMAIN yes /\ yes.at \in Holding
        BY <1>p DEF Placed
      <4>2. Goes(t, no) \/ Goes(t, yes)
        BY <3>1 DEF Drops
      <4> HIDE DEF no, yes
      <4> QED
        BY <4>1, <4>2
    <3>2. CASE ~(Drops(t, FALSE) \/ Drops(t, TRUE))
      <4> DEFINE where == [at |-> "write", op |-> task[t].op, by |-> task[t].by,
                           run |-> task[t].run, copy |-> record[task[t].run],
                           tries |-> MaxRenames]
      <4>1. Goes(t, where)
        BY <1>1, <3>2 DEF ReadRecord
      <4>2. "at" \in DOMAIN where /\ where.at \in Holding
        OBVIOUS
      <4> HIDE DEF where
      <4> QED
        BY <4>1, <4>2
    <3> QED
      BY <3>1, <3>2
  <2> QED
    BY <2>1, <2>2, InsideKeeps
<1>2. CASE WriteRecord(t)
  <2> DEFINE where == [at |-> "drop", op |-> task[t].op, by |-> task[t].by, run |-> task[t].run,
                       tries |-> 1]
  <2>1. "at" \in DOMAIN where /\ where.at \in Holding
    OBVIOUS
  <2>2. Goes(t, where) /\ task[t].at \in Holding /\ UNCHANGED <<lock, old, abandoned>>
    BY <1>2 DEF WriteRecord, history
  <2> HIDE DEF where
  <2> QED
    BY <2>1, <2>2, InsideKeeps
<1>3. CASE DropLock(t)
  <2>1. PICK where : "at" \in DOMAIN where /\ where.at \in {"ok", "err"} /\ Goes(t, where)
    <3> DEFINE where == [task[t] EXCEPT !.at = IF task[t].tries = 1 THEN "ok" ELSE "err"]
    <3>1. "at" \in DOMAIN where /\ where.at \in {"ok", "err"}
      BY <1>p DEF Placed
    <3>2. Goes(t, where)
      BY <1>3 DEF DropLock, Returns
    <3> HIDE DEF where
    <3> QED
      BY <3>1, <3>2
  <2>2. Placed' /\ task'[t] = where /\ \A u \in Tasks : u # t => task'[u] = task[u]
    BY <1>p, <2>1, Moves
  <2>3. task[t].at = "drop" /\ lock' = Free /\ ~old' /\ abandoned' = abandoned
    BY <1>3 DEF DropLock, history
  <2>4. ASSUME ~abandoned PROVE Holders' = {}
    <3>1. t \in Holders /\ \A u \in Holders : u = t
      BY <2>3, <2>4 DEF LockInv, Holders
    <3> QED
      BY <3>1, <2>1, <2>2 DEF Holders
  <2> QED
    BY <2>1, <2>2, <2>3, <2>4 DEF LockInv
<1> QED
  BY <1>1, <1>2, <1>3 DEF Proceeds

LEMMA FaultKeeps == ASSUME LockInv, NEW t \in Tasks, Faults(t) PROVE LockInv'
<1>p. Placed
  BY DEF LockInv
<1>1. CASE WriteLockFails(t)
  <2> DEFINE where == [task[t] EXCEPT !.at = IF FALSE THEN "ok" ELSE "err"]
  <2>1. "at" \in DOMAIN where
    BY <1>p DEF Placed
  <2>2. Goes(t, where) /\ abandoned'
    BY <1>1 DEF WriteLockFails, Returns
  <2> HIDE DEF where
  <2> QED
    BY <1>p, <2>1, <2>2, Moves DEF LockInv
<1>2. CASE RenameFails(t)
  <2>1. task[t].at = "write" /\ UNCHANGED <<lock, old, abandoned>>
    BY <1>2 DEF RenameFails, history
  <2>2. PICK where : "at" \in DOMAIN where /\ where.at \in Holding /\ Goes(t, where)
    <3>1. CASE task[t].tries > 1
      <4> DEFINE where == [task[t] EXCEPT !.tries = @ - 1]
      <4>1. "at" \in DOMAIN where /\ where.at = "write"
        BY <1>p, <2>1 DEF Placed
      <4>2. Goes(t, where)
        BY <1>2, <3>1 DEF RenameFails
      <4> HIDE DEF where
      <4> QED
        BY <4>1, <4>2
    <3>2. CASE ~(task[t].tries > 1)
      <4> DEFINE where == [at |-> "drop", op |-> task[t].op, by |-> task[t].by,
                           run |-> task[t].run, tries |-> 0]
      <4>1. "at" \in DOMAIN where /\ where.at \in Holding
        OBVIOUS
      <4>2. Goes(t, where)
        BY <1>2, <3>2 DEF RenameFails
      <4> HIDE DEF where
      <4> QED
        BY <4>1, <4>2
    <3> QED
      BY <3>1, <3>2
  <2> QED
    BY <2>1, <2>2, InsideKeeps
<1> QED
  BY <1>1, <1>2 DEF Faults

-----------------------------------------------------------------------------
\* A call that begins, and the three places where one ends.
LEMMA CallKeeps ==
    ASSUME LockInv, NEW t \in Tasks, NEW op, NEW run, Calls(t, op, run),
           UNCHANGED <<lock, old, abandoned>>
    PROVE  LockInv'
<1> DEFINE where == [at |-> "acquire", op |-> op, by |-> Of(t), run |-> run, tries |-> MaxAttempts]
<1>1. "at" \in DOMAIN where /\ where.at = "acquire"
  OBVIOUS
<1>2. Goes(t, where) /\ task[t].at = "idle"
  BY DEF Calls, Idle
<1> HIDE DEF where
<1> QED
  BY <1>1, <1>2, OutsideKeeps

LEMMA ReturnKeeps ==
    ASSUME LockInv, NEW t \in Tasks, task[t].at \in {"ok", "err"}, Goes(t, Idle),
           UNCHANGED <<lock, old, abandoned>>
    PROVE  LockInv'
  BY OutsideKeeps DEF Idle

LEMMA StepKeeps == LockInv /\ [Next]_vars => LockInv'
<1> SUFFICES ASSUME LockInv, [Next]_vars PROVE LockInv'
  OBVIOUS
<1>t. \A p \in Processes : <<p, "main">> \in Tasks /\ <<p, "beat">> \in Tasks /\ <<p, "watch">> \in Tasks
  BY DEF Tasks, Roles
<1>r. Runners \subseteq Processes
  BY RunnersAssumption
<1>1. ASSUME NEW p \in Runners, CallMain(p) PROVE LockInv'
  BY <1>1, <1>t, <1>r, CallKeeps DEF CallMain, shared, history
<1>2. ASSUME NEW p \in Runners, CallBeat(p) PROVE LockInv'
  BY <1>2, <1>t, <1>r, CallKeeps DEF CallBeat, shared, history
<1>3. ASSUME NEW p \in Runners, MainReturns(p) PROVE LockInv'
  <2>1. task[<<p, "main">>].at \in {"ok", "err"} /\ UNCHANGED <<lock, old>>
    BY <1>3 DEF MainReturns, shared
  <2>2. CASE Goes(<<p, "main">>, Idle) /\ UNCHANGED abandoned
    BY <2>1, <2>2, <1>t, <1>r, ReturnKeeps
  <2>3. CASE Dies(p)
    BY <2>1, <2>3, <1>r, DeathKeeps
  <2> QED
    BY <1>3, <2>2, <2>3 DEF MainReturns
<1>4. ASSUME NEW p \in Runners, BeatReturns(p) PROVE LockInv'
  BY <1>4, <1>t, <1>r, ReturnKeeps DEF BeatReturns, shared, history
<1>5. ASSUME NEW p \in Processes, WatchReturns(p) PROVE LockInv'
  BY <1>5, <1>t, ReturnKeeps DEF WatchReturns, shared
<1>6. ASSUME NEW p \in Processes, Crash(p) PROVE LockInv'
  BY <1>6, DeathKeeps DEF Crash, shared
<1>7. ASSUME NEW p \in Processes, NEW run \in Runners, CallWatch(p, run) PROVE LockInv'
  BY <1>7, <1>t, CallKeeps DEF CallWatch, shared, history
<1>8. ASSUME NEW t \in Tasks, Acquires(t) \/ Proceeds(t) \/ Faults(t) PROVE LockInv'
  BY <1>8, AcquireKeeps, ProceedKeeps, FaultKeeps
<1>9. CASE LockExpires
  BY <1>9 DEF LockExpires, LockInv, history, Placed, Holders
<1>10. CASE UNCHANGED vars
  BY <1>10 DEF vars, shared, history, LockInv, Placed, Holders
<1> QED
  BY <1>1, <1>2, <1>3, <1>4, <1>5, <1>6, <1>7, <1>8, <1>9, <1>10 DEF Next

\* Until a process dies under the lock or cannot write into its new lock file, one task at
\* a time reads and writes, and the lock file is its own: a stale lock is only ever taken
\* from the dead.
THEOREM LockIsExclusive == Spec => []LockExcludes
<1>1. Init => LockInv
  BY InitLocks
<1>2. LockInv /\ [Next]_vars => LockInv'
  BY StepKeeps
<1>3. LockInv => LockExcludes
  BY DEF LockInv, LockExcludes
<1> QED
  BY <1>1, <1>2, <1>3, PTL DEF Spec
-----------------------------------------------------------------------------
(* What the calls are: where a task can be, whose call it is in, and what   *)
(* it has found out about the record before it writes.                      *)

Ops == {"create", "claim", "checkpoint", "run", "heartbeat", "complete", "fail", "recover"}
Pending == [at : {"acquire", "break", "read", "drop", "ok", "err"}, op : Ops,
            by : Processes, run : Runners, tries : Nat]
Writing == [at : {"write"}, op : Ops, by : Processes, run : Runners,
            copy : Record \cup {NoRecord}, tries : Nat]
Places == {Idle} \cup Pending \cup Writing

\* A task of a living process is in a call that this task makes.
Assigned(t) ==
    task[t].at # "idle" =>
        /\ Of(t) \in alive /\ task[t].by = Of(t)
        /\ Role(t) = "main" => /\ Of(t) \in Runners /\ task[t].run = Of(t)
                               /\ task[t].op \in MainCalls(Of(t))
        /\ Role(t) = "beat" => task[t].op = "heartbeat"
        /\ Role(t) = "watch" => task[t].run # Of(t) /\ task[t].op \in {"claim", "recover"}

\* What is about to be written has been read and found fit for it.
Warranted(t) ==
    task[t].at = "write" =>
        /\ task[t].op # "create" => task[t].copy # NoRecord
        /\ task[t].op = "claim" => ~LeaseConflict(task[t].copy, task[t].by)
        /\ task[t].op = "recover" => Recoverable(task[t].copy)

M(p) == <<p, "main">>

\* The calls that have succeeded and not returned yet.
Done == {t \in Tasks : task[t].at = "ok" \/ (task[t].at = "drop" /\ task[t].tries = 1)}

\* What main has been told, how far it has come, and that its record is there.
Life(p) ==
    /\ stage[p] \in {"create", "claim", "checkpoint", "run"} => promised[p] = "None"
    /\ p \in alive => promised[p] \in {"None", "Running"}
    /\ stage[p] \notin {"create", "claim"} => p \in owners[p]
    /\ (ioErrors = 0 /\ (stage[p] # "create" \/ M(p) \in Done)) => record[p] # NoRecord

CallInv == /\ TypeOK /\ task \in [Tasks -> Places]
           /\ \A t \in Tasks : Assigned(t) /\ Warranted(t)
           /\ \A p \in Runners : Life(p)

LEMMA NoRecordIsNone == NoRecord \notin Record
  BY DEF NoRecord, Record, Status

LEMMA MainTask == \A p \in Processes : M(p) \in Tasks /\ Of(M(p)) = p /\ Role(M(p)) = "main"
  BY DEF M, Tasks, Roles, Of, Role

LEMMA MainIsOne ==
    ASSUME NEW t \in Tasks, Role(t) = "main"
    PROVE  t = M(Of(t)) /\ Of(t) \in Processes
  BY DEF M, Tasks, Roles, Of, Role

LEMMA TaskParts == \A t \in Tasks : Of(t) \in Processes /\ Role(t) \in Roles
  BY DEF Tasks, Of, Role

\* A call moves on within itself.
Passes(t, where) ==
    /\ Goes(t, where) /\ where \in Pending \cup Writing
    /\ task[t].at # "idle"
    /\ where.op = task[t].op /\ where.by = task[t].by /\ where.run = task[t].run
    /\ UNCHANGED <<process, owners, promised>>

LEMMA PassesMoves ==
    ASSUME task \in [Tasks -> Places], NEW t \in Tasks, NEW where, Passes(t, where)
    PROVE  /\ task' \in [Tasks -> Places] /\ task'[t] = where /\ where.at # "idle"
           /\ \A u \in Tasks \ {t} : task'[u] = task[u]
  BY DEF Passes, Goes, Places, Pending, Writing

LEMMA PassesKeepsCalls ==
    ASSUME CallInv, NEW t \in Tasks, NEW where, Passes(t, where), Warranted(t)'
    PROVE  \A u \in Tasks : Assigned(u)' /\ Warranted(u)'
<1>1. /\ task'[t] = where /\ \A u \in Tasks \ {t} : task'[u] = task[u]
  BY PassesMoves DEF CallInv
<1>2. UNCHANGED <<alive, stage>>
  BY DEF Passes, process
<1>3. TAKE u \in Tasks
<1>4. Assigned(u) /\ Warranted(u) /\ Assigned(t)
  BY DEF CallInv
<1>5. CASE u = t
  <2>1. Assigned(t)'
    BY <1>1, <1>2, <1>4 DEF Assigned, Passes, MainCalls
  <2> QED
    BY <1>5, <2>1
<1>6. CASE u # t
  <2>1. Assigned(u)'
    BY <1>1, <1>2, <1>4, <1>6 DEF Assigned, MainCalls
  <2>2. Warranted(u)'
    BY <1>1, <1>4, <1>6 DEF Warranted
  <2> QED
    BY <2>1, <2>2
<1> QED
  BY <1>5, <1>6

\* The place of a call under way, and the places reached from it.
LEMMA PendingGoesOn ==
    ASSUME NEW w \in Pending, NEW n \in Nat,
           NEW at \in {"acquire", "break", "read", "drop", "ok", "err"}
    PROVE  LET v == [w EXCEPT !.tries = n, !.at = at]
           IN  v \in Pending /\ v.at = at /\ v.tries = n
               /\ v.op = w.op /\ v.by = w.by /\ v.run = w.run
  BY DEF Pending

LEMMA PendingAt ==
    ASSUME task \in [Tasks -> Places], NEW t \in Tasks, task[t].at \notin {"idle", "write"}
    PROVE  task[t] \in Pending
  BY DEF Places, Writing, Idle

LEMMA WritingAt ==
    ASSUME task \in [Tasks -> Places], NEW t \in Tasks, task[t].at = "write"
    PROVE  task[t] \in Writing
  BY DEF Places, Pending, Idle
\* A step within a call that writes nothing into a record: the record stays, or is
\* removed by a failing rename.
Harmless(t, where) ==
    /\ Passes(t, where) /\ Warranted(t)'
    /\ t \in Done => t \in Done'
    /\ t \in Done' => t \in Done \/ where.op = "recover"
    /\ where.at = "write" => \/ where.copy = record[where.run]
                             \/ task[t].at = "write" /\ where.copy = task[t].copy
    /\ \/ record' = record /\ (ioErrors' = 0 => ioErrors = 0)
       \/ ioErrors' # 0 /\ record' = [record EXCEPT ![task[t].run] = NoRecord]
    /\ abandoned => abandoned'

\* Being done, of the task that moves.
LEMMA DoneAt ==
    ASSUME NEW t \in Tasks
    PROVE  /\ t \in Done <=> task[t].at = "ok" \/ (task[t].at = "drop" /\ task[t].tries = 1)
           /\ t \in Done' <=> task'[t].at = "ok" \/ (task'[t].at = "drop" /\ task'[t].tries = 1)
  BY DEF Done

\* From a call that is not done to a place outside of the lock, or at its begin, and
\* still not done.
LEMMA WaitingIsHarmless ==
    ASSUME CallInv, NEW t \in Tasks, task[t].at \in {"acquire", "break"},
           NEW where \in Pending, where.at \in {"read", "break", "acquire", "err"},
           where.op = task[t].op, where.by = task[t].by, where.run = task[t].run,
           Goes(t, where), UNCHANGED <<record, process, owners, promised>>,
           ioErrors' = 0 => ioErrors = 0, abandoned => abandoned'
    PROVE  Harmless(t, where)
<1>1. Passes(t, where)
  BY DEF Passes
<1>2. task'[t] = where
  BY <1>1, PassesMoves DEF CallInv
<1>3. t \notin Done /\ t \notin Done'
  BY <1>2, DoneAt
<1>4. Warranted(t)'
  BY <1>2 DEF Warranted
<1> QED
  BY <1>1, <1>3, <1>4 DEF Harmless

LEMMA AcquireIsHarmless ==
    ASSUME CallInv, NEW t \in Tasks, Acquires(t) \/ WriteLockFails(t)
    PROVE  \E where : Harmless(t, where)
<1>t. ioErrors \in Nat /\ task \in [Tasks -> Places]
  BY BoundsAssumption DEF CallInv, TypeOK
<1>1. CASE CreateLock(t)
  <2> DEFINE where == [task[t] EXCEPT !.at = "read"]
  <2>1. task[t].at = "acquire" /\ Goes(t, where)
    BY <1>1 DEF CreateLock
  <2>2. task[t] \in Pending
    BY <2>1, <1>t, PendingAt
  <2>3. where \in Pending /\ where.at = "read"
        /\ where.op = task[t].op /\ where.by = task[t].by /\ where.run = task[t].run
    BY <2>2 DEF Pending
  <2> HIDE DEF where
  <2> QED
    BY <1>1, <2>1, <2>3, WaitingIsHarmless DEF CreateLock, history, bounds
<1>2. CASE LockIsTaken(t)
  <2> DEFINE where == [task[t] EXCEPT !.tries = @ - 1,
                               !.at = IF TakesForStale THEN "break" ELSE "acquire"]
  <2>1. task[t].at = "acquire" /\ task[t].tries > 0 /\ Goes(t, where)
    BY <1>2 DEF LockIsTaken
  <2>2. task[t] \in Pending
    BY <2>1, <1>t, PendingAt
  <2> DEFINE n == task[t].tries - 1
             at == IF TakesForStale THEN "break" ELSE "acquire"
  <2>a. n \in Nat /\ at \in {"break", "acquire"}
    BY <2>1, <2>2 DEF Pending
  <2>b. where = [task[t] EXCEPT !.tries = n, !.at = at]
    OBVIOUS
  <2> HIDE DEF n, at, where
  <2>3. where \in Pending /\ where.at \in {"break", "acquire"}
        /\ where.op = task[t].op /\ where.by = task[t].by /\ where.run = task[t].run
    BY <2>2, <2>a, <2>b DEF Pending
  <2> HIDE DEF where
  <2> QED
    BY <1>2, <2>1, <2>3, WaitingIsHarmless DEF LockIsTaken, shared, history, bounds
<1>3. CASE BreakLock(t)
  <2> DEFINE where == [task[t] EXCEPT !.at = "acquire"]
  <2>1. task[t].at = "break" /\ Goes(t, where)
    BY <1>3 DEF BreakLock
  <2>2. task[t] \in Pending
    BY <2>1, <1>t, PendingAt
  <2>3. where \in Pending /\ where.at = "acquire"
        /\ where.op = task[t].op /\ where.by = task[t].by /\ where.run = task[t].run
    BY <2>2 DEF Pending
  <2> HIDE DEF where
  <2> QED
    BY <1>3, <2>1, <2>3, WaitingIsHarmless DEF BreakLock, history, bounds
<1>4. CASE LockTimeout(t) \/ WriteLockFails(t)
  <2> DEFINE where == [task[t] EXCEPT !.at = IF FALSE THEN "ok" ELSE "err"]
  <2>1. task[t].at = "acquire" /\ Goes(t, where)
    BY <1>4 DEF LockTimeout, WriteLockFails, Returns
  <2>2. task[t] \in Pending
    BY <2>1, <1>t, PendingAt
  <2>3. where \in Pending /\ where.at = "err"
        /\ where.op = task[t].op /\ where.by = task[t].by /\ where.run = task[t].run
    BY <2>2 DEF Pending
  <2>4. UNCHANGED <<record, process, owners, promised>>
    BY <1>4 DEF LockTimeout, WriteLockFails, shared, history
  <2>5. ioErrors' = 0 => ioErrors = 0
    <3>1. ioErrors' = ioErrors \/ ioErrors' = ioErrors + 1
      BY <1>4 DEF LockTimeout, WriteLockFails, bounds
    <3> QED
      BY <3>1, <1>t
  <2>6. abandoned => abandoned'
    BY <1>4 DEF LockTimeout, WriteLockFails, history
  <2> HIDE DEF where
  <2> QED
    BY <2>1, <2>3, <2>4, <2>5, <2>6, WaitingIsHarmless
<1> QED
  BY <1>1, <1>2, <1>3, <1>4 DEF Acquires

LEMMA ReadIsHarmless ==
    ASSUME CallInv, NEW t \in Tasks, ReadRecord(t)
    PROVE  \E where : Harmless(t, where)
<1> DEFINE r == record[task[t].run]
           drop(ok) == [task[t] EXCEPT !.at = "drop", !.tries = IF ok THEN 1 ELSE 0]
           write == [at |-> "write", op |-> task[t].op, by |-> task[t].by, run |-> task[t].run,
                     copy |-> r, tries |-> MaxRenames]
<1>1. /\ task[t].at = "read" /\ UNCHANGED <<record, process, owners, promised, ioErrors, abandoned>>
      /\ \/ Goes(t, drop(FALSE))
         \/ LeavesRecord(task[t], r) /\ Goes(t, drop(TRUE))
         \/ ~RefusesRecord(task[t], r) /\ ~LeavesRecord(task[t], r) /\ Goes(t, write)
  BY DEF ReadRecord, Drops, shared, history, bounds
<1>2. task \in [Tasks -> Places] /\ task[t] \in Pending
  BY <1>1, PendingAt DEF CallInv
<1>3. r \in Record \cup {NoRecord}
  BY <1>2 DEF CallInv, TypeOK, Pending
<1>4. t \notin Done
  BY <1>1, DoneAt
<1>5. CASE Goes(t, drop(FALSE))
  <2> DEFINE where == drop(FALSE)
  <2>1. where \in Pending /\ where.at = "drop" /\ where.tries = 0
        /\ where.op = task[t].op /\ where.by = task[t].by /\ where.run = task[t].run
    BY <1>2 DEF Pending
  <2>2. Goes(t, where)
    BY <1>5
  <2> HIDE DEF where
  <2>3. Passes(t, where)
    BY <1>1, <2>1, <2>2 DEF Passes
  <2>4. task'[t] = where
    BY <1>2, <2>3, PassesMoves
  <2>5. t \notin Done' /\ Warranted(t)'
    BY <2>1, <2>4, DoneAt DEF Warranted
  <2> QED
    BY <1>1, <1>4, <2>1, <2>3, <2>5 DEF Harmless
<1>6. CASE LeavesRecord(task[t], r) /\ Goes(t, drop(TRUE))
  <2> DEFINE where == drop(TRUE)
  <2>1. where \in Pending /\ where.at = "drop" /\ where.tries = 1
        /\ where.op = task[t].op /\ where.by = task[t].by /\ where.run = task[t].run
    BY <1>2 DEF Pending
  <2>2. Goes(t, where) /\ task[t].op = "recover"
    BY <1>6 DEF LeavesRecord
  <2> HIDE DEF where
  <2>3. Passes(t, where)
    BY <1>1, <2>1, <2>2 DEF Passes
  <2>4. task'[t] = where
    BY <1>2, <2>3, PassesMoves
  <2>5. Warranted(t)'
    BY <2>1, <2>4 DEF Warranted
  <2> QED
    BY <1>1, <1>4, <2>1, <2>2, <2>3, <2>5 DEF Harmless
<1>7. CASE ~RefusesRecord(task[t], r) /\ ~LeavesRecord(task[t], r) /\ Goes(t, write)
  <2>1. write \in Writing
    BY <1>2, <1>3, BoundsAssumption DEF Pending, Writing
  <2>2. Goes(t, write) /\ write.at = "write" /\ write.copy = record[write.run]
        /\ write.op = task[t].op /\ write.by = task[t].by /\ write.run = task[t].run
    BY <1>7
  <2>3. /\ task[t].op # "create" => r # NoRecord
        /\ task[t].op = "claim" => ~LeaseConflict(r, task[t].by)
        /\ task[t].op = "recover" => Recoverable(r)
    BY <1>7 DEF RefusesRecord, LeavesRecord
  <2>4. /\ write.op # "create" => write.copy # NoRecord
        /\ write.op = "claim" => ~LeaseConflict(write.copy, write.by)
        /\ write.op = "recover" => Recoverable(write.copy)
    BY <2>3
  <2> HIDE DEF write
  <2>5. Passes(t, write)
    BY <1>1, <2>1, <2>2 DEF Passes
  <2>6. task'[t] = write
    BY <1>2, <2>5, PassesMoves
  <2>7. t \notin Done' /\ Warranted(t)'
    BY <2>2, <2>4, <2>6, DoneAt DEF Warranted
  <2> QED
    BY <1>1, <1>4, <2>2, <2>5, <2>7 DEF Harmless
<1> QED
  BY <1>1, <1>5, <1>6, <1>7

LEMMA DropIsHarmless ==
    ASSUME CallInv, NEW t \in Tasks, DropLock(t)
    PROVE  \E where : Harmless(t, where)
<1> DEFINE where == [task[t] EXCEPT !.at = IF task[t].tries = 1 THEN "ok" ELSE "err"]
<1>1. /\ task[t].at = "drop" /\ Goes(t, where)
      /\ UNCHANGED <<record, process, owners, promised, ioErrors, abandoned>>
  BY DEF DropLock, Returns, history, bounds
<1>2. task \in [Tasks -> Places] /\ task[t] \in Pending
  BY <1>1, PendingAt DEF CallInv
<1>3. where \in Pending /\ where.at = (IF task[t].tries = 1 THEN "ok" ELSE "err")
      /\ where.op = task[t].op /\ where.by = task[t].by /\ where.run = task[t].run
  BY <1>2 DEF Pending
<1> HIDE DEF where
<1>4. Passes(t, where)
  BY <1>1, <1>3 DEF Passes
<1>5. task'[t] = where
  BY <1>2, <1>4, PassesMoves
<1>6. (t \in Done' <=> t \in Done) /\ Warranted(t)'
  BY <1>1, <1>3, <1>5, DoneAt DEF Warranted
<1> QED
  BY <1>1, <1>3, <1>4, <1>6 DEF Harmless

LEMMA RenameIsHarmless ==
    ASSUME CallInv, NEW t \in Tasks, RenameFails(t)
    PROVE  \E where : Harmless(t, where)
<1>1. /\ task[t].at = "write" /\ record' = [record EXCEPT ![task[t].run] = NoRecord]
      /\ UNCHANGED <<process, owners, promised, abandoned>>
  BY DEF RenameFails, history
<1>2. task \in [Tasks -> Places] /\ task[t] \in Writing
  BY <1>1, WritingAt DEF CallInv
<1>3. ioErrors' # 0
  BY BoundsAssumption DEF RenameFails, CallInv, TypeOK
<1>4. t \notin Done /\ Warranted(t)
  BY <1>1, DoneAt DEF CallInv
<1>5. CASE task[t].tries > 1
  <2> DEFINE where == [task[t] EXCEPT !.tries = @ - 1]
  <2>1. where \in Writing /\ where.at = "write" /\ where.copy = task[t].copy
        /\ where.op = task[t].op /\ where.by = task[t].by /\ where.run = task[t].run
    BY <1>1, <1>2, <1>5 DEF Writing
  <2>2. Goes(t, where)
    BY <1>5 DEF RenameFails
  <2> HIDE DEF where
  <2>3. Passes(t, where)
    BY <1>1, <2>1, <2>2 DEF Passes
  <2>4. task'[t] = where
    BY <1>2, <2>3, PassesMoves
  <2>5. t \notin Done' /\ Warranted(t)'
    BY <1>1, <1>4, <2>1, <2>4, DoneAt DEF Warranted
  <2> QED
    BY <1>1, <1>3, <1>4, <2>1, <2>3, <2>5 DEF Harmless
<1>6. CASE ~(task[t].tries > 1)
  <2> DEFINE where == [at |-> "drop", op |-> task[t].op, by |-> task[t].by,
                       run |-> task[t].run, tries |-> 0]
  <2>1. where \in Pending /\ where.at = "drop" /\ where.tries = 0
        /\ where.op = task[t].op /\ where.by = task[t].by /\ where.run = task[t].run
    BY <1>2 DEF Writing, Pending
  <2>2. Goes(t, where)
    BY <1>6 DEF RenameFails
  <2> HIDE DEF where
  <2>3. Passes(t, where)
    BY <1>1, <2>1, <2>2 DEF Passes
  <2>4. task'[t] = where
    BY <1>2, <2>3, PassesMoves
  <2>5. t \notin Done' /\ Warranted(t)'
    BY <2>1, <2>4, DoneAt DEF Warranted
  <2> QED
    BY <1>1, <1>3, <1>4, <2>1, <2>3, <2>5 DEF Harmless
<1> QED
  BY <1>5, <1>6
LEMMA DoneOthers ==
    ASSUME NEW t \in Tasks, \A u \in Tasks \ {t} : task'[u] = task[u]
    PROVE  \A u \in Tasks \ {t} : u \in Done' <=> u \in Done
  BY DEF Done

\* What main does is never to recover.
LEMMA MainNeverRecovers ==
    ASSUME CallInv, NEW p \in Runners, task[M(p)].at # "idle"
    PROVE  task[M(p)].run = p /\ task[M(p)].op # "recover" /\ task[M(p)].op \in MainCalls(p)
<1>1. M(p) \in Tasks /\ Of(M(p)) = p /\ Role(M(p)) = "main"
  BY MainTask, RunnersAssumption
<1>2. Assigned(M(p)) /\ stage[p] \in Stages
  BY <1>1 DEF CallInv, TypeOK
<1> QED
  BY <1>1, <1>2 DEF Assigned, MainCalls, Stages

\* The parts of the invariant other than the types of the other variables.
CallParts == /\ task \in [Tasks -> Places]
             /\ \A t \in Tasks : Assigned(t) /\ Warranted(t)
             /\ \A p \in Runners : Life(p)

LEMMA HarmlessKeepsCalls ==
    ASSUME CallInv, NEW t \in Tasks, NEW where, Harmless(t, where)
    PROVE  CallParts'
<1>1. Passes(t, where) /\ Warranted(t)' /\ where.op = task[t].op /\ task[t].at # "idle"
  BY DEF Harmless, Passes
<1>2. /\ task' \in [Tasks -> Places] /\ task'[t] = where
      /\ \A u \in Tasks \ {t} : task'[u] = task[u]
  BY <1>1, PassesMoves DEF CallInv
<1>3. \A u \in Tasks : Assigned(u)' /\ Warranted(u)'
  BY <1>1, PassesKeepsCalls
<1>4. ASSUME NEW p \in Runners PROVE Life(p)'
  <2>1. UNCHANGED <<stage, alive, owners, promised>> /\ Life(p)
    BY <1>1 DEF Passes, process, CallInv
  <2>2. M(p) \in Tasks
    BY MainTask, RunnersAssumption
  <2>3. M(p) \in Done' => M(p) \in Done
    <3>1. CASE M(p) = t
      <4>1. task[t].op # "recover"
        BY <1>1, <3>1, MainNeverRecovers
      <4> QED
        BY <1>1, <3>1, <4>1 DEF Harmless
    <3>2. CASE M(p) # t
      BY <1>2, <2>2, <3>2, DoneOthers
    <3> QED
      BY <3>1, <3>2
  <2>4. ioErrors' = 0 => ioErrors = 0 /\ record' = record
    BY DEF Harmless
  <2> QED
    BY <2>1, <2>3, <2>4 DEF Life
<1> QED
  BY <1>2, <1>3, <1>4 DEF CallParts

-----------------------------------------------------------------------------
\* A claim and a recovery keep the record a record.
LEMMA ClaimedIs ==
    ASSUME NEW r \in Record, NEW p \in Processes
    PROVE  Claimed(r, p) \in Record /\ Claimed(r, p).owner = p
<1> DEFINE n == r.attempts + 1
           v == [r EXCEPT !.status = "Starting", !.owner = p, !.attempts = n]
<1>1. n \in Nat /\ "Starting" \in Status /\ Claimed(r, p) = v
  BY DEF Record, Status, Claimed
<1> HIDE DEF n
<1>2. v \in Record /\ v.owner = p
  BY <1>1 DEF Record
<1> QED
  BY <1>1, <1>2

LEMMA RecoveredIs ==
    ASSUME NEW r \in Record
    PROVE  /\ Recovered(r) \in Record /\ Recovered(r).owner = r.owner
           /\ Recovered(r).status \in {"Recovering", "Halted"}
<1> DEFINE n == r.restarts + 1
           v == [r EXCEPT !.status = "Recovering", !.restarts = n]
           w == [r EXCEPT !.status = "Halted"]
<1>1. n \in Nat /\ "Recovering" \in Status /\ "Halted" \in Status
  BY DEF Record, Status
<1>2. Recovered(r) = v \/ Recovered(r) = w
  BY DEF Recovered
<1> HIDE DEF n
<1>3. v \in Record /\ v.owner = r.owner /\ v.status = "Recovering"
  BY <1>1 DEF Record
<1>4. w \in Record /\ w.owner = r.owner /\ w.status = "Halted"
  BY <1>1 DEF Record
<1> HIDE DEF v, w
<1> QED
  BY <1>2, <1>3, <1>4

\* What the call makes of the record it has read.
LEMMA ChangedIs ==
    ASSUME NEW call \in Writing, call.op # "create" => call.copy # NoRecord
    PROVE  LET r == Changed(call, call.copy) IN
           /\ r \in Record
           /\ r.owner = (IF call.op = "create" THEN NoOwner
                         ELSE IF call.op = "claim" THEN call.by ELSE call.copy.owner)
           /\ call.op = "run" => r.status = "Running"
           /\ call.op = "complete" => r.status = "Completed"
           /\ call.op = "fail" => r.status = "Failed"
           /\ call.op = "recover" => r.status \in {"Recovering", "Halted"}
           /\ call.op \in {"checkpoint", "heartbeat"} => r = call.copy
<1>1. call.op \in Ops /\ call.by \in Processes
  BY DEF Writing
<1>2. CASE call.op = "create"
  <2>1. Changed(call, call.copy) = NewRecord
    BY <1>2 DEF Changed
  <2>2. NewRecord \in Record /\ NewRecord.owner = NoOwner
    BY DEF NewRecord, Record, Status
  <2> QED
    BY <1>2, <2>1, <2>2
<1> DEFINE c == call.copy
<1>c. call.op # "create" => c \in Record
  BY DEF Writing
<1>3. CASE call.op = "claim"
  <2>1. Changed(call, c) = Claimed(c, call.by)
    BY <1>3 DEF Changed
  <2> HIDE DEF c
  <2>2. Claimed(c, call.by) \in Record /\ Claimed(c, call.by).owner = call.by
    BY <1>1, <1>3, <1>c, ClaimedIs
  <2> QED
    BY <1>3, <2>1, <2>2 DEF c
<1>4. CASE call.op \in {"run", "complete", "fail"}
  <2> DEFINE s == IF call.op = "run" THEN "Running"
                  ELSE IF call.op = "complete" THEN "Completed" ELSE "Failed"
  <2>1. Changed(call, c) = [c EXCEPT !.status = s]
    BY <1>4 DEF Changed, Transitioned, Failed
  <2>2. s \in Status
    BY DEF Status
  <2> HIDE DEF c, s
  <2>3. [c EXCEPT !.status = s] \in Record /\ [c EXCEPT !.status = s].owner = c.owner
        /\ [c EXCEPT !.status = s].status = s
    BY <1>4, <1>c, <2>2 DEF Record
  <2> QED
    BY <1>4, <2>1, <2>3 DEF c, s
<1>5. CASE call.op = "recover"
  <2>1. Changed(call, c) = Recovered(c)
    BY <1>5 DEF Changed
  <2> HIDE DEF c
  <2>2. /\ Recovered(c) \in Record /\ Recovered(c).owner = c.owner
        /\ Recovered(c).status \in {"Recovering", "Halted"}
    BY <1>5, <1>c, RecoveredIs
  <2> QED
    BY <1>5, <2>1, <2>2 DEF c
<1>6. CASE call.op \in {"checkpoint", "heartbeat"}
  <2>1. Changed(call, c) = c
    BY <1>6 DEF Changed
  <2> QED
    BY <1>6, <1>c, <2>1
<1> QED
  BY <1>1, <1>2, <1>3, <1>4, <1>5, <1>6 DEF Ops

\* A write, told in the terms of the lemmas above.
LEMMA WritePasses ==
    ASSUME CallInv, NEW t \in Tasks, WriteRecord(t)
    PROVE  /\ task[t].at = "write" /\ task[t] \in Writing
           /\ \E where : Passes(t, where) /\ where.at = "drop" /\ where.tries = 1
           /\ t \notin Done /\ t \in Done' /\ Warranted(t)' /\ task'[t].at = "drop"
           /\ record' = [record EXCEPT ![task[t].run] = Changed(task[t], task[t].copy)]
           /\ UNCHANGED <<ioErrors, abandoned>>
<1> DEFINE where == [at |-> "drop", op |-> task[t].op, by |-> task[t].by,
                     run |-> task[t].run, tries |-> 1]
<1>1. /\ task[t].at = "write" /\ Goes(t, where)
      /\ record' = [record EXCEPT ![task[t].run] = Changed(task[t], task[t].copy)]
      /\ UNCHANGED <<process, owners, promised, ioErrors, abandoned>>
  BY DEF WriteRecord, history, bounds
<1>2. task \in [Tasks -> Places] /\ task[t] \in Writing
  BY <1>1, WritingAt DEF CallInv
<1>3. where \in Pending /\ where.at = "drop" /\ where.tries = 1
      /\ where.op = task[t].op /\ where.by = task[t].by /\ where.run = task[t].run
  BY <1>2 DEF Writing, Pending
<1> HIDE DEF where
<1>4. Passes(t, where)
  BY <1>1, <1>3 DEF Passes
<1>5. task'[t] = where
  BY <1>2, <1>4, PassesMoves
<1>6. t \notin Done /\ t \in Done' /\ Warranted(t)'
  BY <1>1, <1>3, <1>5, DoneAt DEF Warranted
<1> QED
  BY <1>1, <1>2, <1>3, <1>4, <1>5, <1>6

LEMMA WriteKeepsCalls ==
    ASSUME CallInv, NEW t \in Tasks, WriteRecord(t)
    PROVE  CallParts' /\ record' \in [Runners -> Record \cup {NoRecord}]
<1>1. /\ task[t].at = "write" /\ task[t] \in Writing /\ Warranted(t)'
      /\ record' = [record EXCEPT ![task[t].run] = Changed(task[t], task[t].copy)]
      /\ ioErrors' = ioErrors
  BY WritePasses
<1>2. PICK where : Passes(t, where)
  BY WritePasses
<1>3. /\ task' \in [Tasks -> Places]
      /\ \A u \in Tasks \ {t} : task'[u] = task[u]
  BY <1>2, PassesMoves DEF CallInv
<1>4. \A u \in Tasks : Assigned(u)' /\ Warranted(u)'
  BY <1>1, <1>2, PassesKeepsCalls
<1>5. Changed(task[t], task[t].copy) \in Record
  BY <1>1, ChangedIs DEF CallInv, Warranted
<1>6. /\ record' \in [Runners -> Record \cup {NoRecord}]
      /\ \A p \in Runners : record'[p] = record[p] \/ record'[p] \in Record
      /\ record'[task[t].run] \in Record
  BY <1>1, <1>5 DEF CallInv, TypeOK, Writing
<1>7. ASSUME NEW p \in Runners PROVE Life(p)'
  <2>1. UNCHANGED <<stage, alive, owners, promised>> /\ Life(p)
    BY <1>2 DEF Passes, process, CallInv
  <2>2. M(p) \in Tasks
    BY MainTask, RunnersAssumption
  <2>3. CASE M(p) = t
    <3>1. record'[p] \in Record
      BY <1>1, <1>6, <2>3, MainNeverRecovers
    <3> QED
      BY <2>1, <3>1, NoRecordIsNone DEF Life
  <2>4. CASE M(p) # t
    <3>1. M(p) \in Done' <=> M(p) \in Done
      BY <1>3, <2>2, <2>4, DoneOthers
    <3>2. record'[p] = NoRecord => record[p] = NoRecord
      BY <1>6, NoRecordIsNone
    <3> QED
      BY <1>1, <2>1, <3>1, <3>2 DEF Life
  <2> QED
    BY <2>3, <2>4
<1> QED
  BY <1>3, <1>4, <1>6, <1>7 DEF CallParts
-----------------------------------------------------------------------------
\* A call begins, of a task of a living process and of a kind the task makes.
LEMMA StartKeepsCalls ==
    ASSUME CallInv, NEW t \in Tasks, NEW op \in Ops, NEW run \in Runners, Calls(t, op, run),
           Role(t) = "main" => run = Of(t) /\ op \in MainCalls(run),
           Role(t) = "beat" => op = "heartbeat",
           Role(t) = "watch" => run # Of(t) /\ op \in {"claim", "recover"},
           UNCHANGED <<record, process, owners, promised, ioErrors>>
    PROVE  /\ CallParts' /\ Done' = Done /\ task'[t].op = op /\ task[t] = Idle
           /\ task'[t].at = "acquire"
           /\ \A u \in Tasks \ {t} : task'[u] = task[u]
<1> DEFINE where == [at |-> "acquire", op |-> op, by |-> Of(t), run |-> run,
                     tries |-> MaxAttempts]
<1>1. Goes(t, where) /\ task[t] = Idle /\ Of(t) \in alive
  BY DEF Calls
<1>2. /\ where \in Places /\ where.at = "acquire" /\ where.op = op
      /\ where.by = Of(t) /\ where.run = run
  BY TaskParts, BoundsAssumption DEF Places, Pending
<1> HIDE DEF where
<1>3. /\ task' \in [Tasks -> Places] /\ task'[t] = where
      /\ \A u \in Tasks \ {t} : task'[u] = task[u]
  BY <1>1, <1>2 DEF Goes, CallInv
<1>4. t \notin Done /\ t \notin Done'
  BY <1>1, <1>2, <1>3, DoneAt DEF Idle
<1>5. Done' = Done
  BY <1>3, <1>4, DoneOthers DEF Done
<1>6. UNCHANGED <<stage, alive>>
  BY DEF process
<1>7. ASSUME NEW u \in Tasks PROVE Assigned(u)' /\ Warranted(u)'
  <2>1. Assigned(u) /\ Warranted(u)
    BY DEF CallInv
  <2>2. CASE u = t
    <3>1. Warranted(t)'
      BY <1>2, <1>3 DEF Warranted
    <3>2. Assigned(t)'
      BY <1>1, <1>2, <1>3, <1>6 DEF Assigned, MainCalls
    <3> QED
      BY <2>2, <3>1, <3>2
  <2>3. CASE u # t
    <3>1. task'[u] = task[u]
      BY <1>3, <2>3
    <3>2. Warranted(u)'
      BY <2>1, <3>1 DEF Warranted
    <3>3. Assigned(u)'
      BY <1>6, <2>1, <3>1 DEF Assigned, MainCalls
    <3> QED
      BY <3>2, <3>3
  <2> QED
    BY <2>2, <2>3
<1>8. \A p \in Runners : Life(p)'
  BY <1>5, <1>6 DEF CallInv, Life
<1> QED
  BY <1>1, <1>2, <1>3, <1>5, <1>7, <1>8 DEF CallParts

\* A call ends, and its task is idle: what is left of main is what it has been told.
LEMMA EndKeepsCalls ==
    ASSUME CallInv, NEW t \in Tasks, Goes(t, Idle),
           \A p \in Runners : p # Of(t) \/ Role(t) # "main" => stage'[p] = stage[p],
           alive' = alive
    PROVE  /\ task' \in [Tasks -> Places] /\ task'[t] = Idle
           /\ \A u \in Tasks \ {t} : task'[u] = task[u]
           /\ Done' = Done \ {t}
           /\ \A u \in Tasks : Assigned(u)' /\ Warranted(u)'
<1>1. /\ task' \in [Tasks -> Places] /\ task'[t] = Idle
      /\ \A u \in Tasks \ {t} : task'[u] = task[u]
  BY DEF Goes, CallInv, Places
<1>2. Done' = Done \ {t}
  BY <1>1 DEF Done, Idle
<1>3. ASSUME NEW u \in Tasks PROVE Assigned(u)' /\ Warranted(u)'
  <2>1. CASE u = t
    BY <1>1, <2>1 DEF Assigned, Warranted, Idle
  <2>2. CASE u # t
    <3>1. task'[u] = task[u] /\ Assigned(u) /\ Warranted(u)
      BY <1>1, <2>2 DEF CallInv
    <3>2. Warranted(u)'
      BY <3>1 DEF Warranted
    <3>3. ASSUME Role(u) = "main", Of(u) \in Runners PROVE MainCalls(Of(u))' = MainCalls(Of(u))
      <4>1. Of(u) # Of(t) \/ Role(t) # "main"
        BY <2>2, <3>3, MainIsOne
      <4> QED
        BY <3>3, <4>1 DEF MainCalls
    <3>4. Assigned(u)'
      BY <3>1, <3>3 DEF Assigned
    <3> QED
      BY <3>2, <3>4
  <2> QED
    BY <2>1, <2>2
<1> QED
  BY <1>1, <1>2, <1>3

\* A process dies, with its calls.
LEMMA DeathKeepsCalls ==
    ASSUME CallInv, NEW p \in Processes, Dies(p), UNCHANGED stage
    PROVE  /\ task' \in [Tasks -> Places] /\ alive' = alive \ {p}
           /\ \A t \in Tasks : task'[t] = IF Of(t) = p THEN Idle ELSE task[t]
           /\ Done' \subseteq Done
           /\ \A t \in Tasks : Assigned(t)' /\ Warranted(t)'
<1>1. /\ alive' = alive \ {p}
      /\ task' = [t \in Tasks |-> IF Of(t) = p THEN Idle ELSE task[t]]
  BY DEF Dies
<1>2. task' \in [Tasks -> Places] /\ \A t \in Tasks : task'[t] = IF Of(t) = p THEN Idle ELSE task[t]
  BY <1>1 DEF CallInv, Places
<1>3. Done' \subseteq Done
  BY <1>2 DEF Done, Idle
<1>4. ASSUME NEW t \in Tasks PROVE Assigned(t)' /\ Warranted(t)'
  <2>1. CASE Of(t) = p
    BY <1>2, <2>1 DEF Assigned, Warranted, Idle
  <2>2. CASE Of(t) # p
    <3>1. task'[t] = task[t] /\ Assigned(t) /\ Warranted(t)
      BY <1>2, <2>2 DEF CallInv
    <3>2. Warranted(t)'
      BY <3>1 DEF Warranted
    <3>3. Assigned(t)'
      BY <1>1, <2>2, <3>1 DEF Assigned, MainCalls
    <3> QED
      BY <3>2, <3>3
  <2> QED
    BY <2>1, <2>2
<1> QED
  BY <1>1, <1>2, <1>3, <1>4

LEMMA MainReturnsKeepsCalls ==
    ASSUME CallInv, NEW p \in Runners, MainReturns(p)
    PROVE  CallParts'
<1> DEFINE t == M(p)
           op == task[t].op
           ok == task[t].at = "ok"
<1>1. t \in Tasks /\ Of(t) = p /\ Role(t) = "main" /\ p \in Processes
  BY MainTask, RunnersAssumption
<1>2. /\ task[t].at \in {"ok", "err"} /\ UNCHANGED <<record, ioErrors>>
      /\ owners' = IF ok /\ op = "claim" THEN [owners EXCEPT ![p] = @ \cup {p}] ELSE owners
      /\ promised' = IF ok /\ op \in DOMAIN Written
                     THEN [promised EXCEPT ![p] = Written[op]] ELSE promised
  BY DEF MainReturns, M, shared, bounds
<1>3. op \in MainCalls(p) /\ p \in alive /\ Life(p)
  BY <1>1, <1>2, MainNeverRecovers DEF CallInv, Assigned
<1>t. stage \in [Runners -> Stages] /\ owners \in [Runners -> SUBSET Processes]
      /\ promised \in [Runners -> {"None", "Running", "Completed", "Failed"}]
  BY DEF CallInv, TypeOK
<1>4. CASE ok /\ op \in DOMAIN Following
  <2>1. /\ Goes(t, Idle) /\ alive' = alive
        /\ stage' = [stage EXCEPT ![p] = Following[op]]
    BY <1>4 DEF MainReturns, M
  <2>2. \A r \in Runners : r # p => stage'[r] = stage[r]
    BY <1>t, <2>1
  <2>3. /\ task' \in [Tasks -> Places] /\ Done' = Done \ {t}
        /\ \A u \in Tasks : Assigned(u)' /\ Warranted(u)'
    BY <1>1, <2>1, <2>2, EndKeepsCalls
  <2>4. ASSUME NEW r \in Runners, r # p PROVE Life(r)'
    <3>1. /\ stage'[r] = stage[r] /\ owners'[r] = owners[r] /\ promised'[r] = promised[r]
          /\ Life(r)
      BY <1>2, <1>t, <2>1, <2>4 DEF CallInv
    <3> QED
      BY <1>2, <2>1, <2>3, <3>1 DEF Life
  <2>5. Life(p)'
    <3>1. t \in Done
      BY <1>1, <1>4, DoneAt
    <3>2. /\ op \in {"create", "claim", "checkpoint", "run", "heartbeat"}
          /\ stage[p] = op
      BY <1>3, <1>4 DEF Following, MainCalls
    <3>3. stage'[p] = Following[op]
      BY <1>t, <2>1
    <3>4. ioErrors' = 0 => record'[p] # NoRecord
      BY <1>2, <1>3, <3>1 DEF Life
    <3>5. CASE op \in {"create", "checkpoint", "heartbeat"}
      <4>1. owners' = owners /\ promised' = promised
        BY <1>2, <3>5 DEF Written
      <4> QED
        BY <1>3, <2>1, <3>2, <3>3, <3>4, <3>5, <4>1 DEF Life, Following
    <3>6. CASE op = "claim"
      <4>1. p \in owners'[p] /\ promised' = promised
        BY <1>2, <1>4, <1>t, <3>6 DEF Written
      <4> QED
        BY <1>3, <2>1, <3>2, <3>3, <3>4, <3>6, <4>1 DEF Life, Following
    <3>7. CASE op = "run"
      <4>1. owners' = owners /\ promised'[p] = "Running"
        BY <1>2, <1>4, <1>t, <3>7 DEF Written
      <4> QED
        BY <1>3, <2>1, <3>2, <3>3, <3>4, <3>7, <4>1 DEF Life, Following
    <3> QED
      BY <3>2, <3>5, <3>6, <3>7
  <2> QED
    BY <2>3, <2>4, <2>5 DEF CallParts
<1>5. CASE ~(ok /\ op \in DOMAIN Following)
  <2>1. Dies(p) /\ UNCHANGED stage
    BY <1>5 DEF MainReturns, M
  <2>2. owners' = owners
    BY <1>2, <1>5 DEF Following
  <2>3. /\ task' \in [Tasks -> Places] /\ alive' = alive \ {p} /\ Done' \subseteq Done
        /\ \A u \in Tasks : Assigned(u)' /\ Warranted(u)'
    BY <1>1, <2>1, DeathKeepsCalls
  <2>4. stage[p] = "running" \/ promised' = promised
    <3>1. CASE op \in DOMAIN Following
      BY <1>2, <1>5, <3>1
    <3>2. CASE op \notin DOMAIN Following
      <4>1. stage[p] \in Stages
        BY <1>t
      <4>2. stage[p] = "running"
        BY <1>3, <3>2, <4>1 DEF MainCalls, Following, Stages
      <4> QED
        BY <4>2
    <3> QED
      BY <3>1, <3>2
  <2>5. ASSUME NEW r \in Runners PROVE Life(r)'
    <3>1. Life(r)
      BY DEF CallInv
    <3>2. promised'[r] = promised[r] \/ (r = p /\ stage[r] = "running")
      BY <1>2, <1>t, <2>4
    <3> QED
      BY <1>2, <2>1, <2>2, <2>3, <3>1, <3>2 DEF Life
  <2> QED
    BY <2>3, <2>5 DEF CallParts
<1> QED
  BY <1>4, <1>5
LEMMA OtherReturnsKeepCalls ==
    ASSUME CallInv, NEW p \in Processes, WatchReturns(p) \/ (p \in Runners /\ BeatReturns(p))
    PROVE  CallParts'
<1>1. PICK t \in {<<p, "watch">>, <<p, "beat">>} :
         Goes(t, Idle) /\ UNCHANGED <<record, stage, alive, promised, ioErrors>>
         /\ (owners' = owners \/ owners' = [owners EXCEPT ![task[t].run] = @ \cup {p}])
  BY DEF WatchReturns, BeatReturns, shared, process, history, bounds
<1>2. t \in Tasks /\ Of(t) = p /\ Role(t) # "main"
  BY DEF Tasks, Roles, Of, Role
<1>3. /\ task' \in [Tasks -> Places] /\ Done' = Done \ {t}
      /\ \A u \in Tasks : Assigned(u)' /\ Warranted(u)'
  BY <1>1, <1>2, EndKeepsCalls
<1>4. ASSUME NEW r \in Runners PROVE Life(r)'
  <2>1. Life(r) /\ owners \in [Runners -> SUBSET Processes]
    BY DEF CallInv, TypeOK
  <2>2. owners[r] \subseteq owners'[r]
    BY <1>1, <2>1
  <2> QED
    BY <1>1, <1>3, <2>1, <2>2 DEF Life
<1> QED
  BY <1>3, <1>4 DEF CallParts

LEMMA CrashKeepsCalls ==
    ASSUME CallInv, NEW p \in Processes, Crash(p) PROVE CallParts'
<1>1. Dies(p) /\ UNCHANGED <<record, stage, owners, promised, ioErrors>>
  BY DEF Crash, shared
<1>2. /\ task' \in [Tasks -> Places] /\ alive' = alive \ {p} /\ Done' \subseteq Done
      /\ \A t \in Tasks : Assigned(t)' /\ Warranted(t)'
  BY <1>1, DeathKeepsCalls
<1>3. \A r \in Runners : Life(r)'
  BY <1>1, <1>2 DEF CallInv, Life
<1> QED
  BY <1>2, <1>3 DEF CallParts

\* The tasks that begin a call, and the call they begin.
LEMMA BeginningsAre ==
    ASSUME CallInv, NEW p \in Runners, NEW q \in Processes,
           CallMain(p) \/ CallBeat(p) \/ CallWatch(q, p)
    PROVE  \E t \in Tasks : \E op \in Ops :
              /\ Calls(t, op, p)
              /\ Role(t) = "main" => p = Of(t) /\ op \in MainCalls(p)
              /\ Role(t) = "beat" => op = "heartbeat"
              /\ Role(t) = "watch" => p # Of(t) /\ op \in {"claim", "recover"}
              /\ UNCHANGED <<lock, old, record, process, history, ioErrors>>
<1>r. p \in Processes
  BY RunnersAssumption
<1>1. CASE CallMain(p)
  <2>1. PICK op \in MainCalls(p) : Calls(M(p), op, p)
    BY <1>1 DEF CallMain, M
  <2>2. stage[p] \in Stages
    BY DEF CallInv, TypeOK
  <2>3. op \in Ops
    BY <2>1, <2>2 DEF MainCalls, Stages, Ops
  <2> QED
    BY <1>1, <1>r, <2>1, <2>3, MainTask DEF CallMain, shared, bounds
<1>2. CASE CallBeat(p)
  <2>1. <<p, "beat">> \in Tasks /\ Role(<<p, "beat">>) = "beat" /\ "heartbeat" \in Ops
    BY <1>r DEF Tasks, Roles, Role, Ops
  <2> QED
    BY <1>2, <2>1 DEF CallBeat, shared
<1>3. CASE CallWatch(q, p)
  <2>1. <<q, "watch">> \in Tasks /\ Of(<<q, "watch">>) = q /\ Role(<<q, "watch">>) = "watch"
    BY DEF Tasks, Roles, Of, Role
  <2>2. PICK op \in {"claim", "recover"} : Calls(<<q, "watch">>, op, p)
    BY <1>3 DEF CallWatch
  <2>3. op \in Ops
    BY DEF Ops
  <2> QED
    BY <1>3, <2>1, <2>2, <2>3 DEF CallWatch, shared
<1> QED
  BY <1>1, <1>2, <1>3

LEMMA InitCalls == Init => CallInv
<1> SUFFICES ASSUME Init PROVE CallInv
  OBVIOUS
<1>1. TypeOK
  <2>1. /\ old \in BOOLEAN /\ beating \in [Runners -> BOOLEAN] /\ abandoned \in BOOLEAN
    BY DEF Init
  <2>2. /\ lock \in Tasks \cup {Free, Leaked} /\ record \in [Runners -> Record \cup {NoRecord}]
        /\ stage \in [Runners -> Stages] /\ owners \in [Runners -> SUBSET Processes]
        /\ promised \in [Runners -> {"None", "Running", "Completed", "Failed"}]
    BY DEF Init, Stages
  <2>3. \A t \in Tasks : task[t].at = "idle"
    BY DEF Init, Idle
  <2>4. /\ beats \in 0..MaxBeats /\ recoveries \in 0..MaxRecoveries
        /\ crashes \in 0..MaxCrashes /\ ioErrors \in 0..MaxIoErrors
    BY BoundsAssumption DEF Init
  <2> QED
    BY <2>1, <2>2, <2>3, <2>4 DEF Init, TypeOK
<1>2. task \in [Tasks -> Places] /\ \A t \in Tasks : Assigned(t) /\ Warranted(t)
  BY DEF Init, Places, Assigned, Warranted, Idle
<1>3. ASSUME NEW p \in Runners PROVE Life(p)
  <2>1. M(p) \notin Done
    BY DEF Init, Done, Idle
  <2> QED
    BY <2>1 DEF Init, Life
<1> QED
  BY <1>1, <1>2, <1>3 DEF CallInv

\* Each step of the calls keeps what is known of them.
LEMMA StepKeepsCalls == ASSUME CallInv, [Next]_vars PROVE CallParts'
<1>1. ASSUME NEW p \in Runners, NEW q \in Processes,
             CallMain(p) \/ CallBeat(p) \/ CallWatch(q, p)
      PROVE  CallParts'
  <2>1. PICK t \in Tasks : \E op \in Ops :
              /\ Calls(t, op, p)
              /\ Role(t) = "main" => p = Of(t) /\ op \in MainCalls(p)
              /\ Role(t) = "beat" => op = "heartbeat"
              /\ Role(t) = "watch" => p # Of(t) /\ op \in {"claim", "recover"}
              /\ UNCHANGED <<lock, old, record, process, history, ioErrors>>
    BY <1>1, BeginningsAre
  <2> QED
    BY <2>1, StartKeepsCalls DEF history
<1>2. ASSUME NEW p \in Runners, MainReturns(p) PROVE CallParts'
  BY <1>2, MainReturnsKeepsCalls
<1>3. ASSUME NEW p \in Processes, WatchReturns(p) \/ (p \in Runners /\ BeatReturns(p))
      PROVE  CallParts'
  BY <1>3, OtherReturnsKeepCalls
<1>4. ASSUME NEW p \in Processes, Crash(p) PROVE CallParts'
  BY <1>4, CrashKeepsCalls
<1>5. ASSUME NEW t \in Tasks,
             Acquires(t) \/ ReadRecord(t) \/ DropLock(t) \/ Faults(t)
      PROVE  CallParts'
  BY <1>5, AcquireIsHarmless, ReadIsHarmless, DropIsHarmless, RenameIsHarmless,
     HarmlessKeepsCalls DEF Faults
<1>6. ASSUME NEW t \in Tasks, WriteRecord(t) PROVE CallParts'
  BY <1>6, WriteKeepsCalls
<1>7. CASE LockExpires \/ UNCHANGED vars
  <2>1. UNCHANGED <<record, task, stage, alive, owners, promised, ioErrors>>
    BY <1>7 DEF LockExpires, vars, shared, process, history, bounds
  <2>2. \A t \in Tasks : Assigned(t)' /\ Warranted(t)'
    BY <2>1 DEF CallInv, Assigned, Warranted, MainCalls
  <2>3. \A p \in Runners : Life(p)'
    BY <2>1 DEF CallInv, Life, Done
  <2> QED
    BY <2>1, <2>2, <2>3 DEF CallInv, CallParts
<1>r. Runners \subseteq Processes
  BY RunnersAssumption
<1> QED
  BY <1>1, <1>2, <1>3, <1>4, <1>5, <1>6, <1>7, <1>r DEF Next, Proceeds
\* The types of what the returns of a call change.
CourseTyped ==
    /\ stage \in [Runners -> Stages] /\ alive \subseteq Processes
    /\ beating \in [Runners -> BOOLEAN] /\ abandoned \in BOOLEAN
    /\ owners \in [Runners -> SUBSET Processes]
    /\ promised \in [Runners -> {"None", "Running", "Completed", "Failed"}]

LEMMA TypesStep == ASSUME CallInv, [Next]_vars, CallParts' PROVE TypeOK'
<1>t. TypeOK /\ Runners \subseteq Processes
  BY RunnersAssumption DEF CallInv
<1>1. lock' \in Tasks \cup {Free, Leaked}
  BY <1>t DEF TypeOK, Next, vars, shared, CallMain, CallBeat, CallWatch, MainReturns, BeatReturns,
     WatchReturns, Crash, Acquires, CreateLock, LockIsTaken, BreakLock, LockTimeout, Proceeds,
     ReadRecord, WriteRecord, DropLock, Faults, WriteLockFails, RenameFails, LockExpires
<1>2. old' \in BOOLEAN
  BY <1>t, Zenon DEF TypeOK, Next, vars, shared, CallMain, CallBeat, CallWatch, MainReturns, BeatReturns,
     WatchReturns, Crash, Acquires, CreateLock, LockIsTaken, BreakLock, LockTimeout, Proceeds,
     ReadRecord, WriteRecord, DropLock, Faults, WriteLockFails, RenameFails, LockExpires
<1>3. record' \in [Runners -> Record \cup {NoRecord}]
  <2>1. ASSUME NEW t \in Tasks, WriteRecord(t) PROVE record' \in [Runners -> Record \cup {NoRecord}]
    BY <2>1, WriteKeepsCalls
  <2>2. ASSUME NEW t \in Tasks, RenameFails(t) PROVE record' \in [Runners -> Record \cup {NoRecord}]
    BY <2>2, <1>t DEF TypeOK, RenameFails
  <2>3. \/ record' = record
        \/ \E t \in Tasks : WriteRecord(t) \/ RenameFails(t)
    BY DEF Next, vars, shared, CallMain, CallBeat, CallWatch, MainReturns, BeatReturns,
     WatchReturns, Crash, Acquires, CreateLock, LockIsTaken, BreakLock, LockTimeout, Proceeds,
     ReadRecord, DropLock, Faults, WriteLockFails, LockExpires
  <2> QED
    BY <1>t, <2>1, <2>2, <2>3 DEF TypeOK
<1>4. \A t \in Tasks : task'[t].at \in {"idle", "acquire", "break", "ok", "err"} \cup Holding
  BY DEF CallParts, Places, Idle, Pending, Writing
<1>5. ASSUME NEW p \in Runners, MainReturns(p)
      PROVE  CourseTyped'
  <2> DEFINE op == task[M(p)].op
             ok == task[M(p)].at = "ok"
  <2>1. op \in DOMAIN Following => Following[op] \in Stages
    BY DEF Following, Stages
  <2>2. op \in DOMAIN Written => Written[op] \in {"None", "Running", "Completed", "Failed"}
    BY DEF Written
  <2>3. owners' \in [Runners -> SUBSET Processes]
    <3>1. owners' = owners \/ owners' = [owners EXCEPT ![p] = @ \cup {p}]
      BY <1>5 DEF MainReturns
    <3> QED
      BY <1>t, <3>1 DEF TypeOK
  <2>4. promised' \in [Runners -> {"None", "Running", "Completed", "Failed"}]
    <3>1. \/ promised' = promised
          \/ op \in DOMAIN Written /\ promised' = [promised EXCEPT ![p] = Written[op]]
      BY <1>5 DEF MainReturns, M
    <3> QED
      BY <1>t, <2>2, <3>1 DEF TypeOK
  <2>5. CASE ok /\ op \in DOMAIN Following
    <3>1. /\ stage' = [stage EXCEPT ![p] = Following[op]]
          /\ beating' = beating \/ beating' = [beating EXCEPT ![p] = TRUE]
          /\ alive' = alive /\ abandoned' = abandoned
      BY <1>5, <2>5 DEF MainReturns, M
    <3>2. beating' \in [Runners -> BOOLEAN]
      BY <1>t, <3>1 DEF TypeOK
    <3> QED
      BY <1>t, <2>1, <2>3, <2>4, <2>5, <3>1, <3>2 DEF TypeOK, CourseTyped
  <2>6. CASE ~(ok /\ op \in DOMAIN Following)
    <3>1. Dies(p) /\ stage' = stage
      BY <1>5, <2>6 DEF MainReturns, M
    <3> QED
      BY <1>t, <2>3, <2>4, <3>1 DEF TypeOK, Dies, CourseTyped
  <2> QED
    BY <2>5, <2>6
<1>6. ASSUME NEW p \in Processes, Crash(p)
      PROVE  CourseTyped'
  BY <1>t, <1>6 DEF TypeOK, Crash, Dies, CourseTyped
<1>7. ASSUME NEW p \in Runners, BeatReturns(p)
      PROVE  CourseTyped'
  <2>1. /\ beating' = [beating EXCEPT ![p] = @ /\ task[<<p, "beat">>].at = "ok"]
        /\ UNCHANGED <<stage, alive, owners, promised, abandoned>>
    BY <1>7 DEF BeatReturns, history
  <2>2. beating' \in [Runners -> BOOLEAN]
    BY <1>t, <2>1 DEF TypeOK
  <2> QED
    BY <1>t, <2>1, <2>2 DEF TypeOK, CourseTyped
<1>8. ASSUME NEW p \in Processes, WatchReturns(p)
      PROVE  CourseTyped'
  <2>1. /\ UNCHANGED <<stage, beating, alive, promised, abandoned>>
        /\ \/ owners' = owners
           \/ owners' = [owners EXCEPT ![task[<<p, "watch">>].run] = @ \cup {p}]
    BY <1>8 DEF WatchReturns, process
  <2>2. owners' \in [Runners -> SUBSET Processes]
    BY <1>t, <2>1 DEF TypeOK
  <2> QED
    BY <1>t, <2>1, <2>2 DEF TypeOK, CourseTyped
<1>9. \/ UNCHANGED <<stage, beating, alive, owners, promised>>
         /\ (abandoned' = abandoned \/ abandoned' = TRUE)
      \/ \E p \in Runners : MainReturns(p) \/ BeatReturns(p)
      \/ \E p \in Processes : WatchReturns(p) \/ Crash(p)
  BY DEF Next, vars, process, history, CallMain, CallBeat, CallWatch, Acquires, CreateLock,
     LockIsTaken, BreakLock, LockTimeout, Proceeds, ReadRecord, WriteRecord, DropLock, Faults,
     WriteLockFails, RenameFails, LockExpires
<1>10. CourseTyped'
  <2>1. CASE UNCHANGED <<stage, beating, alive, owners, promised>>
             /\ (abandoned' = abandoned \/ abandoned' = TRUE)
    <3>1. abandoned' \in BOOLEAN
      BY <1>t, <2>1 DEF TypeOK
    <3> QED
      BY <1>t, <2>1, <3>1 DEF TypeOK, CourseTyped
  <2> QED
    BY <1>5, <1>6, <1>7, <1>8, <1>9, <2>1
<1>11. /\ beats' = beats \/ (beats < MaxBeats /\ beats' = beats + 1)
       /\ recoveries' = recoveries \/ (recoveries < MaxRecoveries /\ recoveries' = recoveries + 1)
       /\ crashes' = crashes \/ (crashes < MaxCrashes /\ crashes' = crashes + 1)
       /\ ioErrors' = ioErrors \/ (ioErrors < MaxIoErrors /\ ioErrors' = ioErrors + 1)
  BY DEF Next, vars, bounds, CallMain, CallBeat, CallWatch, MainReturns, BeatReturns,
     WatchReturns, Crash, Acquires, CreateLock, LockIsTaken, BreakLock, LockTimeout, Proceeds,
     ReadRecord, WriteRecord, DropLock, Faults, WriteLockFails, RenameFails, LockExpires
<1>12. /\ beats' \in 0..MaxBeats /\ recoveries' \in 0..MaxRecoveries
       /\ crashes' \in 0..MaxCrashes /\ ioErrors' \in 0..MaxIoErrors
  BY <1>t, <1>11, BoundsAssumption DEF TypeOK
<1> QED
  BY <1>1, <1>2, <1>3, <1>4, <1>10, <1>12 DEF TypeOK, CourseTyped

LEMMA NextCalls == CallInv /\ [Next]_vars => CallInv'
  BY StepKeepsCalls, TypesStep DEF CallInv, CallParts
-----------------------------------------------------------------------------
(* What the record says, as long as no lock file has been left behind.      *)

\* The processes a claim of the run has succeeded for, told so or not yet.
Claimants(run) ==
    owners[run] \cup {p \in Processes : \E t \in Done :
                         Of(t) = p /\ task[t].op = "claim" /\ task[t].run = run}

\* The run is still to be created.
Unborn(run) == run \in alive /\ stage[run] = "create" /\ M(run) \notin Done

\* Main is about to end the run.
Ending(run) == task[M(run)].at # "idle" /\ task[M(run)].op \in {"complete", "fail"}

\* The statuses a successful call leaves, whatever watchers do next.
Under == {"Running", "Recovering", "Halted"}
Results(op) == IF op = "run" THEN Under ELSE IF op = "complete" THEN {"Completed"}
               ELSE IF op = "fail" THEN {"Failed"} ELSE Status

\* The statuses a record of the run may have, by what main has been told or will be.
Admitted(run) ==
    {s \in Status :
        /\ promised[run] \in {"Completed", "Failed"} => s = promised[run]
        /\ (promised[run] = "Running" /\ run \in alive /\ ~Ending(run)) => s \in Under
        /\ M(run) \in Done => s \in Results(task[M(run)].op)}

\* A record, read or on file, agrees with all that anybody was told of the run.
Fits(r, run) ==
    /\ Unborn(run) => r = NoRecord
    /\ r # NoRecord => r.status \in Admitted(run) /\ \A o \in Claimants(run) : r.owner = o

RunInv(run) ==
    /\ Fits(record[run], run)
    /\ \A t \in Tasks : (task[t].at = "write" /\ task[t].run = run) => Fits(task[t].copy, run)
    /\ \A o, q \in Claimants(run) : o = q
    /\ Unborn(run) => Claimants(run) = {}

RecordInv == ~abandoned => \A run \in Runners : RunInv(run)

\* Nothing more is said of the run than before.
Weaker(run) ==
    /\ Unborn(run)' => Unborn(run)
    /\ Claimants(run)' \subseteq Claimants(run)
    /\ Admitted(run) \subseteq Admitted(run)'

\* What fits goes on fitting then.
LEMMA WeakerKeeps ==
    ASSUME NEW run \in Runners, RunInv(run), Weaker(run),
           record'[run] = record[run] \/ record'[run] = NoRecord,
           \A t \in Tasks : (task'[t].at = "write" /\ task'[t].run = run) =>
               \/ task'[t].copy = record[run]
               \/ task[t].at = "write" /\ task[t].run = run /\ task'[t].copy = task[t].copy
    PROVE  RunInv(run)'
<1>1. ASSUME NEW r, Fits(r, run) 
      PROVE  /\ Unborn(run)' => r = NoRecord
             /\ r # NoRecord => /\ r.status \in Admitted(run)'
                                /\ \A o \in Claimants(run)' : r.owner = o
  BY <1>1 DEF Fits, Weaker
<1>2. Fits(record[run], run)'
  <2>1. PICK r : r = record'[run]
    OBVIOUS
  <2>2. r = NoRecord \/ Fits(r, run)
    BY <2>1 DEF RunInv
  <2> QED
    BY <1>1, <2>1, <2>2 DEF Fits
<1>3. ASSUME NEW t \in Tasks, task'[t].at = "write", task'[t].run = run
      PROVE  Fits(task[t].copy, run)'
  <2>1. PICK r : r = task'[t].copy
    OBVIOUS
  <2>2. Fits(r, run)
    BY <1>3, <2>1 DEF RunInv
  <2> QED
    BY <1>1, <2>1, <2>2 DEF Fits
<1>4. \A o, q \in Claimants(run)' : o = q
  BY DEF RunInv, Weaker
<1>5. Unborn(run)' => Claimants(run)' = {}
  BY DEF RunInv, Weaker
<1> QED
  BY <1>2, <1>3, <1>4, <1>5 DEF RunInv
LEMMA HarmlessKeepsRecords ==
    ASSUME CallInv, NEW t \in Tasks, NEW where, Harmless(t, where), NEW run \in Runners, RunInv(run)
    PROVE  RunInv(run)'
<1>1. Passes(t, where) /\ where.op = task[t].op /\ where.run = task[t].run
      /\ task[t].at # "idle" /\ UNCHANGED <<stage, alive, owners, promised>>
  BY DEF Harmless, Passes, process
<1>2. /\ task'[t] = where /\ where.at # "idle"
      /\ \A u \in Tasks \ {t} : task'[u] = task[u]
  BY <1>1, PassesMoves DEF CallInv
<1>3. \A u \in Tasks \ {t} : u \in Done' <=> u \in Done
  BY <1>2, DoneOthers
<1>4. (t \in Done => t \in Done') /\ (t \in Done' => t \in Done \/ task[t].op = "recover")
  BY <1>1 DEF Harmless
<1>m. M(run) \in Tasks
  BY MainTask, RunnersAssumption
<1>5. M(run) \in Done' <=> M(run) \in Done
  <2>1. CASE M(run) = t
    BY <1>1, <1>4, <2>1, MainNeverRecovers
  <2> QED
    BY <1>3, <1>m, <2>1
<1>6. Unborn(run)' => Unborn(run)
  BY <1>1, <1>5 DEF Unborn
<1>7. Claimants(run)' \subseteq Claimants(run)
  <2>1. ASSUME NEW u \in Done', task'[u].op = "claim", task'[u].run = run
        PROVE  u \in Done /\ task[u].op = "claim" /\ task[u].run = run
    <3>1. u \in Tasks
      BY DEF Done
    <3>2. CASE u = t
      BY <1>1, <1>2, <1>4, <2>1, <3>2
    <3>3. CASE u # t
      BY <1>2, <1>3, <2>1, <3>1, <3>3
    <3> QED
      BY <3>2, <3>3
  <2> QED
    BY <1>1, <2>1 DEF Claimants
<1>8. task'[M(run)].op = task[M(run)].op /\ (task'[M(run)].at = "idle" <=> task[M(run)].at = "idle")
  BY <1>1, <1>2, <1>m
<1>9. Admitted(run) \subseteq Admitted(run)'
  BY <1>1, <1>5, <1>8 DEF Admitted, Ending
<1>10. record'[run] = record[run] \/ record'[run] = NoRecord
  BY DEF Harmless, CallInv, TypeOK
<1>11. ASSUME NEW u \in Tasks, task'[u].at = "write", task'[u].run = run
       PROVE  \/ task'[u].copy = record[run]
              \/ task[u].at = "write" /\ task[u].run = run /\ task'[u].copy = task[u].copy
  <2>1. CASE u = t
    BY <1>1, <1>2, <1>11, <2>1 DEF Harmless
  <2>2. CASE u # t
    BY <1>2, <1>11, <2>2
  <2> QED
    BY <2>1, <2>2
<1> QED
  BY <1>6, <1>7, <1>9, <1>10, <1>11, WeakerKeeps DEF Weaker

LEMMA StartKeepsRecords ==
    ASSUME CallInv, NEW t \in Tasks, task[t] = Idle, task'[t].at = "acquire", Done' = Done,
           \A u \in Tasks \ {t} : task'[u] = task[u],
           UNCHANGED <<record, stage, alive, owners, promised>>,
           NEW run \in Runners, RunInv(run)
    PROVE  RunInv(run)'
<1>1. t \notin Done
  BY DEF Done, Idle
<1>m. M(run) \in Tasks
  BY MainTask, RunnersAssumption
<1>2. Unborn(run)' => Unborn(run)
  BY DEF Unborn
<1>3. \A u \in Done : u \in Tasks \ {t}
  BY <1>1 DEF Done
<1>4. Claimants(run)' \subseteq Claimants(run)
  BY <1>3 DEF Claimants
<1>5. Ending(run) => Ending(run)'
  BY <1>m DEF Ending, Idle
<1>6. M(run) \in Done => task'[M(run)] = task[M(run)]
  BY <1>3
<1>7. Admitted(run) \subseteq Admitted(run)'
  BY <1>5, <1>6 DEF Admitted
<1>8. ASSUME NEW u \in Tasks, task'[u].at = "write", task'[u].run = run
      PROVE  task[u].at = "write" /\ task[u].run = run /\ task'[u].copy = task[u].copy
  <2>1. u # t
    BY <1>8
  <2> QED
    BY <1>8, <2>1
<1> QED
  BY <1>2, <1>4, <1>7, <1>8, WeakerKeeps DEF Weaker

\* A call returns: what it has done is known to its caller now.
LEMMA EndKeepsRecords ==
    ASSUME CallInv, NEW t \in Tasks, Goes(t, Idle), Role(t) # "main",
           UNCHANGED <<record, stage, alive, promised>>,
           \/ owners' = owners
           \/ /\ t \in Done /\ task[t].op = "claim"
              /\ owners' = [owners EXCEPT ![task[t].run] = @ \cup {Of(t)}],
           NEW run \in Runners, RunInv(run)
    PROVE  RunInv(run)'
<1>1. /\ task'[t] = Idle /\ Done' = Done \ {t}
      /\ \A u \in Tasks \ {t} : task'[u] = task[u]
  BY EndKeepsCalls
<1>m. M(run) \in Tasks /\ M(run) # t
  BY MainTask, RunnersAssumption
<1>2. Unborn(run)' => Unborn(run)
  BY <1>1, <1>m DEF Unborn
<1>3. Claimants(run)' \subseteq Claimants(run)
  <2>1. \A u \in Done' : u \in Done /\ task'[u] = task[u]
    BY <1>1 DEF Done
  <2>2. owners'[run] \subseteq Claimants(run)
    <3>1. CASE owners' = owners
      BY <3>1 DEF Claimants
    <3>2. CASE /\ t \in Done /\ task[t].op = "claim"
               /\ owners' = [owners EXCEPT ![task[t].run] = @ \cup {Of(t)}]
      <4>1. owners'[run] = IF run = task[t].run THEN owners[run] \cup {Of(t)} ELSE owners[run]
        BY <3>2 DEF CallInv, TypeOK
      <4>2. Of(t) \in Processes
        BY TaskParts
      <4> QED
        BY <3>2, <4>1, <4>2 DEF Claimants
    <3> QED
      BY <3>1, <3>2
  <2> QED
    BY <2>1, <2>2 DEF Claimants
<1>4. Admitted(run) \subseteq Admitted(run)'
  BY <1>1, <1>m DEF Admitted, Ending
<1>5. ASSUME NEW u \in Tasks, task'[u].at = "write", task'[u].run = run
      PROVE  task[u].at = "write" /\ task[u].run = run /\ task'[u].copy = task[u].copy
  BY <1>1, <1>5 DEF Idle
<1> QED
  BY <1>2, <1>3, <1>4, <1>5, WeakerKeeps DEF Weaker

\* A process dies, maybe after its main was told of an end.
LEMMA DeathKeepsRecords ==
    ASSUME CallInv, NEW p \in Processes, Dies(p), UNCHANGED <<record, stage, owners>>,
           \A r \in Runners : \/ promised'[r] = promised[r]
                              \/ /\ r = p /\ M(p) \in Done
                                 /\ promised'[r] \in {"Completed", "Failed"}
                                 /\ Results(task[M(p)].op) = {promised'[r]},
           NEW run \in Runners, RunInv(run)
    PROVE  RunInv(run)'
<1>1. /\ alive' = alive \ {p} /\ Done' \subseteq Done
      /\ \A t \in Tasks : task'[t] = IF Of(t) = p THEN Idle ELSE task[t]
  BY DeathKeepsCalls
<1>m. M(run) \in Tasks /\ Of(M(run)) = run
  BY MainTask, RunnersAssumption
<1>d. \A t \in Tasks : Of(t) # p => (t \in Done' <=> t \in Done)
  BY <1>1 DEF Done
<1>e. \A t \in Done' : t \in Tasks /\ Of(t) # p
  BY <1>1 DEF Done, Idle
<1>2. Unborn(run)' => Unborn(run)
  BY <1>1, <1>d, <1>m DEF Unborn
<1>3. Claimants(run)' \subseteq Claimants(run)
  BY <1>1, <1>d, <1>e DEF Claimants
<1>4. Admitted(run) \subseteq Admitted(run)'
  <2>1. CASE run = p
    <3>1. run \notin alive' /\ M(run) \notin Done'
      BY <1>1, <1>e, <1>m, <2>1
    <3> QED
      BY <2>1, <3>1 DEF Admitted
  <2>2. CASE run # p
    <3>1. /\ promised'[run] = promised[run] /\ task'[M(run)] = task[M(run)]
          /\ (run \in alive' <=> run \in alive) /\ (M(run) \in Done' <=> M(run) \in Done)
      BY <1>1, <1>d, <1>m, <2>2
    <3> QED
      BY <3>1 DEF Admitted, Ending
  <2> QED
    BY <2>1, <2>2
<1>5. ASSUME NEW u \in Tasks, task'[u].at = "write", task'[u].run = run
      PROVE  task[u].at = "write" /\ task[u].run = run /\ task'[u].copy = task[u].copy
  BY <1>1, <1>5 DEF Idle
<1> QED
  BY <1>2, <1>3, <1>4, <1>5, WeakerKeeps DEF Weaker
LEMMA MainReturnsKeepsRecords ==
    ASSUME CallInv, NEW p \in Runners, MainReturns(p), NEW run \in Runners, RunInv(run)
    PROVE  RunInv(run)'
<1> DEFINE t == M(p)
           op == task[t].op
           ok == task[t].at = "ok"
<1>1. t \in Tasks /\ Of(t) = p /\ Role(t) = "main" /\ p \in Processes
  BY MainTask, RunnersAssumption
<1>2. /\ task[t].at \in {"ok", "err"} /\ record' = record
      /\ owners' = IF ok /\ op = "claim" THEN [owners EXCEPT ![p] = @ \cup {p}] ELSE owners
      /\ promised' = IF ok /\ op \in DOMAIN Written
                     THEN [promised EXCEPT ![p] = Written[op]] ELSE promised
  BY DEF MainReturns, M, shared
<1>3. op \in MainCalls(p) /\ task[t].run = p
  BY <1>1, <1>2, MainNeverRecovers
<1>t. stage \in [Runners -> Stages] /\ owners \in [Runners -> SUBSET Processes]
      /\ promised \in [Runners -> {"None", "Running", "Completed", "Failed"}]
  BY DEF CallInv, TypeOK
<1>m. M(run) \in Tasks /\ Of(M(run)) = run
  BY MainTask, RunnersAssumption
<1>4. CASE ok /\ op \in DOMAIN Following
  <2>1. /\ Goes(t, Idle) /\ alive' = alive
        /\ stage' = [stage EXCEPT ![p] = Following[op]]
    BY <1>4 DEF MainReturns, M
  <2>2. /\ task'[t] = Idle /\ Done' = Done \ {t}
        /\ \A u \in Tasks \ {t} : task'[u] = task[u]
    BY <1>1, <1>t, <2>1, EndKeepsCalls
  <2>3. t \in Done /\ op \in {"create", "claim", "checkpoint", "run", "heartbeat"}
    BY <1>1, <1>4, DoneAt DEF Following
  <2>4. Unborn(run)' => Unborn(run)
    <3>1. CASE run = p
      <4>1. stage'[p] # "create"
        BY <1>t, <2>1, <2>3 DEF Following
      <4> QED
        BY <3>1, <4>1 DEF Unborn
    <3>2. CASE run # p
      <4>1. stage'[run] = stage[run] /\ M(run) # t
        BY <1>1, <1>m, <1>t, <2>1, <3>2
      <4> QED
        BY <2>1, <2>2, <4>1 DEF Unborn
    <3> QED
      BY <3>1, <3>2
  <2>5. Claimants(run)' \subseteq Claimants(run)
    <3>1. \A u \in Done' : u \in Done /\ task'[u] = task[u]
      BY <2>2 DEF Done
    <3>2. owners'[run] \subseteq Claimants(run)
      <4>1. CASE op = "claim" /\ run = p
        BY <1>1, <1>2, <1>3, <1>t, <2>3, <4>1 DEF Claimants
      <4>2. CASE ~(op = "claim" /\ run = p)
        <5>1. owners'[run] = owners[run]
          BY <1>2, <1>t, <4>2
        <5> QED
          BY <5>1 DEF Claimants
      <4> QED
        BY <4>1, <4>2
    <3> QED
      BY <3>1, <3>2 DEF Claimants
  <2>6. Admitted(run) \subseteq Admitted(run)'
    <3>1. CASE run # p
      <4>1. promised'[run] = promised[run] /\ M(run) # t
        BY <1>1, <1>2, <1>m, <1>t, <3>1
      <4>2. task'[M(run)] = task[M(run)] /\ (M(run) \in Done' <=> M(run) \in Done)
        BY <1>m, <2>2, <4>1
      <4> QED
        BY <2>1, <4>1, <4>2 DEF Admitted, Ending
    <3>2. CASE run = p /\ op = "run"
      <4>1. promised'[run] = "Running" /\ M(run) \notin Done'
        BY <1>2, <1>4, <1>t, <2>2, <3>2 DEF Written
      <4>2. \A s \in Admitted(run) : s \in Under
        BY <2>3, <3>2 DEF Admitted, Results
      <4> QED
        BY <4>1, <4>2 DEF Admitted
    <3>3. CASE run = p /\ op # "run"
      <4>1. promised' = promised /\ M(run) \notin Done' /\ ~Ending(run)
        BY <1>2, <2>2, <2>3, <3>3 DEF Written, Ending
      <4> QED
        BY <2>1, <4>1 DEF Admitted
    <3> QED
      BY <3>1, <3>2, <3>3
  <2>7. ASSUME NEW u \in Tasks, task'[u].at = "write", task'[u].run = run
        PROVE  task[u].at = "write" /\ task[u].run = run /\ task'[u].copy = task[u].copy
    BY <2>2, <2>7 DEF Idle
  <2> QED
    BY <1>2, <2>4, <2>5, <2>6, <2>7, WeakerKeeps DEF Weaker
<1>5. CASE ~(ok /\ op \in DOMAIN Following)
  <2>1. Dies(p) /\ UNCHANGED stage
    BY <1>5 DEF MainReturns, M
  <2>2. owners' = owners
    BY <1>2, <1>5 DEF Following
  <2>3. ASSUME NEW r \in Runners, promised'[r] # promised[r]
        PROVE  /\ r = p /\ t \in Done /\ promised'[r] \in {"Completed", "Failed"}
               /\ Results(op) = {promised'[r]}
    <3>1. ok /\ op \in DOMAIN Written /\ r = p /\ promised'[p] = Written[op]
      BY <1>2, <1>t, <2>3
    <3>2. op \in {"complete", "fail"}
      BY <1>5, <3>1 DEF Written, Following
    <3>3. t \in Done
      BY <1>1, <3>1, DoneAt
    <3> QED
      BY <3>1, <3>2, <3>3 DEF Written, Results
  <2> QED
    BY <1>1, <1>2, <2>1, <2>2, <2>3, DeathKeepsRecords
<1> QED
  BY <1>4, <1>5

\* The one writer puts into the record what nobody was told otherwise.
LEMMA WriteKeepsRecords ==
    ASSUME CallInv, LockInv, ~abandoned, NEW t \in Tasks, WriteRecord(t),
           \A r \in Runners : RunInv(r), NEW run \in Runners
    PROVE  RunInv(run)'
<1> DEFINE call == task[t]
           own == call.run
           copy == call.copy
           new == Changed(call, copy)
<1>1. /\ call.at = "write" /\ call \in Writing /\ task'[t].at = "drop"
      /\ t \notin Done /\ t \in Done'
      /\ record' = [record EXCEPT ![own] = new]
  BY WritePasses
<1>2. PICK where : Passes(t, where)
  BY WritePasses
<1>3. /\ task'[t].op = call.op /\ task'[t].run = own /\ task'[t].at # "idle"
      /\ \A u \in Tasks \ {t} : task'[u] = task[u]
      /\ UNCHANGED <<stage, alive, owners, promised>>
  BY <1>2, PassesMoves DEF CallInv, Passes, process
<1>4. \A u \in Tasks \ {t} : u \in Done' <=> u \in Done
  BY <1>3, DoneOthers
<1>5. \A u \in Tasks \ {t} : task[u].at # "write"
  BY <1>1 DEF LockInv, Holders
<1>m. M(run) \in Tasks /\ Of(M(run)) = run /\ Role(M(run)) = "main"
  BY MainTask, RunnersAssumption
<1>6. CASE run # own
  <2>1. M(run) # t
    BY <1>1, <1>3, <1>6, MainNeverRecovers
  <2>2. Unborn(run)' => Unborn(run)
    BY <1>3, <1>4, <1>m, <2>1 DEF Unborn
  <2>3. Claimants(run)' \subseteq Claimants(run)
    <3>1. ASSUME NEW u \in Done', task'[u].run = run PROVE u \in Done /\ task'[u] = task[u]
      <4>1. u \in Tasks /\ u # t
        BY <1>3, <1>6, <3>1 DEF Done
      <4> QED
        BY <1>3, <1>4, <4>1
    <3> QED
      BY <1>3, <3>1 DEF Claimants
  <2>4. Admitted(run) \subseteq Admitted(run)'
    BY <1>3, <1>4, <1>m, <2>1 DEF Admitted, Ending
  <2>5. record'[run] = record[run]
    BY <1>1, <1>6 DEF CallInv, TypeOK
  <2>6. \A u \in Tasks : task'[u].at # "write"
    BY <1>1, <1>3, <1>5
  <2> QED
    BY <2>2, <2>3, <2>4, <2>5, <2>6, WeakerKeeps DEF Weaker
<1>7. CASE run = own
  <2>1. /\ Fits(copy, run) /\ (call.op # "create" => copy # NoRecord)
        /\ call.op = "claim" => ~LeaseConflict(copy, call.by)
        /\ call.op = "recover" => Recoverable(copy)
        /\ Assigned(t) /\ Life(run) /\ copy \in Record \cup {NoRecord}
    BY <1>1, <1>7 DEF CallInv, Warranted, RunInv, Writing
  <2>2. record'[run] = new /\ new \in Record /\ new # NoRecord
    BY <1>1, <1>7, <2>1, ChangedIs, NoRecordIsNone DEF CallInv, TypeOK
  <2>3. \A u \in Tasks : task'[u].at # "write"
    BY <1>1, <1>3, <1>5
  <2>4. ~Unborn(run)'
    <3>1. CASE call.op = "create"
      <4>1. Role(t) = "main" /\ Of(t) = run
        BY <1>1, <1>7, <2>1, <3>1, TaskParts DEF Assigned, Roles
      <4>2. t = M(run)
        BY <4>1, MainIsOne
      <4> QED
        BY <1>1, <4>2 DEF Unborn
    <3>2. CASE call.op # "create"
      <4>1. ~Unborn(run)
        BY <2>1, <3>2 DEF Fits
      <4>2. M(run) \in Done => M(run) \in Done'
        BY <1>1, <1>4, <1>m
      <4> QED
        BY <1>3, <4>1, <4>2 DEF Unborn
    <3> QED
      BY <3>1, <3>2
  <2>5. Claimants(run)' = IF call.op = "claim" THEN Claimants(run) \cup {Of(t)}
                                               ELSE Claimants(run)
    <3>1. \A u \in Done : u \in Done' /\ u # t /\ task'[u] = task[u]
      BY <1>1, <1>3, <1>4 DEF Done
    <3>2. \A u \in Done' : u = t \/ (u \in Done /\ task'[u] = task[u])
      BY <1>3, <1>4 DEF Done
    <3>3. Of(t) \in Processes
      BY TaskParts
    <3> QED
      BY <1>1, <1>3, <1>7, <3>1, <3>2, <3>3 DEF Claimants
  <2>6. /\ \A o \in Claimants(run) : copy # NoRecord => copy.owner = o
        /\ copy # NoRecord => copy.status \in Admitted(run)
    BY <2>1 DEF Fits
  <2>7. \A o \in Claimants(run)' : new.owner = o
    <3>1. CASE call.op = "create"
      <4>1. Role(t) = "main" /\ Of(t) = run
        BY <1>1, <1>7, <2>1, <3>1, TaskParts DEF Assigned, Roles
      <4>2. t = M(run) /\ run \in alive /\ stage[run] = "create"
        <5>1. t = M(run) /\ run \in alive /\ call.op \in MainCalls(run)
          BY <1>1, <2>1, <4>1, MainIsOne DEF Assigned
        <5> QED
          BY <3>1, <5>1 DEF MainCalls
      <4>3. Claimants(run) = {}
        BY <1>1, <4>2 DEF RunInv, Unborn
      <4> QED
        BY <2>5, <3>1, <4>3
    <3>2. CASE call.op = "claim"
      <4>1. copy.owner \in {NoOwner, call.by} /\ call.by = Of(t) /\ copy # NoRecord
        BY <1>1, <2>1, <3>2 DEF LeaseConflict, Assigned
      <4>2. \A o \in Claimants(run) : o \in Processes
        BY DEF Claimants, CallInv, TypeOK
      <4>3. \A o \in Claimants(run) : o = Of(t)
        BY <2>6, <4>1, <4>2, NoOwnerAssumption
      <4>4. new.owner = Of(t)
        BY <1>1, <2>1, <3>2, <4>1, ChangedIs
      <4> QED
        BY <2>5, <3>2, <4>3, <4>4
    <3>3. CASE call.op \notin {"create", "claim"}
      <4>1. new.owner = copy.owner
        BY <1>1, <2>1, <3>3, ChangedIs
      <4> QED
        BY <2>1, <2>5, <2>6, <3>3, <4>1
    <3> QED
      BY <3>1, <3>2, <3>3
  <2>8. new.status \in Admitted(run)'
    <3>1. new.status \in Status /\ promised[run] \in {"None", "Running", "Completed", "Failed"}
      BY <2>2 DEF Record, CallInv, TypeOK
    <3>2. CASE Role(t) = "main"
      <4>1. t = M(run) /\ run \in alive /\ call.op \in MainCalls(run) /\ M(run) \in Done'
        BY <1>1, <1>7, <2>1, <3>2, MainIsOne DEF Assigned
      <4>2. promised[run] \in {"None", "Running"}
        BY <2>1, <3>1, <4>1 DEF Life
      <4>3. new.status \in Results(call.op)
        BY <1>1, <2>1, <3>1, ChangedIs DEF Results, Under
      <4>4. promised[run] = "Running" => call.op \in {"heartbeat", "complete", "fail"}
        <5>1. stage[run] \in Stages
          BY DEF CallInv, TypeOK
        <5> QED
          BY <2>1, <4>1, <5>1 DEF Life, MainCalls, Stages
      <4>5. CASE call.op \in {"complete", "fail"}
        <5>1. Ending(run)'
          BY <1>3, <4>1, <4>5 DEF Ending
        <5> QED
          BY <1>3, <3>1, <4>1, <4>2, <4>3, <5>1 DEF Admitted
      <4>6. CASE call.op = "heartbeat"
        <5>1. copy # NoRecord /\ new = copy /\ ~Ending(run)
          BY <1>1, <2>1, <4>1, <4>6, ChangedIs DEF Ending
        <5>2. promised[run] = "Running" => new.status \in Under
          BY <2>6, <4>1, <5>1 DEF Admitted
        <5> QED
          BY <1>3, <3>1, <4>1, <4>2, <4>3, <5>2 DEF Admitted
      <4>7. CASE call.op \notin {"heartbeat", "complete", "fail"}
        BY <1>3, <3>1, <4>1, <4>2, <4>3, <4>4, <4>7 DEF Admitted
      <4> QED
        BY <4>5, <4>6, <4>7
    <3>3. CASE Role(t) # "main"
      <4>1. M(run) # t
        BY <1>m, <3>3
      <4>2. task'[M(run)] = task[M(run)] /\ (M(run) \in Done' <=> M(run) \in Done)
        BY <1>3, <1>4, <1>m, <4>1
      <4>3. Admitted(run)' = Admitted(run)
        BY <1>3, <4>2 DEF Admitted, Ending
      <4>4. call.op \in {"heartbeat", "recover", "claim"} /\ (call.op = "claim" => Of(t) # run)
        BY <1>1, <1>7, <2>1, <3>3, TaskParts DEF Assigned, Roles
      <4>5. copy # NoRecord /\ copy.status \in Admitted(run)
        BY <2>1, <2>6, <4>4
      <4>6. CASE call.op = "heartbeat"
        BY <1>1, <2>1, <4>3, <4>5, <4>6, ChangedIs
      <4>7. CASE call.op = "recover"
        <5>1. copy.status = "Running" /\ new.status \in {"Recovering", "Halted"}
          BY <1>1, <2>1, <4>7, ChangedIs DEF Recoverable
        <5> QED
          BY <3>1, <4>3, <4>5, <5>1 DEF Admitted, Results, Under, Status
      <4>8. CASE call.op = "claim"
        <5>1. run \notin Claimants(run)
          <6>1. \A o \in Claimants(run)' : o = new.owner
            BY <2>7
          <6>2. Of(t) \in Claimants(run)'
            BY <2>5, <4>8
          <6>3. Of(t) # run /\ Claimants(run) \subseteq Claimants(run)'
            BY <2>5, <4>4, <4>8
          <6> QED
            BY <6>1, <6>2, <6>3
        <5>2. stage[run] \in {"create", "claim"}
          BY <2>1, <5>1 DEF Life, Claimants
        <5>3. promised[run] = "None"
          BY <2>1, <5>2 DEF Life
        <5>4. M(run) \in Done => task[M(run)].op \in {"create", "claim"}
          <6>1. SUFFICES ASSUME M(run) \in Done PROVE task[M(run)].op \in {"create", "claim"}
            OBVIOUS
          <6>2. task[M(run)].op \in MainCalls(run)
            BY <6>1, MainNeverRecovers DEF Done
          <6> QED
            BY <5>2, <6>2 DEF MainCalls
        <5> QED
          BY <3>1, <4>3, <5>3, <5>4 DEF Admitted, Results
      <4> QED
        BY <4>4, <4>6, <4>7, <4>8
    <3> QED
      BY <3>2, <3>3
  <2>9. \A o, q \in Claimants(run)' : o = q
    BY <2>7
  <2> QED
    BY <2>2, <2>3, <2>4, <2>7, <2>8, <2>9 DEF RunInv, Fits
<1> QED
  BY <1>6, <1>7
LEMMA InitRecords == Init => RecordInv
<1> SUFFICES ASSUME Init, NEW run \in Runners PROVE RunInv(run)
  BY DEF RecordInv
<1>1. Done = {} /\ \A t \in Tasks : task[t].at = "idle"
  BY DEF Init, Done, Idle
<1>2. record[run] = NoRecord /\ Claimants(run) = {}
  BY <1>1 DEF Init, Claimants
<1> QED
  BY <1>1, <1>2 DEF RunInv, Fits

LEMMA StepKeepsRecords ==
    ASSUME CallInv, LockInv, RecordInv, [Next]_vars PROVE RecordInv'
<1> SUFFICES ASSUME ~abandoned', NEW run \in Runners PROVE RunInv(run)'
  BY DEF RecordInv
<1>a. ~abandoned
  BY DEF Next, vars, history, CallMain, CallBeat, CallWatch, MainReturns, BeatReturns, WatchReturns,
     Crash, Dies, Acquires, CreateLock, LockIsTaken, BreakLock, LockTimeout, Proceeds, ReadRecord,
     WriteRecord, DropLock, Faults, WriteLockFails, RenameFails, LockExpires
<1>i. RunInv(run) /\ \A r \in Runners : RunInv(r)
  BY <1>a DEF RecordInv
<1>1. ASSUME NEW p \in Runners, NEW q \in Processes,
             CallMain(p) \/ CallBeat(p) \/ CallWatch(q, p)
      PROVE  RunInv(run)'
  <2>1. PICK t \in Tasks : \E op \in Ops :
              /\ Calls(t, op, p)
              /\ Role(t) = "main" => p = Of(t) /\ op \in MainCalls(p)
              /\ Role(t) = "beat" => op = "heartbeat"
              /\ Role(t) = "watch" => p # Of(t) /\ op \in {"claim", "recover"}
              /\ UNCHANGED <<lock, old, record, process, history, ioErrors>>
    BY <1>1, BeginningsAre
  <2>2. UNCHANGED <<record, process, stage, alive, owners, promised, ioErrors>>
    BY <2>1 DEF process, history
  <2>3. /\ Done' = Done /\ task[t] = Idle /\ task'[t].at = "acquire"
        /\ \A u \in Tasks \ {t} : task'[u] = task[u]
    BY <2>1, <2>2, StartKeepsCalls
  <2> QED
    BY <1>i, <2>2, <2>3, StartKeepsRecords
<1>2. ASSUME NEW p \in Runners, MainReturns(p) PROVE RunInv(run)'
  BY <1>2, <1>i, MainReturnsKeepsRecords
<1>3. ASSUME NEW p \in Processes, WatchReturns(p) \/ (p \in Runners /\ BeatReturns(p))
      PROVE  RunInv(run)'
  <2>1. PICK t \in {<<p, "watch">>, <<p, "beat">>} :
           /\ Goes(t, Idle) /\ UNCHANGED <<record, stage, alive, promised>>
           /\ \/ owners' = owners
              \/ /\ task[t].at = "ok" /\ task[t].op = "claim"
                 /\ owners' = [owners EXCEPT ![task[t].run] = @ \cup {p}]
    BY <1>3 DEF WatchReturns, BeatReturns, shared, process, history
  <2>2. t \in Tasks /\ Of(t) = p /\ Role(t) # "main"
    BY DEF Tasks, Roles, Of, Role
  <2>3. task[t].at = "ok" => t \in Done
    BY <2>2, DoneAt
  <2> QED
    BY <1>i, <2>1, <2>2, <2>3, EndKeepsRecords
<1>4. ASSUME NEW p \in Processes, Crash(p) PROVE RunInv(run)'
  <2>1. Dies(p) /\ UNCHANGED <<record, stage, owners, promised>>
    BY <1>4 DEF Crash, shared
  <2> QED
    BY <1>i, <2>1, DeathKeepsRecords
<1>5. ASSUME NEW t \in Tasks,
             Acquires(t) \/ ReadRecord(t) \/ DropLock(t) \/ Faults(t)
      PROVE  RunInv(run)'
  BY <1>5, <1>i, AcquireIsHarmless, ReadIsHarmless, DropIsHarmless, RenameIsHarmless,
     HarmlessKeepsRecords DEF Faults
<1>6. ASSUME NEW t \in Tasks, WriteRecord(t) PROVE RunInv(run)'
  BY <1>6, <1>a, <1>i, WriteKeepsRecords
<1>7. CASE LockExpires \/ UNCHANGED vars
  <2>1. UNCHANGED <<record, task, stage, alive, owners, promised>>
    BY <1>7 DEF LockExpires, vars, shared, process, history
  <2>2. Weaker(run)
    BY <2>1 DEF Weaker, Unborn, Claimants, Admitted, Ending, Done
  <2> QED
    BY <1>i, <2>1, <2>2, WeakerKeeps
<1>r. Runners \subseteq Processes
  BY RunnersAssumption
<1> QED
  BY <1>1, <1>2, <1>3, <1>4, <1>5, <1>6, <1>7, <1>r DEF Next, Proceeds

\* Locks, calls and records together.
LEMMA RegistryHolds == Spec => [](CallInv /\ RecordInv)
<1>1. Init => LockInv /\ CallInv /\ RecordInv
  BY InitLocks, InitCalls, InitRecords
<1>2. LockInv /\ CallInv /\ RecordInv /\ [Next]_vars => (LockInv /\ CallInv /\ RecordInv)'
  BY StepKeeps, NextCalls, StepKeepsRecords
<1> QED
  BY <1>1, <1>2, PTL DEF Spec

-----------------------------------------------------------------------------
\* A status that transition() or fail() has reported as written is what the record says until
\* the owner's next call, through heartbeats, watchers and crashes, as long as no lock file
\* has been left behind; and a record that was created is there as long as no file operation
\* has failed, whoever died while it was replaced.
THEOREM RecordsHold == Spec => []RecordHolds
<1>1. ASSUME CallInv, RecordInv PROVE StatusKept
  <2> SUFFICES ASSUME ~abandoned, NEW p \in Runners, record[p] # NoRecord, task[M(p)] = Idle
               PROVE  record[p].status \in KeptAs(p)
    BY DEF StatusKept, M
  <2>1. /\ record[p].status \in Admitted(p)
        /\ promised[p] \in {"None", "Running", "Completed", "Failed"}
    BY <1>1 DEF RecordInv, RunInv, Fits, CallInv, TypeOK
  <2>2. ~Ending(p)
    BY DEF Ending, Idle
  <2>3. CASE promised[p] \in {"Completed", "Failed"}
    <3>1. KeptAs(p) = {promised[p]}
      BY <2>3 DEF KeptAs
    <3> QED
      BY <2>1, <2>3, <3>1 DEF Admitted
  <2>4. CASE promised[p] = "Running" /\ p \in alive
    <3>1. KeptAs(p) = Under
      BY <2>4 DEF KeptAs, Under
    <3> QED
      BY <2>1, <2>2, <2>4, <3>1 DEF Admitted
  <2>5. CASE promised[p] \notin {"Completed", "Failed"} /\ ~(promised[p] = "Running" /\ p \in alive)
    <3>1. KeptAs(p) = Status
      BY <2>5 DEF KeptAs
    <3> QED
      BY <2>1, <3>1 DEF Admitted
  <2> QED
    BY <2>3, <2>4, <2>5
<1>2. CallInv => TypeOK /\ RecordSurvives
  BY DEF CallInv, Life, RecordSurvives
<1>3. CallInv /\ RecordInv => RecordHolds
  BY <1>1, <1>2 DEF RecordHolds
<1> QED
  BY <1>3, RegistryHolds, PTL

\* A run is claimed by one process at most (LeaseConflict), also when claims of several
\* processes, heartbeats and recoveries run side by side and the record is lost in between.
THEOREM RunHasOneOwner == Spec => []OneOwner
<1>1. ASSUME RecordInv PROVE OneOwner
  <2> SUFFICES ASSUME ~abandoned, NEW run \in Runners PROVE Cardinality(owners[run]) <= 1
    BY DEF OneOwner
  <2>1. \A o, q \in owners[run] : o = q
    BY <1>1 DEF RecordInv, RunInv, Claimants
  <2>2. CASE owners[run] = {}
    BY <2>2, FS_EmptySet
  <2>3. CASE owners[run] # {}
    <3>1. PICK o : owners[run] = {o}
      BY <2>1, <2>3
    <3> QED
      BY <3>1, FS_Singleton
  <2> QED
    BY <2>2, <2>3
<1> QED
  BY <1>1, RegistryHolds, PTL

-----------------------------------------------------------------------------
\* Induction over the numbers, of a set.
LEMMA Induction ==
    ASSUME NEW S, 0 \in S, \A n \in Nat : n \in S => n + 1 \in S
    PROVE  Nat \subseteq S
<1> SUFFICES ASSUME NEW n \in Nat, n \notin S PROVE FALSE
  OBVIOUS
<1> DEFINE U == {m \in 0 .. n : m \notin S}
           V == U \ {n}
           f == [m \in U |-> m - 1]
<1>1. IsFiniteSet(U) /\ IsFiniteSet(V) /\ Cardinality(V) < Cardinality(U)
  <2>1. IsFiniteSet(0 .. n)
    BY FS_Interval
  <2>2. IsFiniteSet(U)
    BY <2>1, FS_Subset
  <2>3. n \in U
    OBVIOUS
  <2> HIDE DEF U
  <2>4. IsFiniteSet(V) /\ Cardinality(V) = Cardinality(U) - 1 /\ Cardinality(U) \in Nat
    BY <2>2, <2>3, FS_RemoveElement, FS_CardinalityType
  <2> QED
    BY <2>2, <2>4
<1>2. \A m \in U : m - 1 \in V
  <2> SUFFICES ASSUME NEW m \in U PROVE m - 1 \in V
    OBVIOUS
  <2>1. m # 0 /\ m - 1 \in Nat
    OBVIOUS
  <2>2. m - 1 \notin S
    BY <2>1
  <2> QED
    BY <2>1, <2>2
<1>3. f \in [U -> V]
  BY <1>2
<1>4. \A x, y \in U : x # y => f[x] # f[y]
  OBVIOUS
<1> HIDE DEF U, V, f
<1> QED
  BY <1>1, <1>3, <1>4, FS_PigeonHole

-----------------------------------------------------------------------------
(* The record writer.  Lines are numbered as they were sent, so that what  *)
(* is on file, in the buffer and in the channel are stretches of numbers   *)
(* one after the other; a rotation moves a stretch, and the writer's place *)
(* says where it is.                                                       *)

\* Lines that go on from the n-th.
From(n, lines) ==
    lines \in Seq(Nat) /\ \A i \in 1 .. Len(lines) : lines[i] = n + i

\* Of nothing, there is nothing to say.
LEMMA NothingGoesOn == \A n \in Nat : From(n, <<>>)
  BY DEF From

\* One stretch after another.
LEMMA StretchesJoin ==
    ASSUME NEW n \in Nat, NEW s, NEW t, From(n, s), From(n + Len(s), t)
    PROVE  /\ From(n, s \o t) /\ Len(s \o t) = Len(s) + Len(t)
           /\ Len(s) \in Nat /\ Len(t) \in Nat
<1>1. s \in Seq(Nat) /\ t \in Seq(Nat) /\ Len(s) \in Nat /\ Len(t) \in Nat
  BY DEF From
<1>2. s \o t \in Seq(Nat) /\ Len(s \o t) = Len(s) + Len(t)
  BY <1>1
<1>3. ASSUME NEW i \in 1 .. Len(s \o t) PROVE (s \o t)[i] = n + i
  <2>1. CASE i <= Len(s)
    <3>1. (s \o t)[i] = s[i] /\ i \in 1 .. Len(s)
      BY <1>1, <1>2, <2>1
    <3> QED
      BY <3>1 DEF From
  <2>2. CASE i > Len(s)
    <3>1. (s \o t)[i] = t[i - Len(s)] /\ i - Len(s) \in 1 .. Len(t)
      BY <1>1, <1>2, <2>2
    <3>2. t[i - Len(s)] = n + Len(s) + (i - Len(s))
      BY <3>1 DEF From
    <3> QED
      BY <1>1, <3>1, <3>2
  <2> QED
    BY <1>1, <1>2, <2>1, <2>2
<1> QED
  BY <1>1, <1>2, <1>3 DEF From

\* The next line at the end of a stretch.
LEMMA StretchGrows ==
    ASSUME NEW n \in Nat, NEW s, From(n, s), NEW line, line = n + Len(s) + 1
    PROVE  From(n, Append(s, line)) /\ Len(Append(s, line)) = Len(s) + 1 /\ Len(s) \in Nat
<1>1. s \in Seq(Nat) /\ Len(s) \in Nat /\ line \in Nat
  BY DEF From
<1>2. Append(s, line) \in Seq(Nat) /\ Len(Append(s, line)) = Len(s) + 1
  BY <1>1
<1>3. ASSUME NEW i \in 1 .. Len(s) + 1 PROVE Append(s, line)[i] = n + i
  <2>1. CASE i = Len(s) + 1
    BY <1>1, <2>1
  <2>2. CASE i # Len(s) + 1
    <3>1. i \in 1 .. Len(s) /\ Append(s, line)[i] = s[i]
      BY <1>1, <2>2
    <3> QED
      BY <3>1 DEF From
  <2> QED
    BY <2>1, <2>2
<1> QED
  BY <1>1, <1>2, <1>3 DEF From

\* The first line of a stretch, and what follows it.
LEMMA StretchStarts ==
    ASSUME NEW n \in Nat, NEW s, From(n, s), s # <<>>
    PROVE  /\ Head(s) = n + 1 /\ From(n + 1, Tail(s))
           /\ Len(s) \in Nat /\ Len(Tail(s)) = Len(s) - 1
<1>1. s \in Seq(Nat) /\ Len(s) \in Nat /\ Len(s) > 0
  BY DEF From
<1>2. Tail(s) \in Seq(Nat) /\ Len(Tail(s)) = Len(s) - 1 /\ Head(s) = s[1]
  BY <1>1
<1>3. ASSUME NEW i \in 1 .. Len(s) - 1 PROVE Tail(s)[i] = (n + 1) + i
  <2>1. i + 1 \in 1 .. Len(s) /\ Tail(s)[i] = s[i + 1]
    BY <1>1, <1>2
  <2>2. s[i + 1] = n + (i + 1)
    BY <2>1 DEF From
  <2> QED
    BY <2>1, <2>2
<1>4. Head(s) = n + 1
  BY <1>1, <1>2 DEF From
<1> QED
  BY <1>1, <1>2, <1>3, <1>4 DEF From

\* The beginning of a stretch.
LEMMA StretchBegins ==
    ASSUME NEW n \in Nat, NEW s, From(n, s), NEW k \in 0 .. Len(s)
    PROVE  From(n, SubSeq(s, 1, k)) /\ Len(SubSeq(s, 1, k)) = k
<1>1. s \in Seq(Nat) /\ Len(s) \in Nat
  BY DEF From
<1>2. SubSeq(s, 1, k) \in Seq(Nat) /\ Len(SubSeq(s, 1, k)) = k
  BY <1>1
<1>3. ASSUME NEW i \in 1 .. k PROVE SubSeq(s, 1, k)[i] = n + i
  <2>1. SubSeq(s, 1, k)[i] = s[i] /\ i \in 1 .. Len(s)
    BY <1>1
  <2> QED
    BY <2>1 DEF From
<1> QED
  BY <1>2, <1>3 DEF From

-----------------------------------------------------------------------------
Parts == [raw : Seq(Nat), archive : Seq(Nat), metadata : BOOLEAN]

\* What is read of the first n segments, n by n.
Reads(read, parts, n) ==
    read = [k \in 0 .. n |-> IF k = 0 THEN <<>> ELSE read[k - 1] \o Lines(parts[k])]

\* Read so, any number of segments has its lines.
LEMMA ReadsExist ==
    ASSUME NEW parts, NEW n \in Nat
    PROVE  \E read : Reads(read, parts, n)
<1> DEFINE S == {m \in Nat : \E read : Reads(read, parts, m)}
<1>1. 0 \in S
  <2> DEFINE f == [k \in 0 .. 0 |-> <<>>]
  <2>1. f = [k \in 0 .. 0 |-> IF k = 0 THEN <<>> ELSE f[k - 1] \o Lines(parts[k])]
    OBVIOUS
  <2> QED
    BY <2>1 DEF Reads
<1>2. ASSUME NEW m \in Nat, m \in S PROVE m + 1 \in S
  <2>1. PICK f : Reads(f, parts, m)
    BY <1>2
  <2> DEFINE g == [k \in 0 .. m + 1 |-> IF k = m + 1 THEN f[m] \o Lines(parts[m + 1]) ELSE f[k]]
  <2>2. ASSUME NEW k \in 0 .. m + 1
        PROVE  g[k] = IF k = 0 THEN <<>> ELSE g[k - 1] \o Lines(parts[k])
    <3>1. CASE k = m + 1
      <4>1. m \in 0 .. m + 1 /\ m # m + 1 /\ m + 1 # 0 /\ (m + 1) - 1 = m /\ m + 1 \in 0 .. m + 1
        OBVIOUS
      <4>2. g[m] = f[m] /\ g[m + 1] = f[m] \o Lines(parts[m + 1])
        BY <4>1
      <4> HIDE DEF g
      <4> QED
        BY <3>1, <4>1, <4>2
    <3>2. CASE k # m + 1
      <4>1. k \in 0 .. m /\ (k # 0 => k - 1 \in 0 .. m)
        BY <3>2
      <4>2. g[k] = f[k] /\ (k # 0 => g[k - 1] = f[k - 1])
        BY <3>2, <4>1
      <4>3. f[k] = IF k = 0 THEN <<>> ELSE f[k - 1] \o Lines(parts[k])
        BY <2>1, <4>1 DEF Reads
      <4> QED
        BY <4>2, <4>3
    <3> QED
      BY <3>1, <3>2
  <2>3. g = [k \in 0 .. m + 1 |-> g[k]]
    OBVIOUS
  <2>4. g = [k \in 0 .. m + 1 |-> IF k = 0 THEN <<>> ELSE g[k - 1] \o Lines(parts[k])]
    <3> HIDE DEF g
    <3> QED
      BY <2>2, <2>3
  <2> HIDE DEF g
  <2>5. Reads(g, parts, m + 1)
    BY <2>4 DEF Reads
  <2> QED
    BY <2>5
<1> HIDE DEF S
<1>3. Nat \subseteq S
  BY <1>1, <1>2, Induction
<1> QED
  BY <1>3 DEF S

\* The tape is read that way.
LEMMA TapeIsRead ==
    ASSUME NEW parts, Len(parts) \in Nat
    PROVE  \E read : Reads(read, parts, Len(parts)) /\ Tape(parts) = read[Len(parts)]
<1> DEFINE read == CHOOSE f : f = [k \in 0 .. Len(parts) |->
                                     IF k = 0 THEN <<>> ELSE f[k - 1] \o Lines(parts[k])]
<1>1. \E f : f = [k \in 0 .. Len(parts) |-> IF k = 0 THEN <<>> ELSE f[k - 1] \o Lines(parts[k])]
  BY ReadsExist DEF Reads
<1>2. read = [k \in 0 .. Len(parts) |-> IF k = 0 THEN <<>> ELSE read[k - 1] \o Lines(parts[k])]
  BY <1>1
<1>3. Tape(parts) = read[Len(parts)]
  BY DEF Tape
<1> HIDE DEF read
<1> QED
  BY <1>2, <1>3 DEF Reads

\* What is read depends on the lines only.
SameLines(a, b, n) == \A i \in 1 .. n : Lines(a[i]) = Lines(b[i])

LEMMA ReadsAgree ==
    ASSUME NEW a, NEW b, NEW m \in Nat, NEW n \in Nat, NEW f, NEW g, NEW l \in Nat,
           Reads(f, a, m), Reads(g, b, n), l <= m, l <= n,
           SameLines(a, b, l)
    PROVE  f[l] = g[l]
<1> DEFINE S == {k \in Nat : k <= l => f[k] = g[k]}
<1>1. 0 \in S
  BY DEF Reads
<1>2. ASSUME NEW k \in Nat, k \in S PROVE k + 1 \in S
  <2> SUFFICES ASSUME k + 1 <= l PROVE f[k + 1] = g[k + 1]
    OBVIOUS
  <2>1. f[k] = g[k] /\ k + 1 \in 0 .. m /\ k + 1 \in 0 .. n /\ k + 1 \in 1 .. l /\ (k + 1) - 1 = k
        /\ k + 1 # 0
    BY <1>2
  <2>2. f[k + 1] = f[k] \o Lines(a[k + 1]) /\ g[k + 1] = g[k] \o Lines(b[k + 1])
    BY <2>1 DEF Reads
  <2>3. Lines(a[k + 1]) = Lines(b[k + 1])
    BY <2>1 DEF SameLines
  <2> QED
    BY <2>1, <2>2, <2>3
<1> HIDE DEF S
<1>3. Nat \subseteq S
  BY <1>1, <1>2, Induction
<1> QED
  BY <1>3 DEF S

\* Segments with the same lines have the same tape.
LEMMA TapesAgree ==
    ASSUME NEW a, NEW b, Len(a) \in Nat, Len(a) = Len(b),
           \A i \in 1 .. Len(a) : Lines(a[i]) = Lines(b[i])
    PROVE  Tape(a) = Tape(b)
<1> DEFINE n == Len(a)
<1>1. PICK f : Reads(f, a, n) /\ Tape(a) = f[n]
  BY TapeIsRead
<1>2. PICK g : Reads(g, b, n) /\ Tape(b) = g[n]
  BY TapeIsRead
<1>3. n \in Nat /\ n <= n /\ SameLines(a, b, n)
  BY DEF SameLines
<1> HIDE DEF n
<1>4. f[n] = g[n]
  BY <1>1, <1>2, <1>3, ReadsAgree
<1> QED
  BY <1>1, <1>2, <1>4

\* One more segment is read behind the others.
LEMMA TapeGrows ==
    ASSUME NEW parts \in Seq(Parts), NEW part \in Parts
    PROVE  Tape(Append(parts, part)) = Tape(parts) \o Lines(part)
<1> DEFINE more == Append(parts, part)
           n == Len(parts)
<1>1. n \in Nat /\ Len(more) = n + 1 /\ more[n + 1] = part
      /\ \A i \in 1 .. n : more[i] = parts[i]
  OBVIOUS
<1> HIDE DEF more, n
<1>2. PICK f : Reads(f, more, n + 1) /\ Tape(more) = f[n + 1]
  BY <1>1, TapeIsRead
<1>3. PICK g : Reads(g, parts, n) /\ Tape(parts) = g[n]
  BY <1>1, TapeIsRead DEF n
<1>4. f[n] = g[n]
  <2>1. SameLines(more, parts, n)
    BY <1>1 DEF SameLines
  <2>2. n + 1 \in Nat /\ n \in Nat /\ n <= n + 1 /\ n <= n
    BY <1>1
  <2>3. Reads(f, more, n + 1) /\ Reads(g, parts, n)
    BY <1>2, <1>3
  <2> HIDE DEF more
  <2> QED
    BY <2>1, <2>2, <2>3, ReadsAgree
<1>5. f[n + 1] = f[n] \o Lines(more[n + 1])
  <2>1. n + 1 \in 0 .. n + 1 /\ n + 1 # 0 /\ (n + 1) - 1 = n
    BY <1>1
  <2> QED
    BY <1>2, <2>1 DEF Reads
<1> QED
  BY <1>1, <1>2, <1>3, <1>4, <1>5 DEF more

\* Without segments there is nothing.
LEMMA NoTape == Tape(<<>>) = <<>>
<1>1. PICK f : Reads(f, <<>>, Len(<<>>)) /\ Tape(<<>>) = f[Len(<<>>)]
  BY TapeIsRead
<1> QED
  BY <1>1 DEF Reads

-----------------------------------------------------------------------------
\* How many lines the files hold, and how many the writer has taken from the channel.
Stored == Len(Tape(segments)) + Len(LiveLines)
Taken == written + (IF writer \in Holds THEN 1 ELSE 0)
NoFile == {"open", "compress", "describe", "remove", "reopen"}
Filling == {"loop", "write", "full", "flush"}

\* What is on file goes on from the first line; while the writer works, its buffer goes on
\* from there and the channel from the line it has taken.
FilesInv ==
    /\ segments \in Seq(Parts) /\ live \in Seq(Nat)
    /\ From(0, Tape(segments)) /\ From(Len(Tape(segments)), LiveLines)
    /\ sent \in Nat /\ written \in Nat /\ dropped \in Nat /\ pending \in Nat
    /\ writer \in Open_ \cup {"done", "failed", "dead"}

WorkInv ==
    writer \in Open_ =>
        /\ From(Stored, buffer) /\ written = Stored + Len(buffer)
        /\ Len(buffer) <= pending /\ pending <= FlushEvery
        /\ writer # "full" => pending < FlushEvery
        /\ From(Taken, channel) /\ sent = Taken + Len(channel) /\ dropped = 0
        /\ writer \in Holds => held = written + 1
        /\ writer \notin Filling => buffer = <<>>
        /\ live = Gone <=> writer \in NoFile

EndInv ==
    /\ writer \notin Open_ => /\ Stored <= written /\ written <= sent
                              /\ written - Stored <= FlushEvery
    /\ writer = "done" => ~sending /\ Stored = written /\ written = sent /\ dropped = 0

\* The last segment, before and after it is compressed.
SegmentInv ==
    /\ writer \in {"compress", "describe", "remove"} => segments # <<>>
    /\ writer = "compress" => Last.archive = Gone /\ Last.raw # Gone
    /\ writer \in {"describe", "remove"} => Last.archive # Gone

RecordsInv == FilesInv /\ WorkInv /\ EndInv /\ SegmentInv

\* A stretch of lines is not mistaken for a file that is gone.
LEMMA StretchIsThere ==
    ASSUME NEW n \in Nat, NEW s, From(n, s)
    PROVE  s # Gone
  BY DEF From, Gone

\* The counts, as numbers.
LEMMA CountsAre ==
    ASSUME FilesInv
    PROVE  /\ Len(Tape(segments)) \in Nat /\ Len(LiveLines) \in Nat /\ Stored \in Nat
           /\ Taken \in Nat /\ Tape(segments) \in Seq(Nat) /\ LiveLines \in Seq(Nat)
  BY DEF FilesInv, From, Stored, Taken

\* A writer that has not begun.
LEMMA RecordsStart ==
    ASSUME RecordInit
    PROVE  RecordsInv
<1>1. Tape(segments) = <<>> /\ LiveLines = <<>> /\ Stored = 0
  BY NoTape DEF RecordInit, LiveLines, Stored
<1>2. FilesInv
  BY <1>1, NothingGoesOn DEF RecordInit, FilesInv, Open_, Gone
<1>3. WorkInv
  <2>1. Taken = 0
    BY DEF RecordInit, Taken, Holds, Rotation
  <2> QED
    BY <1>1, <2>1, NothingGoesOn, WriterAssumption DEF RecordInit, WorkInv, Open_, Holds, Rotation, NoFile, Filling
<1> QED
  BY <1>2, <1>3 DEF RecordInit, RecordsInv, EndInv, SegmentInv, Open_

\* The invariant of the engine's part, the files being as they were.
LEMMA SendingKeeps ==
    ASSUME RecordsInv, SendLine \/ SendFails \/ Close
    PROVE  RecordsInv'
<1>1. UNCHANGED <<writer, held, buffer, live, segments, fill, pending, written>>
  BY DEF SendLine, SendFails, Close
<1>2. LiveLines' = LiveLines /\ Stored' = Stored /\ Taken' = Taken /\ Last' = Last
  BY <1>1 DEF LiveLines, Stored, Taken, Last
<1>3. Stored \in Nat /\ Taken \in Nat /\ sent \in Nat /\ dropped \in Nat /\ written \in Nat
  BY CountsAre DEF RecordsInv, FilesInv
<1>4. CASE SendLine
  <2>1. /\ writer \in Open_ /\ sent' = sent + 1 /\ channel' = Append(channel, sent + 1)
        /\ dropped' = dropped /\ sending' = sending
    BY <1>4 DEF SendLine
  <2>2. From(Taken, channel) /\ sent = Taken + Len(channel)
    BY <2>1 DEF RecordsInv, WorkInv
  <2>3. /\ From(Taken, channel') /\ Len(channel') = Len(channel) + 1 /\ Len(channel) \in Nat
    BY <1>3, <2>1, <2>2, StretchGrows
  <2>4. FilesInv'
    BY <1>1, <1>2, <1>3, <2>1 DEF RecordsInv, FilesInv
  <2>5. WorkInv'
    BY <1>1, <1>2, <1>3, <2>1, <2>2, <2>3 DEF RecordsInv, WorkInv
  <2>6. EndInv' /\ SegmentInv'
    BY <1>1, <1>2, <2>1 DEF RecordsInv, EndInv, SegmentInv, Open_, Holds, Rotation
  <2> QED
    BY <2>4, <2>5, <2>6 DEF RecordsInv
<1>5. CASE SendFails
  <2>1. /\ writer = "failed" /\ sent' = sent /\ channel' = channel
        /\ dropped' = dropped + 1
    BY <1>5 DEF SendFails, RecordsInv, EndInv
  <2>2. FilesInv'
    BY <1>1, <1>2, <1>3, <2>1 DEF RecordsInv, FilesInv
  <2>3. WorkInv' /\ EndInv' /\ SegmentInv'
    BY <1>1, <1>2, <2>1 DEF RecordsInv, WorkInv, EndInv, SegmentInv, Open_, Holds, Rotation
  <2> QED
    BY <2>2, <2>3 DEF RecordsInv
<1>6. CASE Close
  <2>1. sent' = sent /\ channel' = channel /\ dropped' = dropped /\ ~sending'
    BY <1>6 DEF Close
  <2>2. FilesInv' /\ WorkInv' /\ EndInv' /\ SegmentInv'
    BY <1>1, <1>2, <2>1 DEF RecordsInv, FilesInv, WorkInv, EndInv, SegmentInv
  <2> QED
    BY <2>2 DEF RecordsInv
<1> QED
  BY <1>4, <1>5, <1>6

\* The first file.
LEMMA OpeningKeeps ==
    ASSUME RecordsInv, OpenFile
    PROVE  RecordsInv'
<1>1. /\ writer = "open" /\ writer' = "loop" /\ live' = <<>> /\ live = Gone
      /\ UNCHANGED <<channel, sending, held, buffer, segments, fill, pending, written, sent, dropped>>
  BY DEF OpenFile, RecordsInv, WorkInv, Open_, NoFile, Filling
<1>2. LiveLines = <<>> /\ LiveLines' = <<>> /\ <<>> # Gone
  BY <1>1 DEF LiveLines, Gone
<1>3. Stored' = Stored /\ Taken' = Taken
  BY <1>1, <1>2 DEF Stored, Taken, Holds, Rotation
<1>4. FilesInv'
  BY <1>1, <1>2 DEF RecordsInv, FilesInv, Open_
<1>5. WorkInv'
  BY <1>1, <1>2, <1>3 DEF RecordsInv, WorkInv, Open_, Holds, Rotation, NoFile, Filling
<1> QED
  BY <1>1, <1>4, <1>5 DEF RecordsInv, EndInv, SegmentInv, Open_

\* The lines of the open file, from the last segment on.
LEMMA FileIsOpen ==
    ASSUME RecordsInv, writer \in Filling \cup {"rename"}
    PROVE  /\ live # Gone /\ LiveLines = live /\ live \in Seq(Nat)
           /\ Len(Tape(segments)) \in Nat /\ From(Len(Tape(segments)), live)
           /\ From(Len(Tape(segments)) + Len(live), buffer)
           /\ written = Len(Tape(segments)) + Len(live) + Len(buffer)
           /\ Len(live) \in Nat /\ Len(buffer) \in Nat /\ pending \in Nat
           /\ Len(buffer) <= pending /\ pending <= FlushEvery
           /\ writer # "full" => pending < FlushEvery
<1>1. writer \in Open_ /\ writer \notin NoFile
  BY DEF Open_, Holds, Rotation, NoFile, Filling
<1>2. live # Gone /\ LiveLines = live
  BY <1>1 DEF RecordsInv, WorkInv, LiveLines
<1>3. Stored = Len(Tape(segments)) + Len(live)
  BY <1>2 DEF Stored
<1>4. /\ From(Stored, buffer) /\ written = Stored + Len(buffer) /\ Len(buffer) <= pending
      /\ pending <= FlushEvery
      /\ writer # "full" => pending < FlushEvery
  BY <1>1 DEF RecordsInv, WorkInv
<1>5. From(Len(Tape(segments)), live) /\ Len(Tape(segments)) \in Nat /\ pending \in Nat /\ live \in Seq(Nat)
  BY <1>2, CountsAre DEF RecordsInv, FilesInv
<1>6. Len(live) \in Nat /\ Len(buffer) \in Nat
  BY <1>4, <1>5 DEF From
<1> QED
  BY <1>2, <1>3, <1>4, <1>5, <1>6

\* A file that is open and whose segments are as they were.
LEMMA FileStaysOpen ==
    ASSUME RecordsInv, UNCHANGED segments, live' \in Seq(Nat),
           From(Len(Tape(segments)), live')
    PROVE  /\ live' # Gone /\ LiveLines' = live' /\ Stored' = Len(Tape(segments)) + Len(live')
           /\ segments' \in Seq(Parts) /\ From(0, Tape(segments)')
           /\ From(Len(Tape(segments))', LiveLines')
<1>1. Tape(segments)' = Tape(segments)
  OBVIOUS
<1>2. live' # Gone
  BY CountsAre, StretchIsThere DEF RecordsInv
<1>3. LiveLines' = live'
  BY <1>2 DEF LiveLines
<1> QED
  BY <1>1, <1>2, <1>3 DEF Stored, RecordsInv, FilesInv

\* A line is received.
LEMMA ReceivingKeeps ==
    ASSUME RecordsInv, Receive
    PROVE  RecordsInv'
<1>1. /\ writer = "loop" /\ channel # <<>> /\ channel' = Tail(channel)
      /\ held' = Head(channel) /\ writer' \in {"flush", "write"}
      /\ UNCHANGED <<sending, buffer, live, segments, pending, written, sent, dropped>>
  BY DEF Receive
<1>2. /\ From(written, channel) /\ sent = written + Len(channel) /\ dropped = 0
      /\ written \in Nat /\ sent \in Nat
  BY <1>1 DEF RecordsInv, FilesInv, WorkInv, Open_, Taken, Holds, Rotation
<1>3. /\ Head(channel) = written + 1 /\ From(written + 1, channel')
      /\ Len(channel) \in Nat /\ Len(channel') = Len(channel) - 1
  BY <1>1, <1>2, StretchStarts
<1>4. LiveLines' = LiveLines /\ Stored' = Stored /\ Taken' = written + 1
  BY <1>1 DEF LiveLines, Stored, Taken, Holds, Rotation
<1>5. FilesInv'
  BY <1>1, <1>4 DEF RecordsInv, FilesInv, Open_, Holds, Rotation
<1>6. WorkInv'
  <2>1. From(Taken', channel') /\ sent' = Taken' + Len(channel')
    BY <1>1, <1>2, <1>3, <1>4
  <2> QED
    BY <1>1, <1>2, <1>3, <1>4, <2>1
       DEF RecordsInv, WorkInv, Open_, Holds, Rotation, NoFile, Filling
<1> QED
  BY <1>1, <1>5, <1>6 DEF RecordsInv, EndInv, SegmentInv, Open_, Holds, Rotation

\* The line goes behind the others, in the buffer, and those before it to the file perhaps.
LEMMA PuttingKeeps ==
    ASSUME RecordsInv, Put
    PROVE  RecordsInv'
<1> DEFINE at == Len(Tape(segments))
<1>1. /\ writer = "write" /\ writer' = IF pending + 1 >= FlushEvery THEN "full" ELSE "loop"
      /\ written' = written + 1 /\ pending' = pending + 1
      /\ UNCHANGED <<channel, sending, segments, sent, dropped>>
  BY DEF Put
<1>2. PICK rest \in {buffer, <<>>} :
         /\ buffer' = Append(rest, held)
         /\ live' = IF rest = buffer THEN live ELSE live \o buffer
  <2>1. Append(<<>>, held) = <<held>>
    OBVIOUS
  <2>2. buffer = <<>> => live \o buffer = live
    BY <1>1, FileIsOpen DEF Filling
  <2> QED
    BY <2>1, <2>2 DEF Put
<1>3. /\ at \in Nat /\ From(at, live) /\ From(at + Len(live), buffer)
      /\ written = at + Len(live) + Len(buffer)
      /\ Len(live) \in Nat /\ Len(buffer) \in Nat /\ pending \in Nat
      /\ Len(buffer) <= pending /\ pending < FlushEvery
  BY <1>1, FileIsOpen DEF Filling
<1>4. /\ held = written + 1 /\ written \in Nat /\ sent \in Nat /\ dropped = 0
      /\ From(written + 1, channel) /\ sent = written + 1 + Len(channel)
      /\ FlushEvery \in Nat \ {0}
  BY <1>1, WriterAssumption DEF RecordsInv, FilesInv, WorkInv, Open_, Holds, Taken
<1> HIDE DEF at
<1>5. /\ From(at, live') /\ From(at + Len(live'), rest)
      /\ written = at + Len(live') + Len(rest)
      /\ Len(live') \in Nat /\ Len(rest) \in Nat /\ Len(rest) <= Len(buffer)
  <2>1. CASE rest = buffer
    BY <1>2, <1>3, <2>1
  <2>2. CASE rest # buffer
    <3>1. From(at, live \o buffer) /\ Len(live \o buffer) = Len(live) + Len(buffer)
      BY <1>3, StretchesJoin
    <3>2. rest = <<>> /\ live' = live \o buffer
      BY <1>2, <2>2
    <3>3. From(at + Len(live'), <<>>) /\ Len(<<>>) = 0
      BY <1>3, <3>1, <3>2, NothingGoesOn
    <3> QED
      BY <1>3, <3>1, <3>2, <3>3
  <2> QED
    BY <2>1, <2>2
<1>6. From(at + Len(live'), buffer') /\ Len(buffer') = Len(rest) + 1
  <2>1. at + Len(live') \in Nat /\ held = (at + Len(live')) + Len(rest) + 1
    BY <1>3, <1>4, <1>5
  <2> QED
    BY <1>2, <1>5, <2>1, StretchGrows
<1>7. live' \in Seq(Nat)
  BY <1>5 DEF From
<1>8. /\ live' # Gone /\ Stored' = at + Len(live')
      /\ segments' \in Seq(Parts) /\ From(0, Tape(segments)')
      /\ From(Len(Tape(segments))', LiveLines')
  BY <1>1, <1>5, <1>7, FileStaysOpen DEF at
<1>9. Taken' = written + 1 /\ writer' \in {"full", "loop"}
  BY <1>1 DEF Taken, Holds, Rotation
<1>10. FilesInv'
  <2>1. sent' \in Nat /\ written' \in Nat /\ dropped' \in Nat /\ pending' \in Nat
        /\ writer' \in Open_
    BY <1>1, <1>3, <1>4, <1>9 DEF Open_
  <2> QED
    BY <1>7, <1>8, <2>1 DEF FilesInv
<1>11. WorkInv'
  <2>1. From(Taken', channel') /\ sent' = Taken' + Len(channel')
    BY <1>1, <1>4, <1>9
  <2>2. From(Stored', buffer') /\ written' = Stored' + Len(buffer')
    BY <1>1, <1>3, <1>5, <1>6, <1>8
  <2>3. Len(buffer') <= pending' /\ pending' <= FlushEvery /\ (writer' # "full" => pending' < FlushEvery)
    BY <1>1, <1>3, <1>4, <1>5, <1>6
  <2> QED
    BY <1>1, <1>4, <1>8, <1>9, <2>1, <2>2, <2>3 DEF WorkInv, Holds, Rotation, NoFile, Filling
<1> QED
  BY <1>9, <1>10, <1>11 DEF RecordsInv, EndInv, SegmentInv, Open_

\* flush(): the lines of the buffer are behind those of the file.
LEMMA FlushKeeps ==
    ASSUME RecordsInv, writer \in Filling, Flushed, UNCHANGED segments
    PROVE  /\ live' \in Seq(Nat) /\ live' # Gone
           /\ segments' \in Seq(Parts) /\ From(0, Tape(segments)')
           /\ From(Len(Tape(segments))', LiveLines')
           /\ Stored' = written /\ buffer' = <<>> /\ written \in Nat
<1>1. /\ Len(Tape(segments)) \in Nat /\ From(Len(Tape(segments)), live)
      /\ From(Len(Tape(segments)) + Len(live), buffer)
      /\ written = Len(Tape(segments)) + Len(live) + Len(buffer)
      /\ Len(live) \in Nat /\ Len(buffer) \in Nat
  BY FileIsOpen
<1>2. live' = live \o buffer /\ buffer' = <<>>
  BY DEF Flushed
<1>3. /\ From(Len(Tape(segments)), live \o buffer)
      /\ Len(live \o buffer) = Len(live) + Len(buffer)
  BY <1>1, StretchesJoin
<1>4. live' \in Seq(Nat) /\ From(Len(Tape(segments)), live')
  BY <1>2, <1>3 DEF From
<1> QED
  BY <1>1, <1>2, <1>3, <1>4, FileStaysOpen

\* The flushes: when they are due, of the tick, of the end and before a rotation.
LEMMA FlushingKeeps ==
    ASSUME RecordsInv, FlushFull \/ FlushTick \/ Finish \/ RotateFlush
    PROVE  RecordsInv'
<1>1. /\ writer \in {"loop", "full", "flush"} /\ Flushed
      /\ UNCHANGED <<channel, held, segments, written, sent, dropped>>
      /\ pending' \in {pending, 0} /\ (writer = "full" => pending' = 0)
  BY DEF FlushFull, FlushTick, Finish, RotateFlush, BeforeRotation, Steps
<1>2. /\ live' \in Seq(Nat) /\ live' # Gone
      /\ segments' \in Seq(Parts) /\ From(0, Tape(segments)')
      /\ From(Len(Tape(segments))', LiveLines')
      /\ Stored' = written /\ buffer' = <<>> /\ written \in Nat
  BY <1>1, FlushKeeps DEF Filling
<1>3. pending' \in Nat /\ pending' < FlushEvery
  BY <1>1, FileIsOpen, WriterAssumption DEF Filling
<1>4. /\ From(Taken, channel) /\ sent = Taken + Len(channel) /\ dropped = 0
      /\ writer \in Holds => held = written + 1
      /\ sent \in Nat
  BY <1>1 DEF RecordsInv, WorkInv, FilesInv, Open_, Holds, Rotation
<1>5. From(Stored', buffer') /\ Len(buffer') = 0
  BY <1>2, NothingGoesOn
<1>6. CASE (writer' = "loop" /\ writer \in {"loop", "full"}) \/ (writer' = "rename" /\ writer = "flush")
  <2>1. Taken' = Taken
    BY <1>1, <1>6 DEF Taken, Holds, Rotation
  <2>2. FilesInv'
    BY <1>1, <1>2, <1>3, <1>4, <1>6 DEF FilesInv, Open_, Holds, Rotation
  <2>3. WorkInv'
    <3>1. From(Taken', channel') /\ sent' = Taken' + Len(channel') /\ dropped' = 0
      BY <1>1, <1>4, <2>1
    <3>2. writer' \in Holds => held' = written' + 1
      BY <1>1, <1>4, <1>6 DEF Holds, Rotation
    <3>3. writer' \notin NoFile
      BY <1>6 DEF NoFile
    <3>4. written' = Stored' + Len(buffer') /\ Len(buffer') <= pending' /\ pending' <= FlushEvery
      BY <1>1, <1>2, <1>3, <1>5, WriterAssumption
    <3> QED
      BY <1>2, <1>3, <1>5, <3>1, <3>2, <3>3, <3>4 DEF WorkInv
  <2> QED
    BY <1>6, <2>2, <2>3 DEF RecordsInv, EndInv, SegmentInv, Open_, Holds, Rotation
<1>7. CASE Finish
  <2>1. writer = "loop" /\ ~sending' /\ channel = <<>> /\ writer' = "done"
    BY <1>7 DEF Finish
  <2>2. written = sent
    BY <1>2, <1>4, <2>1 DEF Taken, Holds, Rotation
  <2>3. FilesInv'
    BY <1>1, <1>2, <1>3, <1>4, <2>1 DEF FilesInv
  <2> QED
    BY <1>1, <1>2, <1>4, <2>1, <2>2, <2>3, WriterAssumption
       DEF RecordsInv, WorkInv, EndInv, SegmentInv, Open_, Holds, Rotation
<1>8. FlushTick \/ FlushFull => writer' = "loop" /\ writer \in {"loop", "full"}
  BY DEF FlushTick, FlushFull
<1>9. RotateFlush => writer' = "rename" /\ writer = "flush"
  BY DEF RotateFlush, Steps
<1> QED
  BY <1>6, <1>7, <1>8, <1>9

\* The full file becomes a segment.
LEMMA RenamingKeeps ==
    ASSUME RecordsInv, RotateRename
    PROVE  RecordsInv'
<1> DEFINE no == FALSE
           segment == [[raw |-> Gone, archive |-> Gone, metadata |-> no] EXCEPT !.raw = live]
<1>0. no \in BOOLEAN
  OBVIOUS
<1>1. /\ writer = "rename" /\ writer' = "compress" /\ live' = Gone
      /\ segments' = Append(segments, segment)
      /\ UNCHANGED <<channel, sending, held, pending, written, sent, dropped, buffer>>
  BY DEF RotateRename, Steps, NoSegment
<1>2. /\ live # Gone /\ LiveLines = live /\ live \in Seq(Nat)
      /\ Len(Tape(segments)) \in Nat /\ From(Len(Tape(segments)), live)
  BY <1>1, FileIsOpen
<1>3. segments \in Seq(Parts) /\ From(0, Tape(segments))
  BY DEF RecordsInv, FilesInv
<1> HIDE DEF no
<1>4. /\ segment \in Parts /\ Lines(segment) = live
      /\ segment.raw = live /\ segment.archive = Gone
  <2>1. Gone \in Seq(Nat)
    BY DEF Gone
  <2>2. segment = [raw |-> live, archive |-> Gone, metadata |-> no]
    OBVIOUS
  <2> QED
    BY <1>0, <1>2, <2>1, <2>2 DEF Parts, Lines
<1> HIDE DEF segment
<1>5. Tape(Append(segments, segment)) = Tape(segments) \o live
  BY <1>3, <1>4, TapeGrows
<1>6. /\ From(0, Tape(segments) \o live)
      /\ Len(Tape(segments) \o live) = Len(Tape(segments)) + Len(live)
      /\ Len(live) \in Nat
  <2>1. From(0 + Len(Tape(segments)), live)
    BY <1>2
  <2> QED
    BY <1>3, <2>1, StretchesJoin
<1>7. Tape(segments)' = Tape(segments) \o live /\ LiveLines' = <<>>
  BY <1>1, <1>5 DEF LiveLines
<1>8. Stored' = Stored /\ Taken' = Taken
  <2>1. Len(LiveLines') = 0 /\ Len(LiveLines) = Len(live)
    BY <1>2, <1>7
  <2>2. Stored' = Stored
    BY <1>2, <1>6, <1>7, <2>1 DEF Stored
  <2> QED
    BY <1>1, <2>2 DEF Taken, Holds, Rotation
<1>9. FilesInv'
  <2>1. segments' \in Seq(Parts)
    BY <1>1, <1>3, <1>4
  <2>2. From(Len(Tape(segments))', LiveLines') /\ From(0, Tape(segments)')
    <3>1. Len(Tape(segments) \o live) \in Nat
      BY <1>2, <1>6
    <3> QED
      BY <1>6, <1>7, <3>1, NothingGoesOn
  <2>3. live' \in Seq(Nat)
    BY <1>1 DEF Gone
  <2> QED
    BY <1>1, <2>1, <2>2, <2>3 DEF RecordsInv, FilesInv, Open_, Holds, Rotation
<1>10. WorkInv'
  BY <1>1, <1>8 DEF RecordsInv, WorkInv, Open_, Holds, Rotation, NoFile, Filling
<1>11. SegmentInv'
  <2>1. segments' # <<>> /\ Last' = segment
    BY <1>1, <1>3, <1>4 DEF Last
  <2> QED
    BY <1>1, <1>2, <1>4, <2>1 DEF SegmentInv
<1> QED
  BY <1>1, <1>9, <1>10, <1>11 DEF RecordsInv, EndInv, Open_, Holds, Rotation

\* The last segment is changed, but not the lines it holds.
LEMMA SegmentChanges ==
    ASSUME RecordsInv, segments # <<>>, NEW segment \in Parts, Changes(segment),
           Lines(segment) = Lines(Last)
    PROVE  /\ segments' \in Seq(Parts) /\ segments' # <<>> /\ Last' = segment
           /\ Tape(segments') = Tape(segments)
<1>1. segments \in Seq(Parts) /\ Len(segments) \in Nat /\ Len(segments) \in DOMAIN segments
  BY DEF RecordsInv, FilesInv
<1>2. segments' = [segments EXCEPT ![Len(segments)] = segment]
  BY DEF Changes
<1>3. /\ segments' \in Seq(Parts) /\ Len(segments') = Len(segments) /\ segments' # <<>>
      /\ segments'[Len(segments)] = segment
      /\ \A i \in 1 .. Len(segments) : i # Len(segments) => segments'[i] = segments[i]
  BY <1>1, <1>2
<1>4. Last' = segment
  BY <1>3 DEF Last
<1>5. \A i \in 1 .. Len(segments') : Lines(segments'[i]) = Lines(segments[i])
  BY <1>1, <1>3 DEF Last
<1>6. Tape(segments') = Tape(segments)
  BY <1>1, <1>3, <1>5, TapesAgree
<1> QED
  BY <1>3, <1>4, <1>6

\* Compress, Describe and RemoveRaw: the segment's lines can be read throughout.
LEMMA ArchivingKeeps ==
    ASSUME RecordsInv, Compress \/ Describe \/ RemoveRaw
    PROVE  RecordsInv'
<1>1. /\ writer \in {"compress", "describe", "remove"}
      /\ writer' \in {"describe", "remove", "reopen"}
      /\ UNCHANGED <<channel, sending, held, pending, written, sent, dropped, buffer, live>>
  BY DEF Compress, Describe, RemoveRaw, Steps
<1>2. /\ segments # <<>> /\ segments \in Seq(Parts) /\ live = Gone
      /\ writer = "compress" => Last.archive = Gone /\ Last.raw # Gone
      /\ writer \in {"describe", "remove"} => Last.archive # Gone
  BY <1>1 DEF RecordsInv, FilesInv, WorkInv, SegmentInv, Open_, Holds, Rotation, NoFile, Filling
<1>3. Last \in Parts
  <2>1. Len(segments) \in DOMAIN segments
    BY <1>2
  <2> QED
    BY <1>2, <2>1 DEF Last
<1>4. PICK segment \in Parts : /\ Changes(segment) /\ Lines(segment) = Lines(Last)
                               /\ segment.archive # Gone
  <2>1. CASE Compress
    <3> DEFINE raw == Last.raw
               segment == [Last EXCEPT !.archive = raw]
    <3>1. Changes(segment) /\ writer = "compress"
      BY <2>1 DEF Compress, Steps
    <3>2. segment.archive = raw /\ segment \in Parts
      BY <1>3 DEF Parts
    <3>3. Lines(segment) = raw /\ Lines(Last) = raw /\ raw # Gone
      <4>1. Lines(Last) = raw /\ raw # Gone
        BY <1>2, <3>1 DEF Lines
      <4> HIDE DEF segment, raw
      <4> QED
        BY <3>2, <4>1 DEF Lines
    <3> HIDE DEF segment, raw
    <3> QED
      BY <3>1, <3>2, <3>3
  <2>2. CASE Describe
    <3> DEFINE yes == TRUE
               segment == [Last EXCEPT !.metadata = yes]
    <3>1. Changes(segment) /\ writer = "describe" /\ yes \in BOOLEAN
      BY <2>2 DEF Describe, Steps
    <3> HIDE DEF yes
    <3>2. segment \in Parts /\ segment.archive = Last.archive /\ segment.raw = Last.raw
      BY <1>3, <3>1 DEF Parts
    <3>3. Lines(segment) = Lines(Last)
      BY <3>2 DEF Lines
    <3> QED
      BY <1>2, <3>1, <3>2, <3>3
  <2>3. CASE RemoveRaw
    <3> DEFINE gone == Gone
               segment == [Last EXCEPT !.raw = gone]
    <3>1. Changes(segment) /\ writer = "remove" /\ gone \in Seq(Nat)
      BY <2>3 DEF RemoveRaw, Steps, Gone
    <3> HIDE DEF gone
    <3>2. segment \in Parts /\ segment.archive = Last.archive
      BY <1>3, <3>1 DEF Parts
    <3>3. Lines(segment) = Lines(Last)
      BY <1>2, <3>1, <3>2 DEF Lines
    <3> QED
      BY <1>2, <3>1, <3>2, <3>3
  <2> QED
    BY <2>1, <2>2, <2>3
<1>5. /\ segments' \in Seq(Parts) /\ segments' # <<>> /\ Last' = segment
      /\ Tape(segments') = Tape(segments)
  BY <1>2, <1>4, SegmentChanges
<1>6. LiveLines' = LiveLines /\ Stored' = Stored /\ Taken' = Taken
  BY <1>1, <1>5 DEF LiveLines, Stored, Taken, Holds, Rotation
<1>7. FilesInv'
  <2>1. From(0, Tape(segments)') /\ From(Len(Tape(segments))', LiveLines')
    BY <1>5, <1>6 DEF RecordsInv, FilesInv
  <2> QED
    BY <1>1, <1>5, <2>1 DEF RecordsInv, FilesInv, Open_, Holds, Rotation
<1>8. WorkInv'
  BY <1>1, <1>6 DEF RecordsInv, WorkInv, Open_, Holds, Rotation, NoFile, Filling
<1>9. SegmentInv' /\ EndInv'
  BY <1>1, <1>4, <1>5 DEF SegmentInv, EndInv, Open_, Holds, Rotation
<1> QED
  BY <1>7, <1>8, <1>9 DEF RecordsInv

\* The new file, for the line that is held.
LEMMA ReopeningKeeps ==
    ASSUME RecordsInv, Reopen
    PROVE  RecordsInv'
<1>1. /\ writer = "reopen" /\ writer' = "write" /\ live' = <<>> /\ live = Gone
      /\ UNCHANGED <<channel, sending, held, buffer, segments, pending, written, sent, dropped>>
  BY DEF Reopen, Steps, RecordsInv, WorkInv, Open_, Holds, Rotation, NoFile, Filling
<1>2. LiveLines = <<>> /\ LiveLines' = <<>> /\ <<>> # Gone
  BY <1>1 DEF LiveLines, Gone
<1>3. Stored' = Stored /\ Taken' = Taken
  BY <1>1, <1>2 DEF Stored, Taken, Holds, Rotation
<1>4. FilesInv'
  BY <1>1, <1>2 DEF RecordsInv, FilesInv, Open_
<1>5. WorkInv'
  BY <1>1, <1>2, <1>3 DEF RecordsInv, WorkInv, Open_, Holds, Rotation, NoFile, Filling
<1> QED
  BY <1>1, <1>4, <1>5 DEF RecordsInv, EndInv, SegmentInv, Open_

\* The task ends, or the process: of the buffer some lines may have been written.
LEMMA LosingKeeps ==
    ASSUME RecordsInv, Fails \/ ProcessDies
    PROVE  RecordsInv'
<1>1. /\ writer \in Open_ /\ writer' \in {"failed", "dead"} /\ Loses
  BY DEF Fails, ProcessDies
<1>2. PICK n \in (IF writer \in Filling THEN 0 .. Len(buffer) ELSE {0}) :
         live' = live \o SubSeq(buffer, 1, n)
  BY <1>1 DEF Loses, Filling
<1>3. UNCHANGED <<segments, pending, written, sent, dropped>>
  BY <1>1 DEF Loses
<1>4. /\ Stored \in Nat /\ From(Stored, buffer) /\ written = Stored + Len(buffer)
      /\ Len(buffer) \in Nat /\ Len(buffer) <= pending /\ pending <= FlushEvery
      /\ written \in Nat /\ sent \in Nat /\ dropped \in Nat /\ pending \in Nat
      /\ Len(channel) \in Nat /\ sent = Taken + Len(channel) /\ Taken >= written
  BY <1>1, CountsAre DEF RecordsInv, FilesInv, WorkInv, From, Taken
<1>5. /\ segments' \in Seq(Parts) /\ From(0, Tape(segments)')
      /\ From(Len(Tape(segments))', LiveLines') /\ live' \in Seq(Nat)
      /\ Stored' \in Nat /\ Stored <= Stored' /\ Stored' <= written
  <2>1. CASE writer \in Filling
    <3>1. /\ live # Gone /\ LiveLines = live /\ live \in Seq(Nat)
          /\ Len(Tape(segments)) \in Nat /\ From(Len(Tape(segments)), live)
          /\ From(Len(Tape(segments)) + Len(live), buffer) /\ Len(live) \in Nat
      BY <2>1, FileIsOpen
    <3>2. n \in 0 .. Len(buffer)
      BY <1>2, <2>1
    <3>3. /\ From(Len(Tape(segments)) + Len(live), SubSeq(buffer, 1, n))
          /\ Len(SubSeq(buffer, 1, n)) = n
      BY <3>1, <3>2, StretchBegins
    <3>4. From(Len(Tape(segments)), live') /\ Len(live') = Len(live) + n
      BY <1>2, <3>1, <3>3, StretchesJoin
    <3>5. live' \in Seq(Nat)
      BY <3>4 DEF From
    <3>6. /\ Stored' = Len(Tape(segments)) + Len(live')
          /\ segments' \in Seq(Parts) /\ From(0, Tape(segments)')
          /\ From(Len(Tape(segments))', LiveLines')
      BY <1>3, <3>4, <3>5, FileStaysOpen
    <3>7. Stored = Len(Tape(segments)) + Len(live)
      BY <3>1 DEF Stored
    <3>8. Stored' = Stored + n /\ n \in Nat /\ n <= Len(buffer)
      BY <1>4, <3>1, <3>2, <3>4, <3>6, <3>7
    <3>9. Stored' \in Nat /\ Stored <= Stored' /\ Stored' <= written
      BY <1>4, <3>8
    <3> QED
      BY <3>5, <3>6, <3>9
  <2>2. CASE writer \notin Filling
    <3>1. buffer = <<>> /\ live \in Seq(Nat)
      BY <1>1, <2>2 DEF RecordsInv, WorkInv, FilesInv
    <3>2. SubSeq(buffer, 1, n) = <<>> /\ live' = live
      BY <1>2, <2>2, <3>1
    <3>3. LiveLines' = LiveLines /\ Stored' = Stored
      BY <1>3, <3>2 DEF LiveLines, Stored
    <3> QED
      BY <1>3, <1>4, <3>1, <3>2, <3>3 DEF RecordsInv, FilesInv
  <2> QED
    BY <2>1, <2>2
<1>6. FilesInv'
  BY <1>1, <1>3, <1>4, <1>5 DEF FilesInv
<1>7. EndInv'
  <2>1. written <= sent /\ written - Stored <= FlushEvery
    <3>1. FlushEvery \in Nat /\ Taken \in Nat
      BY WriterAssumption, CountsAre DEF RecordsInv
    <3> QED
      BY <1>4, <3>1
  <2>2. written' = written /\ sent' = sent
    BY <1>3
  <2>3. written - Stored' <= FlushEvery
    BY <1>4, <1>5, <2>1, WriterAssumption
  <2>4. written' - Stored' <= FlushEvery /\ Stored' <= written' /\ written' <= sent'
    BY <1>5, <2>1, <2>2, <2>3
  <2> QED
    BY <1>1, <2>4 DEF EndInv, Open_, Holds, Rotation
<1> QED
  BY <1>1, <1>6, <1>7 DEF RecordsInv, WorkInv, SegmentInv, Open_, Holds, Rotation

\* Every step of the engine and the writer.
LEMMA RecordsStep ==
    ASSUME RecordsInv, [RecordNext]_recordVars
    PROVE  RecordsInv'
<1>1. CASE RecordNext
  BY <1>1, SendingKeeps, OpeningKeeps, ReceivingKeeps, PuttingKeeps, FlushingKeeps, RenamingKeeps,
     ArchivingKeeps, ReopeningKeeps, LosingKeeps DEF RecordNext
<1>2. CASE UNCHANGED recordVars
  <2>1. LiveLines' = LiveLines /\ Stored' = Stored /\ Taken' = Taken /\ Last' = Last
    BY <1>2 DEF recordVars, LiveLines, Stored, Taken, Last
  <2> QED
    BY <1>2, <2>1 DEF recordVars, RecordsInv, FilesInv, WorkInv, EndInv, SegmentInv
<1> QED
  BY <1>1, <1>2

\* It contains what is claimed of the records.
LEMMA RecordsInvGivesThem ==
    ASSUME RecordsInv
    PROVE  RecordsKept
<1>1. /\ From(0, Readable) /\ Len(Readable) = Stored /\ Stored \in Nat
      /\ written \in Nat /\ sent \in Nat
  <2>1. From(0 + Len(Tape(segments)), LiveLines) /\ From(0, Tape(segments))
    BY CountsAre DEF RecordsInv, FilesInv
  <2>2. /\ From(0, Tape(segments) \o LiveLines)
        /\ Len(Tape(segments) \o LiveLines) = Len(Tape(segments)) + Len(LiveLines)
    BY <2>1, StretchesJoin
  <2> QED
    BY <2>2, CountsAre DEF Readable, Stored, RecordsInv, FilesInv
<1>2. Readable = [i \in 1 .. Len(Readable) |-> i]
  <2>1. Readable \in Seq(Nat) /\ \A i \in 1 .. Len(Readable) : Readable[i] = i
    BY <1>1 DEF From
  <2> QED
    BY <2>1
<1>3. Stored <= written /\ written <= sent /\ written - Stored <= FlushEvery
  <2>1. CASE writer \in Open_
    <3>1. /\ From(Stored, buffer) /\ written = Stored + Len(buffer)
          /\ Len(buffer) <= pending /\ pending <= FlushEvery
          /\ From(Taken, channel) /\ sent = Taken + Len(channel) /\ Taken >= written
          /\ pending \in Nat /\ Taken \in Nat
      BY <1>1, <2>1, CountsAre DEF RecordsInv, FilesInv, WorkInv, Taken
    <3>2. Len(buffer) \in Nat /\ Len(channel) \in Nat
      BY <3>1 DEF From
    <3> QED
      BY <1>1, <3>1, <3>2, WriterAssumption
  <2>2. CASE writer \notin Open_
    BY <2>2 DEF RecordsInv, EndInv
  <2> QED
    BY <2>1, <2>2
<1>4. writer = "done" => Len(Readable) = sent /\ written = sent /\ dropped = 0
  BY <1>1 DEF RecordsInv, EndInv
<1> QED
  BY <1>1, <1>2, <1>3, <1>4 DEF RecordsKept

\* Wherever in its work a writer fails or its process dies, in any rotation as well: what can
\* be read of the segments and the file is the lines that were sent, from the first on, in
\* order and once; no more than a flush interval is missing of what was counted, and nothing
\* of a writer that has ended well (runtime/io.rs, the line writer).
THEOREM RecordsStayKept == RecordSpec => []RecordsKept
<1>1. RecordInit => RecordsInv
  BY RecordsStart
<1>2. RecordsInv /\ [RecordNext]_recordVars => RecordsInv'
  BY RecordsStep
<1>3. RecordsInv => RecordsKept
  BY RecordsInvGivesThem
<1> QED
  BY <1>1, <1>2, <1>3, PTL DEF RecordSpec

-----------------------------------------------------------------------------
(* The audit file.  As long as no lock of a living process has been stolen,*)
(* who is inside has created the lock file that is there, and has a number *)
(* above every line.  Stolen or not, a line that cannot be read is paid    *)
(* for with a death, and a lost one with such a line.                      *)

SinkPlaces == {"idle", "lock", "break", "number", "write", "noted", "dead"}

\* What has been written, reported or not.
Appended == noted \cup {number[p] : p \in {q \in Writers : At(q, "noted")}}

AuditTypes ==
    /\ sink \in [Writers -> [at : SinkPlaces, tries : Nat]]
    /\ number \in [Writers -> Nat \ {0}]
    /\ guard \in [by : Writers \cup {"nobody"}, old : BOOLEAN]
    /\ log \in Seq(Nat) /\ torn \in BOOLEAN /\ stolen \in BOOLEAN
    /\ Appended \subseteq Nat /\ IsFiniteSet(Appended)

\* Who is under the lock has created it.
GuardInv == ~stolen => \A p \in Inside : guard.by = p

Increasing(lines) ==
    \A i, j \in DOMAIN lines : i < j /\ lines[i] # 0 /\ lines[j] # 0 => lines[i] < lines[j]
Below(lines, n) == \A i \in DOMAIN lines : lines[i] < n
Has(lines, n) == \E i \in DOMAIN lines : lines[i] = n

NumbersInv ==
    ~stolen => /\ Increasing(log)
               /\ \A p \in Writers : At(p, "write") => Below(log, number[p])

\* The lines that cannot be read, and the numbers that were written behind one of them.
Unread(lines) == {i \in DOMAIN lines : lines[i] = 0}
Lost == {n \in Appended : ~Has(log, n)}

LossesInv ==
    /\ Cardinality(Unread(log)) <= Cardinality(Dead)
    /\ Cardinality(Lost) + (IF torn THEN 1 ELSE 0) <= Cardinality(Unread(log))

AuditInv == AuditTypes /\ GuardInv /\ NumbersInv /\ LossesInv

OnlyMoves(p, where) ==
    /\ sink' \in [Writers -> [at : SinkPlaces, tries : Nat]] /\ sink'[p].at = where
    /\ \A q \in Writers : q # p => sink'[q] = sink[q]

\* Where the processes are after one of them has moved.
LEMMA Moved ==
    ASSUME AuditTypes, NEW p \in Writers, NEW where \in SinkPlaces, Reaches(p, where)
    PROVE  OnlyMoves(p, where)
<1> DEFINE moved == [sink[p] EXCEPT !.at = where]
<1>1. sink[p] \in [at : SinkPlaces, tries : Nat]
  BY DEF AuditTypes
<1>2. moved \in [at : SinkPlaces, tries : Nat] /\ moved.at = where
  BY <1>1
<1>3. sink' = [sink EXCEPT ![p] = moved]
  BY DEF Reaches
<1> HIDE DEF moved
<1> QED
  BY <1>2, <1>3 DEF AuditTypes, OnlyMoves

\* Those inside exclude one another.
LEMMA Alone ==
    ASSUME GuardInv, ~stolen, NEW p \in Inside
    PROVE  guard.by = p /\ \A q \in Writers : q # p => q \notin Inside
  BY DEF GuardInv

\* The counts, as numbers.
LEMMA CountsOfLines ==
    ASSUME AuditTypes
    PROVE  /\ IsFiniteSet(Dead) /\ Cardinality(Dead) \in Nat
           /\ IsFiniteSet(Unread(log)) /\ Cardinality(Unread(log)) \in Nat
           /\ IsFiniteSet(Lost) /\ Cardinality(Lost) \in Nat
           /\ IsFiniteSet(Appended)
<1>1. IsFiniteSet(Dead)
  BY WritersAssumption, FS_Subset DEF Dead
<1>2. IsFiniteSet(Unread(log))
  <2>1. DOMAIN log = 1 .. Len(log) /\ Len(log) \in Nat
    BY DEF AuditTypes
  <2>2. IsFiniteSet(1 .. Len(log))
    BY <2>1, FS_Interval
  <2> QED
    BY <2>1, <2>2, FS_Subset DEF Unread
<1>3. IsFiniteSet(Appended)
  BY DEF AuditTypes
<1>4. IsFiniteSet(Lost)
  BY <1>3, FS_Subset DEF Lost
<1> QED
  BY <1>1, <1>2, <1>3, <1>4, FS_CardinalityType

\* An audit file that is not there yet.
LEMMA AuditStarts ==
    ASSUME AuditInit
    PROVE  AuditInv
<1>1. \A p \in Writers : sink[p] = AtRest /\ sink[p].at = "idle"
  BY DEF AuditInit, AtRest
<1>2. /\ Dead = {} /\ Inside = {} /\ Appended = {} /\ Lost = {}
      /\ Unread(log) = {}
  BY <1>1 DEF Dead, Inside, Appended, Lost, Unread, At, AuditInit
<1>3. IsFiniteSet({}) /\ Cardinality({}) = 0
  BY FS_EmptySet
<1>4. AuditTypes
  <2>1. guard \in [by : Writers \cup {"nobody"}, old : BOOLEAN]
    BY DEF AuditInit, NoGuard
  <2>2. AtRest \in [at : SinkPlaces, tries : Nat]
    BY DEF AtRest, SinkPlaces
  <2>3. sink \in [Writers -> [at : SinkPlaces, tries : Nat]]
    BY <2>2 DEF AuditInit
  <2>4. log \in Seq(Nat) /\ number \in [Writers -> Nat \ {0}]
    BY DEF AuditInit
  <2>5. torn \in BOOLEAN /\ stolen \in BOOLEAN
    BY DEF AuditInit
  <2> QED
    BY <1>2, <1>3, <2>1, <2>3, <2>4, <2>5 DEF AuditTypes
<1>5. GuardInv /\ NumbersInv
  BY <1>1, <1>2 DEF AuditInit, GuardInv, NumbersInv, NoGuard, Increasing, At
<1>6. LossesInv
  <2>1. ~torn
    BY DEF AuditInit
  <2> QED
    BY <1>2, <1>3, <2>1 DEF LossesInv
<1> QED
  BY <1>4, <1>5, <1>6 DEF AuditInv

\* It contains what is claimed of the sequence.
LEMMA InvGivesSequence ==
    ASSUME AuditInv
    PROVE  SequenceIsKept
<1>1. Cardinality(Unread(log)) <= Cardinality(Dead)
  BY DEF AuditInv, LossesInv
<1> DEFINE unheard == {n \in noted : \A i \in DOMAIN log : log[i] # n}
<1>2. Cardinality(unheard) <= Cardinality(Dead)
  <2>1. unheard \subseteq Lost
    BY DEF Lost, Appended, Has
  <2> HIDE DEF unheard
  <2>2. IsFiniteSet(Lost) /\ Cardinality(Lost) \in Nat /\ Cardinality(Dead) \in Nat
        /\ Cardinality(Unread(log)) \in Nat
    BY CountsOfLines DEF AuditInv
  <2>3. Cardinality(unheard) <= Cardinality(Lost) /\ IsFiniteSet(unheard)
    BY <2>1, <2>2, FS_Subset
  <2>4. Cardinality(unheard) \in Nat
    BY <2>3, FS_CardinalityType
  <2>5. Cardinality(Lost) <= Cardinality(Unread(log))
    BY <2>2 DEF AuditInv, LossesInv
  <2> QED
    BY <1>1, <2>2, <2>3, <2>4, <2>5
<1>3. ~stolen => Increasing(log)
  BY DEF AuditInv, NumbersInv
<1> QED
  BY <1>1, <1>2, <1>3 DEF SequenceIsKept, Unread, Increasing

-----------------------------------------------------------------------------
\* A step that neither writes nor kills: only where a process is, and the lock file.  Who
\* reports goes on to the next number.
LEMMA QuietKeeps ==
    ASSUME AuditTypes, NumbersInv, LossesInv, NEW p \in Writers, NEW where \in SinkPlaces,
           OnlyMoves(p, where),
           guard' \in [by : Writers \cup {"nobody"}, old : BOOLEAN],
           where \notin {"write", "noted", "dead"}, ~At(p, "dead"), ~At(p, "noted"),
           UNCHANGED <<log, torn, number, noted>>, stolen' \in BOOLEAN, stolen => stolen'
    PROVE  /\ AuditTypes' /\ NumbersInv' /\ LossesInv'
           /\ Dead' = Dead /\ sink'[p].at = where
           /\ \A q \in Writers : q # p => sink'[q] = sink[q]
<1>1. /\ sink' \in [Writers -> [at : SinkPlaces, tries : Nat]] /\ sink'[p].at = where
      /\ \A q \in Writers : q # p => sink'[q] = sink[q]
  BY DEF OnlyMoves
<1>2. Dead' = Dead
  BY <1>1 DEF Dead, At
<1>3. {q \in Writers : sink'[q].at = "noted"} = {q \in Writers : sink[q].at = "noted"}
  BY <1>1 DEF At
<1>4. Appended' = Appended
  BY <1>3 DEF Appended, At
<1>5. Lost' = Lost
  BY <1>4 DEF Lost
<1>6. AuditTypes'
  BY <1>1, <1>4 DEF AuditTypes
<1>7. NumbersInv'
  BY <1>1 DEF NumbersInv, At
<1>8. LossesInv'
  BY <1>2, <1>5 DEF LossesInv
<1> QED
  BY <1>1, <1>2, <1>6, <1>7, <1>8

\* A transition is emitted, or given up.
LEMMA EmitKeeps ==
    ASSUME AuditInv, NEW p \in Writers, Emit(p)
    PROVE  AuditInv'
<1> DEFINE waiting == [at |-> "lock", tries |-> 0]
<1>1. /\ At(p, "idle") /\ sink' = [sink EXCEPT ![p] = waiting]
      /\ UNCHANGED <<log, torn, guard, number, noted, stolen>>
  BY DEF Emit
<1>2. waiting \in [at : SinkPlaces, tries : Nat] /\ waiting.at = "lock"
  BY DEF SinkPlaces
<1> HIDE DEF waiting
<1>3. /\ sink' \in [Writers -> [at : SinkPlaces, tries : Nat]] /\ sink'[p].at = "lock"
      /\ \A q \in Writers : q # p => sink'[q] = sink[q]
      /\ OnlyMoves(p, "lock")
  BY <1>1, <1>2 DEF AuditInv, AuditTypes, OnlyMoves
<1>4. AuditTypes' /\ NumbersInv' /\ LossesInv' /\ Dead' = Dead
  <2>1. "lock" \in SinkPlaces /\ ~At(p, "dead") /\ ~At(p, "noted")
    BY <1>1 DEF SinkPlaces, At
  <2>2. guard' \in [by : Writers \cup {"nobody"}, old : BOOLEAN] /\ stolen' \in BOOLEAN
    BY <1>1 DEF AuditInv, AuditTypes
  <2> QED
    BY <1>1, <1>3, <2>1, <2>2, QuietKeeps DEF AuditInv
<1>5. Inside' = Inside
  BY <1>1, <1>3 DEF Inside, At
<1>6. GuardInv'
  BY <1>1, <1>4, <1>5 DEF AuditInv, GuardInv
<1> QED
  BY <1>4, <1>6 DEF AuditInv

\* acquire(): the lock is created, or looked at, or given up.
LEMMA LockKeeps ==
    ASSUME AuditInv, NEW p \in Writers, Lock(p)
    PROVE  AuditInv'
<1>1. At(p, "lock") /\ UNCHANGED <<log, torn, number, noted, stolen>> /\ stolen' \in BOOLEAN
  BY DEF Lock, AuditInv, AuditTypes
<1>2. ~At(p, "dead") /\ ~At(p, "noted") /\ p \notin Inside
  BY <1>1 DEF At, Inside
<1>3. CASE guard = NoGuard /\ guard' = [by |-> p, old |-> FALSE] /\ Reaches(p, "number")
  <2>1. guard' \in [by : Writers \cup {"nobody"}, old : BOOLEAN] /\ "number" \in SinkPlaces
    BY <1>3 DEF SinkPlaces
  <2>2. /\ AuditTypes' /\ NumbersInv' /\ LossesInv'
        /\ Dead' = Dead /\ sink'[p].at = "number"
        /\ \A q \in Writers : q # p => sink'[q] = sink[q]
    BY <1>1, <1>2, <1>3, <2>1, Moved, QuietKeeps DEF AuditInv
  <2>3. ~stolen => Inside = {}
    BY <1>3, WritersAssumption DEF AuditInv, GuardInv, NoGuard, Inside
  <2>4. ~stolen => Inside' = {p}
    BY <2>2, <2>3 DEF Inside
  <2>5. GuardInv'
    BY <1>1, <1>3, <2>4 DEF GuardInv
  <2> QED
    BY <2>2, <2>5 DEF AuditInv
<1>4. CASE UNCHANGED guard /\ Reaches(p, "idle")
  <2>1. guard' \in [by : Writers \cup {"nobody"}, old : BOOLEAN] /\ "idle" \in SinkPlaces
    BY <1>4 DEF SinkPlaces, AuditInv, AuditTypes
  <2>2. /\ AuditTypes' /\ NumbersInv' /\ LossesInv'
        /\ Dead' = Dead /\ sink'[p].at = "idle"
        /\ \A q \in Writers : q # p => sink'[q] = sink[q]
    BY <1>1, <1>2, <1>4, <2>1, Moved, QuietKeeps DEF AuditInv
  <2>3. Inside' = Inside
    BY <1>2, <2>2 DEF Inside, At
  <2>4. GuardInv'
    BY <1>1, <1>4, <2>3 DEF AuditInv, GuardInv
  <2> QED
    BY <2>2, <2>4 DEF AuditInv
<1>5. ASSUME UNCHANGED guard, NEW where \in {"break", "lock"},
             sink' = [sink EXCEPT ![p] = [at |-> where, tries |-> @.tries + 1]]
      PROVE  AuditInv'
  <2> DEFINE next == [at |-> where, tries |-> sink[p].tries + 1]
  <2>1. next \in [at : SinkPlaces, tries : Nat] /\ next.at = where
    <3>1. sink[p].tries \in Nat
      BY DEF AuditInv, AuditTypes
    <3> QED
      BY <3>1 DEF SinkPlaces
  <2>2. sink' = [sink EXCEPT ![p] = next]
    BY <1>5
  <2> HIDE DEF next
  <2>3. /\ sink' \in [Writers -> [at : SinkPlaces, tries : Nat]] /\ sink'[p].at = where
        /\ \A q \in Writers : q # p => sink'[q] = sink[q]
        /\ OnlyMoves(p, where)
    BY <2>1, <2>2 DEF AuditInv, AuditTypes, OnlyMoves
  <2>4. AuditTypes' /\ NumbersInv' /\ LossesInv' /\ Dead' = Dead
    <3>1. where \in SinkPlaces /\ where \notin {"write", "noted", "dead"}
      BY DEF SinkPlaces
    <3>2. guard' \in [by : Writers \cup {"nobody"}, old : BOOLEAN]
      BY <1>5 DEF AuditInv, AuditTypes
    <3> QED
      BY <1>1, <1>2, <2>3, <3>1, <3>2, Moved, QuietKeeps DEF AuditInv
  <2>5. Inside' = Inside
    BY <1>2, <2>3 DEF Inside, At
  <2>6. GuardInv'
    BY <1>1, <1>5, <2>5 DEF AuditInv, GuardInv
  <2> QED
    BY <2>4, <2>6 DEF AuditInv
<1> QED
  <2>1. CASE guard = NoGuard
    BY <1>3, <2>1 DEF Lock
  <2>2. CASE guard # NoGuard /\ sink[p].tries = MaxTries
    BY <1>4, <2>2 DEF Lock
  <2>3. CASE guard # NoGuard /\ sink[p].tries # MaxTries /\ guard.old
    BY <1>5, <2>3 DEF Lock
  <2>4. CASE guard # NoGuard /\ sink[p].tries # MaxTries /\ ~guard.old
    BY <1>5, <2>4 DEF Lock
  <2> QED
    BY <2>1, <2>2, <2>3, <2>4

\* The lock file is removed by the one who found one that was old.
LEMMA BreakKeeps ==
    ASSUME AuditInv, NEW p \in Writers, Break(p)
    PROVE  AuditInv'
<1>1. /\ At(p, "break") /\ Reaches(p, "lock") /\ guard' = NoGuard
      /\ stolen' = (stolen \/ guard.by \in Writers \ Dead)
      /\ UNCHANGED <<log, torn, number, noted>>
  BY DEF Break
<1>2. ~At(p, "dead") /\ ~At(p, "noted")
  BY <1>1 DEF At
<1>3. AuditTypes' /\ NumbersInv' /\ LossesInv'
      /\ sink'[p].at = "lock" /\ \A q \in Writers : q # p => sink'[q] = sink[q]
  <2>1. guard' \in [by : Writers \cup {"nobody"}, old : BOOLEAN] /\ "lock" \in SinkPlaces
    BY <1>1 DEF SinkPlaces, NoGuard
  <2>2. stolen' \in BOOLEAN /\ (stolen => stolen')
    BY <1>1
  <2> QED
    BY <1>1, <1>2, <2>1, <2>2, Moved, QuietKeeps DEF AuditInv
<1>4. ASSUME ~stolen' PROVE Inside' = {}
  <2>1. ~stolen /\ guard.by \notin Writers \ Dead
    BY <1>1, <1>4
  <2>2. \A q \in Inside : guard.by = q /\ q \in Writers \ Dead
    BY <2>1 DEF AuditInv, GuardInv, Inside, Dead
  <2>3. Inside = {}
    BY <2>1, <2>2
  <2> QED
    BY <1>3, <2>3 DEF Inside
<1>5. GuardInv'
  BY <1>4 DEF GuardInv
<1> QED
  BY <1>3, <1>5 DEF AuditInv

\* An error while under the lock: it is removed.
LEMMA ErrsKeeps ==
    ASSUME AuditInv, NEW p \in Writers, Errs(p)
    PROVE  AuditInv'
<1>1. /\ sink[p].at \in {"number", "write"} /\ Reaches(p, "idle") /\ guard' = NoGuard
      /\ UNCHANGED <<log, torn, number, noted, stolen>> /\ stolen' \in BOOLEAN
  BY DEF Errs, AuditInv, AuditTypes
<1>2. p \in Inside /\ ~At(p, "dead") /\ ~At(p, "noted")
  BY <1>1 DEF At, Inside
<1>3. ~stolen => \A q \in Writers : q # p => q \notin Inside
  BY <1>2, Alone DEF AuditInv
<1>4. /\ AuditTypes' /\ NumbersInv' /\ LossesInv'
      /\ Dead' = Dead /\ sink'[p].at = "idle"
      /\ \A q \in Writers : q # p => sink'[q] = sink[q]
  <2>1. guard' \in [by : Writers \cup {"nobody"}, old : BOOLEAN] /\ "idle" \in SinkPlaces
    BY <1>1 DEF SinkPlaces, NoGuard
  <2> QED
    BY <1>1, <1>2, <2>1, Moved, QuietKeeps DEF AuditInv
<1>5. ~stolen => Inside' = {}
  BY <1>3, <1>4 DEF Inside
<1>6. GuardInv'
  BY <1>1, <1>5 DEF GuardInv
<1> QED
  BY <1>4, <1>6 DEF AuditInv

\* Of some lines there is a last one.
LEMMA LastIsThere ==
    ASSUME log \in Seq(Nat), NEW read, read \subseteq DOMAIN log, read # {}
    PROVE  \E i \in read : \A j \in read : j <= i
<1> DEFINE l == Len(log)
           T == {n \in Nat : \A j \in read : j <= l - n}
<1>0. DOMAIN log = 1 .. Len(log) /\ Len(log) \in Nat
  OBVIOUS
<1> SUFFICES ASSUME \A i \in read : \E j \in read : j > i PROVE FALSE
  BY <1>0
<1>1. l \in Nat /\ \A j \in read : j \in Nat /\ 1 <= j /\ j <= l
  BY <1>0
<1> HIDE DEF l
<1>2. 0 \in T
  BY <1>1
<1>3. ASSUME NEW n \in Nat, n \in T PROVE n + 1 \in T
  <2>1. \A j \in read : j <= l - n
    BY <1>3
  <2>2. ASSUME NEW j \in read PROVE j <= l - (n + 1)
    <3>1. PICK k \in read : k > j
      OBVIOUS
    <3>2. k <= l - n /\ k \in Nat /\ j \in Nat
      BY <1>1, <2>1, <3>1
    <3> QED
      BY <1>1, <3>1, <3>2
  <2> QED
    BY <2>2
<1> HIDE DEF T
<1>4. l \in T
  BY <1>1, <1>2, <1>3, Induction
<1>5. PICK i \in read : TRUE
  OBVIOUS
<1>6. i <= l - l
  BY <1>4, <1>5 DEF T
<1> QED
  BY <1>1, <1>5, <1>6

\* What persisted_next_sequence() finds.
LEMMA PersistedIs ==
    ASSUME log \in Seq(Nat)
    PROVE  \/ Persisted = 1 /\ \A i \in DOMAIN log : log[i] = 0
           \/ \E last \in DOMAIN log :
                 /\ log[last] # 0 /\ Persisted = log[last] + 1
                 /\ \A j \in DOMAIN log : log[j] # 0 => j <= last
<1> DEFINE read == {i \in DOMAIN log : log[i] # 0}
<1>1. CASE read = {}
  BY <1>1 DEF Persisted
<1>2. CASE read # {}
  <2> DEFINE last == CHOOSE i \in read : \A j \in read : j <= i
  <2>1. last \in read /\ \A j \in read : j <= last
    <3>1. \E i \in read : \A j \in read : j <= i
      <4>1. read \subseteq DOMAIN log
        OBVIOUS
      <4> HIDE DEF read
      <4> QED
        BY <1>2, <4>1, LastIsThere
    <3> QED
      BY <3>1
  <2>2. Persisted = log[last] + 1
    BY <1>2 DEF Persisted
  <2> HIDE DEF last
  <2> QED
    BY <2>1, <2>2
<1> QED
  BY <1>1, <1>2

\* It is a number.
LEMMA PersistedIsNumber ==
    ASSUME log \in Seq(Nat)
    PROVE  Persisted \in Nat \ {0}
<1>1. \A i \in DOMAIN log : log[i] \in Nat
  OBVIOUS
<1> QED
  BY <1>1, PersistedIs

\* It is above every line when they are numbered upwards.
LEMMA PersistedIsAbove ==
    ASSUME log \in Seq(Nat), Increasing(log)
    PROVE  Below(log, Persisted)
<1>1. DOMAIN log = 1 .. Len(log) /\ Len(log) \in Nat /\ \A i \in DOMAIN log : log[i] \in Nat
  OBVIOUS
<1>2. CASE Persisted = 1 /\ \A i \in DOMAIN log : log[i] = 0
  BY <1>2 DEF Below
<1>3. ASSUME NEW last \in DOMAIN log, log[last] # 0, Persisted = log[last] + 1,
             \A j \in DOMAIN log : log[j] # 0 => j <= last
      PROVE  Below(log, Persisted)
  <2>1. log[last] \in Nat
    BY <1>1
  <2>2. ASSUME NEW i \in DOMAIN log PROVE log[i] < log[last] + 1
    <3>1. CASE log[i] = 0
      BY <2>1, <3>1
    <3>2. CASE log[i] # 0 /\ i # last
      <4>1. i < last
        BY <1>1, <1>3, <3>2
      <4>2. log[i] < log[last]
        BY <1>3, <3>2, <4>1 DEF Increasing
      <4> QED
        BY <1>1, <2>1, <4>2
    <3>3. CASE i = last
      BY <2>1, <3>3
    <3> QED
      BY <3>1, <3>2, <3>3
  <2> QED
    BY <1>3, <2>2 DEF Below
<1> QED
  BY <1>2, <1>3, PersistedIs

\* persisted_next_sequence(), under the lock.
LEMMA NumberKeeps ==
    ASSUME AuditInv, NEW p \in Writers, Number(p)
    PROVE  AuditInv'
<1>1. /\ At(p, "number") /\ Reaches(p, "write")
      /\ number' = [number EXCEPT ![p] = Numbered(p)]
      /\ UNCHANGED <<log, torn, guard, noted, stolen>>
  BY DEF Number
<1>2. OnlyMoves(p, "write")
  <2>1. "write" \in SinkPlaces
    BY DEF SinkPlaces
  <2> QED
    BY <1>1, <2>1, Moved DEF AuditInv
<1>3. /\ sink' \in [Writers -> [at : SinkPlaces, tries : Nat]] /\ sink'[p].at = "write"
      /\ \A q \in Writers : q # p => sink'[q] = sink[q]
  BY <1>2 DEF OnlyMoves
<1>4. /\ log \in Seq(Nat) /\ number[p] \in Nat \ {0} /\ DOMAIN number = Writers
      /\ ~stolen => Increasing(log)
  BY DEF AuditInv, AuditTypes, NumbersInv
<1>5. /\ Numbered(p) \in Nat \ {0}
      /\ ~stolen => Below(log, Numbered(p))
  <2>1. Persisted \in Nat \ {0}
    BY <1>4, PersistedIsNumber
  <2>2. ~stolen => Below(log, Persisted)
    BY <1>4, PersistedIsAbove
  <2>3. \A i \in DOMAIN log : log[i] \in Nat
    BY <1>4
  <2> QED
    BY <1>4, <2>1, <2>2, <2>3 DEF Numbered, Below
<1>6. /\ number' \in [Writers -> Nat \ {0}] /\ number'[p] = Numbered(p)
      /\ \A q \in Writers : q # p => number'[q] = number[q]
  BY <1>1, <1>4, <1>5 DEF AuditInv, AuditTypes
<1>7. Appended' = Appended /\ Lost' = Lost /\ Dead' = Dead /\ Inside' = Inside
  <2>1. \A q \in Writers : /\ sink'[q].at = "noted" <=> sink[q].at = "noted"
                           /\ sink'[q].at = "dead" <=> sink[q].at = "dead"
                           /\ q \in Inside' <=> q \in Inside
    BY <1>1, <1>3 DEF At, Inside
  <2>2. {number'[q] : q \in {r \in Writers : sink'[r].at = "noted"}}
          = {number[q] : q \in {r \in Writers : sink[r].at = "noted"}}
    BY <1>1, <1>6, <2>1 DEF At
  <2>3. Appended' = Appended
    BY <1>1, <2>2 DEF Appended, At
  <2>4. Lost' = Lost
    BY <1>1, <2>3 DEF Lost
  <2>5. Dead' = Dead
    BY <2>1 DEF Dead, At
  <2>6. Inside' = Inside
    BY <2>1 DEF Inside
  <2> QED
    BY <2>3, <2>4, <2>5, <2>6
<1>8. AuditTypes'
  BY <1>1, <1>3, <1>6, <1>7 DEF AuditInv, AuditTypes
<1>9. GuardInv'
  BY <1>1, <1>7 DEF AuditInv, GuardInv
<1>10. NumbersInv'
  BY <1>1, <1>3, <1>4, <1>5, <1>6 DEF AuditInv, NumbersInv, At
<1>11. LossesInv'
  BY <1>1, <1>7 DEF AuditInv, LossesInv
<1> QED
  BY <1>8, <1>9, <1>10, <1>11 DEF AuditInv

\* One more line: what is known of the lines.
LEMMA LineIsAppended ==
    ASSUME NEW lines \in Seq(Nat), NEW n \in Nat
    PROVE  /\ Append(lines, n) \in Seq(Nat)
           /\ Increasing(lines) /\ (n = 0 \/ Below(lines, n)) => Increasing(Append(lines, n))
           /\ \A m \in Nat : Below(lines, m) /\ n < m => Below(Append(lines, n), m)
           /\ \A m : Has(Append(lines, n), m) <=> Has(lines, m) \/ m = n
           /\ n # 0 => Unread(Append(lines, n)) = Unread(lines)
           /\ n = 0 => Unread(Append(lines, n)) = Unread(lines) \cup {Len(lines) + 1}
           /\ Len(lines) + 1 \notin Unread(lines)
<1> DEFINE more == Append(lines, n)
           l == Len(lines)
<1>1. /\ l \in Nat /\ DOMAIN lines = 1 .. l /\ DOMAIN more = 1 .. l + 1 /\ more \in Seq(Nat)
      /\ more[l + 1] = n /\ \A i \in 1 .. l : more[i] = lines[i]
      /\ \A i \in 1 .. l : lines[i] \in Nat
  OBVIOUS
<1>2. \A i \in 1 .. l + 1 : i \in 1 .. l \/ i = l + 1
  BY <1>1
<1>3. l + 1 \in 1 .. l + 1 /\ \A i \in 1 .. l : i \in 1 .. l + 1 /\ i < l + 1 /\ i # l + 1
  BY <1>1
<1> HIDE DEF more, l
<1>4. Increasing(lines) /\ (n = 0 \/ Below(lines, n)) => Increasing(more)
  <2> SUFFICES ASSUME Increasing(lines), n = 0 \/ Below(lines, n),
                      NEW i \in 1 .. l + 1, NEW j \in 1 .. l + 1, i < j, more[i] # 0, more[j] # 0
               PROVE  more[i] < more[j]
    BY <1>1 DEF Increasing
  <2>1. i \in 1 .. l
    BY <1>1
  <2>2. CASE j \in 1 .. l
    BY <1>1, <2>1, <2>2 DEF Increasing
  <2>3. CASE j = l + 1
    BY <1>1, <2>1, <2>3 DEF Below
  <2> QED
    BY <1>2, <2>2, <2>3
<1>5. \A m \in Nat : Below(lines, m) /\ n < m => Below(more, m)
  BY <1>1, <1>2 DEF Below
<1>6. \A m : Has(more, m) <=> Has(lines, m) \/ m = n
  BY <1>1, <1>2, <1>3 DEF Has
<1>7. n # 0 => Unread(more) = Unread(lines)
  BY <1>1, <1>2, <1>3 DEF Unread
<1>8. n = 0 => Unread(more) = Unread(lines) \cup {l + 1}
  BY <1>1, <1>2, <1>3 DEF Unread
<1>9. l + 1 \notin Unread(lines)
  BY <1>1, <1>3 DEF Unread
<1> QED
  BY <1>1, <1>4, <1>5, <1>6, <1>7, <1>8, <1>9 DEF more, l

\* The line is written, or lost behind a torn one.
LEMMA WriteLineKeeps ==
    ASSUME AuditInv, NEW p \in Writers, WriteLine(p)
    PROVE  AuditInv'
<1> DEFINE n == number[p]
<1>1. /\ At(p, "write") /\ Reaches(p, "noted") /\ ~torn'
      /\ log' = IF torn THEN log ELSE Append(log, n)
      /\ UNCHANGED <<guard, number, noted, stolen>>
  BY DEF WriteLine
<1>2. OnlyMoves(p, "noted")
  <2>1. "noted" \in SinkPlaces
    BY DEF SinkPlaces
  <2> QED
    BY <1>1, <2>1, Moved DEF AuditInv
<1>3. /\ sink' \in [Writers -> [at : SinkPlaces, tries : Nat]] /\ sink'[p].at = "noted"
      /\ \A q \in Writers : q # p => sink'[q] = sink[q]
  BY <1>2 DEF OnlyMoves
<1>4. /\ log \in Seq(Nat) /\ n \in Nat \ {0}
      /\ ~stolen => Increasing(log) /\ Below(log, n)
      /\ Appended \subseteq Nat /\ IsFiniteSet(Appended)
  BY <1>1 DEF AuditInv, AuditTypes, NumbersInv
<1>5. ~stolen => \A q \in Writers : q # p => q \notin Inside
  <2>1. p \in Inside
    BY <1>1 DEF At, Inside
  <2> QED
    BY <2>1, Alone DEF AuditInv
<1>6. Dead' = Dead /\ Inside' = Inside
  BY <1>1, <1>3 DEF At, Inside, Dead
<1>7. Appended' = Appended \cup {n}
  <2>1. {q \in Writers : sink'[q].at = "noted"} = {q \in Writers : At(q, "noted")} \cup {p}
    BY <1>3 DEF At
  <2> QED
    BY <1>1, <2>1 DEF Appended, At
<1> HIDE DEF n
<1>8. /\ log' \in Seq(Nat)
      /\ ~stolen => Increasing(log')
  BY <1>1, <1>4, LineIsAppended
<1>9. AuditTypes'
  <2>1. IsFiniteSet(Appended') /\ Appended' \subseteq Nat
    BY <1>4, <1>7, FS_AddElement
  <2>2. torn' \in BOOLEAN
    BY DEF WriteLine
  <2> QED
    BY <1>1, <1>3, <1>8, <2>1, <2>2 DEF AuditInv, AuditTypes
<1>10. GuardInv'
  BY <1>1, <1>6 DEF AuditInv, GuardInv
<1>11. NumbersInv'
  <2>1. ~stolen => \A q \in Writers : sink'[q].at # "write"
    BY <1>3, <1>5 DEF Inside
  <2> QED
    BY <1>1, <1>8, <2>1 DEF NumbersInv, At
<1>12. LossesInv'
  <2>1. /\ IsFiniteSet(Lost) /\ Cardinality(Lost) \in Nat
        /\ Cardinality(Unread(log)) \in Nat /\ Cardinality(Dead) \in Nat
        /\ Cardinality(Unread(log)) <= Cardinality(Dead)
        /\ Cardinality(Lost) + (IF torn THEN 1 ELSE 0) <= Cardinality(Unread(log))
    BY CountsOfLines DEF AuditInv, LossesInv
  <2>2. CASE torn
    <3>1. log' = log
      BY <1>1, <2>2
    <3>2. Lost' \subseteq Lost \cup {n}
      BY <1>7, <3>1 DEF Lost
    <3>3. IsFiniteSet(Lost \cup {n}) /\ Cardinality(Lost \cup {n}) <= Cardinality(Lost) + 1
      <4>1. /\ IsFiniteSet(Lost \cup {n})
            /\ Cardinality(Lost \cup {n})
                 = IF n \in Lost THEN Cardinality(Lost) ELSE Cardinality(Lost) + 1
        BY <2>1, FS_AddElement
      <4> QED
        BY <2>1, <4>1
    <3>4. IsFiniteSet(Lost') /\ Cardinality(Lost') <= Cardinality(Lost) + 1
      <4>1. IsFiniteSet(Lost') /\ Cardinality(Lost') <= Cardinality(Lost \cup {n})
        BY <3>2, <3>3, FS_Subset
      <4>2. Cardinality(Lost') \in Nat /\ Cardinality(Lost \cup {n}) \in Nat
        BY <3>3, <4>1, FS_CardinalityType
      <4> QED
        BY <2>1, <3>3, <4>1, <4>2
    <3>5. Cardinality(Lost') \in Nat
      BY <3>4, FS_CardinalityType
    <3> QED
      BY <1>1, <1>6, <2>1, <2>2, <3>1, <3>4, <3>5 DEF LossesInv
  <2>3. CASE ~torn
    <3>1. log' = Append(log, n) /\ n # 0
      BY <1>1, <1>4, <2>3
    <3>2. Unread(log') = Unread(log) /\ \A m : Has(log', m) <=> Has(log, m) \/ m = n
      BY <1>4, <3>1, LineIsAppended
    <3>3. Lost' \subseteq Lost
      BY <1>7, <3>2 DEF Lost
    <3>4. IsFiniteSet(Lost') /\ Cardinality(Lost') <= Cardinality(Lost)
      BY <2>1, <3>3, FS_Subset
    <3>5. Cardinality(Lost') \in Nat
      BY <3>4, FS_CardinalityType
    <3> QED
      BY <1>1, <1>6, <2>1, <2>3, <3>2, <3>4, <3>5 DEF LossesInv
  <2> QED
    BY <2>2, <2>3
<1> QED
  BY <1>9, <1>10, <1>11, <1>12 DEF AuditInv

\* The append is reported, and the lock removed.
LEMMA NoteKeeps ==
    ASSUME AuditInv, NEW p \in Writers, Note(p)
    PROVE  AuditInv'
<1>1. /\ At(p, "noted") /\ Reaches(p, "idle") /\ noted' = noted \cup {number[p]}
      /\ number' = [number EXCEPT ![p] = @ + 1] /\ guard' = NoGuard
      /\ UNCHANGED <<log, torn, stolen>>
  BY DEF Note
<1>2. OnlyMoves(p, "idle")
  <2>1. "idle" \in SinkPlaces
    BY DEF SinkPlaces
  <2> QED
    BY <1>1, <2>1, Moved DEF AuditInv
<1>3. /\ sink' \in [Writers -> [at : SinkPlaces, tries : Nat]] /\ sink'[p].at = "idle"
      /\ \A q \in Writers : q # p => sink'[q] = sink[q]
  BY <1>2 DEF OnlyMoves
<1>4. ~stolen => \A q \in Writers : q # p => q \notin Inside
  <2>1. p \in Inside
    BY <1>1 DEF At, Inside
  <2> QED
    BY <2>1, Alone DEF AuditInv
<1>5. Dead' = Dead /\ Inside' = Inside \ {p}
  BY <1>1, <1>3 DEF At, Inside, Dead
<1>6. /\ number' \in [Writers -> Nat \ {0}]
      /\ \A q \in Writers : q # p => number'[q] = number[q]
  <2>1. number \in [Writers -> Nat \ {0}] /\ number[p] + 1 \in Nat \ {0}
    BY DEF AuditInv, AuditTypes
  <2> QED
    BY <1>1, <2>1
<1>7. Appended' = Appended
  <2>1. {q \in Writers : At(q, "noted")} = {q \in Writers : sink'[q].at = "noted"} \cup {p}
    BY <1>1, <1>3 DEF At
  <2>2. p \notin {q \in Writers : sink'[q].at = "noted"}
    BY <1>3
  <2> QED
    BY <1>1, <1>6, <2>1, <2>2 DEF Appended, At
<1>8. Lost' = Lost
  BY <1>1, <1>7 DEF Lost
<1>9. guard' \in [by : Writers \cup {"nobody"}, old : BOOLEAN]
  BY <1>1 DEF NoGuard
<1>10. AuditTypes'
  BY <1>1, <1>3, <1>6, <1>7, <1>9 DEF AuditInv, AuditTypes
<1>11. GuardInv'
  <2>1. ~stolen => Inside' = {}
    BY <1>4, <1>5 DEF Inside
  <2> QED
    BY <1>1, <2>1 DEF GuardInv
<1>12. NumbersInv'
  <2>1. ~stolen => \A q \in Writers : sink'[q].at # "write"
    BY <1>3, <1>4 DEF Inside
  <2> QED
    BY <1>1, <2>1 DEF AuditInv, NumbersInv, At
<1>13. LossesInv'
  BY <1>1, <1>5, <1>8 DEF AuditInv, LossesInv
<1> QED
  BY <1>10, <1>11, <1>12, <1>13 DEF AuditInv

\* A process dies, perhaps in the middle of a line.
LEMMA PerishKeeps ==
    ASSUME AuditInv, NEW p \in Writers, Perishes(p)
    PROVE  AuditInv'
<1>1. /\ ~At(p, "dead") /\ Reaches(p, "dead")
      /\ UNCHANGED <<guard, number, noted, stolen>>
  BY DEF Perishes
<1>2. OnlyMoves(p, "dead")
  <2>1. "dead" \in SinkPlaces
    BY DEF SinkPlaces
  <2> QED
    BY <1>1, <2>1, Moved DEF AuditInv
<1>3. /\ sink' \in [Writers -> [at : SinkPlaces, tries : Nat]] /\ sink'[p].at = "dead"
      /\ \A q \in Writers : q # p => sink'[q] = sink[q]
  BY <1>2 DEF OnlyMoves
<1>4. /\ Dead' = Dead \cup {p} /\ p \notin Dead
      /\ Inside' \subseteq Inside
  <2>1. \A q \in Writers : sink'[q].at = "dead" <=> q = p \/ sink[q].at = "dead"
    BY <1>3
  <2>2. Dead' = Dead \cup {p} /\ p \notin Dead
    BY <1>1, <2>1 DEF Dead, At
  <2>3. Inside' \subseteq Inside
    BY <1>3 DEF Inside, At
  <2> QED
    BY <2>2, <2>3
<1>5. Appended' \subseteq Appended
  BY <1>1, <1>3 DEF Appended, At
<1>6. /\ IsFiniteSet(Appended) /\ Appended \subseteq Nat /\ log \in Seq(Nat)
      /\ (~stolen => Increasing(log)) /\ Cardinality(Dead) \in Nat /\ IsFiniteSet(Dead)
      /\ IsFiniteSet(Lost) /\ Cardinality(Lost) \in Nat
      /\ IsFiniteSet(Unread(log)) /\ Cardinality(Unread(log)) \in Nat
      /\ Cardinality(Unread(log)) <= Cardinality(Dead)
      /\ Cardinality(Lost) + (IF torn THEN 1 ELSE 0) <= Cardinality(Unread(log))
  BY CountsOfLines DEF AuditInv, AuditTypes, NumbersInv, LossesInv
<1>7. IsFiniteSet(Appended') /\ Appended' \subseteq Nat
  BY <1>5, <1>6, FS_Subset
<1>8. Cardinality(Dead') = Cardinality(Dead) + 1
  BY <1>4, <1>6, FS_AddElement
<1>9. GuardInv'
  BY <1>1, <1>4 DEF AuditInv, GuardInv
<1>10. CASE UNCHANGED <<log, torn>>
  <2>1. Lost' \subseteq Lost
    BY <1>5, <1>10 DEF Lost
  <2>2. Cardinality(Lost') <= Cardinality(Lost) /\ Cardinality(Lost') \in Nat
    <3>1. Cardinality(Lost') <= Cardinality(Lost) /\ IsFiniteSet(Lost')
      BY <1>6, <2>1, FS_Subset
    <3> QED
      BY <3>1, FS_CardinalityType
  <2>3. LossesInv'
    BY <1>6, <1>8, <1>10, <2>2 DEF LossesInv
  <2>4. AuditTypes'
    BY <1>1, <1>3, <1>7, <1>10 DEF AuditInv, AuditTypes
  <2>5. NumbersInv'
    BY <1>1, <1>3, <1>10 DEF AuditInv, NumbersInv, At
  <2> QED
    BY <1>9, <2>3, <2>4, <2>5 DEF AuditInv
<1>11. CASE At(p, "write") /\ torn' /\ torn /\ log' = log
  <2>1. Lost' \subseteq Lost
    BY <1>5, <1>11 DEF Lost
  <2>2. Cardinality(Lost') <= Cardinality(Lost) /\ Cardinality(Lost') \in Nat
    <3>1. Cardinality(Lost') <= Cardinality(Lost) /\ IsFiniteSet(Lost')
      BY <1>6, <2>1, FS_Subset
    <3> QED
      BY <3>1, FS_CardinalityType
  <2>3. LossesInv'
    BY <1>6, <1>8, <1>11, <2>2 DEF LossesInv
  <2>4. torn' \in BOOLEAN
    BY DEF AuditInv, AuditTypes, Perishes
  <2>5. AuditTypes'
    BY <1>1, <1>3, <1>7, <1>11, <2>4 DEF AuditInv, AuditTypes
  <2>6. NumbersInv'
    BY <1>1, <1>3, <1>11 DEF AuditInv, NumbersInv, At
  <2> QED
    BY <1>9, <2>3, <2>5, <2>6 DEF AuditInv
<1>12. CASE At(p, "write") /\ torn' /\ ~torn /\ log' = Append(log, 0)
  <2>1. /\ log' \in Seq(Nat) /\ (Increasing(log) => Increasing(log'))
        /\ \A m \in Nat \ {0} : Below(log, m) => Below(log', m)
        /\ \A m : Has(log, m) => Has(log', m)
        /\ Unread(log') = Unread(log) \cup {Len(log) + 1} /\ Len(log) + 1 \notin Unread(log)
    <3>1. 0 \in Nat /\ \A m \in Nat \ {0} : 0 < m
      OBVIOUS
    <3> QED
      BY <1>6, <1>12, <3>1, LineIsAppended
  <2>2. Lost' \subseteq Lost
    BY <1>5, <2>1 DEF Lost
  <2>3. Cardinality(Lost') <= Cardinality(Lost) /\ Cardinality(Lost') \in Nat
    <3>1. Cardinality(Lost') <= Cardinality(Lost) /\ IsFiniteSet(Lost')
      BY <1>6, <2>2, FS_Subset
    <3> QED
      BY <3>1, FS_CardinalityType
  <2>4. Cardinality(Unread(log')) = Cardinality(Unread(log)) + 1
    BY <1>6, <2>1, FS_AddElement
  <2>5. LossesInv'
    BY <1>6, <1>8, <1>12, <2>3, <2>4 DEF LossesInv
  <2>6. torn' \in BOOLEAN
    BY DEF AuditInv, AuditTypes, Perishes
  <2>7. AuditTypes'
    BY <1>1, <1>3, <1>7, <2>1, <2>6 DEF AuditInv, AuditTypes
  <2>8. NumbersInv'
    <3>1. \A q \in Writers : sink'[q].at = "write" => sink[q].at = "write" /\ number[q] \in Nat \ {0}
      BY <1>3 DEF AuditInv, AuditTypes
    <3> QED
      BY <1>1, <2>1, <3>1 DEF AuditInv, NumbersInv, At
  <2> QED
    BY <1>9, <2>5, <2>7, <2>8 DEF AuditInv
<1> QED
  BY <1>10, <1>11, <1>12 DEF Perishes

\* The lock of one that died grows old.
LEMMA AgesKeeps ==
    ASSUME AuditInv, Ages
    PROVE  AuditInv'
<1> DEFINE yes == TRUE
           older == [guard EXCEPT !.old = yes]
<1>1. /\ guard' = older /\ yes \in BOOLEAN
      /\ UNCHANGED <<log, torn, sink, number, noted, stolen>>
  BY DEF Ages
<1>2. guard \in [by : Writers \cup {"nobody"}, old : BOOLEAN]
  BY DEF AuditInv, AuditTypes
<1> HIDE DEF yes
<1>3. older.by = guard.by /\ older \in [by : Writers \cup {"nobody"}, old : BOOLEAN]
  BY <1>1, <1>2
<1> HIDE DEF older
<1>4. /\ Dead' = Dead /\ Inside' = Inside /\ Appended' = Appended /\ Lost' = Lost
  BY <1>1 DEF Dead, Inside, Appended, Lost, At
<1>5. AuditTypes'
  BY <1>1, <1>3, <1>4 DEF AuditInv, AuditTypes
<1>6. GuardInv'
  BY <1>1, <1>3, <1>4 DEF AuditInv, GuardInv
<1>7. NumbersInv' /\ LossesInv'
  BY <1>1, <1>4 DEF AuditInv, NumbersInv, LossesInv, At
<1> QED
  BY <1>5, <1>6, <1>7 DEF AuditInv

\* Every step.
LEMMA AuditSteps ==
    ASSUME AuditInv, [AuditNext]_auditVars
    PROVE  AuditInv'
<1>1. CASE AuditNext
  BY <1>1, EmitKeeps, LockKeeps, BreakKeeps, NumberKeeps, WriteLineKeeps, NoteKeeps, ErrsKeeps,
     PerishKeeps, AgesKeeps DEF AuditNext
<1>2. CASE UNCHANGED auditVars
  <2>1. UNCHANGED <<log, torn, guard, sink, number, noted, stolen>>
    BY <1>2 DEF auditVars
  <2>2. Dead' = Dead /\ Inside' = Inside /\ Appended' = Appended /\ Lost' = Lost
    BY <2>1 DEF Dead, Inside, Appended, Lost, At
  <2>3. AuditTypes' /\ GuardInv'
    BY <2>1, <2>2 DEF AuditInv, AuditTypes, GuardInv
  <2>4. NumbersInv' /\ LossesInv'
    BY <2>1, <2>2 DEF AuditInv, NumbersInv, LossesInv, At
  <2> QED
    BY <2>3, <2>4 DEF AuditInv
<1> QED
  BY <1>1, <1>2

\* For any number of processes and deaths: the lines of the audit file that can be read are
\* numbered upwards until the lock of a living process is taken for that of a dead one, which
\* AuditFileLock does not rule out; and whatever happens, each death makes one line
\* unreadable at most and costs one at most of those that were reported (runtime/audit.rs,
\* append_health_transition).
THEOREM SequenceStaysKept == AuditSpec => []SequenceIsKept
<1>1. AuditInit => AuditInv
  BY AuditStarts
<1>2. AuditInv /\ [AuditNext]_auditVars => AuditInv'
  BY AuditSteps
<1>3. AuditInv => SequenceIsKept
  BY InvGivesSequence
<1> QED
  BY <1>1, <1>2, <1>3, PTL DEF AuditSpec
=============================================================================
