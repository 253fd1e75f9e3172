--------------------------- MODULE MCRunRegistry ---------------------------
(* The files of a run, side by side: a behaviour is about the registry with *)
(* two processes, about one record writer, or about the audit file.         *)
EXTENDS RunRegistry, RecordWriter, AuditLog

CONSTANTS p1, p2, p3

VARIABLE part
fileVars == <<part, vars, recordVars, auditVars>>

FilesInit ==
    /\ part \in {"registry", "records", "audit"}
    /\ Init /\ RecordInit /\ AuditInit

Registry(S) == part = "registry" /\ S /\ UNCHANGED <<part, recordVars, auditVars>>
Records(S) == part = "records" /\ S /\ UNCHANGED <<part, vars, auditVars>>
Audit(S) == part = "audit" /\ S /\ UNCHANGED <<part, vars, recordVars>>

\* Next, RecordNext and AuditNext, action by action.
FilesNext ==
    \/ \E p \in Runners : \/ Registry(CallMain(p)) \/ Registry(CallBeat(p))
                          \/ Registry(MainReturns(p)) \/ Registry(BeatReturns(p))
    \/ \E p \in Processes : \/ Registry(WatchReturns(p)) \/ Registry(Crash(p))
                            \/ \E run \in Runners : Registry(CallWatch(p, run))
    \/ \E t \in Tasks : \/ Registry(CreateLock(t)) \/ Registry(LockIsTaken(t))
                        \/ Registry(BreakLock(t)) \/ Registry(LockTimeout(t))
                        \/ Registry(ReadRecord(t)) \/ Registry(WriteRecord(t))
                        \/ Registry(DropLock(t)) \/ Registry(WriteLockFails(t))
                        \/ Registry(RenameFails(t))
    \/ Registry(LockExpires)
    \/ Records(SendLine) \/ Records(SendFails) \/ Records(Close) \/ Records(OpenFile)
    \/ Records(Receive) \/ Records(Put) \/ Records(FlushFull) \/ Records(FlushTick)
    \/ Records(Finish)
    \/ Records(RotateFlush) \/ Records(RotateRename) \/ Records(Compress)
    \/ Records(Describe) \/ Records(RemoveRaw) \/ Records(Reopen)
    \/ Records(Fails) \/ Records(ProcessDies)
    \/ \E p \in Writers : \/ Audit(Emit(p)) \/ Audit(Lock(p)) \/ Audit(Break(p))
                          \/ Audit(Number(p)) \/ Audit(WriteLine(p)) \/ Audit(Note(p))
                          \/ Audit(Errs(p)) \/ Audit(Perishes(p))
    \/ Audit(Ages)

FilesSpec == FilesInit /\ [][FilesNext]_fileVars
=============================================================================
