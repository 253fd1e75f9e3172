---------------------------- MODULE RecordWriter ----------------------------
(***************************************************************************)
(* The line writer of a run's records (runtime/io.rs): the engine sends    *)
(* lines through a bounded channel, a task writes them through a buffer,   *)
(* and turns the file into a compressed segment when it is full.           *)
(*                                                                         *)
(* The n-th line that is sent is n.  Any file operation may fail, which    *)
(* ends the task and closes its end of the channel; the process may die    *)
(* between any two.  A line is as long as any other, and a torn last line  *)
(* counts as one that is not there.                                        *)
(***************************************************************************)
EXTENDS Naturals, Sequences

CONSTANTS
    Capacity,      \* of the channel
    FlushEvery,    \* lines after which the buffer is written out
    SegmentLines,  \* how many lines LINE_WRITER_SEGMENT_BYTES is
    MaxLines       \* bound: lines the engine has for the writer

ASSUME WriterAssumption == FlushEvery \in Nat \ {0} /\ SegmentLines \in Nat \ {0}

VARIABLES
    channel,   \* lines under way
    sending,   \* the engine still holds the sender
    writer,    \* open, loop, the steps of a rotation, write, full, done, failed or dead
    held,      \* the line that was received and is not written yet
    buffer,    \* BufWriter
    live,      \* the file that is written: its lines, or Gone
    segments,  \* by segment: where its lines are
    fill,      \* segment_bytes
    pending,   \* lines since the last flush
    written,   \* the counter shared with the engine
    sent, dropped  \* what send_line() returned Ok for, and what it counted

recordVars == <<channel, sending, writer, held, buffer, live, segments, fill, pending, written,
                sent, dropped>>

Gone == <<0>>
NoSegment == [raw |-> Gone, archive |-> Gone, metadata |-> FALSE]
Rotation == {"flush", "rename", "compress", "describe", "remove", "reopen"}
Open_ == {"open", "loop", "write", "full"} \cup Rotation
Holds == Rotation \cup {"write"}

RecordInit ==
    /\ channel = <<>> /\ sending = TRUE /\ writer = "open" /\ held = 0
    /\ buffer = <<>> /\ live = Gone /\ segments = <<>>
    /\ fill = 0 /\ pending = 0 /\ written = 0 /\ sent = 0 /\ dropped = 0

-----------------------------------------------------------------------------
(* The engine.                                                             *)

\* send_line(): it waits while the channel is full.
SendLine ==
    /\ sending /\ writer \in Open_
    /\ sent < MaxLines /\ Len(channel) < Capacity
    /\ sent' = sent + 1 /\ channel' = Append(channel, sent + 1)
    /\ UNCHANGED <<sending, writer, held, buffer, live, segments, fill, pending, written, dropped>>

\* The writer is gone: the line is counted, and the error ends the run.
SendFails ==
    /\ sending /\ writer \in {"failed", "done"} /\ sent < MaxLines
    /\ dropped' = dropped + 1 /\ sending' = FALSE
    /\ UNCHANGED <<channel, writer, held, buffer, live, segments, fill, pending, written, sent>>

\* drop(sender), at the end of the run.
Close ==
    /\ sending /\ sending' = FALSE
    /\ UNCHANGED <<channel, writer, held, buffer, live, segments, fill, pending, written, sent,
                   dropped>>

-----------------------------------------------------------------------------
(* The task.                                                               *)

\* create_new: a file that is there is never written over.
OpenFile ==
    /\ writer = "open" /\ writer' = "loop" /\ live' = <<>>
    /\ UNCHANGED <<channel, sending, held, buffer, segments, fill, pending, written, sent, dropped>>

\* A line is received; one that does not fit the segment any more waits for a new file.
Receive ==
    /\ writer = "loop" /\ channel # <<>>
    /\ channel' = Tail(channel) /\ held' = Head(channel)
    /\ writer' = IF fill > 0 /\ fill + 1 > SegmentLines THEN "flush" ELSE "write"
    /\ UNCHANGED <<sending, buffer, live, segments, fill, pending, written, sent, dropped>>

\* write_all() of the line and of its end, before which a full buffer is written out; the
\* line is counted, whatever becomes of the flush that may be due.
Put ==
    /\ writer = "write" /\ writer' = IF pending + 1 >= FlushEvery THEN "full" ELSE "loop"
    /\ held' = 0 /\ written' = written + 1 /\ pending' = pending + 1 /\ fill' = fill + 1
    /\ \/ live' = live /\ buffer' = Append(buffer, held)
       \/ live' = live \o buffer /\ buffer' = <<held>>
    /\ UNCHANGED <<channel, sending, segments, sent, dropped>>

\* flush(): after FlushEvery lines, of the tick of every second, before a rotation, and at
\* the end.
Flushed == live' = live \o buffer /\ buffer' = <<>>

FlushFull ==
    /\ writer = "full" /\ writer' = "loop" /\ pending' = 0 /\ Flushed
    /\ UNCHANGED <<channel, sending, held, segments, fill, written, sent, dropped>>

FlushTick ==
    /\ writer = "loop" /\ pending > 0 /\ pending' = 0 /\ Flushed
    /\ UNCHANGED <<channel, sending, writer, held, segments, fill, written, sent, dropped>>

Finish ==
    /\ writer = "loop" /\ ~sending /\ channel = <<>>
    /\ writer' = "done" /\ Flushed
    /\ UNCHANGED <<channel, sending, held, segments, fill, pending, written, sent, dropped>>

\* What the writer does with its buffer before it lets go of the full file: a mistake.
BugBeforeRotation == buffer' = <<>> /\ UNCHANGED live
BeforeRotation == Flushed

Steps(from, to) ==
    writer = from /\ writer' = to
    /\ UNCHANGED <<channel, sending, held, pending, written, sent, dropped>>

RotateFlush == Steps("flush", "rename") /\ BeforeRotation /\ UNCHANGED <<segments, fill>>

RotateRename ==
    /\ Steps("rename", "compress")
    /\ segments' = Append(segments, [NoSegment EXCEPT !.raw = live]) /\ live' = Gone
    /\ UNCHANGED <<buffer, fill>>

Last == segments[Len(segments)]
Changes(segment) == segments' = [segments EXCEPT ![Len(segments)] = segment]

\* compress_segment_blocking(): the archive is published under its name when it is whole.
Compress ==
    /\ Steps("compress", "describe")
    /\ Changes([Last EXCEPT !.archive = Last.raw]) /\ UNCHANGED <<buffer, live, fill>>
Describe ==
    /\ Steps("describe", "remove")
    /\ Changes([Last EXCEPT !.metadata = TRUE]) /\ UNCHANGED <<buffer, live, fill>>
RemoveRaw ==
    /\ Steps("remove", "reopen")
    /\ Changes([Last EXCEPT !.raw = Gone]) /\ UNCHANGED <<buffer, live, fill>>

\* The new file, for the line that is held; `pending` still counts the old one's.
Reopen ==
    /\ Steps("reopen", "write") /\ live' = <<>> /\ fill' = 0
    /\ UNCHANGED <<buffer, segments>>

\* The channel and the buffer are lost, of which some may have been written just then.
Loses ==
    /\ channel' = <<>> /\ held' = 0 /\ buffer' = <<>>
    /\ \E n \in (IF writer \in {"loop", "write", "full", "flush"} THEN 0 .. Len(buffer) ELSE {0}) :
          live' = live \o SubSeq(buffer, 1, n)
    /\ UNCHANGED <<segments, fill, pending, written, sent, dropped>>

\* An operation fails, and the task returns the error.
Fails == writer \in Open_ /\ writer' = "failed" /\ Loses /\ UNCHANGED sending

ProcessDies == writer \in Open_ /\ writer' = "dead" /\ Loses /\ sending' = FALSE

RecordNext ==
    \/ SendLine \/ SendFails \/ Close
    \/ OpenFile \/ Receive \/ Put \/ FlushFull \/ FlushTick \/ Finish
    \/ RotateFlush \/ RotateRename \/ Compress \/ Describe \/ RemoveRaw \/ Reopen
    \/ Fails \/ ProcessDies

RecordSpec == RecordInit /\ [][RecordNext]_recordVars

-----------------------------------------------------------------------------
\* What can be read: of a segment the archive, else the raw file; then the live file.
Lines(segment) == IF segment.archive # Gone THEN segment.archive ELSE segment.raw
Tape(parts) ==
    LET read[n \in 0 .. Len(parts)] == IF n = 0 THEN <<>> ELSE read[n - 1] \o Lines(parts[n])
    IN  read[Len(parts)]
LiveLines == IF live = Gone THEN <<>> ELSE live
Readable == Tape(segments) \o LiveLines

\* Whenever the writer fails or its process dies, in the middle of a rotation as well: what
\* can be read is every line from the first on, in order and once, and of what the counter
\* says no more than a flush interval is missing (a whole one when the flush that is due
\* fails); and a writer that returns Ok has written every line for which send_line() did.
RecordsKept ==
    /\ Readable = [i \in 1 .. Len(Readable) |-> i]
    /\ Len(Readable) <= sent
    /\ written - Len(Readable) <= FlushEvery
    /\ writer = "done" => Len(Readable) = sent /\ written = sent /\ dropped = 0

\* What is neither written nor counted as dropped: the lines in the channel, and those in
\* the buffer, of a writer that has failed.
EveryLineIsCounted == writer = "failed" => written + dropped >= sent
=============================================================================
