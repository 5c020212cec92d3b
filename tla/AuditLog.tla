------------------------------ MODULE AuditLog ------------------------------
(***************************************************************************)
(* The audit log (storage/audit.py).                                       *)
(*                                                                         *)
(* log_event numbers nothing, but its calls happen in one order, so a      *)
(* record is represented by its position in that order.  Records wait in a *)
(* bounded queue; one daemon thread takes them out and appends them to the *)
(* file, a piece at a time: a write that fails or is cut off may leave a   *)
(* part of its line, and the next record then continues that line.         *)
(* atexit joins the queue, so that a process that ends by itself writes    *)
(* what it has queued; a process that is killed does not.                  *)
(***************************************************************************)
EXTENDS Naturals, Sequences

CONSTANTS
  Capacity,        \* maxsize of the queue
  MaxStarts        \* bound on starts of the process

ASSUME CapacityAssumption == Capacity \in Nat \ {0}
ASSUME MaxStartsAssumption == MaxStarts \in Nat

VARIABLES
  logged,          \* what log_event was called with, in order (history)
  queue,           \* records waiting for the writer
  writing,         \* the record the writer has taken out, as a sequence of at most one
  writer,          \* whether this process has started its writer thread
  logfile,         \* the records in the file, whole or in part
  partial,         \* those of which the end is missing
  lost,            \* records that were given up, and why (history)
  process,         \* "up", "exiting": in the atexit handler, or how it ended
  starts

audit == <<logged, queue, writing, writer, logfile, partial, lost, process, starts>>

Losses == {"full", "failed", "killed"}

AuditInit ==
  /\ logged = <<>> /\ queue = <<>> /\ writing = <<>> /\ logfile = <<>>
  /\ writer = FALSE /\ partial = {}
  /\ lost = [why \in Losses |-> {}]
  /\ process = "up" /\ starts = 1

Positions(s) == {s[i] : i \in DOMAIN s}

\* Mutant of Enqueue: makes room by forgetting the oldest record.
EnqueueOverOldest(q, n) == Append(IF Len(q) < Capacity THEN q ELSE Tail(q), n)

\* Mutant of Enqueue: a record more than the queue holds.
EnqueueOffByOne(q, n) == IF Len(q) <= Capacity THEN Append(q, n) ELSE q

\* put_nowait: what does not fit is dropped.
Enqueue(q, n) == IF Len(q) < Capacity THEN Append(q, n) ELSE q

\* log_event.  Its first call starts the writer.
LogEvent(event) ==
  LET n == Len(logged) + 1 IN
  /\ process = "up"
  /\ logged' = Append(logged, event)
  /\ queue' = Enqueue(queue, n)
  /\ lost' = [lost EXCEPT !["full"] = @ \union ({n} \ Positions(queue'))]
  /\ writer' = TRUE
  /\ UNCHANGED <<writing, logfile, partial, process, starts>>

\* _queue.get() in the writer thread.
TakeRecord ==
  /\ writer /\ writing = <<>> /\ queue # <<>>
  /\ writing' = <<Head(queue)>>
  /\ queue' = Tail(queue)
  /\ UNCHANGED <<logged, writer, logfile, partial, lost, process, starts>>

WriteRecord ==
  /\ writing # <<>>
  /\ logfile' = logfile \o writing
  /\ writing' = <<>>
  /\ UNCHANGED <<logged, queue, writer, partial, lost, process, starts>>

\* Nothing of what the writer was about to write is in the file, or a part.
CutOff ==
  \/ UNCHANGED <<logfile, partial>>
  \/ logfile' = logfile \o writing /\ partial' = partial \union Positions(writing)

GivesUp(why, records) == lost' = [lost EXCEPT ![why] = @ \union records]

\* Mutant of WriteFails: a record that could not be written is queued again.
WriteFailsRequeues ==
  /\ writing # <<>>
  /\ queue' = Enqueue(queue, writing[1])
  /\ writing' = <<>>
  /\ UNCHANGED <<logged, writer, logfile, partial, lost, process, starts>>

\* makedirs, open, write or the flush on close raises; the exception is
\* swallowed.
WriteFails ==
  /\ writing # <<>>
  /\ CutOff
  /\ GivesUp("failed", Positions(writing))
  /\ writing' = <<>>
  /\ UNCHANGED <<logged, queue, writer, process, starts>>

\* The event loop is done and the interpreter runs its atexit handlers.
Exit ==
  /\ process = "up"
  /\ process' = "exiting"
  /\ UNCHANGED <<logged, queue, writing, writer, logfile, partial, lost, starts>>

\* Whatever the process held in memory is gone.
Ends(how) ==
  /\ process' = how
  /\ queue' = <<>> /\ writing' = <<>> /\ writer' = FALSE
  /\ UNCHANGED <<logged, starts>>

\* Mutant of Joined: task_done() right after get(), so that join() does not wait
\* for the record in the writer's hands.
JoinedEarly ==
  /\ process = "exiting" /\ queue = <<>>
  /\ Ends("ended") /\ UNCHANGED <<logfile, partial, lost>>

\* _queue.join() returns when every record taken out is done with.
Joined ==
  /\ process = "exiting" /\ queue = <<>> /\ writing = <<>>
  /\ Ends("ended") /\ UNCHANGED <<logfile, partial, lost>>

Killed ==
  /\ process \in {"up", "exiting"}
  /\ CutOff
  /\ GivesUp("killed", Positions(queue) \union Positions(writing))
  /\ Ends("dead")

Restart ==
  /\ process \in {"ended", "dead"}
  /\ starts < MaxStarts
  /\ process' = "up" /\ starts' = starts + 1
  /\ UNCHANGED <<logged, queue, writing, writer, logfile, partial, lost>>

WriterStep == TakeRecord \/ WriteRecord \/ WriteFails

\* The steps of the log's own thread and of the process around it.
AuditStep == WriterStep \/ Exit \/ Joined \/ Killed \/ Restart

-----------------------------------------------------------------------------
(* Properties *)

\* The file is written in the order of the log_event calls, no record twice,
\* across failed writes, cut-off ones, exits and restarts (audit.py:35-46, 61-73).
FileInOrder == \A i, j \in DOMAIN logfile : i < j => logfile[i] < logfile[j]

\* A line of its own in the file.
OnLine(n) ==
  \E i \in DOMAIN logfile :
    logfile[i] = n /\ n \notin partial /\ (i = 1 \/ logfile[i-1] \notin partial)

\* Whole, but on the line of a record that was given up while it was written.
Glued(n) ==
  \E i \in DOMAIN logfile :
    logfile[i] = n /\ i > 1 /\ logfile[i-1] \in lost["failed"] \union lost["killed"]

\* A record cannot be read from the file only because the queue was full, its
\* write failed, the process was killed, or the record before it was cut off so.
\* A process that ends by itself has written all others: atexit's join waits for
\* the record in the writer's hands too (audit.py:35-57).
NothingElseLost ==
  \A n \in DOMAIN logged :
    \/ OnLine(n) \/ Glued(n)
    \/ n \in lost["full"] \union lost["failed"] \union lost["killed"]
    \/ process \in {"up", "exiting"} /\ n \in Positions(queue) \union Positions(writing)

\* The queue and the writer's hands are one line of records that waits for the
\* file: it is only appended to, in order, a record at a time, and a process that
\* ends by itself leaves nothing in either (audit.py:1-6, 35-57).
Line == INSTANCE Journal WITH count <- Len(logged), pending <- writing \o queue,
                              file <- logfile
ImplementsJournal == Line!Spec
=============================================================================
