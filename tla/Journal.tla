------------------------------ MODULE Journal ------------------------------
(***************************************************************************)
(* What audit.py promises in its first lines and in log_event's: the file  *)
(* is only appended to, by one writer and a record at a time; log_event    *)
(* never waits and drops what there is no room for.  A process that ends   *)
(* by itself has nothing left to write.  AuditLog implements this          *)
(* specification with a queue and a thread.                                *)
(*                                                                         *)
(* A record is represented by its number.                                  *)
(***************************************************************************)
EXTENDS Naturals, Sequences

VARIABLES
  count,           \* records logged so far
  pending,         \* those still to be written
  file,            \* the records written, whole or in part
  process

journal == <<count, pending, file, process>>

Init == count = 0 /\ pending = <<>> /\ file = <<>> /\ process = "up"

\* A record is logged, and finds room or does not.
Log ==
  /\ process = "up"
  /\ count' = count + 1
  /\ pending' \in {pending, Append(pending, count + 1)}
  /\ UNCHANGED <<file, process>>

\* The oldest record is written; or it cannot be, or not to its end, and is
\* forgotten.
Write ==
  /\ pending # <<>>
  /\ pending' = Tail(pending)
  /\ file' \in {file, Append(file, Head(pending))}
  /\ UNCHANGED <<count, process>>

Leave == process = "up" /\ process' = "exiting" /\ UNCHANGED <<count, pending, file>>

\* The process ends by itself: nothing is pending.
End ==
  /\ process = "exiting" /\ pending = <<>>
  /\ process' = "ended"
  /\ UNCHANGED <<count, pending, file>>

\* The process is killed, perhaps while it writes the oldest record; what it had
\* not written is forgotten.
Die ==
  /\ process \in {"up", "exiting"}
  /\ process' = "dead" /\ pending' = <<>>
  /\ file' = file \/ (pending # <<>> /\ file' = Append(file, Head(pending)))
  /\ UNCHANGED count

Start == process \in {"ended", "dead"} /\ process' = "up" /\ UNCHANGED <<count, pending, file>>

Next ==
  \/ Log \/ Write \/ Leave \/ End \/ Die \/ Start

Spec == Init /\ [][Next]_journal
=============================================================================
