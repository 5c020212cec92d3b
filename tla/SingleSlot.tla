----------------------------- MODULE SingleSlot -----------------------------
(***************************************************************************)
(* What model_registry.py promises in its first lines: at most one         *)
(* llama-server runs at a time, and a swap stops the current process       *)
(* before it starts the new one.  A process may get lost: it runs, and     *)
(* the service no longer knows of it.  A lost process does not keep the    *)
(* service from starting the next one; a process that is not lost does.    *)
(***************************************************************************)
CONSTANTS Procs, Slots, NoSlot

VARIABLES
  running,   \* the slot each process serves, NoSlot if it is not running
  lost       \* running processes the service has lost track of

Init ==
  /\ running = [p \in Procs |-> NoSlot]
  /\ lost = {}

Kept == {p \in Procs : running[p] # NoSlot} \ lost

\* A process is started only when none runs that the service knows of.
Start(p, s) ==
  /\ Kept = {}
  /\ running[p] = NoSlot
  /\ running' = [running EXCEPT ![p] = s]
  /\ UNCHANGED lost

\* A process is stopped, or exits by itself.
End(p) ==
  /\ running[p] # NoSlot
  /\ running' = [running EXCEPT ![p] = NoSlot]
  /\ lost' = lost \ {p}

\* A swap is cancelled before its new process is recorded.
Lose(p) ==
  /\ p \in Kept
  /\ lost' = lost \union {p}
  /\ UNCHANGED running

Next == \E p \in Procs : End(p) \/ Lose(p) \/ \E s \in Slots : Start(p, s)

Spec == Init /\ [][Next]_<<running, lost>>
=============================================================================
