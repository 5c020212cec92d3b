--------------------------- MODULE ModelRegistry ---------------------------
(***************************************************************************)
(* The hot-swap registry of adapters/model_registry.py together with the   *)
(* process side of adapters/llamacpp_server.py.                            *)
(*                                                                         *)
(* One asyncio.Lock guards one active slot.  A task that finds another     *)
(* slot loaded stops the running llama-server, starts a new one and polls  *)
(* it until it is healthy, all under the lock.  Every await inside that    *)
(* critical section is a stage of its own, because other tasks run there   *)
(* and because a CancelledError (the deadline of Agent.handle, or          *)
(* shutdown() cancelling the idle worker) can surface there.  What the     *)
(* code does between two awaits is one action.                             *)
(*                                                                         *)
(* An element of Procs stands for one LlamaCppServer/LlamaCppClient pair,  *)
(* which _swap_to always creates together.  A client's HTTP session is     *)
(* open exactly while the registry stores the client: _stop_current is the *)
(* only code that closes one, and it forgets the client in the same        *)
(* synchronous stretch.                                                    *)
(***************************************************************************)
EXTENDS Naturals, FiniteSets

CONSTANTS
  Requests,     \* tasks that call acquire(): chats, scheduled prompts, warm-up
  Procs,        \* identities of server/client pairs
  Configured,   \* slots whose model path is set
  Environment,  \* which of EnvironmentEvents can happen
  MaxOrphans,   \* bound on the servers lost by cancelled swaps
  NoProc, NoTask, NoSlot

Slots == {"general", "coding", "reasoning"}
Heavy == {"coding", "reasoning"}
EnvironmentEvents == {"deadline", "shutdown", "crash", "spawnError"}

Idler   == "idler"     \* the task running _idle_worker
Stopper == "stopper"   \* the task running shutdown
Tasks   == Requests \union {Idler, Stopper}

ASSUME ConfiguredAssumption  == Configured \subseteq Slots
ASSUME EnvironmentAssumption == Environment \subseteq EnvironmentEvents
ASSUME NamesAssumption ==
  /\ NoProc \notin Procs
  /\ NoSlot \notin Slots
  /\ NoTask \notin Tasks
  /\ Idler \notin Requests
  /\ Stopper \notin Requests
ASSUME MaxOrphansAssumption == MaxOrphans \in Nat

VARIABLES
  holder,    \* the task inside `async with self._lock`, or NoTask
  stage,     \* the await the holder is suspended at
  target,    \* the slot being swapped in (NoSlot under shutdown)
  fresh,     \* the pair _swap_to has started but not yet stored
  active,    \* _active_slot
  server,    \* _server
  client,    \* _client
  serving,   \* the slot whose model each live process serves, NoSlot if none
  timer,     \* the state of the idle worker task, "none" once it has ended
  task,      \* where each request is with respect to the registry
  want,      \* the slot each request resolved to
  got,       \* the client each request was handed
  stopper    \* the task running shutdown()

critical == <<holder, stage, target, fresh>>
stored   == <<active, server, client>>
callers  == <<task, want, got>>
vars     == <<critical, stored, serving, timer, callers, stopper>>

Stages      == {"none", "stop", "start", "ready", "cleanup"}
TimerStates == {"none", "sleeping", "waiting", "inside"}
TaskStates  == {"away", "waiting", "inside", "using", "failed", "cancelled"}
StopStates  == {"away", "waiting", "inside", "done"}

TypeOK ==
  /\ holder  \in Tasks \union {NoTask}
  /\ stage   \in Stages
  /\ target  \in Slots \union {NoSlot}
  /\ fresh   \in Procs \union {NoProc}
  /\ active  \in Slots \union {NoSlot}
  /\ server  \in Procs \union {NoProc}
  /\ client  \in Procs \union {NoProc}
  /\ serving \in [Procs -> Slots \union {NoSlot}]
  /\ timer   \in TimerStates
  /\ task    \in [Requests -> TaskStates]
  /\ want    \in [Requests -> Slots \union {NoSlot}]
  /\ got     \in [Requests -> Procs \union {NoProc}]
  /\ stopper \in StopStates

-----------------------------------------------------------------------------
\* The llama-server processes that exist in the operating system.
Alive == {p \in Procs : serving[p] # NoSlot}

\* Running servers that no field of the registry leads to any more.
Orphans == Alive \ {server, fresh}

\* Mutant of Resolve: falls back to a name that is no slot.
ResolveToUnknown(s) == IF s \in Configured THEN s ELSE "default"

\* is_slot_available() and the fallback at the top of acquire().
Resolve(s) == IF s \in Configured THEN s ELSE "general"

\* Object identities are reused only once nothing refers to them.
Unreferenced(p) ==
  /\ p \notin Alive \union {server, client, fresh}
  /\ \A r \in Requests : got[r] # p

\* The two ways a task leaves the critical section by an exception.
LeaveCritical ==
  /\ holder' = NoTask
  /\ stage'  = "none"
  /\ target' = NoSlot
  /\ fresh'  = NoProc

\* An exception other than cancellation reaches the holder's caller; the
\* idle worker's is only logged by _on_idle_task_done.
HolderFails ==
  /\ task'  = IF holder \in Requests THEN [task EXCEPT ![holder] = "failed"] ELSE task
  /\ timer' = IF holder = Idler THEN "none" ELSE timer

-----------------------------------------------------------------------------
Init ==
  /\ holder = NoTask /\ stage = "none" /\ target = NoSlot /\ fresh = NoProc
  /\ active = NoSlot /\ server = NoProc /\ client = NoProc
  /\ serving = [p \in Procs |-> NoSlot]
  /\ timer = "none"
  /\ task = [r \in Requests |-> "away"]
  /\ want = [r \in Requests |-> NoSlot]
  /\ got  = [r \in Requests |-> NoProc]
  /\ stopper = "away"

\* acquire(slot): resolve the slot and queue for the lock.  A request that
\* still holds a client may come back for another one.
Acquire(r, s) ==
  /\ task[r] \in {"away", "using"}
  /\ task' = [task EXCEPT ![r] = "waiting"]
  /\ want' = [want EXCEPT ![r] = Resolve(s)]
  /\ UNCHANGED <<critical, stored, serving, timer, got, stopper>>

\* Mutant of Hit: whatever slot is loaded will do.
HitAnySlot(r) ==
  /\ task[r] = "waiting" /\ holder = NoTask
  /\ client # NoProc
  /\ timer' = "sleeping"
  /\ task'  = [task EXCEPT ![r] = "using"]
  /\ got'   = [got EXCEPT ![r] = client]
  /\ UNCHANGED <<critical, stored, serving, want, stopper>>

\* acquire() finds its slot loaded: restart the idle timer, return the client.
Hit(r) ==
  /\ task[r] = "waiting" /\ holder = NoTask
  /\ active = want[r] /\ client # NoProc
  /\ timer' = "sleeping"
  /\ task'  = [task EXCEPT ![r] = "using"]
  /\ got'   = [got EXCEPT ![r] = client]
  /\ UNCHANGED <<critical, stored, serving, want, stopper>>

\* acquire() finds its slot marked active although the client is gone: the
\* timer is restarted, then `assert self._client is not None` raises.
HitTornDown(r) ==
  /\ task[r] = "waiting" /\ holder = NoTask
  /\ active = want[r] /\ client = NoProc
  /\ timer' = "sleeping"
  /\ task'  = [task EXCEPT ![r] = "failed"]
  /\ UNCHANGED <<critical, stored, serving, want, got, stopper>>

\* Mutant of EnterCritical: the new server is started before the old is stopped.
EnterWithoutStop(t, s) ==
  /\ holder' = t
  /\ target' = s
  /\ client' = NoProc
  /\ stage'  = "start"
  /\ UNCHANGED <<fresh, active, server, serving>>

\* _stop_current up to its first real suspension: the client's session is
\* closed and forgotten; without a server the slot is cleared at once.
EnterCritical(t, s) ==
  /\ holder' = t
  /\ target' = s
  /\ client' = NoProc
  /\ stage'  = IF server # NoProc THEN "stop" ELSE "start"
  /\ active' = IF server # NoProc THEN active ELSE NoSlot
  /\ UNCHANGED <<fresh, server, serving>>

\* acquire() takes the lock and finds another slot (or none): _swap_to.
BeginSwap(r) ==
  /\ task[r] = "waiting" /\ holder = NoTask
  /\ active # want[r]
  /\ task' = [task EXCEPT ![r] = "inside"]
  /\ EnterCritical(r, want[r])
  /\ UNCHANGED <<timer, want, got, stopper>>

\* Mutant of StopServer: the stopped slot stays marked active.
StopServerKeepsSlot ==
  /\ stage = "stop"
  /\ serving' = [serving EXCEPT ![server] = NoSlot]
  /\ server'  = NoProc
  /\ IF holder = Stopper
       THEN LeaveCritical /\ stopper' = "done"
       ELSE stage' = "start" /\ UNCHANGED <<holder, target, fresh, stopper>>
  /\ UNCHANGED <<active, client, timer, callers>>

\* server.stop(): terminate, wait up to five seconds, kill.  Whatever it
\* raises is logged; the process is gone and both fields are cleared.
StopServer ==
  /\ stage = "stop"
  /\ serving' = [serving EXCEPT ![server] = NoSlot]
  /\ server'  = NoProc
  /\ active'  = NoSlot
  /\ IF holder = Stopper
       THEN LeaveCritical /\ stopper' = "done"
       ELSE stage' = "start" /\ UNCHANGED <<holder, target, fresh, stopper>>
  /\ UNCHANGED <<client, timer, callers>>

\* server.start(): a new process, running the target slot's model.
StartServer ==
  /\ stage = "start"
  /\ \E p \in Procs :
       /\ Unreferenced(p)
       /\ fresh'   = p
       /\ serving' = [serving EXCEPT ![p] = target]
  /\ stage' = "ready"
  /\ UNCHANGED <<holder, target, stored, timer, callers, stopper>>

\* create_subprocess_exec raises (missing binary, no memory).
StartFails ==
  /\ "spawnError" \in Environment
  /\ stage = "start"
  /\ LeaveCritical
  /\ HolderFails
  /\ UNCHANGED <<stored, serving, want, got, stopper>>

\* Mutant of SwapDone: acquire() does not restart the idle timer.
SwapDoneKeepsTimer ==
  /\ stage = "ready"
  /\ fresh \in Alive
  /\ server' = fresh /\ client' = fresh /\ active' = target
  /\ LeaveCritical
  /\ IF holder = Idler
       THEN timer' = "none" /\ UNCHANGED <<task, got>>
       ELSE /\ task' = [task EXCEPT ![holder] = "using"]
            /\ got'  = [got EXCEPT ![holder] = fresh]
            /\ UNCHANGED timer
  /\ UNCHANGED <<serving, want, stopper>>

\* wait_until_ready() returns: the pair is stored and the lock released.
\* For acquire() the idle timer is restarted and the client handed out.
SwapDone ==
  /\ stage = "ready"
  /\ fresh \in Alive
  /\ server' = fresh /\ client' = fresh /\ active' = target
  /\ LeaveCritical
  /\ IF holder = Idler
       THEN timer' = "none" /\ UNCHANGED <<task, got>>
       ELSE /\ timer' = "sleeping"
            /\ task'  = [task EXCEPT ![holder] = "using"]
            /\ got'   = [got EXCEPT ![holder] = fresh]
  /\ UNCHANGED <<serving, want, stopper>>

\* wait_until_ready() raises RuntimeError: the process exited, or 120
\* attempts were not enough.  The handler awaits server.stop().
NotReady ==
  /\ stage = "ready"
  /\ stage' = "cleanup"
  /\ UNCHANGED <<holder, target, fresh, stored, serving, timer, callers, stopper>>

\* Mutant of CleanUp: re-raises without stopping the unready process.
CleanUpWithoutStop ==
  /\ stage = "cleanup"
  /\ LeaveCritical
  /\ HolderFails
  /\ UNCHANGED <<stored, serving, want, got, stopper>>

\* ... and re-raises once the unready process is stopped.
CleanUp ==
  /\ stage = "cleanup"
  /\ serving' = [serving EXCEPT ![fresh] = NoSlot]
  /\ LeaveCritical
  /\ HolderFails
  /\ UNCHANGED <<stored, want, got, stopper>>

-----------------------------------------------------------------------------
\* The idle timer.  asyncio.sleep(idle_unload_seconds) ends ...
TimerExpires ==
  /\ timer = "sleeping"
  /\ timer' = "waiting"
  /\ UNCHANGED <<critical, stored, serving, callers, stopper>>

\* ... and the worker takes the lock: a heavy slot is swapped for general,
\* anything else is left alone and the worker ends.
IdlerUnloads ==
  /\ timer = "waiting" /\ holder = NoTask
  /\ active \in Heavy
  /\ timer' = "inside"
  /\ EnterCritical(Idler, "general")
  /\ UNCHANGED <<callers, stopper>>

IdlerSkips ==
  /\ timer = "waiting" /\ holder = NoTask
  /\ active \notin Heavy
  /\ timer' = "none"
  /\ UNCHANGED <<critical, stored, serving, callers, stopper>>

-----------------------------------------------------------------------------
\* A CancelledError at any await of the critical section unwinds it: nothing
\* there catches it, so whatever was stored stays stored and a started but
\* unstored process stays running.
Unwind ==
  /\ fresh \in Alive => Cardinality(Orphans) < MaxOrphans
  /\ LeaveCritical

\* asyncio.timeout in Agent.handle cancels a request wherever it is.  (At
\* "stop", server.stop() may also swallow the cancellation while awaiting its
\* log task; the swap then just goes on.)
DeadlineCancels(r) ==
  /\ "deadline" \in Environment
  /\ \/ task[r] \in {"waiting", "using"} /\ UNCHANGED critical
     \/ task[r] = "inside" /\ Unwind
  /\ task' = [task EXCEPT ![r] = "cancelled"]
  /\ UNCHANGED <<stored, serving, timer, want, got, stopper>>

\* shutdown() first cancels the idle worker, wherever it is, then queues for
\* the lock.
Shutdown ==
  /\ "shutdown" \in Environment
  /\ stopper = "away"
  /\ stopper' = "waiting"
  /\ \/ holder # Idler /\ timer' = "none" /\ UNCHANGED critical
     \/ holder = Idler /\ timer' = "none" /\ Unwind
     \/ holder = Idler /\ stage = "stop" /\ UNCHANGED <<timer, critical>>
  /\ UNCHANGED <<stored, serving, callers>>

\* shutdown() takes the lock: _stop_current with nothing to start after it.
ShutdownStops ==
  /\ stopper = "waiting" /\ holder = NoTask
  /\ IF server # NoProc
       THEN EnterCritical(Stopper, NoSlot) /\ stopper' = "inside"
       ELSE /\ client' = NoProc /\ active' = NoSlot /\ stopper' = "done"
            /\ UNCHANGED <<critical, server, serving>>
  /\ UNCHANGED <<timer, callers>>

\* A llama-server process dies on its own.
Crash(p) ==
  /\ "crash" \in Environment
  /\ p \in Alive
  /\ serving' = [serving EXCEPT ![p] = NoSlot]
  /\ UNCHANGED <<critical, stored, timer, callers, stopper>>

\* The request drops the client it held, or its exception has been reported.
Release(r) ==
  /\ task[r] \in {"using", "failed", "cancelled"}
  /\ task' = [task EXCEPT ![r] = "away"]
  /\ want' = [want EXCEPT ![r] = NoSlot]
  /\ got'  = [got EXCEPT ![r] = NoProc]
  /\ UNCHANGED <<critical, stored, serving, timer, stopper>>

-----------------------------------------------------------------------------
TakesLock(r) == Hit(r) \/ HitTornDown(r) \/ BeginSwap(r)

CriticalStep ==
  StopServer \/ StartServer \/ StartFails \/ SwapDone \/ NotReady \/ CleanUp

IdlerStep == TimerExpires \/ IdlerUnloads \/ IdlerSkips

Next ==
  \/ \E r \in Requests, s \in Slots : Acquire(r, s)
  \/ \E r \in Requests : TakesLock(r) \/ DeadlineCancels(r) \/ Release(r)
  \/ CriticalStep
  \/ IdlerStep
  \/ Shutdown
  \/ ShutdownStops
  \/ \E p \in Procs : Crash(p)

Spec == Init /\ [][Next]_vars

-----------------------------------------------------------------------------
(* Properties *)

\* The registry's three fields agree whenever the lock is free: a stored
\* client belongs to the stored server, a slot is active iff a server is
\* stored, and a server that still runs serves the active slot's model.
\* This is what the branch `if self._active_slot != slot` of acquire relies on.
StoredFieldsAgree ==
  /\ client # NoProc => server = client
  /\ server # NoProc <=> active # NoSlot
  /\ server \in Alive => serving[server] = active

\* A client leaves acquire() only together with a restarted idle timer, it is
\* the one the registry stores, and its process serves the slot the request
\* resolved to, however the request waited, swapped or raced other tasks in
\* between.  After a swap of its own the process runs; only a request that found
\* its slot loaded may be given the client of a process that has died.
HandsOutCurrentClient ==
  [][\A r \in Requests :
       task'[r] = "using" /\ task[r] # "using" =>
         /\ got'[r] = client' /\ client' # NoProc
         /\ active' = want[r]
         /\ \/ serving'[client'] = want[r]
            \/ serving'[client'] = NoSlot /\ task[r] = "waiting"
         /\ timer' = "sleeping"]_vars

\* "Self-healing - detects llama-server crashes and restarts automatically"
\* (README.md:37): nobody is handed the client of a server that has exited.
HandsOutRunningServer ==
  [][\A r \in Requests :
       task'[r] = "using" /\ task[r] # "using" => got'[r] \in Alive]_vars

\* A process that runs with no field of the registry leading to it can only be
\* produced by a cancellation that hits a swap: every failure path of
\* _swap_to stops what it started, and _stop_current never forgets a live one.
OrphansOnlyByCancellation ==
  [][ \/ Orphans' \subseteq Orphans
      \/ \E r \in Requests : task[r] = "inside" /\ task'[r] = "cancelled"
      \/ stopper = "away" /\ stopper' = "waiting" ]_vars

\* A memory-hungry slot is never left loaded with nothing that will unload it:
\* an idle worker is pending, or shutdown() is about to stop everything.
HeavySlotHasUnloader ==
  active \in Heavy => timer # "none" \/ stopper \in {"waiting", "inside"}

\* "At most one slot runs at a time" (model_registry.py:3-4).
AtMostOneServer == \A p, q \in Alive : p = q

\* `assert self._client is not None` (model_registry.py:88): a request whose
\* turn has come and whose slot is the active one finds a client there.
AssertionHolds ==
  \A r \in Requests :
    task[r] = "waiting" /\ holder = NoTask /\ active = want[r] => client # NoProc

\* The state in which that assertion fails: the lock is free, a slot is active
\* and its client is gone.
TornDown == holder = NoTask /\ active # NoSlot /\ client = NoProc

\* It comes about in one way only: a task that awaits the old server's stop,
\* whose client _stop_current has already closed, is cancelled there.  A stop or
\* a start that fails, a crash, and a cancellation anywhere else do not lead to
\* it, and it is left by the next swap.
TornDownOnlyByCancelledStop ==
  [][TornDown' =>
       \/ TornDown
       \/ /\ stage = "stop"
          /\ \/ \E r \in Requests : task[r] = "inside" /\ task'[r] = "cancelled"
             \/ stopper = "away" /\ stopper' = "waiting"]_vars

\* Once requests stop coming, no heavy slot stays loaded for ever: the idle
\* worker brings the registry back to general (or to nothing, if that fails).
\* AgentRequest, which has the fairness it rests on, checks it.
HeavyEventuallyUnloaded ==
  <>[](\A r \in Requests : task[r] \notin {"waiting", "inside"})
    => <>[](active \notin Heavy)

\* The registry implements the single-slot service: whatever fails, dies or is
\* cancelled, a server is started only when no other runs but those that a
\* cancelled swap has lost.
Single == INSTANCE SingleSlot WITH running <- serving, lost <- Orphans
ImplementsSingleSlot == Single!Spec
=============================================================================
