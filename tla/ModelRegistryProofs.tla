------------------------ MODULE ModelRegistryProofs ------------------------
(***************************************************************************)
(* Proofs about ModelRegistry, for any number of requests and processes.   *)
(*                                                                         *)
(* The properties are not inductive on their own: that a client handed out *)
(* belongs to the wanted slot depends on what the lock holder may do to    *)
(* the registry's fields at each stage.  RegistryInv says that.            *)
(***************************************************************************)
EXTENDS ModelRegistry, TLAPS

\* Who is inside the lock, and what it is swapping in.
LockInv ==
  /\ holder = NoTask <=> stage = "none"
  /\ stage = "none" => target = NoSlot
  /\ \A r \in Requests : task[r] = "inside" <=> holder = r
  /\ timer = "inside" <=> holder = Idler
  /\ stopper = "inside" <=> holder = Stopper
  /\ holder = Stopper => stage = "stop" /\ target = NoSlot
  /\ holder = Idler => target = "general"
  /\ \A r \in Requests :
       /\ task[r] \in {"waiting", "inside"} => want[r] \in Slots
       /\ holder = r => target = want[r]

\* Which fields are set at each stage.
StageInv ==
  /\ stage # "none" => client = NoProc
  /\ stage = "stop" => server # NoProc
  /\ stage \in {"start", "ready", "cleanup"} => server = NoProc
  /\ stage \in {"ready", "cleanup"} <=> fresh # NoProc

\* A started process serves the slot being swapped in, unless it has died.
FreshInv == fresh # NoProc => serving[fresh] \in {target, NoSlot}

RegistryInv ==
  /\ TypeOK
  /\ LockInv
  /\ StageInv
  /\ FreshInv
  /\ StoredFieldsAgree
  /\ HeavySlotHasUnloader

LEMMA InitRegistryInv == Init => RegistryInv
  BY NamesAssumption
  DEF Init, RegistryInv, TypeOK, LockInv, StageInv, FreshInv, StoredFieldsAgree,
      HeavySlotHasUnloader, Tasks, Stages, TimerStates, TaskStates, StopStates,
      Idler, Stopper, Heavy, Slots, Alive

\* Every action keeps the registry consistent.
LEMMA RegistryInvStep == RegistryInv /\ [Next]_vars => RegistryInv'
<1> SUFFICES ASSUME RegistryInv, [Next]_vars PROVE RegistryInv'
  OBVIOUS
<1> USE NamesAssumption
    DEF RegistryInv, TypeOK, LockInv, StageInv, FreshInv, StoredFieldsAgree,
        HeavySlotHasUnloader, Alive, Tasks, Stages, TimerStates, TaskStates,
        StopStates, Idler, Stopper, Heavy, Slots, critical, stored, callers, vars
<1>1. ASSUME NEW r \in Requests, NEW s \in Slots, Acquire(r, s)
      PROVE  RegistryInv'
  BY <1>1 DEF Acquire, Resolve
<1>2. ASSUME NEW r \in Requests, Hit(r)
      PROVE  RegistryInv'
  BY <1>2 DEF Hit
<1>3. ASSUME NEW r \in Requests, HitTornDown(r)
      PROVE  RegistryInv'
  BY <1>3 DEF HitTornDown
<1>4. ASSUME NEW r \in Requests, BeginSwap(r)
      PROVE  RegistryInv'
  BY <1>4 DEF BeginSwap, EnterCritical
<1>5. ASSUME NEW r \in Requests, DeadlineCancels(r)
      PROVE  RegistryInv'
  BY <1>5 DEF DeadlineCancels, Unwind, LeaveCritical
<1>6. ASSUME NEW r \in Requests, Release(r)
      PROVE  RegistryInv'
  BY <1>6 DEF Release
<1>7. CASE StopServer
  BY <1>7 DEF StopServer, LeaveCritical
<1>8. CASE StartServer
  BY <1>8 DEF StartServer, Unreferenced
<1>9. CASE StartFails
  BY <1>9 DEF StartFails, LeaveCritical, HolderFails
<1>10. CASE SwapDone
  BY <1>10 DEF SwapDone, LeaveCritical
<1>11. CASE NotReady
  BY <1>11 DEF NotReady
<1>12. CASE CleanUp
  BY <1>12 DEF CleanUp, LeaveCritical, HolderFails
<1>13. CASE TimerExpires
  BY <1>13 DEF TimerExpires
<1>14. CASE IdlerUnloads
  BY <1>14 DEF IdlerUnloads, EnterCritical
<1>15. CASE IdlerSkips
  BY <1>15 DEF IdlerSkips
<1>16. CASE Shutdown
  BY <1>16 DEF Shutdown, Unwind, LeaveCritical
<1>17. CASE ShutdownStops
  BY <1>17 DEF ShutdownStops, EnterCritical
<1>18. ASSUME NEW p \in Procs, Crash(p)
       PROVE  RegistryInv'
  BY <1>18 DEF Crash
<1>19. CASE UNCHANGED vars
  BY <1>19
<1>20. QED
  BY <1>1, <1>2, <1>3, <1>4, <1>5, <1>6, <1>7, <1>8, <1>9, <1>10, <1>11, <1>12,
     <1>13, <1>14, <1>15, <1>16, <1>17, <1>18, <1>19
  DEF Next, TakesLock, CriticalStep, IdlerStep

LEMMA RegistryInvariant == Spec => []RegistryInv
  BY InitRegistryInv, RegistryInvStep, PTL DEF Spec

\* Every variable keeps its type.
THEOREM TypeCorrect == Spec => []TypeOK
  BY RegistryInvariant, PTL DEF RegistryInv

\* The fields that acquire() branches on agree with one another and with the
\* processes, whatever is cancelled, crashes or fails to start.
THEOREM FieldsAgree == Spec => []StoredFieldsAgree
  BY RegistryInvariant, PTL DEF RegistryInv

\* A heavy slot always has a pending idle worker or shutdown to unload it.
THEOREM HeavyUnloader == Spec => []HeavySlotHasUnloader
  BY RegistryInvariant, PTL DEF RegistryInv

-----------------------------------------------------------------------------
\* Only two actions hand out a client; both hand out the stored one.
LEMMA HandOutStep ==
  ASSUME RegistryInv, [Next]_vars, NEW r \in Requests,
         task'[r] = "using", task[r] # "using"
  PROVE  /\ got'[r] = client' /\ client' # NoProc
         /\ active' = want[r]
         /\ \/ serving'[client'] = want[r]
            \/ serving'[client'] = NoSlot /\ task[r] = "waiting"
         /\ timer' = "sleeping"
<1> USE NamesAssumption DEF RegistryInv, TypeOK
<1>1. CASE Hit(r)
  BY <1>1 DEF Hit, StoredFieldsAgree, Alive, stored, critical
<1>2. CASE SwapDone
  BY <1>2 DEF SwapDone, LeaveCritical, LockInv, StageInv, FreshInv, Alive, Tasks
<1>3. Hit(r) \/ SwapDone
  BY DEF Next, TakesLock, CriticalStep, IdlerStep, Acquire, Hit, HitTornDown, BeginSwap,
         DeadlineCancels, Release, StopServer, StartServer, StartFails, HolderFails,
         NotReady, CleanUp, TimerExpires, IdlerUnloads, IdlerSkips, Shutdown,
         ShutdownStops, Crash, callers, vars
<1>4. QED
  BY <1>1, <1>2, <1>3

\* A request that gets a client gets the current client of the slot it asked
\* for, with a freshly armed idle timer, in every interleaving.
THEOREM HandOutCorrect == Spec => HandsOutCurrentClient
<1>1. RegistryInv /\ [Next]_vars =>
        [\A r \in Requests :
           task'[r] = "using" /\ task[r] # "using" =>
             /\ got'[r] = client' /\ client' # NoProc
             /\ active' = want[r]
             /\ \/ serving'[client'] = want[r]
                \/ serving'[client'] = NoSlot /\ task[r] = "waiting"
             /\ timer' = "sleeping"]_vars
  BY HandOutStep
<1>2. QED
  BY <1>1, RegistryInvariant, PTL DEF Spec, HandsOutCurrentClient

-----------------------------------------------------------------------------
(* What a request can count on while it keeps its client. *)

\* As long as the registry still stores the client a request was handed, the
\* slot that request asked for is the active one.
HeldClientIsWanted ==
  \A r \in Requests :
    task[r] = "using" => got[r] \in Procs /\ (got[r] = client => active = want[r])

\* A pair that is being started has not been handed to anybody.
FreshIsUnshared == fresh # NoProc => \A r \in Requests : got[r] # fresh

HeldInv == HeldClientIsWanted /\ FreshIsUnshared

LEMMA HeldInvStep ==
  ASSUME RegistryInv, HeldInv, [Next]_vars
  PROVE  HeldInv'
<1> USE NamesAssumption
    DEF RegistryInv, TypeOK, StageInv, HeldInv, HeldClientIsWanted, FreshIsUnshared,
        critical, stored, callers, Stages, TaskStates
<1>1. ASSUME NEW r \in Requests, NEW s \in Slots, Acquire(r, s)
      PROVE  HeldInv'
  BY <1>1 DEF Acquire
<1>2. ASSUME NEW r \in Requests, Hit(r)
      PROVE  HeldInv'
  BY <1>2 DEF Hit, LockInv
<1>3. ASSUME NEW r \in Requests, HitTornDown(r) \/ Release(r)
      PROVE  HeldInv'
  BY <1>3 DEF HitTornDown, Release
<1>4. ASSUME NEW r \in Requests, BeginSwap(r)
      PROVE  HeldInv'
  BY <1>4 DEF BeginSwap, EnterCritical
<1>5. ASSUME NEW r \in Requests, DeadlineCancels(r)
      PROVE  HeldInv'
  BY <1>5 DEF DeadlineCancels, Unwind, LeaveCritical
<1>6. CASE StopServer
  BY <1>6 DEF StopServer, LeaveCritical
<1>7. CASE StartServer
  BY <1>7 DEF StartServer, Unreferenced
<1>8. CASE StartFails
  BY <1>8 DEF StartFails, LeaveCritical, HolderFails
<1>9. CASE SwapDone
  BY <1>9 DEF SwapDone, LeaveCritical, LockInv, Tasks
<1>10. CASE NotReady
  BY <1>10 DEF NotReady
<1>11. CASE CleanUp
  BY <1>11 DEF CleanUp, LeaveCritical, HolderFails
<1>12. CASE IdlerStep
  BY <1>12 DEF IdlerStep, TimerExpires, IdlerUnloads, IdlerSkips, EnterCritical
<1>13. CASE Shutdown
  BY <1>13 DEF Shutdown, Unwind, LeaveCritical
<1>14. CASE ShutdownStops
  BY <1>14 DEF ShutdownStops, EnterCritical
<1>15. ASSUME NEW p \in Procs, Crash(p)
       PROVE  HeldInv'
  BY <1>15 DEF Crash
<1>16. CASE UNCHANGED vars
  BY <1>16 DEF vars
<1>17. QED
  BY <1>1, <1>2, <1>3, <1>4, <1>5, <1>6, <1>7, <1>8, <1>9, <1>10, <1>11, <1>12,
     <1>13, <1>14, <1>15, <1>16
  DEF Next, TakesLock, CriticalStep

\* A client that has not been swapped away serves what its holder asked for.
THEOREM HeldClients == Spec => [](RegistryInv /\ HeldClientIsWanted)
<1>1. Init => HeldInv
  BY DEF Init, HeldInv, HeldClientIsWanted, FreshIsUnshared
<1>2. RegistryInv /\ HeldInv /\ [Next]_vars => HeldInv'
  BY HeldInvStep
<1>3. QED
  BY <1>1, <1>2, RegistryInvariant, PTL DEF Spec, HeldInv

-----------------------------------------------------------------------------
\* A step that leaves a running process behind is a cancellation.
LEMMA OrphanStep ==
  ASSUME RegistryInv, [Next]_vars
  PROVE  \/ Orphans' \subseteq Orphans
         \/ \E r \in Requests : task[r] = "inside" /\ task'[r] = "cancelled"
         \/ stopper = "away" /\ stopper' = "waiting"
<1> USE NamesAssumption
    DEF RegistryInv, TypeOK, StageInv, Orphans, Alive, critical, stored, callers
<1>1. ASSUME NEW r \in Requests, NEW s \in Slots, Acquire(r, s)
      PROVE  Orphans' \subseteq Orphans
  BY <1>1 DEF Acquire
<1>2. ASSUME NEW r \in Requests, Hit(r) \/ HitTornDown(r) \/ Release(r)
      PROVE  Orphans' \subseteq Orphans
  BY <1>2 DEF Hit, HitTornDown, Release
<1>3. ASSUME NEW r \in Requests, BeginSwap(r)
      PROVE  Orphans' \subseteq Orphans
  BY <1>3 DEF BeginSwap, EnterCritical
<1>4. ASSUME NEW r \in Requests, DeadlineCancels(r)
      PROVE  \/ Orphans' \subseteq Orphans
             \/ task[r] = "inside" /\ task'[r] = "cancelled"
  BY <1>4 DEF DeadlineCancels
<1>5. CASE StopServer
  BY <1>5 DEF StopServer, LeaveCritical, Stages
<1>6. CASE StartServer
  BY <1>6 DEF StartServer, Unreferenced
<1>7. CASE StartFails
  BY <1>7 DEF StartFails, LeaveCritical, Stages
<1>8. CASE SwapDone
  BY <1>8 DEF SwapDone, LeaveCritical
<1>9. CASE NotReady
  BY <1>9 DEF NotReady
<1>10. CASE CleanUp
  BY <1>10 DEF CleanUp, LeaveCritical
<1>11. CASE IdlerStep
  BY <1>11 DEF IdlerStep, TimerExpires, IdlerUnloads, IdlerSkips, EnterCritical
<1>12. CASE Shutdown
  BY <1>12 DEF Shutdown
<1>13. CASE ShutdownStops
  BY <1>13 DEF ShutdownStops, EnterCritical
<1>14. ASSUME NEW p \in Procs, Crash(p)
       PROVE  Orphans' \subseteq Orphans
  BY <1>14 DEF Crash
<1>15. CASE UNCHANGED vars
  BY <1>15 DEF vars
<1>16. QED
  BY <1>1, <1>2, <1>3, <1>4, <1>5, <1>6, <1>7, <1>8, <1>9, <1>10, <1>11, <1>12,
     <1>13, <1>14, <1>15
  DEF Next, TakesLock, CriticalStep

\* Every failure path stops what it started: only a cancelled swap can leave a
\* llama-server running that the registry no longer knows.
THEOREM OrphansAreCancellations == Spec => OrphansOnlyByCancellation
<1>1. RegistryInv /\ [Next]_vars =>
        [ \/ Orphans' \subseteq Orphans
          \/ \E r \in Requests : task[r] = "inside" /\ task'[r] = "cancelled"
          \/ stopper = "away" /\ stopper' = "waiting" ]_vars
  BY OrphanStep
<1>2. QED
  BY <1>1, RegistryInvariant, PTL DEF Spec, OrphansOnlyByCancellation

-----------------------------------------------------------------------------
(* Without cancellations the registry keeps its promise. *)

NoCancellation == Environment \cap {"deadline", "shutdown"} = {}

ExclusiveInv == Orphans = {} /\ stopper = "away"

LEMMA ExclusiveStep ==
  ASSUME NoCancellation, RegistryInv, ExclusiveInv, [Next]_vars
  PROVE  ExclusiveInv'
<1>1. stopper' = "away"
  BY DEF NoCancellation, ExclusiveInv, RegistryInv, LockInv, Next, TakesLock, CriticalStep,
         IdlerStep, Acquire, Hit, HitTornDown, BeginSwap, DeadlineCancels, Release,
         StopServer, StartServer, StartFails, SwapDone, NotReady, CleanUp, TimerExpires,
         IdlerUnloads, IdlerSkips, Shutdown, ShutdownStops, Crash, vars, Tasks
<1>2. ~ \E r \in Requests : task[r] = "inside" /\ task'[r] = "cancelled"
  BY DEF NoCancellation, RegistryInv, TypeOK, Next, TakesLock, CriticalStep,
         IdlerStep, Acquire, Hit, HitTornDown, BeginSwap, DeadlineCancels, Release,
         StopServer, StartServer, StartFails, HolderFails, SwapDone, NotReady, CleanUp,
         TimerExpires, IdlerUnloads, IdlerSkips, Shutdown, ShutdownStops, Crash, vars,
         callers
<1>3. Orphans' \subseteq Orphans
  BY <1>1, <1>2, OrphanStep DEF ExclusiveInv
<1>4. QED
  BY <1>1, <1>3 DEF ExclusiveInv

LEMMA ExclusiveInvariant ==
  ASSUME NoCancellation
  PROVE  Spec => [](RegistryInv /\ ExclusiveInv)
<1>1. Init => ExclusiveInv
  BY DEF Init, ExclusiveInv, Orphans, Alive
<1>2. RegistryInv /\ ExclusiveInv /\ [Next]_vars => ExclusiveInv'
  BY ExclusiveStep
<1>3. QED
  BY <1>1, <1>2, RegistryInvariant, PTL DEF Spec

\* At most one llama-server process runs at a time.
THEOREM OneServer ==
  ASSUME NoCancellation
  PROVE  Spec => []AtMostOneServer
<1>1. RegistryInv /\ ExclusiveInv => AtMostOneServer
  BY NamesAssumption
  DEF RegistryInv, TypeOK, StageInv, Stages, ExclusiveInv, Orphans, Alive, AtMostOneServer
<1>2. QED
  BY <1>1, ExclusiveInvariant, PTL

-----------------------------------------------------------------------------
\* A step after which the lock is free, a slot is active and its client is gone:
\* either it was so before, or somebody was cancelled while the old server was
\* being stopped.
LEMMA TornDownStep ==
  ASSUME RegistryInv, [Next]_vars, TornDown', ~TornDown
  PROVE  /\ stage = "stop"
         /\ \/ \E r \in Requests : task[r] = "inside" /\ task'[r] = "cancelled"
            \/ stopper = "away" /\ stopper' = "waiting"
<1> USE NamesAssumption
    DEF TornDown, RegistryInv, TypeOK, LockInv, StageInv, StoredFieldsAgree,
        critical, stored, callers, Stages
<1>1. ASSUME NEW r \in Requests, Hit(r) \/ HitTornDown(r) \/ Release(r)
      PROVE  FALSE
  BY <1>1 DEF Hit, HitTornDown, Release
<1>2. ASSUME NEW r \in Requests, NEW s \in Slots, Acquire(r, s)
      PROVE  FALSE
  BY <1>2 DEF Acquire
<1>3. ASSUME NEW r \in Requests, BeginSwap(r)
      PROVE  FALSE
  BY <1>3 DEF BeginSwap, EnterCritical, Tasks
<1>4. ASSUME NEW r \in Requests, DeadlineCancels(r)
      PROVE  stage = "stop" /\ task[r] = "inside" /\ task'[r] = "cancelled"
  BY <1>4 DEF DeadlineCancels, Unwind, LeaveCritical
<1>5. CASE StopServer
  BY <1>5 DEF StopServer, LeaveCritical
<1>6. CASE StartServer \/ NotReady
  BY <1>6 DEF StartServer, NotReady
<1>7. CASE StartFails \/ CleanUp
  BY <1>7 DEF StartFails, CleanUp, LeaveCritical
<1>8. CASE SwapDone
  BY <1>8 DEF SwapDone, LeaveCritical
<1>9. CASE IdlerStep
  BY <1>9 DEF IdlerStep, TimerExpires, IdlerUnloads, IdlerSkips, EnterCritical
<1>10. CASE Shutdown
  BY <1>10 DEF Shutdown, Unwind, LeaveCritical
<1>11. CASE ShutdownStops
  BY <1>11 DEF ShutdownStops, EnterCritical
<1>12. ASSUME NEW p \in Procs, Crash(p)
       PROVE  FALSE
  BY <1>12 DEF Crash
<1>13. CASE UNCHANGED vars
  BY <1>13 DEF vars
<1>14. QED
  BY <1>1, <1>2, <1>3, <1>4, <1>5, <1>6, <1>7, <1>8, <1>9, <1>10, <1>11, <1>12, <1>13
  DEF Next, TakesLock, CriticalStep

\* The assertion of acquire() (model_registry.py:88) fails in no other state than
\* TornDown, and only a cancelled stop leads there: with every kind of crash,
\* failed start, deadline and shutdown.
THEOREM AssertionFailsOnlyAfterCancelledStop ==
  Spec => /\ [](AssertionHolds \/ TornDown)
          /\ TornDownOnlyByCancelledStop
<1>1. RegistryInv => AssertionHolds \/ TornDown
  BY NamesAssumption DEF RegistryInv, LockInv, AssertionHolds, TornDown
<1>2. RegistryInv /\ [Next]_vars =>
        [TornDown' =>
           \/ TornDown
           \/ /\ stage = "stop"
              /\ \/ \E r \in Requests : task[r] = "inside" /\ task'[r] = "cancelled"
                 \/ stopper = "away" /\ stopper' = "waiting"]_vars
  BY TornDownStep
<1>3. QED
  BY <1>1, <1>2, RegistryInvariant, PTL DEF Spec, TornDownOnlyByCancelledStop

-----------------------------------------------------------------------------
(* The refinement needs no assumption: cancellations lose processes. *)

LEMMA RefinementStep ==
  ASSUME RegistryInv, [Next]_vars
  PROVE  Single!Next \/ UNCHANGED <<serving, Orphans>>
<1> USE NamesAssumption DEF RegistryInv, TypeOK, StageInv, Orphans, Alive
<1>1. CASE StopServer
  <2>1. server \in Procs /\ fresh = NoProc
    BY <1>1 DEF StopServer
  <2>2. CASE serving[server] = NoSlot
    BY <1>1, <2>1, <2>2 DEF StopServer, LeaveCritical
  <2>3. CASE serving[server] # NoSlot
    <3>1. Orphans' = Orphans \ {server}
      BY <1>1, <2>1 DEF StopServer, LeaveCritical
    <3>2. QED
      BY <1>1, <2>1, <2>3, <3>1 DEF StopServer, Single!Next, Single!End
  <2>4. QED
    BY <2>2, <2>3
<1>2. CASE StartServer
  <2>1. Single!Kept = {}
    BY <1>2 DEF StartServer, Single!Kept
  <2>2. PICK p \in Procs :
          Unreferenced(p) /\ fresh' = p /\ serving' = [serving EXCEPT ![p] = target]
    BY <1>2 DEF StartServer
  <2>3. serving[p] = NoSlot /\ p # server /\ server' = server /\ fresh = NoProc
    BY <1>2, <2>2 DEF StartServer, Unreferenced, stored
  <2>4. Orphans' = Orphans
    BY <2>2, <2>3
  <2>5. target \in Slots
    BY <1>2 DEF StartServer, LockInv, Tasks, Slots
  <2>6. QED
    BY <2>1, <2>2, <2>3, <2>4, <2>5 DEF Single!Next, Single!Start
<1>3. CASE CleanUp
  <2>1. fresh \in Procs /\ server = NoProc
    BY <1>3 DEF CleanUp
  <2>2. CASE serving[fresh] = NoSlot
    BY <1>3, <2>1, <2>2 DEF CleanUp, LeaveCritical, stored
  <2>3. CASE serving[fresh] # NoSlot
    <3>1. Orphans' = Orphans \ {fresh}
      BY <1>3, <2>1 DEF CleanUp, LeaveCritical, stored
    <3>2. QED
      BY <1>3, <2>1, <2>3, <3>1 DEF CleanUp, Single!Next, Single!End
  <2>4. QED
    BY <2>2, <2>3
<1>4. ASSUME NEW p \in Procs, Crash(p)
      PROVE  Single!Next
  <2>1. Orphans' = Orphans \ {p}
    BY <1>4 DEF Crash, critical, stored
  <2>2. QED
    BY <1>4, <2>1 DEF Crash, Single!Next, Single!End
<1>5. ASSUME Unwind, serving' = serving, server' = server
      PROVE  Single!Next \/ UNCHANGED <<serving, Orphans>>
  <2>1. CASE fresh \notin Alive
    BY <1>5, <2>1 DEF Unwind, LeaveCritical
  <2>2. CASE fresh \in Alive
    <3>1. Orphans' = Orphans \union {fresh}
      BY <1>5, <2>2, fresh # server DEF Unwind, LeaveCritical
    <3>2. QED
      BY <1>5, <2>2, <3>1 DEF Single!Next, Single!Lose, Single!Kept
  <2>3. QED
    BY <2>1, <2>2
<1>6. CASE SwapDone
  BY <1>6 DEF SwapDone, LeaveCritical
<1>7. CASE StartFails
  BY <1>7 DEF StartFails, LeaveCritical, stored
<1>8. ASSUME NEW r \in Requests, DeadlineCancels(r)
      PROVE  Unwind \/ UNCHANGED <<serving, Orphans>>
  BY <1>8 DEF DeadlineCancels, critical, stored
<1>9. CASE Shutdown
  <2>1. Unwind \/ UNCHANGED <<serving, Orphans>>
    BY <1>9 DEF Shutdown, critical, stored
  <2>2. QED
    BY <1>5, <1>9, <2>1 DEF Shutdown, stored
<1>10. ASSUME NEW r \in Requests, TakesLock(r) \/ Release(r) \/ \E s \in Slots : Acquire(r, s)
       PROVE  UNCHANGED <<serving, Orphans>>
  BY <1>10 DEF TakesLock, Hit, HitTornDown, BeginSwap, EnterCritical, Release, Acquire,
              critical, stored
<1>11. CASE NotReady \/ IdlerStep \/ ShutdownStops \/ UNCHANGED vars
  BY <1>11 DEF NotReady, IdlerStep, TimerExpires, IdlerUnloads, IdlerSkips, ShutdownStops,
              EnterCritical, critical, stored, vars
<1>12. QED
  <2>1. ASSUME NEW r \in Requests, DeadlineCancels(r)
        PROVE  Single!Next \/ UNCHANGED <<serving, Orphans>>
    BY <1>5, <1>8, <2>1 DEF DeadlineCancels, stored
  <2>2. QED
    BY <1>1, <1>2, <1>3, <1>4, <1>6, <1>7, <1>9, <1>10, <1>11, <2>1
    DEF Next, CriticalStep

\* Every step of the registry starts a process when none runs that it knows of,
\* ends one, loses one, or does not touch the processes: it implements SingleSlot.
THEOREM Refinement == Spec => ImplementsSingleSlot
<1>1. Init => Single!Init
  BY DEF Init, Single!Init, Orphans, Alive
<1>2. RegistryInv /\ [Next]_vars => [Single!Next]_<<serving, Orphans>>
  BY RefinementStep
<1>3. QED
  BY <1>1, <1>2, RegistryInvariant, PTL DEF Spec, ImplementsSingleSlot, Single!Spec

=============================================================================
