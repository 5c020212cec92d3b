------------------------- MODULE AgentRequestProofs -------------------------
(***************************************************************************)
(* Proofs about AgentRequest: every step of a request is a step of the     *)
(* registry or leaves it alone, so what ModelRegistryProofs shows of the   *)
(* registry holds while requests chat, run tools, retry and time out; and  *)
(* with it, that a chat is answered by the model its request asked for.    *)
(***************************************************************************)
EXTENDS AgentRequest, TLAPS

\* The registry again, with its proofs.
Proved == INSTANCE ModelRegistryProofs

LEMMA ProvedAssumptions ==
  /\ Configured \subseteq Proved!Slots
  /\ Environment \subseteq Proved!EnvironmentEvents
  /\ NoProc \notin Procs
  /\ NoSlot \notin Proved!Slots
  /\ NoTask \notin Proved!Tasks
  /\ Proved!Idler \notin Requests
  /\ Proved!Stopper \notin Requests
  /\ MaxOrphans \in Nat
  BY RegistryAssumption
  DEF Proved!Slots, Proved!EnvironmentEvents, Proved!Tasks, Proved!Idler, Proved!Stopper

\* Both instances have the same steps: their definitions are the same.
LEMMA SameSteps == Registry!Next <=> Proved!Next
<1> USE DEF
      Registry!critical, Registry!stored, Registry!callers, Registry!Alive,
      Registry!EnterCritical, Registry!LeaveCritical, Registry!HolderFails,
      Registry!Slots, Registry!Heavy, Registry!Idler, Registry!Stopper,
      Registry!Orphans, Registry!Unwind, Registry!Unreferenced, Registry!Resolve,
      Proved!critical, Proved!stored, Proved!callers, Proved!Alive,
      Proved!EnterCritical, Proved!LeaveCritical, Proved!HolderFails,
      Proved!Slots, Proved!Heavy, Proved!Idler, Proved!Stopper,
      Proved!Orphans, Proved!Unwind, Proved!Unreferenced, Proved!Resolve,
      Registry!Cardinality, Proved!Cardinality
<1>1. ASSUME NEW r, NEW s
      PROVE  Registry!Acquire(r, s) <=> Proved!Acquire(r, s)
  BY Zenon DEF Registry!Acquire, Proved!Acquire
<1>2. ASSUME NEW r
      PROVE  Registry!Hit(r) <=> Proved!Hit(r)
  BY Zenon DEF Registry!Hit, Proved!Hit
<1>3. ASSUME NEW r
      PROVE  Registry!HitTornDown(r) <=> Proved!HitTornDown(r)
  BY Zenon DEF Registry!HitTornDown, Proved!HitTornDown
<1>4. ASSUME NEW r
      PROVE  Registry!BeginSwap(r) <=> Proved!BeginSwap(r)
  BY Zenon DEF Registry!BeginSwap, Proved!BeginSwap
<1>5. ASSUME NEW r
      PROVE  Registry!DeadlineCancels(r) <=> Proved!DeadlineCancels(r)
  BY Zenon DEF Registry!DeadlineCancels, Proved!DeadlineCancels
<1>6. ASSUME NEW r
      PROVE  Registry!Release(r) <=> Proved!Release(r)
  BY Zenon DEF Registry!Release, Proved!Release
<1>7. Registry!StopServer <=> Proved!StopServer
  BY Zenon DEF Registry!StopServer, Proved!StopServer
<1>8. Registry!StartServer <=> Proved!StartServer
  BY Zenon DEF Registry!StartServer, Proved!StartServer
<1>9. Registry!StartFails <=> Proved!StartFails
  BY Zenon DEF Registry!StartFails, Proved!StartFails
<1>10. Registry!SwapDone <=> Proved!SwapDone
  BY Zenon DEF Registry!SwapDone, Proved!SwapDone
<1>11. Registry!NotReady <=> Proved!NotReady
  BY Zenon DEF Registry!NotReady, Proved!NotReady
<1>12. Registry!CleanUp <=> Proved!CleanUp
  BY Zenon DEF Registry!CleanUp, Proved!CleanUp
<1>13. Registry!TimerExpires <=> Proved!TimerExpires
  BY Zenon DEF Registry!TimerExpires, Proved!TimerExpires
<1>14. Registry!IdlerUnloads <=> Proved!IdlerUnloads
  BY Zenon DEF Registry!IdlerUnloads, Proved!IdlerUnloads
<1>15. Registry!IdlerSkips <=> Proved!IdlerSkips
  BY Zenon DEF Registry!IdlerSkips, Proved!IdlerSkips
<1>16. Registry!Shutdown <=> Proved!Shutdown
  BY Zenon DEF Registry!Shutdown, Proved!Shutdown
<1>17. Registry!ShutdownStops <=> Proved!ShutdownStops
  BY Zenon DEF Registry!ShutdownStops, Proved!ShutdownStops
<1>18. ASSUME NEW p
      PROVE  Registry!Crash(p) <=> Proved!Crash(p)
  BY Zenon DEF Registry!Crash, Proved!Crash
<1>19. QED
  BY <1>1, <1>2, <1>3, <1>4, <1>5, <1>6, <1>7, <1>8, <1>9, <1>10, <1>11, <1>12, <1>13, <1>14, <1>15, <1>16, <1>17, <1>18, Zenon
  DEF Registry!Next, Proved!Next, Registry!TakesLock, Proved!TakesLock,
      Registry!CriticalStep, Proved!CriticalStep, Registry!IdlerStep, Proved!IdlerStep

LEMMA SameNext == [Registry!Next]_Registry!vars <=> [Proved!Next]_Proved!vars
<1>1. UNCHANGED Registry!vars <=> UNCHANGED Proved!vars
  BY DEF Registry!vars, Registry!critical, Registry!stored, Registry!callers,
         Proved!vars, Proved!critical, Proved!stored, Proved!callers
<1>2. QED
  BY <1>1, SameSteps

LEMMA SameSpec == Registry!Spec <=> Proved!Spec
<1>1. Registry!Init <=> Proved!Init
  BY DEF Registry!Init, Proved!Init
<1>2. QED
  BY <1>1, SameNext, PTL DEF Registry!Spec, Proved!Spec

-----------------------------------------------------------------------------
\* Calls still to be dispatched are new, and the dedup set holds exactly what this
\* loop has dispatched: a retry and the second phase start both over.
GoodTurn(t) ==
  /\ t \in Turns
  /\ t.todo \cap t.called = {}
  /\ t.ran = t.called /\ t.repeated = {}

\* A turn is where the registry knows its task to be, and a turn in progress
\* waits for, or was handed, the slot it is on.
Fits(t, taskState, wanted) ==
  /\ t.at = "acquiring" <=> taskState \in {"waiting", "inside"}
  /\ t.at \in {"inflight", "tools"} => taskState = "using"
  /\ t.at \in {"acquiring", "inflight", "tools"} => wanted = Registry!Resolve(t.slot)

AgentInv ==
  /\ turn \in [Requests -> Turns]
  /\ \A r \in Requests : GoodTurn(turn[r]) /\ Fits(turn[r], task[r], want[r])

\* What a step of the registry itself does to the requests.
LEMMA RegistryStepEffect ==
  ASSUME Proved!RegistryInv, RegistryStep
  PROVE  /\ want' = want
         /\ \A r \in Requests :
              \/ task'[r] = task[r]
              \/ /\ task[r] \in {"waiting", "inside"}
                 /\ task'[r] \in {"inside", "using", "failed"}
<1> USE DEF Proved!RegistryInv, Proved!TypeOK, Proved!LockInv, Registry!callers
<1>1. ASSUME NEW r \in Requests, Registry!TakesLock(r)
      PROVE  /\ want' = want
             /\ task' = [task EXCEPT ![r] = task'[r]]
             /\ task[r] = "waiting" /\ task'[r] \in {"inside", "using", "failed"}
  BY <1>1 DEF Registry!TakesLock, Registry!Hit, Registry!HitTornDown, Registry!BeginSwap
<1>2. CASE Registry!CriticalStep
  <2>1. want' = want /\ (task' = task \/ \E x : task' = [task EXCEPT ![holder] = x] /\ holder \in Requests /\ x \in {"using", "failed"})
    BY <1>2 DEF Registry!CriticalStep, Registry!StopServer, Registry!StartServer, Registry!StartFails, Registry!SwapDone, Registry!NotReady, Registry!CleanUp, Registry!HolderFails, Proved!Tasks, Proved!StageInv, Registry!Idler, Proved!Idler, Proved!Stopper
  <2>2. QED
    BY <2>1
<1>3. CASE Registry!IdlerStep \/ Registry!Shutdown \/ Registry!ShutdownStops \/ \E p \in Procs : Registry!Crash(p)
  BY <1>3 DEF Registry!IdlerStep, Registry!TimerExpires, Registry!IdlerUnloads, Registry!IdlerSkips,
     Registry!Shutdown, Registry!ShutdownStops, Registry!Crash
<1>4. QED
  BY <1>1, <1>2, <1>3 DEF RegistryStep

-----------------------------------------------------------------------------
\* Steps of one request.
LEMMA TurnStep ==
  ASSUME AgentInv, NEW r \in Requests, NEW t,
         Becomes(r, t), GoodTurn(t), Fits(t, task'[r], want'[r]),
         \A q \in Requests \ {r} : task'[q] = task[q] /\ want'[q] = want[q]
  PROVE  AgentInv'
<1>1. turn' \in [Requests -> Turns]
  BY DEF AgentInv, Becomes, GoodTurn
<1>2. ASSUME NEW q \in Requests
      PROVE  GoodTurn(turn'[q]) /\ Fits(turn'[q], task'[q], want'[q])
  BY DEF AgentInv, Becomes
<1>3. QED
  BY <1>1, <1>2 DEF AgentInv, GoodTurn, Fits

LEMMA IdleIsGood == GoodTurn(IdleTurn)
  BY MaxIterationsAssumption
  DEF GoodTurn, Turns, IdleTurn, Ats, Phases, Results, Slots, Registry!Slots

LEMMA EndedIsGood ==
  ASSUME NEW outcome \in Results
  PROVE  /\ GoodTurn([IdleTurn EXCEPT !.result = outcome])
         /\ GoodTurn(Ended(outcome))
<1>1. "done" \in Ats
  BY DEF Ats
<1>2. /\ [IdleTurn EXCEPT !.result = outcome] \in Turns
      /\ Ended(outcome) \in Turns
  BY <1>1, IdleIsGood DEF GoodTurn, Ended, Turns
<1>3. QED
  BY <1>2 DEF GoodTurn, Ended, IdleTurn

LEMMA ReacquiringIsGood ==
  ASSUME NEW t, GoodTurn(t), NEW phase \in Phases, NEW slot \in Slots,
         NEW attempt \in {1, 2}
  PROVE  GoodTurn(Reacquiring(t, phase, slot, attempt))
<1>1. "acquiring" \in Ats /\ 0 \in 0..MaxIterations
  BY MaxIterationsAssumption DEF Ats
<1>2. Reacquiring(t, phase, slot, attempt) \in Turns
  BY <1>1 DEF GoodTurn, Reacquiring, Turns
<1>3. QED
  BY <1>2 DEF GoodTurn, Reacquiring, Turns

LEMMA DispatchedIsGood ==
  ASSUME NEW t, GoodTurn(t), NEW new \in SUBSET Calls, new \cap t.called = {},
         NEW c \in new, NEW n \in 0..MaxIterations
  PROVE  /\ GoodTurn(Dispatched(t, new, c))
         /\ GoodTurn([Dispatched(t, new, c) EXCEPT !.iter = n])
<1> DEFINE d == Dispatched(t, new, c)
           e == [d EXCEPT !.iter = n]
<1>1. "tools" \in Ats
  BY DEF Ats
<1>2. d \in Turns
  BY <1>1 DEF GoodTurn, Dispatched, Turns
<1>3. e \in Turns
  BY <1>2 DEF Turns
<1>4. /\ d.todo = new \ {c} /\ d.called = t.called \union {c}
      /\ d.ran = t.ran \union {c}
      /\ d.repeated = IF c \in t.ran THEN t.repeated \union {c} ELSE t.repeated
  BY DEF GoodTurn, Dispatched, Turns
<1>5. /\ e.todo = d.todo /\ e.called = d.called
      /\ e.ran = d.ran /\ e.repeated = d.repeated
  BY <1>2 DEF Turns
<1>6. GoodTurn(d)
  BY <1>2, <1>4 DEF GoodTurn
<1>7. GoodTurn(e)
  BY <1>3, <1>5, <1>6 DEF GoodTurn
<1>8. QED
  BY <1>6, <1>7

-----------------------------------------------------------------------------
LEMMA InitAgentInv == Init => AgentInv
<1> SUFFICES ASSUME Init, NEW r \in Requests
             PROVE  GoodTurn(turn[r]) /\ Fits(turn[r], task[r], want[r])
  BY IdleIsGood DEF Init, AgentInv, GoodTurn
<1>1. turn[r] = IdleTurn /\ task[r] = "away"
  BY DEF Init, Registry!Init
<1>2. QED
  BY <1>1, IdleIsGood DEF Fits, IdleTurn

LEMMA EndsStep ==
  ASSUME Proved!RegistryInv, AgentInv, NEW r \in Requests, NEW outcome \in Results,
         Ends(r, outcome)
  PROVE  AgentInv'
<1>1. task'[r] = "away" /\ \A q \in Requests \ {r} : task'[q] = task[q] /\ want'[q] = want[q]
  BY DEF Ends, Registry!Release, Proved!RegistryInv, Proved!TypeOK
<1> DEFINE t == [IdleTurn EXCEPT !.result = outcome]
<1>2. Fits(t, task'[r], want'[r])
  BY <1>1 DEF Fits, IdleTurn
<1>3. Becomes(r, t)
  BY DEF Ends
<1>4. GoodTurn(t)
  BY EndedIsGood
<1> HIDE DEF t
<1>5. QED
  BY <1>1, <1>2, <1>3, <1>4, TurnStep

\* A request comes back to acquire() for the next loop of its turn.
LEMMA ReacquireStep ==
  ASSUME Proved!RegistryInv, AgentInv, NEW r \in Requests, NEW phase \in Phases,
         NEW slot \in Slots, NEW attempt \in {1, 2},
         Registry!Acquire(r, slot), Becomes(r, Reacquiring(turn[r], phase, slot, attempt))
  PROVE  AgentInv'
<1> DEFINE t == Reacquiring(turn[r], phase, slot, attempt)
<1>1. /\ task'[r] = "waiting" /\ want'[r] = Registry!Resolve(slot)
      /\ \A q \in Requests \ {r} : task'[q] = task[q] /\ want'[q] = want[q]
  BY DEF Registry!Acquire, Proved!RegistryInv, Proved!TypeOK
<1>2. t.at = "acquiring" /\ t.slot = slot
  BY DEF AgentInv, Reacquiring, Turns
<1>3. GoodTurn(t)
  BY ReacquiringIsGood DEF AgentInv
<1> HIDE DEF t
<1>4. Fits(t, task'[r], want'[r])
  BY <1>1, <1>2 DEF Fits
<1>5. Becomes(r, t)
  BY DEF t
<1>6. QED
  BY <1>1, <1>3, <1>4, <1>5, TurnStep

\* A step inside a loop: the registry is left alone.
LEMMA LoopStep ==
  ASSUME AgentInv, NEW r \in Requests, NEW t, Becomes(r, t), GoodTurn(t),
         turn[r].at \in {"inflight", "tools"}, t.at \in {"inflight", "tools"},
         t.slot = turn[r].slot, UNCHANGED registry
  PROVE  AgentInv'
<1>1. task' = task /\ want' = want
  BY DEF registry
<1>2. Fits(t, task'[r], want'[r])
  BY <1>1 DEF AgentInv, Fits
<1>3. QED
  BY <1>1, <1>2, TurnStep

LEMMA RegistryStepKeepsInv ==
  ASSUME Proved!RegistryInv, AgentInv, RegistryStep
  PROVE  AgentInv'
<1> SUFFICES ASSUME NEW r \in Requests
             PROVE  GoodTurn(turn'[r]) /\ Fits(turn'[r], task'[r], want'[r])
  <2>1. DOMAIN turn' = Requests /\ turn' = [r \in Requests |-> turn'[r]]
    BY DEF RegistryStep
  <2>2. QED
    BY <2>1 DEF AgentInv, GoodTurn, Fits
<1>1. /\ GoodTurn(turn[r]) /\ Fits(turn[r], task[r], want[r])
      /\ want' = want
      /\ \/ task'[r] = task[r]
         \/ /\ task[r] \in {"waiting", "inside"}
            /\ task'[r] \in {"inside", "using", "failed"}
  BY RegistryStepEffect DEF AgentInv
<1>2. CASE turn[r].at # "acquiring"
  BY <1>1, <1>2 DEF RegistryStep, Fits
<1>3. CASE turn[r].at = "acquiring" /\ task'[r] = "using"
  <2> DEFINE t == [turn[r] EXCEPT !.at = "inflight"]
  <2>1. turn'[r] = t
    BY <1>3 DEF RegistryStep
  <2>2. "inflight" \in Ats
    BY DEF Ats
  <2>3. /\ t \in Turns /\ t.at = "inflight" /\ t.slot = turn[r].slot
        /\ t.todo = turn[r].todo /\ t.called = turn[r].called
        /\ t.ran = turn[r].ran /\ t.repeated = turn[r].repeated
    BY <1>1, <2>2 DEF GoodTurn, Turns
  <2> HIDE DEF t
  <2>4. GoodTurn(t)
    BY <1>1, <2>3 DEF GoodTurn
  <2>5. Fits(t, task'[r], want'[r])
    BY <1>1, <1>3, <2>3 DEF Fits
  <2>6. QED
    BY <2>1, <2>4, <2>5
<1>4. CASE turn[r].at = "acquiring" /\ task'[r] = "failed"
  <2>1. turn'[r] = Ended("error")
    BY <1>4 DEF RegistryStep
  <2>2. "error" \in Results
    BY DEF Results
  <2>3. Fits(Ended("error"), task'[r], want'[r])
    BY <1>4 DEF Fits, Ended, IdleTurn
  <2>4. QED
    BY <2>1, <2>2, <2>3, EndedIsGood
<1>5. CASE turn[r].at = "acquiring" /\ task'[r] \notin {"using", "failed"}
  <2>1. turn'[r] = turn[r]
    BY <1>5 DEF RegistryStep
  <2>2. QED
    BY <1>1, <1>5, <2>1 DEF Fits
<1>6. QED
  BY <1>2, <1>3, <1>4, <1>5

LEMMA AgentInvStep ==
  ASSUME Proved!RegistryInv, AgentInv, [Next]_vars
  PROVE  AgentInv'
<1> USE MaxIterationsAssumption
<1>0. /\ {"reply", "timeout", "error"} \subseteq Results
      /\ {"research", "implement", "only"} \subseteq Phases
      /\ {"general", "coding"} \subseteq Slots
      /\ {"inflight", "tools"} \subseteq Ats
  BY DEF Results, Phases, Slots, Registry!Slots, Ats
<1>1. ASSUME NEW r \in Requests, Begin(r)
      PROVE  AgentInv'
  <2>1. PICK route \in Routes, slot \in Slots, phase \in Phases :
          /\ Registry!Acquire(r, slot)
          /\ Becomes(r, [IdleTurn EXCEPT !.at = "acquiring", !.slot = slot, !.phase = phase])
          /\ phase # "implement"
    BY <1>0, <1>1, RoutesAssumption DEF Begin, Slots, Registry!Slots
  <2> DEFINE t == [IdleTurn EXCEPT !.at = "acquiring", !.slot = slot, !.phase = phase]
  <2>2. GoodTurn(t)
    <3>1. "acquiring" \in Ats
      BY DEF Ats
    <3>2. t \in Turns
      BY <3>1, IdleIsGood DEF GoodTurn, Turns
    <3>3. QED
      BY <3>2 DEF GoodTurn, IdleTurn
  <2>3. /\ task'[r] = "waiting" /\ want'[r] = Registry!Resolve(slot)
        /\ \A q \in Requests \ {r} : task'[q] = task[q] /\ want'[q] = want[q]
    BY <2>1 DEF Registry!Acquire, Proved!RegistryInv, Proved!TypeOK
  <2>4. Fits(t, task'[r], want'[r])
    BY <2>3 DEF Fits, IdleTurn
  <2> HIDE DEF t
  <2>5. Becomes(r, t)
    BY <2>1 DEF t
  <2>6. QED
    BY <2>2, <2>3, <2>4, <2>5, TurnStep
<1>2. CASE RegistryStep
  BY <1>2, RegistryStepKeepsInv
<1>3. ASSUME NEW r \in Requests, AnswerText(r)
      PROVE  AgentInv'
  <2>1. CASE turn[r].phase = "research"
    BY <1>0, <1>3, <2>1, ReacquireStep DEF AnswerText, Completed
  <2>2. CASE turn[r].phase # "research"
    BY <1>0, <1>3, <2>2, EndsStep DEF AnswerText, Completed
  <2>3. QED
    BY <2>1, <2>2
<1>4. ASSUME NEW r \in Requests, turn[r].at = "inflight", UNCHANGED registry,
             Becomes(r, [turn[r] EXCEPT !.last = TRUE])
      PROVE  AgentInv'
  <2> DEFINE t == [turn[r] EXCEPT !.last = TRUE]
  <2>1. /\ t \in Turns /\ t.at = "inflight" /\ t.slot = turn[r].slot
        /\ t.todo = turn[r].todo /\ t.called = turn[r].called
        /\ t.ran = turn[r].ran /\ t.repeated = turn[r].repeated
    BY <1>4 DEF AgentInv, Turns
  <2> HIDE DEF t
  <2>2. GoodTurn(t)
    BY <2>1 DEF AgentInv, GoodTurn
  <2>3. Becomes(r, t)
    BY <1>4 DEF t
  <2>4. QED
    BY <1>4, <2>1, <2>2, <2>3, LoopStep
<1>5. ASSUME NEW r \in Requests, AnswerEcho(r)
      PROVE  AgentInv'
  BY <1>4, <1>5 DEF AnswerEcho, Answerable
<1>6. ASSUME NEW r \in Requests, AnswerCalls(r)
      PROVE  AgentInv'
  <2>1. PICK asked \in SUBSET Calls :
          \/ Becomes(r, [turn[r] EXCEPT !.last = TRUE])
          \/ /\ turn[r].iter # MaxIterations
             /\ \E c \in asked \ turn[r].called :
                  Becomes(r, [Dispatched(turn[r], asked \ turn[r].called, c)
                                EXCEPT !.iter = @ + 1])
    BY <1>6 DEF AnswerCalls
  <2>2. CASE Becomes(r, [turn[r] EXCEPT !.last = TRUE])
    BY <1>4, <1>6, <2>2 DEF AnswerCalls, Answerable
  <2>3. ASSUME turn[r].iter # MaxIterations, NEW c \in asked \ turn[r].called,
               Becomes(r, [Dispatched(turn[r], asked \ turn[r].called, c)
                             EXCEPT !.iter = @ + 1])
        PROVE  AgentInv'
    <3> DEFINE d == Dispatched(turn[r], asked \ turn[r].called, c)
               t == [d EXCEPT !.iter = d.iter + 1]
    <3>1. GoodTurn(turn[r])
      BY DEF AgentInv
    <3>2. d.iter = turn[r].iter /\ d.iter + 1 \in 0..MaxIterations
      BY <2>3, <3>1 DEF Dispatched, GoodTurn, Turns
    <3>3. GoodTurn(t)
      BY <3>1, <3>2, DispatchedIsGood
    <3>4. t.at = "tools" /\ t.slot = turn[r].slot
      BY <3>1 DEF Dispatched, GoodTurn, Turns
    <3>5. Becomes(r, t)
      BY <2>3
    <3> HIDE DEF t
    <3>6. QED
      BY <1>6, <3>3, <3>4, <3>5, LoopStep DEF AnswerCalls, Answerable
  <2>4. QED
    BY <2>1, <2>2, <2>3
<1>7. ASSUME NEW r \in Requests, AnswerError(r) \/ ChatTimesOut(r)
      PROVE  AgentInv'
  BY <1>0, <1>7, EndsStep DEF AnswerError, ChatTimesOut
<1>8. ASSUME NEW r \in Requests, Disconnected(r)
      PROVE  AgentInv'
  <2>1. turn[r].phase \in Phases /\ turn[r].slot \in Slots
    BY DEF AgentInv, Turns
  <2>2. QED
    BY <1>0, <1>8, <2>1, EndsStep, ReacquireStep DEF Disconnected
<1>9. ASSUME NEW r \in Requests, NextCall(r)
      PROVE  AgentInv'
  <2>1. PICK c \in turn[r].todo : Becomes(r, Dispatched(turn[r], turn[r].todo, c))
    BY <1>9 DEF NextCall
  <2> DEFINE t == Dispatched(turn[r], turn[r].todo, c)
  <2>2. GoodTurn(turn[r]) /\ turn[r].todo \in SUBSET Calls /\ turn[r].iter \in 0..MaxIterations
    BY DEF AgentInv, GoodTurn, Turns
  <2>3. GoodTurn(t)
    BY <2>2, DispatchedIsGood DEF GoodTurn
  <2>4. t.at = "tools" /\ t.slot = turn[r].slot
    BY <2>2 DEF Dispatched, GoodTurn, Turns
  <2> HIDE DEF t
  <2>5. Becomes(r, t)
    BY <2>1 DEF t
  <2>6. QED
    BY <1>9, <2>3, <2>4, <2>5, LoopStep DEF NextCall
<1>10. ASSUME NEW r \in Requests, CallsDone(r)
       PROVE  AgentInv'
  <2>1. CASE SwappedAway(r)
    BY <1>0, <1>10, <2>1, EndsStep DEF CallsDone
  <2>2. CASE ~SwappedAway(r)
    <3> DEFINE t == [turn[r] EXCEPT !.at = "inflight"]
    <3>1. /\ t \in Turns /\ t.at = "inflight" /\ t.slot = turn[r].slot
          /\ t.todo = turn[r].todo /\ t.called = turn[r].called
          /\ t.ran = turn[r].ran /\ t.repeated = turn[r].repeated
      BY <1>0 DEF AgentInv, Turns
    <3>2. Becomes(r, t)
      BY <1>10, <2>2 DEF CallsDone
    <3> HIDE DEF t
    <3>3. GoodTurn(t)
      BY <3>1 DEF AgentInv, GoodTurn
    <3>4. QED
      BY <1>10, <2>2, <3>1, <3>2, <3>3, LoopStep DEF CallsDone
  <2>3. QED
    BY <2>1, <2>2
<1>11. ASSUME NEW r \in Requests, Deadline(r)
       PROVE  AgentInv'
  <2>1. CASE Registry!DeadlineCancels(r) /\ Becomes(r, Ended("timeout"))
    <3>1. /\ task'[r] = "cancelled"
          /\ \A q \in Requests \ {r} : task'[q] = task[q] /\ want'[q] = want[q]
      BY <2>1 DEF Registry!DeadlineCancels, Proved!RegistryInv, Proved!TypeOK
    <3>2. Fits(Ended("timeout"), task'[r], want'[r])
      BY <3>1 DEF Fits, Ended, IdleTurn
    <3>3. QED
      BY <1>0, <2>1, <3>1, <3>2, EndedIsGood, TurnStep
  <2>2. CASE UNCHANGED registry /\ Becomes(r, [turn[r] EXCEPT !.expired = TRUE])
    <3> DEFINE t == [turn[r] EXCEPT !.expired = TRUE]
    <3>1. /\ t \in Turns /\ t.at = turn[r].at /\ t.slot = turn[r].slot
          /\ t.todo = turn[r].todo /\ t.called = turn[r].called
          /\ t.ran = turn[r].ran /\ t.repeated = turn[r].repeated
      BY DEF AgentInv, Turns
    <3>2. Becomes(r, t)
      BY <2>2
    <3> HIDE DEF t
    <3>3. GoodTurn(t)
      BY <3>1 DEF AgentInv, GoodTurn
    <3>4. task' = task /\ want' = want
      BY <2>2 DEF registry
    <3>5. Fits(t, task'[r], want'[r])
      BY <3>1, <3>4 DEF AgentInv, Fits
    <3>6. QED
      BY <3>2, <3>3, <3>4, <3>5, TurnStep
  <2>3. QED
    BY <1>11, <2>1, <2>2 DEF Deadline
<1>12. ASSUME NEW r \in Requests, Finish(r)
       PROVE  AgentInv'
  <2>1. turn[r].result \in Results
    BY DEF AgentInv, Turns
  <2>2. QED
    BY <1>12, <2>1, EndsStep DEF Finish
<1>13. CASE UNCHANGED vars
  <2>1. turn' = turn /\ task' = task /\ want' = want
    BY <1>13 DEF vars, registry
  <2>2. QED
    BY <2>1 DEF AgentInv, GoodTurn, Fits
<1>14. QED
  BY <1>1, <1>2, <1>3, <1>5, <1>6, <1>7, <1>8, <1>9, <1>10, <1>11, <1>12, <1>13
  DEF Next, ChatStep, ToolStep

-----------------------------------------------------------------------------
\* A request changes the registry by Acquire, Release and DeadlineCancels only.
LEMMA RegistryOrStutter ==
  ASSUME AgentInv, [Next]_vars
  PROVE  [Registry!Next]_Registry!vars
<1>1. UNCHANGED registry => UNCHANGED Registry!vars
  BY DEF registry, Registry!vars, Registry!critical, Registry!stored, Registry!callers
<1>2. ASSUME NEW r \in Requests, Begin(r)
      PROVE  Registry!Next
  BY <1>2, RoutesAssumption DEF Begin, Registry!Slots, Registry!Next
<1>3. ASSUME RegistryStep
      PROVE  Registry!Next
  BY <1>3 DEF RegistryStep, Registry!Next
<1>4. ASSUME NEW r \in Requests, ChatStep(r)
      PROVE  Registry!Next \/ UNCHANGED registry
  <2>1. turn[r].slot \in Registry!Slots /\ "coding" \in Registry!Slots
    BY DEF AgentInv, Turns, Slots, Registry!Slots
  <2>2. QED
    BY <1>4, <2>1 DEF ChatStep, AnswerText, Completed, AnswerEcho, AnswerCalls, AnswerError,
                      ChatTimesOut, Disconnected, Ends, Registry!Next
<1>5. ASSUME NEW r \in Requests, ToolStep(r) \/ Deadline(r) \/ Finish(r)
      PROVE  Registry!Next \/ UNCHANGED registry
  BY <1>5 DEF ToolStep, NextCall, CallsDone, Deadline, Finish, Ends, Registry!Next
<1>6. Registry!Next \/ UNCHANGED registry
  BY <1>2, <1>3, <1>4, <1>5 DEF Next, vars
<1>7. QED
  BY <1>1, <1>6

\* Requests use the registry only through its operations.
THEOREM RequestsUseRegistry == Spec => UsesRegistry
<1> DEFINE Inv == Proved!RegistryInv /\ AgentInv
<1>1. Init => Inv
  <2>1. Init => Proved!Init
    BY DEF Init, Registry!Init, Proved!Init
  <2>2. QED
    BY <2>1, InitAgentInv, ProvedAssumptions, Proved!InitRegistryInv
<1>2. Inv /\ [Next]_vars => Inv'
  <2> SUFFICES ASSUME Inv, [Next]_vars PROVE Inv'
    OBVIOUS
  <2>1. [Proved!Next]_Proved!vars
    BY RegistryOrStutter, SameNext
  <2>2. Proved!RegistryInv'
    BY <2>1, ProvedAssumptions, Proved!RegistryInvStep
  <2>3. QED
    BY <2>2, AgentInvStep
<1>3. Init => Registry!Init
  BY DEF Init
<1>4. Inv /\ [Next]_vars => [Registry!Next]_Registry!vars
  BY RegistryOrStutter
<1>5. QED
  BY <1>1, <1>2, <1>3, <1>4, PTL DEF Spec, UsesRegistry, Registry!Spec

\* ... so the registry's invariants hold of the composition, and AgentInv too.
LEMMA CompositionInvariant ==
  Spec => [](Proved!RegistryInv /\ Proved!HeldClientIsWanted /\ AgentInv)
<1>1. Spec => [](Proved!RegistryInv /\ Proved!HeldClientIsWanted)
  BY RequestsUseRegistry, SameSpec, ProvedAssumptions, Proved!HeldClients, PTL DEF UsesRegistry
<1>2. Proved!RegistryInv /\ AgentInv /\ [Next]_vars => AgentInv'
  BY AgentInvStep
<1>3. QED
  BY <1>1, <1>2, InitAgentInv, PTL DEF Spec

\* Turns keep their type and stay in step with the registry's view of them.
THEOREM TypeCorrect == Spec => []TypeOK
<1>1. AgentInv => TypeOK
  BY DEF AgentInv, TypeOK, Fits
<1>2. QED
  BY <1>1, CompositionInvariant, PTL

\* An answer never comes from another slot's model, with any number of
\* requests evicting one another, cancellations, crashes and the idle worker.
THEOREM OwnModel == Spec => []AnsweredByOwnModel
<1>1. Proved!RegistryInv /\ Proved!HeldClientIsWanted /\ AgentInv => AnsweredByOwnModel
  <2> SUFFICES ASSUME Proved!RegistryInv, Proved!HeldClientIsWanted, AgentInv,
                      NEW r \in Requests, Answerable(r)
               PROVE  serving[got[r]] = Registry!Resolve(turn[r].slot)
    BY DEF AnsweredByOwnModel
  <2>1. got[r] = client /\ client \in Procs /\ serving[client] # NoSlot
    BY DEF Answerable, SwappedAway, Registry!Alive
  <2>2. task[r] = "using" /\ want[r] = Registry!Resolve(turn[r].slot)
    BY DEF AgentInv, Fits, Answerable
  <2>3. active = want[r]
    BY <2>1, <2>2 DEF Proved!HeldClientIsWanted
  <2>4. serving[client] = active
    BY <2>1, ProvedAssumptions
    DEF Proved!RegistryInv, Proved!StoredFieldsAgree, Proved!Alive
  <2>5. QED
    BY <2>1, <2>2, <2>3, <2>4
<1>2. QED
  BY <1>1, CompositionInvariant, PTL

\* No loop, first, retried or second phase, dispatches the same call twice.
THEOREM Dedup == Spec => []RepeatsOnlyInNewLoop
<1>1. AgentInv => RepeatsOnlyInNewLoop
  BY DEF AgentInv, GoodTurn, Turns, RepeatsOnlyInNewLoop
<1>2. QED
  BY <1>1, CompositionInvariant, PTL
=============================================================================
