---------------------------- MODULE AgentRequest ----------------------------
(***************************************************************************)
(* Chat requests (agent.py, with LlamaCppClient.chat) composed with the    *)
(* model registry.                                                         *)
(*                                                                         *)
(* Agent.handle runs each request as a task of its own under a deadline.   *)
(* The request acquires a slot, then alternates between one chat call on   *)
(* the client it was handed and the tool calls the model asked for.  In    *)
(* between, other requests and the idle worker may swap the model away.    *)
(* A two-phase request does this twice, on general and then on coding.     *)
(*                                                                         *)
(* What the code does between two awaits is one action: a request posts    *)
(* its first chat in the step that hands it the client.  The Groq branch   *)
(* of handle has no step: GroqClient.chat takes no `tools` argument, so    *)
(* _run_groq_loop raises before its first await and _run_local follows.    *)
(***************************************************************************)
EXTENDS Naturals, FiniteSets

CONSTANTS
  Requests, Procs, Configured, Environment, MaxOrphans,
  NoProc, NoTask, NoSlot,
  Routes,          \* how messages are routed: to one slot, or two-phase
  Calls,           \* the distinct (tool, canonical arguments) pairs
  MaxIterations    \* max_tool_iterations

ASSUME RoutesAssumption ==
  Routes \subseteq {"general", "coding", "reasoning", "twoPhase"}
ASSUME MaxIterationsAssumption == MaxIterations \in Nat
ASSUME RegistryAssumption ==     \* what ModelRegistry assumes
  /\ Configured \subseteq {"general", "coding", "reasoning"}
  /\ Environment \subseteq {"deadline", "shutdown", "crash", "spawnError"}
  /\ MaxOrphans \in Nat
  /\ NoProc \notin Procs
  /\ NoSlot \notin {"general", "coding", "reasoning"}
  /\ NoTask \notin Requests \union {"idler", "stopper"}
  /\ "idler" \notin Requests /\ "stopper" \notin Requests

VARIABLES
  holder, stage, target, fresh, active, server, client,
  serving, timer, task, want, got, stopper,    \* see ModelRegistry
  turn                                         \* each request's progress

Registry == INSTANCE ModelRegistry

Slots == Registry!Slots

registry == <<holder, stage, target, fresh, active, server, client,
              serving, timer, task, want, got, stopper>>
vars     == <<registry, turn>>

(***************************************************************************)
(* A turn, field by field:                                                 *)
(*   at        acquiring: inside registry.acquire; inflight: awaiting a    *)
(*             chat response; tools: awaiting dispatch                     *)
(*   phase     only: _run_local; research, implement: _run_two_phase       *)
(*   slot      the slot asked for                                          *)
(*   attempt   2 after a ModelSwappedError                                 *)
(*   iter      chats of this _run_loop that were answered by tool calls    *)
(*   last      the chat in flight is a final one, whatever it answers      *)
(*   called    the dedup set of this _run_loop                             *)
(*   todo      tool calls of this iteration still to be dispatched         *)
(*   ran, earlier   calls dispatched in this _run_loop, and in earlier     *)
(*             loops of the turn (history)                                 *)
(*   repeated  calls dispatched again in the same loop (history)           *)
(*   expired   the deadline's cancellation was swallowed                   *)
(*   result    how the turn ended                                          *)
(***************************************************************************)
Ats     == {"idle", "acquiring", "inflight", "tools", "done"}
Phases  == {"only", "research", "implement"}
Results == {"none", "reply", "timeout", "error"}

Turns ==
  [at : Ats, phase : Phases, slot : Slots, attempt : {1, 2}, iter : 0..MaxIterations,
   last : BOOLEAN, called : SUBSET Calls, todo : SUBSET Calls,
   ran : SUBSET Calls, earlier : SUBSET Calls, repeated : SUBSET Calls,
   expired : BOOLEAN, result : Results]

IdleTurn ==
  [at |-> "idle", phase |-> "only", slot |-> "general", attempt |-> 1, iter |-> 0,
   last |-> FALSE, called |-> {}, todo |-> {}, ran |-> {}, earlier |-> {},
   repeated |-> {}, expired |-> FALSE, result |-> "none"]

\* A turn is inside acquire() exactly while the registry knows its task there,
\* and holds a client while it chats or runs tools.
TypeOK ==
  /\ turn \in [Requests -> Turns]
  /\ \A r \in Requests :
       /\ turn[r].at = "acquiring" <=> task[r] \in {"waiting", "inside"}
       /\ turn[r].at \in {"inflight", "tools"} => task[r] = "using"

Busy(r) == turn[r].at \in {"acquiring", "inflight", "tools"}

\* The client r holds has been closed by a swap.
SwappedAway(r) == got[r] # client

\* The server that serves r's chat runs and its connection is open.
Answerable(r) ==
  turn[r].at = "inflight" /\ ~SwappedAway(r) /\ got[r] \in Registry!Alive

-----------------------------------------------------------------------------
\* The turn is over; its task has yet to be unwound.
Ended(outcome) == [IdleTurn EXCEPT !.at = "done", !.result = outcome]

\* Mutant of Reacquiring: the new loop starts before acquire() has returned.
ReacquiringInLoop(t, phase, slot, attempt) ==
  [t EXCEPT !.phase = phase, !.slot = slot, !.attempt = attempt,
            !.iter = 0, !.last = FALSE, !.called = {}, !.todo = {},
            !.ran = {}, !.earlier = @ \union t.ran]

\* A loop is left, its local variables with it, and acquire() is called again.
Reacquiring(t, phase, slot, attempt) ==
  [t EXCEPT !.at = "acquiring", !.phase = phase, !.slot = slot, !.attempt = attempt,
            !.iter = 0, !.last = FALSE, !.called = {}, !.todo = {},
            !.ran = {}, !.earlier = @ \union t.ran]

\* Dispatch one more call of the current iteration.
Dispatched(t, new, c) ==
  [t EXCEPT !.at = "tools", !.todo = new \ {c}, !.called = @ \union {c},
            !.ran = @ \union {c},
            !.repeated = IF c \in t.ran THEN @ \union {c} ELSE @]

Init ==
  /\ Registry!Init
  /\ turn = [r \in Requests |-> IdleTurn]

Becomes(r, t) == turn' = [turn EXCEPT ![r] = t]

\* handle() returns or raises while its task holds a client, and drops it.
Ends(r, outcome) ==
  /\ Registry!Release(r)
  /\ Becomes(r, [IdleTurn EXCEPT !.result = outcome])

\* A message arrives and is routed: to one slot, or to the two-phase path.
Begin(r) ==
  /\ turn[r].at = "idle"
  /\ \E route \in Routes :
       LET slot == IF route = "twoPhase" THEN "general" ELSE route IN
       /\ Registry!Acquire(r, slot)
       /\ Becomes(r, [IdleTurn EXCEPT
                        !.at = "acquiring", !.slot = slot,
                        !.phase = IF route = "twoPhase" THEN "research" ELSE "only"])

\* The registry moves on.  A request that is handed its client starts its loop
\* in the same step; one whose acquire() raised ends.
RegistryStep ==
  /\ \/ \E r \in Requests : Registry!TakesLock(r)
     \/ Registry!CriticalStep
     \/ Registry!IdlerStep
     \/ Registry!Shutdown
     \/ Registry!ShutdownStops
     \/ \E p \in Procs : Registry!Crash(p)
  /\ turn' = [r \in Requests |->
                IF turn[r].at # "acquiring" THEN turn[r]
                ELSE CASE task'[r] = "using"  -> [turn[r] EXCEPT !.at = "inflight"]
                       [] task'[r] = "failed" -> Ended("error")
                       [] OTHER               -> turn[r]]

-----------------------------------------------------------------------------
(* Responses to the chat in flight *)

\* Mutant of Completed: phase 2 goes on with the client of phase 1.
CompletedOnSameClient(r) ==
  IF turn[r].phase = "research"
    THEN /\ Becomes(r, [Reacquiring(turn[r], "implement", "coding", 1) EXCEPT !.at = "inflight"])
         /\ UNCHANGED registry
    ELSE Ends(r, "reply")

\* _run_loop returns: the turn has its reply, or phase 2 acquires coding.
Completed(r) ==
  IF turn[r].phase = "research"
    THEN /\ Registry!Acquire(r, "coding")
         /\ Becomes(r, Reacquiring(turn[r], "implement", "coding", 1))
    ELSE Ends(r, "reply")

\* A plain answer, or any answer to a final chat, ends the loop.
AnswerText(r) == Answerable(r) /\ Completed(r)

\* The model echoed its system prompt: one final chat asks again.
AnswerEcho(r) ==
  /\ Answerable(r) /\ ~turn[r].last
  /\ Becomes(r, [turn[r] EXCEPT !.last = TRUE])
  /\ UNCHANGED registry

\* Mutant of AnswerCalls: no deduplication.
AnswerCallsNoDedup(r) ==
  /\ Answerable(r) /\ ~turn[r].last
  /\ \E asked \in SUBSET Calls \ {{}} :
       IF turn[r].iter = MaxIterations
         THEN Becomes(r, [turn[r] EXCEPT !.last = TRUE])
         ELSE \E c \in asked :
                Becomes(r, [Dispatched(turn[r], asked, c) EXCEPT !.iter = @ + 1])
  /\ UNCHANGED registry

\* The model asks for tools.  At the iteration cap, or if every call is a
\* duplicate, a final chat follows; otherwise the first new call is dispatched.
AnswerCalls(r) ==
  /\ Answerable(r) /\ ~turn[r].last
  /\ \E asked \in SUBSET Calls \ {{}} :
       LET new == asked \ turn[r].called IN
       IF turn[r].iter = MaxIterations \/ new = {}
         THEN Becomes(r, [turn[r] EXCEPT !.last = TRUE])
         ELSE \E c \in new :
                Becomes(r, [Dispatched(turn[r], new, c) EXCEPT !.iter = @ + 1])
  /\ UNCHANGED registry

\* HTTP status 400 or above.
AnswerError(r) ==
  /\ Answerable(r)
  /\ Ends(r, "error")

\* model_timeout_seconds: asyncio.TimeoutError, which handle() catches.
ChatTimesOut(r) ==
  /\ turn[r].at = "inflight"
  /\ Ends(r, "timeout")

\* Mutant of Disconnected: retries for as long as the model is swapped.
DisconnectedRetriesForever(r) ==
  /\ turn[r].at = "inflight" /\ ~Answerable(r)
  /\ \/ /\ Registry!Acquire(r, turn[r].slot)
        /\ Becomes(r, Reacquiring(turn[r], turn[r].phase, turn[r].slot, 2))
     \/ Ends(r, "error")

\* The session was closed or the server died under the request.  A
\* ServerDisconnectedError becomes ModelSwappedError, which is retried once;
\* a refused connection or a body cut short is any other error.
Disconnected(r) ==
  /\ turn[r].at = "inflight" /\ ~Answerable(r)
  /\ \/ /\ turn[r].attempt = 1
        /\ Registry!Acquire(r, turn[r].slot)
        /\ Becomes(r, Reacquiring(turn[r], turn[r].phase, turn[r].slot, 2))
     \/ Ends(r, "error")

-----------------------------------------------------------------------------
(* Tools *)

\* A dispatch returned (a result, or the text of its error or timeout) and
\* the next new call of the iteration is dispatched.
NextCall(r) ==
  /\ turn[r].at = "tools"
  /\ \E c \in turn[r].todo : Becomes(r, Dispatched(turn[r], turn[r].todo, c))
  /\ UNCHANGED registry

\* The last dispatch of the iteration returned: chat again.  Posting on a closed
\* session raises a plain RuntimeError, which is not a ModelSwappedError.
CallsDone(r) ==
  /\ turn[r].at = "tools" /\ turn[r].todo = {}
  /\ IF SwappedAway(r)
       THEN Ends(r, "error")
       ELSE Becomes(r, [turn[r] EXCEPT !.at = "inflight"]) /\ UNCHANGED registry

-----------------------------------------------------------------------------
\* request_deadline_seconds: asyncio.timeout cancels the task once, wherever
\* it is.  While it awaits the old server's log task, LlamaCppServer.stop()
\* swallows the cancellation and the request runs on without a deadline.
Deadline(r) ==
  /\ Busy(r) /\ ~turn[r].expired
  /\ \/ Registry!DeadlineCancels(r) /\ Becomes(r, Ended("timeout"))
     \/ /\ "deadline" \in Environment
        /\ holder = r /\ stage = "stop"
        /\ Becomes(r, [turn[r] EXCEPT !.expired = TRUE])
        /\ UNCHANGED registry

\* A task that failed inside acquire() or was cancelled is unwound.
Finish(r) == turn[r].at = "done" /\ Ends(r, turn[r].result)

ChatStep(r) ==
  AnswerText(r) \/ AnswerEcho(r) \/ AnswerCalls(r) \/ AnswerError(r)
    \/ ChatTimesOut(r) \/ Disconnected(r)

ToolStep(r) == NextCall(r) \/ CallsDone(r)

Next ==
  \/ RegistryStep
  \/ \E r \in Requests :
       Begin(r) \/ ChatStep(r) \/ ToolStep(r) \/ Deadline(r) \/ Finish(r)

Spec == Init /\ [][Next]_vars

\* Chats and tools are bounded by their own timeouts.  asyncio.Lock is first-come
\* first-served, so whoever waits for it gets it eventually; the stages of a swap
\* are bounded too (5 s to stop, 120 attempts to become ready), and a sleep ends.
\* Messages need not come, deadlines and crashes need not happen.
Fairness ==
  /\ \A r \in Requests :
       /\ SF_vars(Registry!TakesLock(r) /\ RegistryStep)
       /\ WF_vars(ChatStep(r)) /\ WF_vars(ToolStep(r))
  /\ SF_vars((Registry!IdlerUnloads \/ Registry!IdlerSkips) /\ RegistryStep)
  /\ SF_vars(Registry!ShutdownStops /\ RegistryStep)
  /\ WF_vars(Registry!CriticalStep /\ RegistryStep)
  /\ WF_vars(Registry!TimerExpires /\ RegistryStep)

FairSpec == Spec /\ Fairness

-----------------------------------------------------------------------------
(* Properties *)

\* A chat that can be answered is answered by the model its request asked for,
\* whatever other requests and the idle worker have swapped in the meantime.
AnsweredByOwnModel ==
  \A r \in Requests :
    Answerable(r) => serving[got[r]] = Registry!Resolve(turn[r].slot)

\* No _run_loop, be it a first one, a retry or the second phase, runs a tool twice
\* with the same arguments, over however many iterations the model asks for it.
RepeatsOnlyInNewLoop == \A r \in Requests : turn[r].repeated = {}

\* "prevent the model from calling the same tool with the same arguments twice in
\* one turn" (agent.py:482-483).
NoRepeatInTurn ==
  \A r \in Requests : turn[r].repeated = {} /\ turn[r].ran \cap turn[r].earlier = {}

\* Requests that keep evicting one another's models do not do so for ever:
\* every turn ends, with at most one retry per phase, and so does every acquire()
\* it waits in.
EveryTurnEnds == \A r \in Requests : Busy(r) ~> ~Busy(r)

\* The registry's own liveness, with requests that queue for it again when their
\* model has been swapped away: once none is inside acquire() any more, no heavy
\* slot stays loaded for ever.
HeavyEventuallyUnloaded == Registry!HeavyEventuallyUnloaded

\* Requests use the registry only through its operations, so that all that is
\* proved about ModelRegistry holds of the composition.
UsesRegistry == Registry!Spec

\* "if the idle timer swaps the active slot while a request is in-flight, ...
\* catch ModelSwappedError, re-acquire a fresh client, and retry once"
\* (agent.py:25-27): a first swap, found out when the tools are done, does not
\* end the request in an error.
FirstSwapIsRetried ==
  [][\A r \in Requests :
       turn[r].at = "tools" /\ turn[r].attempt = 1 /\ SwappedAway(r)
         => turn'[r].result # "error"]_vars
=============================================================================
