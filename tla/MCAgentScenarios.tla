-------------------------- MODULE MCAgentScenarios --------------------------
(***************************************************************************)
(* Two instances of AgentRequest in one run.  alone: r1 has the bot to     *)
(* itself, and whatever can happen to it does.  rivals: two requests evict *)
(* one another's model, with no tools and no mishaps but failed starts.    *)
(* A scenario leaves out inputs (messages, tool calls) and mishaps, of     *)
(* which no fairness condition speaks; it disables no fair action.         *)
(***************************************************************************)
EXTENDS MCAgentRequest

VARIABLE scenario

InScenario ==
  \/ scenario = "alone" /\ turn'[r2] = IdleTurn
  \/ /\ scenario = "rivals"
     /\ \A r \in Requests :
          turn'[r].at # "tools" /\ ~turn'[r].expired /\ task'[r] # "cancelled"
     /\ stopper' = "away"
     /\ serving' # serving => stage' # stage

ScenarioInit == Init /\ scenario \in {"alone", "rivals"}

ScenarioNext == Next /\ InScenario /\ UNCHANGED scenario

ScenarioSpec == ScenarioInit /\ [][ScenarioNext]_<<vars, scenario>> /\ Fairness
=============================================================================
