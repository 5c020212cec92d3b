------------------------------ MODULE ToolCalls ------------------------------
(***************************************************************************)
(* Tool calls as the agent's loop makes them (agent.py, tools/registry.py):*)
(* each is recorded in the audit log, dispatched to a local or a GitHub    *)
(* tool, and its result recorded.  Calls of several turns overlap at the   *)
(* awaits of the GitHub tools; the log's thread, GitHub and a kill come    *)
(* between any two of these steps.                                         *)
(*                                                                         *)
(* The composition of AuditLog, GithubTools and Workspace.  The end of the *)
(* process ends the calls it was running, but not the requests they sent.  *)
(***************************************************************************)
EXTENDS Integers, FiniteSets, AuditLog, GithubTools, Workspace

VARIABLE running   \* what the event loop does until it awaits: <<c, args>>, a call of c
                   \* to dispatch; <<c>>, the result of c to record; or <<>>

vars == <<audit, github, disk, running>>

FileAsks ==
  [tool : {"read_file"}, name : Names]
    \union [tool : {"write_file"}, name : Names, lines : Seq(Lines)]
    \union [tool : {"apply_patch"}, name : Names, patch : Seq(Tokens)]

ASSUME AsksAssumption == \A c \in Calls : Asks[c] \subseteq GithubAsks \union FileAsks

Init ==
  /\ AuditInit
  /\ GithubInit
  /\ WorkspaceInit
  /\ running = <<>>

CallRecord(c)   == [event |-> "tool_call", call |-> c]
ResultRecord(c) == [event |-> "tool_result", call |-> c]

\* The model asks for a call, which is recorded.
Record(c, args) ==
  /\ running = <<>> /\ call[c].at = "idle"
  /\ running' = <<c, args>>
  /\ LogEvent(CallRecord(c))
  /\ UNCHANGED <<github, disk>>

\* A filesystem tool runs without an await.
CallLocal(c, args) ==
  /\ running = <<c, args>> /\ call[c].at = "idle" /\ args.tool \in FileTools
  /\ call' = [call EXCEPT ![c].at = "done", ![c].args = args, ![c].result = FileResult(args)]
  /\ FileEffect(args)
  /\ running' = <<c>>
  /\ UNCHANGED <<audit, wire, tree, pulls, pushes, seen, committed, created>>

\* dispatch has returned and its result is recorded before anything is awaited.
ReturnsOrAwaits(c) == running' = IF call'[c].at = "done" THEN <<c>> ELSE <<>>

\* A GitHub tool runs to its first await, or is denied.
CallGithub(c, args) ==
  /\ running = <<c, args>>
  /\ StartGithub(c, args)
  /\ ReturnsOrAwaits(c)
  /\ UNCHANGED <<audit, disk>>

LoopIsFree == process = "up" /\ running = <<>>

Continue(c) ==
  /\ LoopIsFree
  /\ Resume(c)
  /\ ReturnsOrAwaits(c)
  /\ UNCHANGED <<audit, disk>>

\* A connection error, or tool_timeout_seconds: dispatch turns both into a text.
FailsOrTimesOut(c) ==
  /\ LoopIsFree
  /\ Interrupted(c, "error")
  /\ ReturnsOrAwaits(c)
  /\ UNCHANGED <<audit, disk>>

RecordResult(c) ==
  /\ running = <<c>>
  /\ running' = <<>>
  /\ LogEvent(ResultRecord(c))
  /\ UNCHANGED <<github, disk>>

\* The deadline of the request cancels the call: no text, no record.
Cancelled(c) ==
  /\ LoopIsFree
  /\ Interrupted(c, "none")
  /\ UNCHANGED <<audit, disk, running>>

Outside == GithubStep /\ UNCHANGED <<audit, disk, running>>

\* The calls of a process that stops running its event loop are over; a kill may
\* stop it anywhere.
LogOrProcessStep ==
  /\ AuditStep
  /\ process = "up" /\ process' = "exiting" => running = <<>>
  /\ running' = IF process' = "up" THEN running ELSE <<>>
  /\ call' = IF process = "up" /\ process' # "up"
               THEN [c \in Calls |-> IF call[c].at = "awaiting" THEN [call[c] EXCEPT !.at = "done"]
                                                                ELSE call[c]]
               ELSE call
  /\ UNCHANGED <<wire, tree, pulls, pushes, seen, committed, created, disk>>

\* Nothing is left to do: the last process is gone and so are its requests.
Finished ==
  /\ process \in {"ended", "dead"} /\ starts = MaxStarts
  /\ UNCHANGED vars

\* (The guards before \E args are those of the actions, so that TLC tries the many
\* arguments only where one of them may do.)
Next ==
  \/ \E c \in Calls :
       \/ call[c].at = "idle" /\ running = <<>> /\ \E args \in Asks[c] : Record(c, args)
       \/ call[c].at = "idle" /\ running # <<>> /\ \E args \in Asks[c] :
            CallLocal(c, args) \/ CallGithub(c, args)
       \/ Continue(c) \/ FailsOrTimesOut(c) \/ RecordResult(c) \/ Cancelled(c)
  \/ Outside \/ LogOrProcessStep \/ Finished

Spec == Init /\ [][Next]_vars

-----------------------------------------------------------------------------
(* Properties *)

\* What is awaited, what is on the wire and what was committed fit together.
TypeOK ==
  /\ call \in [Calls ->
       [at : {"idle", "awaiting", "done"}, args : GithubAsks \union FileAsks \union {NoArgs},
        verb : Verbs, file : Nat \ {0}, result : {"none", "ok", "error", "text"}]]
  /\ wire \in [Calls -> Requests \union Answers \union {NoMsg}]
  /\ tree \in [Repos -> [Branches -> Trees \union {NoBranch}]]
  /\ disk \in [Names -> Seq(Lines) \union {Missing}]
  /\ logfile \in Seq(DOMAIN logged) /\ queue \in Seq(DOMAIN logged) /\ writing \in Seq(DOMAIN logged)
  /\ Len(queue) <= Capacity /\ Len(writing) <= 1
  /\ partial \subseteq DOMAIN logged
  /\ running # <<>> =>
       /\ process = "up"
       /\ \E c \in Calls :
            running = <<c>> \/ (running \in {c} \X Asks[c] /\ call[c].at = "idle")
  /\ \A c \in Calls : wire[c] \in Requests => call[c].at # "idle"

PatchCalled(c) ==
  /\ call'[c] # call[c] /\ call'[c].at = "done" /\ call'[c].result = "ok"
  /\ call'[c].args.tool = "apply_patch"

\* A patch made for the file as it is leads to the file it was made for, if its
\* hunks end in lines of the old file (filesystem.py:174-211).
PatchesLandWhole ==
  [][\A c \in Calls : PatchCalled(c) =>
       LET args == call'[c].args IN
       Fits(disk[args.name], args.patch) /\ EndsInOldLines(args.patch) =>
         disk'[args.name] = Intended(disk[args.name], args.patch)]_vars

\* "Apply a unified-diff patch string to a file inside the sandbox"
\* (filesystem.py:155): the same, however the hunks end.
PatchesLand ==
  [][\A c \in Calls : PatchCalled(c) =>
       LET args == call'[c].args IN
       Fits(disk[args.name], args.patch) =>
         disk'[args.name] = Intended(disk[args.name], args.patch)]_vars
=============================================================================
