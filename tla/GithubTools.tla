----------------------------- MODULE GithubTools -----------------------------
(***************************************************************************)
(* The GitHub tools (tools/github_tools.py) under the timeout of dispatch  *)
(* (tools/registry.py), against a repository that other people push to.    *)
(*                                                                         *)
(* A tool sends one HTTP request at a time and awaits its answer.  While   *)
(* it does, other tool calls and other people change the repository.  A    *)
(* request whose caller has given up may still arrive and take effect.     *)
(* GitHub identifies what a file holds by a hash, so a file's version is   *)
(* its content; the sha of a branch stands for all its files.              *)
(***************************************************************************)
EXTENDS Naturals, Sequences

CONSTANTS
  Calls,           \* tool calls of the model, each made at most once
  Asks,            \* what the model may ask for in each call
  Repos,
  Listed,          \* repositories the allowlist covers, by owner or by name
  HasToken,        \* GITHUB_TOKEN is set
  Branches, Paths, Contents,
  NoFile,          \* the content of a path that is not there
  NoBranch,        \* the files of a branch that is not there
  NoMsg,           \* nothing on the wire
  NoArgs,          \* arguments of a call not made yet
  InitialTrees,    \* the files the repositories may start with
  MaxPushes        \* bound on pushes by other people

RemoteTools ==
  {"github_commit_files", "github_create_branch", "github_create_pull_request", "github_read"}

Versions == Contents \union {NoFile}
Trees    == [Paths -> Versions]
Shas     == Versions \union Trees \union {NoBranch}

\* Arguments of a call; "github_read" stands for the three tools that only read.
GithubAsks ==
  [tool : RemoteTools, repo : Repos, branch : Branches, from : Branches,
   files : Seq([path : Paths, content : Contents])]

\* The requests a tool sends.  `file` is an index into the files to commit.
Verbs    == {"getFile", "putFile", "getRef", "postRef", "postPull", "read"}
Requests == [verb : Verbs, file : Nat, sha : Shas]
Answers  == [success : BOOLEAN, sha : Shas]

ASSUME NamesAssumption ==
  /\ Listed \subseteq Repos
  /\ HasToken \in BOOLEAN
  /\ NoFile \notin Contents
  /\ NoBranch \notin Versions \union Trees
  /\ NoMsg \notin Requests \union Answers
  /\ InitialTrees \subseteq [Repos -> [Branches -> Trees \union {NoBranch}]]
  /\ MaxPushes \in Nat

VARIABLES
  call,            \* per call: at, its arguments, what it awaits, and its result
  wire,            \* per call: its request or the answer to it, in flight
  tree,            \* the repositories: files of each branch
  pulls,           \* pull requests, with the call that opened each
  pushes,          \* pushes by others so far
  seen,            \* per call: what the file it is to commit held when it looked (history)
  committed,       \* per call: the files GitHub committed for it, in order (history)
  created          \* branches created, with the call that created each (history)

github == <<call, wire, tree, pulls, pushes, seen, committed, created>>

(***************************************************************************)
(* A call: idle, awaiting the answer to the request `verb`, or done.       *)
(* `file` is the file being committed, result the text it returned:        *)
(* "ok", "error" or some "text" that was read; a call whose turn was       *)
(* cancelled returns nothing.                                              *)
(***************************************************************************)
IdleCall ==
  [at |-> "idle", args |-> NoArgs, verb |-> "read", file |-> 1, result |-> "none"]

GithubInit ==
  /\ call = [c \in Calls |-> IdleCall]
  /\ wire = [c \in Calls |-> NoMsg]
  /\ tree \in InitialTrees
  /\ pulls = {} /\ created = {}
  /\ pushes = 0
  /\ seen = [c \in Calls |-> NoMsg]
  /\ committed = [c \in Calls |-> <<>>]

Files(c) == tree[call[c].args.repo][call[c].args.branch]
Target(c, i) == call[c].args.files[i]

Returns(c, text) == call' = [call EXCEPT ![c].at = "done", ![c].result = text]

Sends(c, verb, file, sha) ==
  /\ call' = [call EXCEPT ![c].verb = verb, ![c].file = file]
  /\ wire' = [wire EXCEPT ![c] = [verb |-> verb, file |-> file, sha |-> sha]]

\* _repo_denied and the check of the token, made before anything is sent.
RepoDenied(args) == ~HasToken \/ args.repo \notin Listed

FirstVerb ==
  [github_commit_files |-> "getFile", github_create_branch |-> "getRef",
   github_create_pull_request |-> "postPull", github_read |-> "read"]

\* The tool is called and runs to its first await.
StartGithub(c, args) ==
  /\ call[c].at = "idle"
  /\ args.tool \in RemoteTools
  /\ IF RepoDenied(args) \/ (args.tool = "github_commit_files" /\ args.files = <<>>)
       THEN /\ call' = [call EXCEPT ![c].at = "done", ![c].args = args, ![c].result = "error"]
            /\ UNCHANGED wire
       ELSE LET verb == FirstVerb[args.tool] IN
            /\ call' = [call EXCEPT ![c].at = "awaiting", ![c].args = args, ![c].verb = verb]
            /\ wire' = [wire EXCEPT ![c] = [verb |-> verb, file |-> 1, sha |-> NoFile]]
  /\ UNCHANGED <<tree, pulls, pushes, seen, committed, created>>

-----------------------------------------------------------------------------
(* GitHub *)

Arrives(c, verb) == wire[c] \in Requests /\ wire[c].verb = verb

\* Nobody hears the answer to a call that is over.
Answer(c, success, sha) ==
  wire' = [wire EXCEPT ![c] = IF call[c].at = "awaiting" THEN [success |-> success, sha |-> sha]
                                                         ELSE NoMsg]

ServeGetFile(c) ==
  /\ Arrives(c, "getFile")
  /\ LET path == Target(c, wire[c].file).path
         held == IF Files(c) = NoBranch THEN NoFile ELSE Files(c)[path] IN
     /\ Answer(c, held # NoFile, held)
     /\ seen' = [seen EXCEPT ![c] = [file |-> wire[c].file, content |-> held]]
  /\ UNCHANGED <<call, tree, pulls, pushes, committed, created>>

\* PUT /contents: only with the hash of what is there, or none if nothing is.
ServePutFile(c) ==
  /\ Arrives(c, "putFile")
  /\ LET file == Target(c, wire[c].file)
         accepted == Files(c) # NoBranch /\ wire[c].sha = Files(c)[file.path] IN
     /\ Answer(c, accepted, NoFile)
     /\ IF accepted
          THEN /\ tree' = [tree EXCEPT
                    ![call[c].args.repo][call[c].args.branch][file.path] = file.content]
               /\ committed' = [committed EXCEPT ![c] = Append(@, wire[c].file)]
          ELSE UNCHANGED <<tree, committed>>
  /\ seen' = [seen EXCEPT ![c] = NoMsg]
  /\ UNCHANGED <<call, pulls, pushes, created>>

ServeGetRef(c) ==
  /\ Arrives(c, "getRef")
  /\ LET head == tree[call[c].args.repo][call[c].args.from] IN
     Answer(c, head # NoBranch, head)
  /\ UNCHANGED <<call, tree, pulls, pushes, seen, committed, created>>

\* POST /git/refs: 422 if the branch exists.
ServePostRef(c) ==
  /\ Arrives(c, "postRef")
  /\ LET args == call[c].args IN
     IF Files(c) = NoBranch
       THEN /\ tree' = [tree EXCEPT ![args.repo][args.branch] = wire[c].sha]
            /\ created' = created \union {<<args.repo, args.branch, c>>}
            /\ Answer(c, TRUE, NoFile)
       ELSE Answer(c, FALSE, NoFile) /\ UNCHANGED <<tree, created>>
  /\ UNCHANGED <<call, pulls, pushes, seen, committed>>

\* POST /pulls: 422 unless both branches exist and no pull request joins them yet.
ServePostPull(c) ==
  /\ Arrives(c, "postPull")
  /\ LET args == call[c].args
         valid == /\ Files(c) # NoBranch /\ tree[args.repo][args.from] # NoBranch
                  /\ \A p \in pulls : <<p[1], p[2], p[3]>> # <<args.repo, args.branch, args.from>> IN
     /\ Answer(c, valid, NoFile)
     /\ pulls' = IF valid THEN pulls \union {<<args.repo, args.branch, args.from, c>>} ELSE pulls
  /\ UNCHANGED <<call, tree, pushes, seen, committed, created>>

ServeRead(c) ==
  /\ Arrives(c, "read")
  /\ Answer(c, Files(c) # NoBranch, NoFile)
  /\ UNCHANGED <<call, tree, pulls, pushes, seen, committed, created>>

\* Any request may be refused, by a rate limit or an error of the server.
Refuse(c) ==
  /\ wire[c] \in Requests
  /\ Answer(c, FALSE, NoFile)
  /\ UNCHANGED <<call, tree, pulls, pushes, seen, committed, created>>

\* A request is lost.  While its call awaits the answer that shows only in the
\* call's timing out, so the loss is left to after it.
Lose(c) ==
  /\ call[c].at = "done" /\ wire[c] # NoMsg
  /\ wire' = [wire EXCEPT ![c] = NoMsg]
  /\ UNCHANGED <<call, tree, pulls, pushes, seen, committed, created>>

\* Somebody else commits a file, or removes one.
Push ==
  /\ pushes < MaxPushes
  /\ \E r \in Listed, b \in Branches, p \in Paths, v \in Versions :
       /\ tree[r][b] # NoBranch
       /\ tree[r][b][p] # v
       /\ tree' = [tree EXCEPT ![r][b][p] = v]
  /\ pushes' = pushes + 1
  /\ UNCHANGED <<call, wire, pulls, seen, committed, created>>

GithubStep ==
  \/ \E c \in Calls :
       \/ ServeGetFile(c) \/ ServePutFile(c) \/ ServeGetRef(c)
       \/ ServePostRef(c) \/ ServePostPull(c) \/ ServeRead(c)
       \/ Refuse(c) \/ Lose(c)
  \/ Push

-----------------------------------------------------------------------------
(* The tool goes on with an answer.  Each of these runs to the next await or  *)
(* to the tool's end.                                                         *)

Hears(c, verb) ==
  /\ call[c].at = "awaiting" /\ call[c].verb = verb
  /\ wire[c] \in Answers

Consumed(c) == wire' = [wire EXCEPT ![c] = NoMsg]

Concludes(c, text) == Returns(c, text) /\ Consumed(c)

\* Mutant of GotFile: looks the file up on the branch `from`.
GotFileFromDefault(c) ==
  /\ Hears(c, "getFile")
  /\ LET main == tree[call[c].args.repo][call[c].args.from] IN
     Sends(c, "putFile", call[c].file, main[Target(c, call[c].file).path])

\* Any status but 200 counts as "no such file": the PUT then carries no hash.
GotFile(c) ==
  /\ Hears(c, "getFile")
  /\ Sends(c, "putFile", call[c].file, IF wire[c].success THEN wire[c].sha ELSE NoFile)

\* The next file, or the report; the first failure ends the tool and leaves the
\* files before it committed.
PutDone(c) ==
  /\ Hears(c, "putFile")
  /\ IF ~wire[c].success THEN Concludes(c, "error")
     ELSE IF call[c].file < Len(call[c].args.files)
       THEN Sends(c, "getFile", call[c].file + 1, NoFile)
       ELSE Concludes(c, "ok")

GotRef(c) ==
  /\ Hears(c, "getRef")
  /\ IF wire[c].success THEN Sends(c, "postRef", 1, wire[c].sha)
                        ELSE Concludes(c, "error")

\* Mutant of BranchDone: 422 for "already exists" counts as success.
BranchDoneAnyway(c) == Hears(c, "postRef") /\ Concludes(c, "ok")

BranchDone(c) ==
  /\ Hears(c, "postRef")
  /\ Concludes(c, IF wire[c].success THEN "ok" ELSE "error")

PullDone(c) ==
  /\ Hears(c, "postPull")
  /\ Concludes(c, IF wire[c].success THEN "ok" ELSE "error")

ReadDone(c) ==
  /\ Hears(c, "read")
  /\ Concludes(c, IF wire[c].success THEN "text" ELSE "error")

Resume(c) ==
  /\ GotFile(c) \/ PutDone(c) \/ GotRef(c) \/ BranchDone(c) \/ PullDone(c) \/ ReadDone(c)
  /\ UNCHANGED <<tree, pulls, pushes, seen, committed, created>>

\* Mutant of Interrupted: after a connection error the file is committed again.
InterruptedRetries(c, how) ==
  /\ call[c].at = "awaiting"
  /\ IF call[c].verb = "putFile" /\ how = "error"
       THEN Sends(c, "getFile", call[c].file, NoFile)
       ELSE Returns(c, how) /\ wire' = [wire EXCEPT ![c] = NoMsg]
  /\ UNCHANGED <<tree, pulls, pushes, seen, committed, created>>

\* The await of a request ends with a connection error or the timeout of dispatch,
\* whose texts are both an "error", or with the cancellation of the turn ("none").
\* A request on the wire stays there.
Interrupted(c, how) ==
  /\ call[c].at = "awaiting"
  /\ Returns(c, how)
  /\ wire' = [wire EXCEPT ![c] = IF @ \in Requests THEN @ ELSE NoMsg]
  /\ UNCHANGED <<tree, pulls, pushes, seen, committed, created>>

-----------------------------------------------------------------------------
(* Properties *)

\* No lost update between looking at a file and committing it: whoever else has
\* written in between, however late the PUT arrives, and even if looking failed, a
\* commit replaces only content that its own call saw (github_tools.py:200-213).
ReplacesOnlyWhatItSaw ==
  [][\A c \in Calls :
       committed'[c] # committed[c] =>
         LET i == committed'[c][Len(committed'[c])]
             replaced == Files(c)[Target(c, i).path] IN
         replaced # NoFile => seen[c] = [file |-> i, content |-> replaced]]_github

\* A call commits its files one after another, none twice and none before the
\* ones listed before it, also when it was interrupted and its last request
\* arrives after it returned (github_tools.py:196-221).
CommitsInOrder ==
  \A c \in Calls : committed[c] = [i \in 1..Len(committed[c]) |-> i]

\* "OK" is said of what this call did itself: all files of the commit, the new
\* branch, the new pull request (github_tools.py:171, 223-226, 255).
OkMeansDone ==
  \A c \in Calls : call[c].result = "ok" =>
    LET args == call[c].args IN
    CASE args.tool = "github_commit_files" -> Len(committed[c]) = Len(args.files)
      [] args.tool = "github_create_branch" -> <<args.repo, args.branch, c>> \in created
      [] args.tool = "github_create_pull_request" -> <<args.repo, args.branch, args.from, c>> \in pulls
      [] OTHER -> TRUE
=============================================================================
