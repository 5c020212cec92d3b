--------------------------- MODULE ToolCallsProofs ---------------------------
(***************************************************************************)
(* Proofs about ToolCalls, for any number of calls, any arguments, files,  *)
(* repositories, pushes and starts, and any capacity of the log's queue.   *)
(***************************************************************************)
EXTENDS ToolCalls, WorkspaceProofs, SequenceTheorems, TLAPS

\* The tool a request belongs to.
ToolOf ==
  [getFile |-> "github_commit_files", putFile |-> "github_commit_files",
   getRef |-> "github_create_branch", postRef |-> "github_create_branch",
   postPull |-> "github_create_pull_request", read |-> "github_read"]

CallStates ==
  [at : {"idle", "awaiting", "done"}, args : GithubAsks \union FileAsks \union {NoArgs},
   verb : Verbs, file : Nat \ {0}, result : {"none", "ok", "error", "text"}]

(***************************************************************************)
(* What holds of one call k, what is on its wire w, what it saw s and what *)
(* was committed for it m.                                                 *)
(***************************************************************************)
IdleOK(k, w, m) ==
  k.at = "idle" => w = NoMsg /\ m = <<>> /\ k.file = 1 /\ k.result = "none"

AwaitingOK(k) ==
  k.at = "awaiting" =>
    /\ k.args \in GithubAsks /\ k.args.tool = ToolOf[k.verb]
    /\ k.result = "none"
    /\ k.verb \in {"getFile", "putFile"} => k.file <= Len(k.args.files)

\* A request still on its way, also after its call is over.
RequestOK(k, w, s, m) ==
  w \in Requests =>
    /\ w.verb \in {"getFile", "putFile"} => w.file = Len(m) + 1
    /\ w.verb = "putFile" /\ w.sha # NoFile => s = [file |-> w.file, content |-> w.sha]
    /\ k.at = "awaiting" => w.verb = k.verb /\ w.file = k.file
    /\ k.result # "ok"

AnswerOK(c, k, w, s, m, cr, pl) ==
  k.at = "awaiting" /\ w \in Answers =>
    /\ k.verb = "getFile" => /\ k.file = Len(m) + 1
                             /\ w.success => s = [file |-> k.file, content |-> w.sha]
    /\ k.verb = "putFile" /\ w.success => k.file = Len(m)
    /\ k.verb = "postRef" /\ w.success => <<k.args.repo, k.args.branch, c>> \in cr
    /\ k.verb = "postPull" /\ w.success => <<k.args.repo, k.args.branch, k.args.from, c>> \in pl

OkOK(c, k, m, cr, pl) ==
  k.result = "ok" =>
    /\ k.args.tool = "github_commit_files" => Len(m) = Len(k.args.files)
    /\ k.args.tool = "github_create_branch" => <<k.args.repo, k.args.branch, c>> \in cr
    /\ k.args.tool = "github_create_pull_request" =>
         <<k.args.repo, k.args.branch, k.args.from, c>> \in pl

CallOK(c, k, w, s, m, cr, pl) ==
  /\ m = [i \in 1..Len(m) |-> i]
  /\ IdleOK(k, w, m) /\ AwaitingOK(k)
  /\ RequestOK(k, w, s, m) /\ AnswerOK(c, k, w, s, m, cr, pl)
  /\ OkOK(c, k, m, cr, pl)

Typed ==
  /\ call \in [Calls -> CallStates]
  /\ committed \in [Calls -> Seq(Nat)]
  /\ DOMAIN wire = Calls /\ DOMAIN seen = Calls

GithubInv ==
  /\ Typed
  /\ \A c \in Calls : CallOK(c, call[c], wire[c], seen[c], committed[c], created, pulls)

-----------------------------------------------------------------------------
(* Messages *)

LEMMA RequestIsNoAnswer == \A v, f, s : [verb |-> v, file |-> f, sha |-> s] \notin Answers
<1> SUFFICES ASSUME NEW v, NEW f, NEW s, [verb |-> v, file |-> f, sha |-> s] \in Answers
             PROVE  FALSE
  OBVIOUS
<1>1. DOMAIN [verb |-> v, file |-> f, sha |-> s] = {"verb", "file", "sha"}
  OBVIOUS
<1>2. DOMAIN [verb |-> v, file |-> f, sha |-> s] = {"success", "sha"}
  BY DEF Answers
<1>3. QED
  BY <1>1, <1>2

LEMMA AnswerIsNoRequest == \A b, s : [success |-> b, sha |-> s] \notin Requests
<1> SUFFICES ASSUME NEW b, NEW s, [success |-> b, sha |-> s] \in Requests
             PROVE  FALSE
  OBVIOUS
<1>1. DOMAIN [success |-> b, sha |-> s] = {"success", "sha"}
  OBVIOUS
<1>2. DOMAIN [success |-> b, sha |-> s] = {"verb", "file", "sha"}
  BY DEF Requests
<1>3. QED
  BY <1>1, <1>2

LEMMA NoMsgIsNone == NoMsg \notin Requests /\ NoMsg \notin Answers
  BY NamesAssumption

LEMMA AskTypes ==
  ASSUME NEW c \in Calls, NEW args \in Asks[c]
  PROVE  /\ args \in GithubAsks \union FileAsks
         /\ args.tool \in RemoteTools => args \in GithubAsks
         /\ args.tool \in FileTools => args.tool \notin RemoteTools
<1>1. args \in GithubAsks \union FileAsks
  BY AsksAssumption
<1>2. args \in FileAsks => args.tool \in FileTools
  BY DEF FileAsks, FileTools
<1>3. args.tool \in FileTools => args.tool \notin RemoteTools
  BY DEF FileTools, RemoteTools
<1>4. QED
  BY <1>1, <1>2, <1>3

LEMMA AppendNext ==
  ASSUME NEW m \in Seq(Nat), m = [i \in 1..Len(m) |-> i]
  PROVE  Append(m, Len(m) + 1) = [i \in 1..(Len(m) + 1) |-> i]
<1> DEFINE longer == Append(m, Len(m) + 1)
<1>1. /\ longer \in Seq(Nat) /\ Len(longer) = Len(m) + 1
      /\ \A i \in 1..Len(m) : longer[i] = m[i]
      /\ longer[Len(m) + 1] = Len(m) + 1
  OBVIOUS
<1>2. \A i \in 1..Len(m) : m[i] = i
  OBVIOUS
<1>3. \A i \in 1..(Len(m) + 1) : longer[i] = i
  BY <1>1, <1>2
<1>4. longer = [i \in 1..Len(longer) |-> longer[i]]
  BY <1>1
<1>5. QED
  BY <1>1, <1>3, <1>4

\* Branches and pull requests are only added.
LEMMA MoreMade ==
  ASSUME NEW c, NEW k, NEW w, NEW s, NEW m, NEW cr, NEW pl, NEW cr2, NEW pl2,
         CallOK(c, k, w, s, m, cr, pl), cr \subseteq cr2, pl \subseteq pl2
  PROVE  CallOK(c, k, w, s, m, cr2, pl2)
  BY DEF CallOK, AnswerOK, OkOK

\* A step of one call.
LEMMA OneCall ==
  ASSUME GithubInv, NEW c \in Calls, Typed',
         created \subseteq created', pulls \subseteq pulls',
         \A d \in Calls \ {c} : /\ call'[d] = call[d] /\ wire'[d] = wire[d]
                                /\ seen'[d] = seen[d] /\ committed'[d] = committed[d],
         CallOK(c, call'[c], wire'[c], seen'[c], committed'[c], created', pulls')
  PROVE  GithubInv'
<1>1. ASSUME NEW d \in Calls \ {c}
      PROVE  CallOK(d, call'[d], wire'[d], seen'[d], committed'[d], created', pulls')
  <2>1. CallOK(d, call[d], wire[d], seen[d], committed[d], created', pulls')
    BY MoreMade DEF GithubInv
  <2>2. QED
    BY <2>1
<1>2. QED
  BY <1>1 DEF GithubInv

-----------------------------------------------------------------------------
(* GitHub *)

LEMMA ArrivesFacts ==
  ASSUME GithubInv, NEW c \in Calls, NEW verb, Arrives(c, verb)
  PROVE  /\ wire[c] \in Requests /\ wire[c].verb = verb
         /\ call[c] \in CallStates /\ call[c].at # "idle"
         /\ CallOK(c, call[c], wire[c], seen[c], committed[c], created, pulls)
         /\ call[c].at = "awaiting" => call[c].verb = verb
<1>1. CallOK(c, call[c], wire[c], seen[c], committed[c], created, pulls)
  BY DEF GithubInv
<1>2. wire[c] \in Requests /\ wire[c].verb = verb
  BY DEF Arrives
<1>3. call[c].at # "idle"
  BY <1>1, <1>2, NoMsgIsNone DEF CallOK, IdleOK
<1>4. QED
  BY <1>1, <1>2, <1>3 DEF CallOK, RequestOK, GithubInv, Typed

LEMMA AnswerFrame ==
  ASSUME GithubInv, NEW c \in Calls, NEW success, NEW sha, Answer(c, success, sha)
  PROVE  /\ DOMAIN wire' = Calls
         /\ \A d \in Calls \ {c} : wire'[d] = wire[d]
         /\ wire'[c] \notin Requests
         /\ call[c].at = "awaiting" => wire'[c].success = success /\ wire'[c].sha = sha
  BY AnswerIsNoRequest, NoMsgIsNone DEF Answer, GithubInv, Typed

LEMMA ServeGetFileInv ==
  ASSUME GithubInv, NEW c \in Calls, ServeGetFile(c)
  PROVE  GithubInv'
<1> DEFINE path == Target(c, wire[c].file).path
           held == IF Files(c) = NoBranch THEN NoFile ELSE Files(c)[path]
<1>1. Arrives(c, "getFile") /\ Answer(c, held # NoFile, held)
      /\ seen' = [seen EXCEPT ![c] = [file |-> wire[c].file, content |-> held]]
      /\ UNCHANGED <<call, committed, created, pulls>>
  BY DEF ServeGetFile
<1> HIDE DEF held
<1>2. Typed'
  BY <1>1, AnswerFrame DEF Typed, GithubInv
<1>3. CallOK(c, call'[c], wire'[c], seen'[c], committed'[c], created', pulls')
  <2>1. /\ wire'[c] \notin Requests
        /\ call[c].at = "awaiting" => wire'[c].success = (held # NoFile) /\ wire'[c].sha = held
    BY <1>1, AnswerFrame
  <2>2. /\ CallOK(c, call[c], wire[c], seen[c], committed[c], created, pulls)
        /\ wire[c] \in Requests /\ wire[c].verb = "getFile" /\ call[c].at # "idle"
        /\ call[c].at = "awaiting" => call[c].verb = "getFile"
    BY <1>1, ArrivesFacts
  <2>3. seen'[c] = [file |-> wire[c].file, content |-> held]
    BY <1>1 DEF GithubInv, Typed
  <2>4. AnswerOK(c, call[c], wire'[c], seen'[c], committed[c], created, pulls)
    BY <2>1, <2>2, <2>3 DEF CallOK, RequestOK, AnswerOK
  <2>5. QED
    BY <1>1, <2>1, <2>2, <2>4 DEF CallOK, IdleOK, RequestOK
<1>4. QED
  BY <1>1, <1>2, <1>3, AnswerFrame, OneCall DEF GithubInv, Typed

LEMMA ServePutFileInv ==
  ASSUME GithubInv, NEW c \in Calls, ServePutFile(c)
  PROVE  GithubInv'
<1> DEFINE file == Target(c, wire[c].file)
           accepted == Files(c) # NoBranch /\ wire[c].sha = Files(c)[file.path]
<1>1. /\ Arrives(c, "putFile") /\ Answer(c, accepted, NoFile)
      /\ committed' = IF accepted THEN [committed EXCEPT ![c] = Append(@, wire[c].file)]
                                  ELSE committed
      /\ seen' = [seen EXCEPT ![c] = NoMsg]
      /\ UNCHANGED <<call, created, pulls>>
  BY DEF ServePutFile
<1> HIDE DEF accepted
<1>2. /\ CallOK(c, call[c], wire[c], seen[c], committed[c], created, pulls)
      /\ wire[c] \in Requests /\ wire[c].verb = "putFile" /\ call[c].at # "idle"
      /\ call[c].at = "awaiting" => call[c].verb = "putFile"
      /\ wire[c].file \in Nat
  BY <1>1, ArrivesFacts DEF Requests
<1>3. /\ wire'[c] \notin Requests
      /\ call[c].at = "awaiting" => wire'[c].success = accepted
  BY <1>1, AnswerFrame
<1>4. committed[c] \in Seq(Nat) /\ committed' \in [Calls -> Seq(Nat)]
  BY <1>1, <1>2 DEF GithubInv, Typed
<1>5. Typed'
  BY <1>1, <1>4, AnswerFrame DEF Typed, GithubInv
<1>6. /\ wire[c].file = Len(committed[c]) + 1 /\ call[c].result # "ok"
      /\ call[c].at = "awaiting" => call[c].file = wire[c].file
  BY <1>2 DEF CallOK, RequestOK
<1>7. CASE accepted
  <2>1. committed'[c] = Append(committed[c], wire[c].file)
    BY <1>1, <1>7 DEF GithubInv, Typed
  <2>2. Len(committed'[c]) = wire[c].file
    BY <1>4, <1>6, <2>1
  <2>3. committed'[c] = [i \in 1..Len(committed'[c]) |-> i]
    <3>1. committed[c] = [i \in 1..Len(committed[c]) |-> i]
      BY <1>2 DEF CallOK
    <3>2. Append(committed[c], wire[c].file) = [i \in 1..wire[c].file |-> i]
      BY <1>4, <1>6, <3>1, AppendNext
    <3>3. QED
      BY <2>1, <2>2, <3>2
  <2>4. CallOK(c, call'[c], wire'[c], seen'[c], committed'[c], created', pulls')
    BY <1>1, <1>2, <1>3, <1>6, <2>2, <2>3
       DEF CallOK, IdleOK, AwaitingOK, RequestOK, AnswerOK, OkOK
  <2>5. QED
    BY <1>1, <1>5, <2>4, AnswerFrame, OneCall DEF GithubInv, Typed
<1>8. CASE ~accepted
  <2>1. CallOK(c, call'[c], wire'[c], seen'[c], committed'[c], created', pulls')
    BY <1>1, <1>2, <1>3, <1>6, <1>8
       DEF CallOK, IdleOK, AwaitingOK, RequestOK, AnswerOK, OkOK
  <2>2. QED
    BY <1>1, <1>5, <1>8, <2>1, AnswerFrame, OneCall DEF GithubInv, Typed
<1>9. QED
  BY <1>7, <1>8

LEMMA ServeRefsInv ==
  ASSUME GithubInv, NEW c \in Calls,
         ServeGetRef(c) \/ ServePostRef(c) \/ ServePostPull(c) \/ ServeRead(c)
  PROVE  GithubInv'
<1> DEFINE Served(verb, success, sha) ==
        /\ Arrives(c, verb) /\ Answer(c, success, sha)
        /\ created \subseteq created' /\ pulls \subseteq pulls'
        /\ verb = "postRef" /\ success =>
             <<call[c].args.repo, call[c].args.branch, c>> \in created'
        /\ verb = "postPull" /\ success =>
             <<call[c].args.repo, call[c].args.branch, call[c].args.from, c>> \in pulls'
        /\ UNCHANGED <<call, seen, committed>>
<1>0. PICK verb \in {"getRef", "postRef", "postPull", "read"} :
        \E success, sha : Served(verb, success, sha)
  <2>1. CASE ServeGetRef(c)
    BY <2>1 DEF ServeGetRef
  <2>2. CASE ServePostRef(c)
    BY <2>2 DEF ServePostRef
  <2>3. CASE ServePostPull(c)
    BY <2>3 DEF ServePostPull
  <2>4. CASE ServeRead(c)
    BY <2>4 DEF ServeRead
  <2>5. QED
    BY <2>1, <2>2, <2>3, <2>4
<1>1. PICK success, sha : Served(verb, success, sha)
  BY <1>0
<1>2. /\ CallOK(c, call[c], wire[c], seen[c], committed[c], created, pulls)
      /\ wire[c] \in Requests /\ wire[c].verb = verb /\ call[c].at # "idle"
      /\ call[c].at = "awaiting" => call[c].verb = verb
  BY <1>1, ArrivesFacts
<1>3. /\ wire'[c] \notin Requests
      /\ call[c].at = "awaiting" => wire'[c].success = success
  BY <1>1, AnswerFrame
<1>4. Typed'
  BY <1>1, AnswerFrame DEF Typed, GithubInv
<1>5. CallOK(c, call[c], wire[c], seen[c], committed[c], created', pulls')
  BY <1>1, <1>2, MoreMade
<1>6. CallOK(c, call'[c], wire'[c], seen'[c], committed'[c], created', pulls')
  BY <1>1, <1>2, <1>3, <1>5 DEF CallOK, IdleOK, RequestOK, AnswerOK
<1>7. QED
  BY <1>1, <1>4, <1>6, AnswerFrame, OneCall

LEMMA RefuseInv ==
  ASSUME GithubInv, NEW c \in Calls, Refuse(c)
  PROVE  GithubInv'
<1>1. /\ Arrives(c, wire[c].verb) /\ Answer(c, FALSE, NoFile)
      /\ UNCHANGED <<call, seen, committed, created, pulls>>
  BY DEF Refuse, Arrives
<1>2. /\ CallOK(c, call[c], wire[c], seen[c], committed[c], created, pulls)
      /\ wire[c] \in Requests /\ call[c].at # "idle"
      /\ call[c].at = "awaiting" => call[c].verb = wire[c].verb
  BY <1>1, ArrivesFacts
<1>3. call[c].at = "awaiting" => wire'[c].success = FALSE
  BY <1>1, AnswerFrame
<1>4. wire'[c] \notin Requests
  BY <1>1, AnswerFrame
<1>5. Typed'
  BY <1>1, AnswerFrame DEF Typed, GithubInv
<1>6. CallOK(c, call'[c], wire'[c], seen'[c], committed'[c], created', pulls')
  BY <1>1, <1>2, <1>3, <1>4 DEF CallOK, IdleOK, RequestOK, AnswerOK
<1>7. QED
  BY <1>1, <1>5, <1>6, AnswerFrame, OneCall

LEMMA GithubStepInv ==
  ASSUME GithubInv, GithubStep
  PROVE  GithubInv'
<1>1. ASSUME NEW c \in Calls, Lose(c) PROVE GithubInv'
  <2>1. /\ call[c].at = "done" /\ wire' = [wire EXCEPT ![c] = NoMsg]
        /\ UNCHANGED <<call, seen, committed, created, pulls>>
    BY <1>1 DEF Lose
  <2>2. Typed' /\ wire'[c] = NoMsg
    BY <2>1 DEF GithubInv, Typed
  <2>3. CallOK(c, call'[c], wire'[c], seen'[c], committed'[c], created', pulls')
    BY <2>1, <2>2, NoMsgIsNone DEF GithubInv, CallOK, IdleOK, RequestOK, AnswerOK
  <2>4. QED
    BY <2>1, <2>2, <2>3, OneCall DEF GithubInv, Typed
<1>2. CASE Push
  BY <1>2 DEF Push, GithubInv, Typed
<1>3. QED
  BY <1>1, <1>2, ServeGetFileInv, ServePutFileInv, ServeRefsInv, RefuseInv DEF GithubStep

-----------------------------------------------------------------------------
(* The calls *)

\* A call that is over, or was over before, with nothing on its wire.
LEMMA SilentOK ==
  ASSUME NEW c, NEW k \in CallStates, NEW s, NEW m \in Seq(Nat), NEW cr, NEW pl,
         m = [i \in 1..Len(m) |-> i], k.at = "done", OkOK(c, k, m, cr, pl)
  PROVE  CallOK(c, k, NoMsg, s, m, cr, pl)
  BY NoMsgIsNone DEF CallOK, IdleOK, AwaitingOK, RequestOK, AnswerOK

LEMMA StartGithubInv ==
  ASSUME GithubInv, NEW c \in Calls, NEW args \in Asks[c], StartGithub(c, args)
  PROVE  GithubInv'
<1> DEFINE verb == FirstVerb[args.tool]
<1>1. /\ call[c] \in CallStates /\ call[c].at = "idle" /\ args.tool \in RemoteTools
      /\ UNCHANGED <<seen, committed, created, pulls>>
  BY DEF StartGithub, GithubInv, Typed
<1>2. args \in GithubAsks
  BY <1>1, AskTypes
<1>3. /\ CallOK(c, call[c], wire[c], seen[c], committed[c], created, pulls)
      /\ wire[c] = NoMsg /\ committed[c] = <<>> /\ call[c].file = 1 /\ call[c].result = "none"
  BY <1>1 DEF GithubInv, CallOK, IdleOK
<1>4. CASE RepoDenied(args) \/ (args.tool = "github_commit_files" /\ args.files = <<>>)
  <2>1. /\ call' = [call EXCEPT ![c].at = "done", ![c].args = args, ![c].result = "error"]
        /\ wire' = wire
    BY <1>4 DEF StartGithub
  <2>2. call'[c] \in CallStates /\ call'[c].at = "done" /\ call'[c].result = "error"
    BY <1>1, <1>2, <2>1 DEF GithubInv, Typed, CallStates
  <2>3. Typed'
    BY <1>1, <2>1, <2>2 DEF GithubInv, Typed
  <2>4. CallOK(c, call'[c], wire'[c], seen'[c], committed'[c], created', pulls')
    BY <1>1, <1>3, <2>1, <2>2, SilentOK DEF OkOK, CallOK, GithubInv, Typed
  <2>5. QED
    BY <1>1, <2>1, <2>3, <2>4, OneCall DEF GithubInv, Typed
<1>5. CASE ~(RepoDenied(args) \/ (args.tool = "github_commit_files" /\ args.files = <<>>))
  <2>1. /\ call' = [call EXCEPT ![c].at = "awaiting", ![c].args = args, ![c].verb = verb]
        /\ wire' = [wire EXCEPT ![c] = [verb |-> verb, file |-> 1, sha |-> NoFile]]
    BY <1>5 DEF StartGithub
  <2>2. verb \in Verbs /\ verb # "putFile" /\ ToolOf[verb] = args.tool
    BY <1>1 DEF FirstVerb, RemoteTools, Verbs, ToolOf
  <2>3. verb = "getFile" => 1 <= Len(args.files)
    BY <1>1, <1>2, <1>5 DEF FirstVerb, RemoteTools, GithubAsks
  <2> HIDE DEF verb
  <2>4. /\ call'[c] \in CallStates /\ call'[c].at = "awaiting" /\ call'[c].args = args
        /\ call'[c].verb = verb /\ call'[c].file = 1 /\ call'[c].result = "none"
    BY <1>1, <1>2, <1>3, <2>1, <2>2 DEF GithubInv, Typed, CallStates
  <2>5. Typed'
    BY <1>1, <2>1, <2>4 DEF GithubInv, Typed
  <2>6. /\ wire'[c] = [verb |-> verb, file |-> 1, sha |-> NoFile]
        /\ wire'[c] \notin Answers
    BY <2>1, RequestIsNoAnswer DEF GithubInv, Typed
  <2>7. committed'[c] = <<>> /\ Len(committed'[c]) = 0
    BY <1>1, <1>3
  <2>8. CallOK(c, call'[c], wire'[c], seen'[c], committed'[c], created', pulls')
    <3>1. IdleOK(call'[c], wire'[c], committed'[c]) /\ OkOK(c, call'[c], committed'[c], created', pulls')
      BY <2>4 DEF IdleOK, OkOK
    <3>2. AwaitingOK(call'[c])
      BY <1>2, <2>2, <2>3, <2>4 DEF AwaitingOK
    <3>3. RequestOK(call'[c], wire'[c], seen'[c], committed'[c])
      BY <2>2, <2>4, <2>6, <2>7 DEF RequestOK
    <3>4. AnswerOK(c, call'[c], wire'[c], seen'[c], committed'[c], created', pulls')
      BY <2>6 DEF AnswerOK
    <3>5. QED
      BY <1>1, <1>3, <3>1, <3>2, <3>3, <3>4 DEF CallOK
  <2>9. QED
    BY <1>1, <2>1, <2>5, <2>8, OneCall DEF GithubInv, Typed
<1>6. QED
  BY <1>4, <1>5

\* A tool that goes on has had its answer.
LEMMA HearsFacts ==
  ASSUME GithubInv, NEW c \in Calls, NEW verb, Hears(c, verb)
  PROVE  /\ call[c] \in CallStates /\ call[c].at = "awaiting" /\ call[c].verb = verb
         /\ wire[c] \in Answers /\ call[c].result = "none"
         /\ call[c].args \in GithubAsks /\ call[c].args.tool = ToolOf[verb]
         /\ committed[c] \in Seq(Nat) /\ committed[c] = [i \in 1..Len(committed[c]) |-> i]
         /\ AwaitingOK(call[c])
         /\ AnswerOK(c, call[c], wire[c], seen[c], committed[c], created, pulls)
  BY DEF Hears, GithubInv, Typed, CallOK, AwaitingOK

\* A tool that sends its next request.
LEMMA SendsInv ==
  ASSUME GithubInv, NEW c \in Calls, NEW old, Hears(c, old),
         NEW verb \in Verbs, NEW file \in Nat \ {0}, NEW sha, Sends(c, verb, file, sha),
         UNCHANGED <<seen, committed, created, pulls>>,
         ToolOf[verb] = ToolOf[old],
         verb \in {"getFile", "putFile"} =>
           file = Len(committed[c]) + 1 /\ file <= Len(call[c].args.files),
         verb = "putFile" /\ sha # NoFile => seen[c] = [file |-> file, content |-> sha]
  PROVE  GithubInv'
<1>1. /\ call[c] \in CallStates /\ call[c].at = "awaiting" /\ call[c].result = "none"
      /\ call[c].args \in GithubAsks /\ call[c].args.tool = ToolOf[old]
      /\ committed[c] = [i \in 1..Len(committed[c]) |-> i]
  BY HearsFacts
<1>2. /\ call' = [call EXCEPT ![c].verb = verb, ![c].file = file]
      /\ wire' = [wire EXCEPT ![c] = [verb |-> verb, file |-> file, sha |-> sha]]
  BY DEF Sends
<1>3. /\ call'[c] \in CallStates /\ call'[c].at = "awaiting" /\ call'[c].args = call[c].args
      /\ call'[c].verb = verb /\ call'[c].file = file /\ call'[c].result = "none"
  BY <1>1, <1>2 DEF GithubInv, Typed, CallStates
<1>4. Typed'
  BY <1>2, <1>3 DEF GithubInv, Typed
<1>5. /\ wire'[c] = [verb |-> verb, file |-> file, sha |-> sha]
      /\ wire'[c] \notin Answers
  BY <1>2, RequestIsNoAnswer DEF GithubInv, Typed
<1>6. CallOK(c, call'[c], wire'[c], seen'[c], committed'[c], created', pulls')
  <2>1. IdleOK(call'[c], wire'[c], committed'[c]) /\ OkOK(c, call'[c], committed'[c], created', pulls')
    BY <1>3 DEF IdleOK, OkOK
  <2>2. AwaitingOK(call'[c])
    BY <1>1, <1>3 DEF AwaitingOK
  <2>3. RequestOK(call'[c], wire'[c], seen'[c], committed'[c])
    BY <1>3, <1>5 DEF RequestOK
  <2>4. AnswerOK(c, call'[c], wire'[c], seen'[c], committed'[c], created', pulls')
    BY <1>5 DEF AnswerOK
  <2>5. QED
    BY <1>1, <2>1, <2>2, <2>3, <2>4 DEF CallOK
<1>7. QED
  BY <1>2, <1>4, <1>6, OneCall DEF GithubInv, Typed

\* A tool that returns.
LEMMA ConcludesInv ==
  ASSUME GithubInv, NEW c \in Calls, NEW verb, Hears(c, verb),
         NEW text \in {"ok", "error", "text"}, Concludes(c, text),
         UNCHANGED <<seen, committed, created, pulls>>,
         text = "ok" => OkOK(c, [call[c] EXCEPT !.result = "ok"], committed[c], created, pulls)
  PROVE  GithubInv'
<1>1. /\ call[c] \in CallStates
      /\ committed[c] \in Seq(Nat) /\ committed[c] = [i \in 1..Len(committed[c]) |-> i]
  BY HearsFacts
<1>2. /\ call' = [call EXCEPT ![c].at = "done", ![c].result = text]
      /\ wire' = [wire EXCEPT ![c] = NoMsg]
  BY DEF Concludes, Returns, Consumed
<1>3. /\ call'[c] \in CallStates /\ call'[c].at = "done" /\ call'[c].args = call[c].args
      /\ call'[c].result = text
  BY <1>1, <1>2 DEF GithubInv, Typed, CallStates
<1>4. Typed' /\ wire'[c] = NoMsg
  BY <1>2, <1>3 DEF GithubInv, Typed
<1>5. text = "ok" => OkOK(c, call'[c], committed[c], created, pulls)
  BY <1>1, <1>3 DEF OkOK, CallStates
<1>6. OkOK(c, call'[c], committed[c], created, pulls)
  BY <1>3, <1>5 DEF OkOK
<1>7. CallOK(c, call'[c], wire'[c], seen'[c], committed'[c], created', pulls')
  BY <1>1, <1>3, <1>4, <1>6, SilentOK
<1>8. QED
  BY <1>2, <1>4, <1>7, OneCall DEF GithubInv, Typed

LEMMA ResumeInv ==
  ASSUME GithubInv, NEW c \in Calls, Resume(c)
  PROVE  GithubInv'
<1>1. UNCHANGED <<seen, committed, created, pulls>>
  BY DEF Resume
<1>2. CASE GotFile(c)
  <2> DEFINE sha == IF wire[c].success THEN wire[c].sha ELSE NoFile
  <2>1. Hears(c, "getFile") /\ Sends(c, "putFile", call[c].file, sha)
    BY <1>2 DEF GotFile
  <2>2. /\ call[c].file \in Nat \ {0} /\ call[c].file = Len(committed[c]) + 1
        /\ call[c].file <= Len(call[c].args.files)
        /\ sha # NoFile => seen[c] = [file |-> call[c].file, content |-> sha]
    <3>1. /\ call[c] \in CallStates /\ call[c].at = "awaiting" /\ call[c].verb = "getFile"
          /\ wire[c] \in Answers /\ AwaitingOK(call[c])
          /\ AnswerOK(c, call[c], wire[c], seen[c], committed[c], created, pulls)
      BY <2>1, HearsFacts
    <3>2. call[c].file \in Nat \ {0}
      BY <3>1 DEF CallStates
    <3>3. /\ call[c].file = Len(committed[c]) + 1
          /\ wire[c].success => seen[c] = [file |-> call[c].file, content |-> wire[c].sha]
      BY <3>1 DEF AnswerOK
    <3>4. call[c].file <= Len(call[c].args.files)
      BY <3>1 DEF AwaitingOK
    <3>5. QED
      BY <3>2, <3>3, <3>4
  <2>3. "putFile" \in Verbs /\ ToolOf["putFile"] = ToolOf["getFile"]
    BY DEF Verbs, ToolOf
  <2> HIDE DEF sha
  <2>4. QED
    BY <1>1, <2>1, <2>2, <2>3, SendsInv
<1>3. CASE PutDone(c)
  <2>1. Hears(c, "putFile")
    BY <1>3 DEF PutDone
  <2>2. /\ call[c] \in CallStates /\ call[c].args \in GithubAsks
        /\ call[c].args.tool = "github_commit_files"
        /\ call[c].file \in Nat \ {0} /\ call[c].file <= Len(call[c].args.files)
        /\ wire[c].success => call[c].file = Len(committed[c])
    <3>1. /\ call[c] \in CallStates /\ call[c].at = "awaiting" /\ call[c].verb = "putFile"
          /\ wire[c] \in Answers /\ AwaitingOK(call[c])
          /\ AnswerOK(c, call[c], wire[c], seen[c], committed[c], created, pulls)
      BY <2>1, HearsFacts
    <3>2. call[c].file \in Nat \ {0}
      BY <3>1 DEF CallStates
    <3>3. wire[c].success => call[c].file = Len(committed[c])
      BY <3>1 DEF AnswerOK
    <3>4. /\ call[c].args \in GithubAsks /\ call[c].args.tool = "github_commit_files"
          /\ call[c].file <= Len(call[c].args.files)
      BY <3>1 DEF AwaitingOK, ToolOf
    <3>5. QED
      BY <3>1, <3>2, <3>3, <3>4
  <2>3. CASE ~wire[c].success
    <3>1. Concludes(c, "error")
      BY <1>3, <2>3 DEF PutDone
    <3>2. QED
      BY <1>1, <2>1, <3>1, ConcludesInv
  <2>4. CASE wire[c].success /\ call[c].file < Len(call[c].args.files)
    <3>1. Sends(c, "getFile", call[c].file + 1, NoFile)
      BY <1>3, <2>4 DEF PutDone
    <3>2. "getFile" \in Verbs /\ ToolOf["getFile"] = ToolOf["putFile"]
      BY DEF Verbs, ToolOf
    <3>3. Len(call[c].args.files) \in Nat
      BY <2>2 DEF GithubAsks
    <3>4. /\ call[c].file + 1 \in Nat \ {0} /\ call[c].file + 1 = Len(committed[c]) + 1
          /\ call[c].file + 1 <= Len(call[c].args.files)
      BY <2>2, <2>4, <3>3
    <3>5. QED
      BY <1>1, <2>1, <3>1, <3>2, <3>4, SendsInv
  <2>5. CASE wire[c].success /\ ~(call[c].file < Len(call[c].args.files))
    <3>1. Concludes(c, "ok")
      BY <1>3, <2>5 DEF PutDone
    <3>2. Len(call[c].args.files) \in Nat
      BY <2>2 DEF GithubAsks
    <3>3. Len(committed[c]) = Len(call[c].args.files)
      BY <2>2, <2>5, <3>2
    <3>4. OkOK(c, [call[c] EXCEPT !.result = "ok"], committed[c], created, pulls)
      BY <2>2, <3>3 DEF OkOK, CallStates
    <3>5. QED
      BY <1>1, <2>1, <3>1, <3>4, ConcludesInv
  <2>6. QED
    BY <2>3, <2>4, <2>5
<1>4. CASE GotRef(c)
  <2>1. Hears(c, "getRef")
    BY <1>4 DEF GotRef
  <2>2. "postRef" \in Verbs /\ ToolOf["postRef"] = ToolOf["getRef"] /\ 1 \in Nat \ {0}
    BY DEF Verbs, ToolOf
  <2>3. CASE wire[c].success
    BY <1>1, <1>4, <2>1, <2>2, <2>3, SendsInv DEF GotRef
  <2>4. CASE ~wire[c].success
    BY <1>1, <1>4, <2>1, <2>4, ConcludesInv DEF GotRef
  <2>5. QED
    BY <2>3, <2>4
<1>5. CASE BranchDone(c) \/ PullDone(c) \/ ReadDone(c)
  <2>1. PICK verb \in {"postRef", "postPull", "read"} :
          /\ Hears(c, verb)
          /\ Concludes(c, IF ~wire[c].success THEN "error" ELSE IF verb = "read" THEN "text" ELSE "ok")
    BY <1>5 DEF BranchDone, PullDone, ReadDone
  <2>2. /\ call[c] \in CallStates /\ call[c].verb = verb
        /\ call[c].args.tool = ToolOf[verb]
        /\ call[c].at = "awaiting" /\ wire[c] \in Answers
        /\ AnswerOK(c, call[c], wire[c], seen[c], committed[c], created, pulls)
    BY <2>1, HearsFacts
  <2>3. wire[c].success /\ verb # "read" =>
          OkOK(c, [call[c] EXCEPT !.result = "ok"], committed[c], created, pulls)
    BY <2>2 DEF OkOK, AnswerOK, ToolOf, CallStates
  <2>4. QED
    BY <1>1, <2>1, <2>3, ConcludesInv
<1>6. QED
  BY <1>2, <1>3, <1>4, <1>5 DEF Resume

LEMMA InterruptedInv ==
  ASSUME GithubInv, NEW c \in Calls, NEW how \in {"none", "error"}, Interrupted(c, how)
  PROVE  GithubInv'
<1>1. /\ call[c] \in CallStates /\ call[c].at = "awaiting"
      /\ CallOK(c, call[c], wire[c], seen[c], committed[c], created, pulls)
      /\ call' = [call EXCEPT ![c].at = "done", ![c].result = how]
      /\ wire' = [wire EXCEPT ![c] = IF @ \in Requests THEN @ ELSE NoMsg]
      /\ UNCHANGED <<seen, committed, created, pulls>>
  BY DEF Interrupted, Returns, GithubInv, Typed
<1>2. call'[c] \in CallStates /\ call'[c].at = "done" /\ call'[c].result = how
  BY <1>1 DEF GithubInv, Typed, CallStates
<1>3. /\ Typed' /\ (wire'[c] = wire[c] \/ wire'[c] = NoMsg)
  BY <1>1, <1>2 DEF GithubInv, Typed
<1>4. CallOK(c, call'[c], wire'[c], seen'[c], committed'[c], created', pulls')
  BY <1>1, <1>2, <1>3, NoMsgIsNone DEF CallOK, IdleOK, AwaitingOK, RequestOK, AnswerOK, OkOK
<1>5. QED
  BY <1>1, <1>3, <1>4, OneCall DEF GithubInv, Typed

LEMMA CallLocalInv ==
  ASSUME GithubInv, NEW c \in Calls, NEW args \in Asks[c], CallLocal(c, args)
  PROVE  GithubInv'
<1> DEFINE text == FileResult(args)
<1>1. text \in {"ok", "error", "text"}
  <2>1. CASE args.tool = "read_file"
    BY <2>1 DEF FileResult, ReadFile
  <2>2. CASE args.tool = "write_file"
    BY <2>2 DEF FileResult
  <2>3. CASE args.tool \notin {"read_file", "write_file"}
    BY <2>3 DEF FileResult
  <2>4. QED
    BY <2>1, <2>2, <2>3
<1> HIDE DEF text
<1>2. /\ call[c] \in CallStates /\ call[c].at = "idle" /\ args.tool \in FileTools
      /\ CallOK(c, call[c], wire[c], seen[c], committed[c], created, pulls)
      /\ call' = [call EXCEPT ![c].at = "done", ![c].args = args, ![c].result = text]
      /\ UNCHANGED <<wire, seen, committed, created, pulls>>
  BY DEF CallLocal, GithubInv, Typed, text
<1>3. args \in GithubAsks \union FileAsks /\ args.tool \notin RemoteTools
  BY <1>2, AskTypes
<1>4. /\ call'[c] \in CallStates /\ call'[c].at = "done" /\ call'[c].args = args
  BY <1>1, <1>2, <1>3 DEF GithubInv, Typed, CallStates
<1>5. Typed'
  BY <1>2, <1>4 DEF GithubInv, Typed
<1>6. wire'[c] = NoMsg /\ committed'[c] \in Seq(Nat)
  BY <1>2, <1>5 DEF CallOK, IdleOK, Typed
<1>7. OkOK(c, call'[c], committed'[c], created', pulls')
  BY <1>3, <1>4 DEF OkOK, RemoteTools
<1>8. CallOK(c, call'[c], wire'[c], seen'[c], committed'[c], created', pulls')
  <2>1. committed'[c] = [i \in 1..Len(committed'[c]) |-> i]
    BY <1>2 DEF CallOK
  <2>2. QED
    BY <1>4, <1>6, <1>7, <2>1, SilentOK
<1>9. QED
  BY <1>2, <1>5, <1>8, OneCall DEF GithubInv, Typed

\* The end of the process leaves the requests of its calls on their way.
LEMMA ProcessInv ==
  ASSUME GithubInv, LogOrProcessStep
  PROVE  GithubInv'
<1>1. UNCHANGED <<wire, seen, committed, created, pulls>>
  BY DEF LogOrProcessStep
<1>2. ASSUME NEW c \in Calls
      PROVE  /\ call'[c] \in CallStates
             /\ \/ call'[c] = call[c]
                \/ call[c].at = "awaiting" /\ call'[c] = [call[c] EXCEPT !.at = "done"]
  BY DEF LogOrProcessStep, GithubInv, Typed, CallStates
<1>3. call' = [c \in Calls |-> call'[c]]
  BY DEF LogOrProcessStep, GithubInv, Typed
<1>4. Typed'
  BY <1>1, <1>2, <1>3 DEF GithubInv, Typed
<1>5. ASSUME NEW c \in Calls
      PROVE  CallOK(c, call'[c], wire'[c], seen'[c], committed'[c], created', pulls')
  <2>1. /\ call[c] \in CallStates
        /\ CallOK(c, call[c], wire[c], seen[c], committed[c], created, pulls)
    BY DEF GithubInv, Typed
  <2>2. CASE call'[c] = call[c]
    BY <1>1, <2>1, <2>2
  <2>3. CASE call[c].at = "awaiting" /\ call'[c] = [call[c] EXCEPT !.at = "done"]
    <3>1. /\ call'[c].at = "done" /\ call'[c].result = call[c].result /\ call[c].result = "none"
      BY <2>1, <2>3 DEF CallStates, CallOK, AwaitingOK
    <3>2. QED
      BY <1>1, <2>1, <3>1 DEF CallOK, IdleOK, AwaitingOK, RequestOK, AnswerOK, OkOK
  <2>4. QED
    BY <1>2, <2>2, <2>3
<1>6. QED
  BY <1>4, <1>5 DEF GithubInv

LEMMA GithubInitInv == Init => GithubInv
<1> SUFFICES ASSUME Init PROVE GithubInv
  OBVIOUS
<1>1. IdleCall \in CallStates
  BY DEF IdleCall, CallStates, Verbs
<1>2. Typed
  BY <1>1 DEF Init, GithubInit, Typed
<1>3. <<>> = [i \in 1..Len(<<>>) |-> i]
  OBVIOUS
<1>4. ASSUME NEW c \in Calls
      PROVE  CallOK(c, call[c], wire[c], seen[c], committed[c], created, pulls)
  BY <1>3, NoMsgIsNone
     DEF Init, GithubInit, IdleCall, CallOK, IdleOK, AwaitingOK, RequestOK, AnswerOK, OkOK
<1>5. QED
  BY <1>2, <1>4 DEF GithubInv

LEMMA GithubNextInv ==
  ASSUME GithubInv, [Next]_vars
  PROVE  GithubInv'
<1>1. CASE UNCHANGED github
  BY <1>1 DEF github, GithubInv, Typed
<1>2. ASSUME NEW c \in Calls, Continue(c) \/ FailsOrTimesOut(c) \/ Cancelled(c)
      PROVE GithubInv'
  BY <1>2, ResumeInv, InterruptedInv DEF Continue, FailsOrTimesOut, Cancelled
<1>3. ASSUME NEW c \in Calls, NEW args \in Asks[c], CallLocal(c, args) \/ CallGithub(c, args)
      PROVE GithubInv'
  BY <1>3, CallLocalInv, StartGithubInv DEF CallGithub
<1>4. CASE Outside
  BY <1>4, GithubStepInv DEF Outside
<1>5. CASE LogOrProcessStep
  BY <1>5, ProcessInv
<1>6. ASSUME NEW c \in Calls, RecordResult(c) \/ \E args \in Asks[c] : Record(c, args)
      PROVE GithubInv'
  BY <1>1, <1>6 DEF Record, RecordResult
<1>7. QED
  BY <1>1, <1>2, <1>3, <1>4, <1>5, <1>6 DEF Next, vars, Finished

LEMMA GithubAlways == Spec => []GithubInv
  BY GithubInitInv, GithubNextInv, PTL DEF Spec

\* A call commits its files in order, none twice (github_tools.py:196-221).
THEOREM InOrder == Spec => []CommitsInOrder
<1>1. GithubInv => CommitsInOrder
  BY DEF GithubInv, CallOK, CommitsInOrder
<1>2. QED
  BY <1>1, GithubAlways, PTL

\* "OK" is said of what the call did itself (github_tools.py:171, 223-226, 255).
THEOREM OkIsTrue == Spec => []OkMeansDone
<1>1. GithubInv => OkMeansDone
  <2> SUFFICES ASSUME GithubInv, NEW c \in Calls, call[c].result = "ok"
               PROVE  LET args == call[c].args IN
                      CASE args.tool = "github_commit_files" -> Len(committed[c]) = Len(args.files)
                        [] args.tool = "github_create_branch" ->
                             <<args.repo, args.branch, c>> \in created
                        [] args.tool = "github_create_pull_request" ->
                             <<args.repo, args.branch, args.from, c>> \in pulls
                        [] OTHER -> TRUE
    BY DEF OkMeansDone
  <2>1. OkOK(c, call[c], committed[c], created, pulls)
    BY DEF GithubInv, CallOK
  <2>2. QED
    BY <2>1 DEF OkOK
<1>2. QED
  BY <1>1, GithubAlways, PTL

LEMMA OnlyPutCommits ==
  ASSUME [Next]_vars
  PROVE  committed' = committed \/ \E d \in Calls : ServePutFile(d)
<1>1. CASE UNCHANGED vars \/ Finished
  BY <1>1 DEF vars, github, Finished
<1>2. CASE \E c \in Calls : Continue(c) \/ FailsOrTimesOut(c) \/ Cancelled(c)
  BY <1>2 DEF Continue, FailsOrTimesOut, Cancelled, Resume, Interrupted
<1>3. CASE \E c \in Calls : \E args \in Asks[c] : CallLocal(c, args) \/ CallGithub(c, args)
  BY <1>3 DEF CallLocal, CallGithub, StartGithub
<1>4. CASE Outside
  BY <1>4 DEF Outside, GithubStep, ServeGetFile, ServeGetRef, ServePostRef, ServePostPull,
              ServeRead, Refuse, Lose, Push
<1>5. CASE LogOrProcessStep
  BY <1>5 DEF LogOrProcessStep
<1>6. CASE \E c \in Calls : RecordResult(c) \/ \E args \in Asks[c] : Record(c, args)
  BY <1>6 DEF Record, RecordResult, github
<1>7. QED
  BY <1>1, <1>2, <1>3, <1>4, <1>5, <1>6 DEF Next

\* A commit replaces only content that its own call saw (github_tools.py:200-213).
THEOREM NoBlindCommit == Spec => ReplacesOnlyWhatItSaw
<1> DEFINE Seen(c) == LET i == committed'[c][Len(committed'[c])]
                          replaced == Files(c)[Target(c, i).path] IN
                      replaced # NoFile => seen[c] = [file |-> i, content |-> replaced]
<1>1. ASSUME GithubInv, [Next]_vars, NEW c \in Calls, committed'[c] # committed[c]
      PROVE  Seen(c)
  <2>1. PICK d \in Calls : ServePutFile(d)
    BY <1>1, OnlyPutCommits
  <2> DEFINE file == Target(d, wire[d].file)
             accepted == Files(d) # NoBranch /\ wire[d].sha = Files(d)[file.path]
  <2>2. /\ Arrives(d, "putFile")
        /\ committed' = IF accepted THEN [committed EXCEPT ![d] = Append(@, wire[d].file)]
                                    ELSE committed
    BY <2>1 DEF ServePutFile
  <2>3. committed \in [Calls -> Seq(Nat)] /\ wire[d].file \in Nat
    BY <1>1, <2>2 DEF GithubInv, Typed, Arrives, Requests
  <2>4. d = c /\ accepted /\ committed'[c] = Append(committed[c], wire[c].file)
    BY <1>1, <2>2, <2>3
  <2>5. committed'[c][Len(committed'[c])] = wire[c].file
    BY <2>3, <2>4
  <2>6. /\ wire[c] \in Requests /\ wire[c].verb = "putFile"
        /\ RequestOK(call[c], wire[c], seen[c], committed[c])
    BY <1>1, <2>2, <2>4, ArrivesFacts DEF CallOK
  <2>7. wire[c].sha # NoFile => seen[c] = [file |-> wire[c].file, content |-> wire[c].sha]
    BY <2>6 DEF RequestOK
  <2>8. wire[c].sha = Files(c)[Target(c, wire[c].file).path]
    BY <2>4
  <2>9. QED
    BY <2>5, <2>7, <2>8
<1>2. ASSUME GithubInv, [Next]_vars
      PROVE  [\A c \in Calls : committed'[c] # committed[c] => Seen(c)]_github
  BY <1>1, <1>2
<1> HIDE DEF Seen
<1>3. Spec => [][\A c \in Calls : committed'[c] # committed[c] => Seen(c)]_github
  BY <1>2, GithubAlways, PTL DEF Spec
<1>4. QED
  BY <1>3 DEF ReplacesOnlyWhatItSaw, Seen

-----------------------------------------------------------------------------
(* The log *)

Records == [event : {"tool_call", "tool_result"}, call : Calls]

Rising(s)    == \A i, j \in DOMAIN s : i < j => s[i] < s[j]
Before(s, t) == \A i \in DOMAIN s, j \in DOMAIN t : s[i] < t[j]
UpTo(s, n)   == \A i \in DOMAIN s : s[i] <= n

LogTyped ==
  /\ logged \in Seq(Records)
  /\ queue \in Seq(Nat) /\ writing \in Seq(Nat) /\ logfile \in Seq(Nat)
  /\ Len(queue) <= Capacity /\ Len(writing) <= 1
  /\ lost \in [Losses -> SUBSET Nat]

\* The file, the record in the writer's hands and the queue continue each other.
LogOrdered ==
  /\ Rising(logfile) /\ Rising(queue)
  /\ Before(logfile, writing) /\ Before(logfile, queue) /\ Before(writing, queue)
  /\ UpTo(logfile, Len(logged)) /\ UpTo(writing, Len(logged)) /\ UpTo(queue, Len(logged))

Accounted ==
  \A n \in DOMAIN logged :
    \/ n \in Positions(logfile) \union lost["full"] \union lost["failed"] \union lost["killed"]
    \/ process \in {"up", "exiting"} /\ n \in Positions(queue) \union Positions(writing)

AuditInv ==
  /\ LogTyped /\ LogOrdered /\ Accounted
  /\ partial \subseteq lost["failed"] \union lost["killed"]
  /\ process \in {"up", "exiting"} \/ (queue = <<>> /\ writing = <<>>)

LEMMA LogEventInv ==
  ASSUME AuditInv, NEW event \in Records, LogEvent(event)
  PROVE  AuditInv'
<1> DEFINE k == Len(logged)
           n == k + 1
           l == Len(queue)
           r == Len(queue')
<1>1. /\ logged' = Append(logged, event) /\ process' = process /\ process = "up"
      /\ UNCHANGED <<writing, logfile, partial>>
      /\ queue' = Enqueue(queue, n)
      /\ lost' = [lost EXCEPT !["full"] = @ \union ({n} \ Positions(queue'))]
  BY DEF LogEvent
<1>2. /\ k \in Nat /\ n \in Nat /\ n = k + 1 /\ logged' \in Seq(Records) /\ Len(logged') = n
      /\ DOMAIN logged = 1..k /\ DOMAIN logged' = 1..n
      /\ queue \in Seq(Nat) /\ l \in Nat /\ DOMAIN queue = 1..l /\ l <= Capacity
      /\ \A i \in 1..l : queue[i] \in Nat
  BY <1>1 DEF AuditInv, LogTyped
<1>3. /\ lost'["full"] = lost["full"] \union ({n} \ Positions(queue'))
      /\ lost'["failed"] = lost["failed"] /\ lost'["killed"] = lost["killed"]
      /\ lost' \in [Losses -> SUBSET Nat]
  BY <1>1, <1>2 DEF AuditInv, LogTyped, Losses
<1>4. \/ queue' = queue
      \/ l < Capacity /\ queue' = Append(queue, n)
  BY <1>1 DEF Enqueue
<1>5. /\ queue' \in Seq(Nat) /\ r <= Capacity
      /\ r \in {l, l + 1} /\ DOMAIN queue' = 1..r
      /\ \A i \in 1..l : queue'[i] = queue[i]
      /\ r = l + 1 => queue'[r] = n
  <2>1. CASE queue' = queue
    <3>1. r = l
      BY <2>1
    <3> HIDE DEF n, l, r
    <3>2. QED
      BY <1>2, <2>1, <3>1
  <2>2. CASE l < Capacity /\ queue' = Append(queue, n)
    <3>1. /\ queue' \in Seq(Nat) /\ r = l + 1 /\ DOMAIN queue' = 1..r
          /\ \A i \in 1..l : queue'[i] = queue[i]
          /\ queue'[r] = n
      BY <1>2, <2>2, AppendProperties
    <3> HIDE DEF n, l, r
    <3>2. r <= Capacity
      BY <1>2, <2>2, <3>1, CapacityAssumption
    <3>3. QED
      BY <1>2, <3>1, <3>2
  <2>3. QED
    BY <1>4, <2>1, <2>2
<1>6. /\ UpTo(queue, k) /\ UpTo(logfile, k) /\ UpTo(writing, k)
      /\ \A i \in DOMAIN logfile : logfile[i] \in Nat
      /\ \A i \in DOMAIN writing : writing[i] \in Nat
  BY DEF AuditInv, LogTyped, LogOrdered
<1> HIDE DEF k, n, l, r
<1>7. \A i \in 1..r : i \in 1..l \/ (i = r /\ queue'[i] = n)
  BY <1>2, <1>5
<1>8. LogTyped'
  BY <1>1, <1>2, <1>3, <1>5 DEF AuditInv, LogTyped, r
<1>9. LogOrdered'
  <2>0. /\ \A i \in 1..l : queue[i] <= k /\ queue[i] < n
        /\ \A i, j \in 1..l : i < j => queue[i] < queue[j]
    <3>1. \A i \in 1..l : queue[i] <= k
      BY <1>2, <1>6 DEF UpTo
    <3>2. \A i, j \in DOMAIN queue : i < j => queue[i] < queue[j]
      BY DEF AuditInv, LogOrdered, Rising
    <3>3. \A i \in 1..l : queue[i] < n
      BY <1>2, <3>1
    <3>4. QED
      BY <1>2, <3>1, <3>2, <3>3
  <2>1. Rising(queue)'
    <3>1. ASSUME NEW i \in 1..r, NEW j \in 1..r, i < j
          PROVE  queue'[i] < queue'[j]
      <4>1. i \in 1..l
        BY <1>2, <1>5, <3>1
      <4>2. CASE j \in 1..l
        BY <1>5, <2>0, <3>1, <4>1, <4>2
      <4>3. CASE queue'[j] = n
        BY <1>5, <2>0, <4>1, <4>3
      <4>4. QED
        BY <1>7, <4>2, <4>3
    <3>2. QED
      BY <1>5, <3>1 DEF Rising
  <2>2. UpTo(queue, Len(logged))'
    <3>1. ASSUME NEW i \in 1..r PROVE queue'[i] <= n
      <4>1. CASE i \in 1..l
        BY <1>2, <1>5, <2>0, <4>1
      <4>2. CASE queue'[i] = n
        BY <1>2, <4>2
      <4>3. QED
        BY <1>7, <4>1, <4>2
    <3>2. QED
      BY <1>2, <1>5, <3>1 DEF UpTo
  <2>3. ASSUME NEW s, UpTo(s, k), \A i \in DOMAIN s : s[i] \in Nat, Before(s, queue)
        PROVE  Before(s, queue')
    <3>1. ASSUME NEW i \in DOMAIN s, NEW j \in 1..r
          PROVE  s[i] < queue'[j]
      <4>1. CASE j \in 1..l
        BY <1>2, <1>5, <2>3, <4>1 DEF Before
      <4>2. CASE queue'[j] = n
        BY <1>2, <2>3, <4>2 DEF UpTo
      <4>3. QED
        BY <1>7, <4>1, <4>2
    <3>2. QED
      BY <1>5, <3>1 DEF Before
  <2>4. Before(logfile, queue)' /\ Before(writing, queue)'
    BY <1>1, <1>6, <2>3 DEF AuditInv, LogOrdered
  <2>5. UpTo(logfile, Len(logged))' /\ UpTo(writing, Len(logged))'
    BY <1>1, <1>2, <1>6 DEF UpTo
  <2>6. QED
    BY <1>1, <2>1, <2>2, <2>4, <2>5 DEF AuditInv, LogOrdered
<1>10. Accounted'
  <2>1. Positions(queue) \subseteq Positions(queue')
    <3>1. ASSUME NEW i \in DOMAIN queue PROVE queue[i] \in Positions(queue')
      <4>1. i \in DOMAIN queue' /\ queue'[i] = queue[i]
        BY <1>2, <1>5
      <4>2. QED
        BY <4>1 DEF Positions
    <3>2. QED
      BY <3>1 DEF Positions
  <2>2. ASSUME NEW m \in DOMAIN logged'
        PROVE  \/ m \in Positions(logfile') \union lost'["full"] \union lost'["failed"]
                          \union lost'["killed"]
               \/ process' \in {"up", "exiting"} /\ m \in Positions(queue') \union Positions(writing')
    <3>1. CASE m \in 1..k
      BY <1>1, <1>2, <1>3, <2>1, <3>1 DEF AuditInv, Accounted
    <3>2. CASE m = n
      BY <1>1, <1>3, <3>2
    <3>3. QED
      BY <1>2, <3>1, <3>2
  <2>3. QED
    BY <2>2 DEF Accounted
<1>11. QED
  BY <1>1, <1>3, <1>8, <1>9, <1>10 DEF AuditInv

\* What the writer holds is added to the file.
LEMMA FileGrows ==
  ASSUME LogTyped, LogOrdered, logfile' = logfile \o writing, writing' = <<>>,
         queue' = queue \/ queue' = <<>>, logged' = logged
  PROVE  /\ logfile' \in Seq(Nat) /\ LogOrdered'
         /\ Positions(logfile) \union Positions(writing) \subseteq Positions(logfile')
<1>1. CASE writing = <<>>
  <2>1. logfile' = logfile /\ writing' = writing
    BY <1>1, ConcatEmptySeq DEF LogTyped
  <2>2. Positions(writing) = {}
    BY <1>1 DEF Positions
  <2>3. LogOrdered'
    <3>1. CASE queue' = queue
      BY <2>1, <3>1 DEF LogOrdered, Rising, Before, UpTo
    <3>2. CASE queue' = <<>>
      BY <2>1, <3>2 DEF LogOrdered, Rising, Before, UpTo
    <3>3. QED
      BY <3>1, <3>2
  <2>4. QED
    BY <2>1, <2>2, <2>3 DEF LogTyped, Positions
<1>2. CASE writing # <<>>
  <2>2. /\ logfile' \in Seq(Nat) /\ Len(logfile) \in Nat /\ Len(logfile') = Len(logfile) + 1
        /\ Len(writing) = 1
        /\ \A i \in 1..Len(logfile) : logfile'[i] = logfile[i]
        /\ logfile'[Len(logfile) + 1] = writing[1]
    <3>0. /\ writing \in Seq(Nat) /\ Len(writing) = 1
          /\ logfile \in Seq(Nat) /\ Len(logfile) \in Nat
      <4>1. writing \in Seq(Nat) /\ Len(writing) <= 1 /\ logfile \in Seq(Nat)
        BY DEF LogTyped
      <4>2. \A s \in Seq(Nat) : s # <<>> => Len(s) \in Nat \ {0}
        BY EmptySeq
      <4>3. Len(writing) \in Nat \ {0}
        BY <1>2, <4>1, <4>2
      <4>4. Len(writing) = 1
        <5>1. \A k \in Nat \ {0} : k <= 1 => k = 1
          OBVIOUS
        <5>2. Len(writing) <= 1
          BY <4>1
        <5>3. QED
          BY <4>3, <5>1, <5>2, Zenon
      <4>5. Len(logfile) \in Nat
        BY <4>1, LenProperties
      <4>6. QED
        BY <4>1, <4>4, <4>5
    <3>1. /\ logfile' \in Seq(Nat)
          /\ Len(logfile') = Len(logfile) + 1
          /\ \A i \in 1 .. Len(logfile) + 1 :
               logfile'[i] = IF i <= Len(logfile) THEN logfile[i] ELSE writing[i - Len(logfile)]
      <4>1. /\ logfile \o writing \in Seq(Nat)
            /\ Len(logfile \o writing) = Len(logfile) + Len(writing)
            /\ \A i \in 1 .. Len(logfile) + Len(writing) : (logfile \o writing)[i] =
                 IF i <= Len(logfile) THEN logfile[i] ELSE writing[i - Len(logfile)]
        BY <3>0, ConcatProperties
      <4>2. QED
        BY <3>0, <4>1
    <3>2. Len(logfile) + 1 \in 1 .. Len(logfile) + 1
          /\ ~(Len(logfile) + 1 <= Len(logfile)) /\ (Len(logfile) + 1) - Len(logfile) = 1
      BY <3>0
    <3>3. logfile'[Len(logfile) + 1] = writing[1]
      BY <3>1, <3>2
    <3>4. ASSUME NEW i \in 1..Len(logfile)
          PROVE  logfile'[i] = logfile[i]
      <4>1. i \in 1 .. Len(logfile) + 1 /\ i <= Len(logfile)
        BY <3>0
      <4>2. QED
        BY <3>1, <4>1
    <3>5. QED
      BY <3>0, <3>1, <3>3, <3>4
  <2>4. LogOrdered'
    <3> DEFINE m == Len(logfile)
    <3>1. /\ DOMAIN logfile' = 1..(m + 1) /\ DOMAIN logfile = 1..m /\ 1 \in DOMAIN writing
          /\ m \in Nat
          /\ \A i \in 1..(m + 1) : i \in 1..m \/ i = m + 1
      BY <2>2
    <3>2. /\ \A i, j \in 1..m : i < j => logfile[i] < logfile[j]
          /\ \A i \in 1..m : logfile[i] <= Len(logged) /\ logfile[i] < writing[1]
          /\ \A i \in 1..m, j \in DOMAIN queue : logfile[i] < queue[j]
          /\ \A j \in DOMAIN queue : writing[1] < queue[j]
          /\ writing[1] <= Len(logged)
      BY <3>1 DEF LogOrdered, Rising, Before, UpTo
    <3> HIDE DEF m
    <3>3. /\ \A i \in 1..m : logfile'[i] = logfile[i]
          /\ logfile'[m + 1] = writing[1]
      BY <2>2 DEF m
    <3>4. Rising(logfile)'
      <4>1. ASSUME NEW i \in 1..(m + 1), NEW j \in 1..(m + 1), i < j
            PROVE  logfile'[i] < logfile'[j]
        <5>1. i \in 1..m
          BY <3>1, <4>1
        <5>2. CASE j \in 1..m
          BY <3>2, <3>3, <4>1, <5>1, <5>2
        <5>3. CASE j = m + 1
          BY <3>2, <3>3, <5>1, <5>3
        <5>4. QED
          BY <3>1, <5>2, <5>3
      <4>2. QED
        BY <3>1, <4>1 DEF Rising
    <3>5. UpTo(logfile, Len(logged))' /\ Before(logfile, queue)'
      BY <3>1, <3>2, <3>3 DEF UpTo, Before
    <3>6. Before(logfile, writing)' /\ Before(writing, queue)' /\ UpTo(writing, Len(logged))'
      BY DEF Before, UpTo
    <3>8. Rising(queue)' /\ UpTo(queue, Len(logged))'
      <4>1. CASE queue' = queue
        BY <4>1 DEF LogOrdered, Rising, UpTo
      <4>2. CASE queue' = <<>>
        BY <4>2 DEF Rising, UpTo
      <4>3. QED
        BY <4>1, <4>2
    <3>7. QED
      BY <3>4, <3>5, <3>6, <3>8 DEF LogOrdered
  <2>5. Positions(logfile) \union Positions(writing) \subseteq Positions(logfile')
    <3>1. /\ DOMAIN logfile = 1..Len(logfile) /\ DOMAIN logfile' = 1..(Len(logfile) + 1)
          /\ DOMAIN writing = {1} /\ Len(logfile) \in Nat
      BY <2>2
    <3>2. ASSUME NEW i \in 1..Len(logfile)
          PROVE  logfile[i] \in Positions(logfile')
      <4>1. i \in DOMAIN logfile' /\ logfile'[i] = logfile[i]
        BY <2>2, <3>1
      <4>2. QED
        BY <4>1 DEF Positions
    <3>3. writing[1] \in Positions(logfile')
      <4>1. Len(logfile) + 1 \in DOMAIN logfile'
        BY <3>1
      <4>2. QED
        BY <2>2, <4>1 DEF Positions
    <3>4. QED
      BY <3>1, <3>2, <3>3 DEF Positions
  <2>6. QED
    BY <2>2, <2>4, <2>5
<1>3. QED
  BY <1>1, <1>2

LEMMA AuditStepInv ==
  ASSUME AuditInv, AuditStep
  PROVE  AuditInv'
<1> USE DEF AuditInv, LogTyped
<1>1. CASE TakeRecord
  <2>1. /\ writing = <<>> /\ queue # <<>> /\ writing' = <<Head(queue)>> /\ queue' = Tail(queue)
        /\ UNCHANGED <<logged, logfile, partial, lost, process>>
    BY <1>1 DEF TakeRecord
  <2>2. /\ queue' \in Seq(Nat) /\ writing' \in Seq(Nat) /\ Len(writing') = 1
        /\ Len(queue') = Len(queue) - 1 /\ Len(queue) \in Nat \ {0}
        /\ writing'[1] = queue[1] /\ \A i \in 1..Len(queue') : queue'[i] = queue[i + 1]
    BY <2>1
  <2>3. LogTyped'
    BY <2>1, <2>2, CapacityAssumption
  <2> DEFINE r == Len(queue')
  <2>a. /\ DOMAIN queue' = 1..r /\ DOMAIN queue = 1..(r + 1) /\ r \in Nat
        /\ DOMAIN writing' = {1} /\ writing'[1] = queue[1]
        /\ \A i \in 1..r : queue'[i] = queue[i + 1]
    BY <2>2
  <2> HIDE DEF r
  <2>b. 1 \in 1..(r + 1) /\ \A i \in 1..r : i + 1 \in 1..(r + 1) /\ 1 < i + 1
    BY <2>a
  <2>4. LogOrdered'
    <3>1. /\ \A i, j \in 1..(r + 1) : i < j => queue[i] < queue[j]
          /\ \A i \in 1..(r + 1) : queue[i] <= Len(logged)
          /\ \A i \in DOMAIN logfile, j \in 1..(r + 1) : logfile[i] < queue[j]
      BY <2>a DEF LogOrdered, Rising, Before, UpTo
    <3>2. ASSUME NEW i \in 1..r, NEW j \in 1..r, i < j
          PROVE  queue'[i] < queue'[j]
      <4>1. i + 1 \in 1..(r + 1) /\ j + 1 \in 1..(r + 1) /\ i + 1 < j + 1
        BY <2>b, <3>2
      <4>2. queue[i + 1] < queue[j + 1]
        BY <3>1, <4>1
      <4>3. QED
        BY <2>a, <4>2
    <3>3. Rising(queue)'
      BY <2>a, <3>2 DEF Rising
    <3>4. ASSUME NEW j \in 1..r
          PROVE  /\ writing'[1] < queue'[j] /\ queue'[j] <= Len(logged)
                 /\ \A i \in DOMAIN logfile : logfile[i] < queue'[j]
      <4>1. 1 \in 1..(r + 1) /\ j + 1 \in 1..(r + 1) /\ 1 < j + 1 /\ queue'[j] = queue[j + 1]
        BY <2>a, <2>b
      <4>2. QED
        BY <2>a, <3>1, <4>1
    <3>5. /\ UpTo(queue, Len(logged))' /\ Before(logfile, queue)' /\ Before(writing, queue)'
      BY <2>1, <2>a, <3>4 DEF UpTo, Before
    <3>6. Before(logfile, writing)' /\ UpTo(writing, Len(logged))'
      BY <2>1, <2>a, <2>b, <3>1 DEF Before, UpTo
    <3>7. QED
      BY <2>1, <3>3, <3>5, <3>6 DEF LogOrdered
  <2>5. Positions(queue) \subseteq Positions(queue') \union Positions(writing')
    <3>1. ASSUME NEW i \in 1..(r + 1), i # 1
          PROVE  queue[i] \in Positions(queue')
      <4>1. i - 1 \in 1..r /\ (i - 1) + 1 = i
        BY <2>a, <3>1
      <4>2. i - 1 \in DOMAIN queue' /\ queue'[i - 1] = queue[i]
        BY <2>a, <4>1
      <4>3. QED
        BY <4>2 DEF Positions
    <3>2. queue[1] \in Positions(writing')
      BY <2>a DEF Positions
    <3>3. ASSUME NEW i \in DOMAIN queue
          PROVE  queue[i] \in Positions(queue') \union Positions(writing')
      BY <2>a, <3>1, <3>2
    <3>4. QED
      BY <3>3 DEF Positions
  <2>6. Positions(writing) = {}
    BY <2>1 DEF Positions
  <2>7. Accounted'
    BY <2>1, <2>5, <2>6 DEF Accounted
  <2>8. QED
    BY <2>1, <2>3, <2>4, <2>7
<1>2. CASE WriteRecord
  <2>1. /\ logfile' = logfile \o writing /\ writing' = <<>>
        /\ UNCHANGED <<logged, queue, partial, lost, process>>
    BY <1>2 DEF WriteRecord
  <2>2. /\ logfile' \in Seq(Nat) /\ LogOrdered'
        /\ Positions(logfile) \union Positions(writing) \subseteq Positions(logfile')
    BY <2>1, FileGrows
  <2>3. LogTyped'
    BY <2>1, <2>2
  <2>4. Accounted'
    BY <2>1, <2>2 DEF Accounted
  <2>5. QED
    BY <2>1, <2>2, <2>3, <2>4
<1>3. ASSUME CutOff, writing' = <<>>, queue' = queue \/ queue' = <<>>, logged' = logged
      PROVE  /\ logfile' \in Seq(Nat) /\ LogOrdered'
             /\ Positions(logfile) \subseteq Positions(logfile')
             /\ partial' \subseteq partial \union Positions(writing)
  <2>1. CASE UNCHANGED <<logfile, partial>>
    <3>1. LogOrdered'
      <4>1. CASE queue' = queue
        BY <1>3, <2>1, <4>1 DEF LogOrdered, Rising, Before, UpTo
      <4>2. CASE queue' = <<>>
        BY <1>3, <2>1, <4>2 DEF LogOrdered, Rising, Before, UpTo
      <4>3. QED
        BY <1>3, <4>1, <4>2
    <3>2. QED
      BY <2>1, <3>1 DEF Positions
  <2>2. CASE logfile' = logfile \o writing /\ partial' = partial \union Positions(writing)
    BY <1>3, <2>2, FileGrows
  <2>3. QED
    BY <1>3, <2>1, <2>2 DEF CutOff
<1>4. CASE WriteFails
  <2>1. /\ lost' = [lost EXCEPT !["failed"] = @ \union Positions(writing)] /\ writing' = <<>>
        /\ UNCHANGED <<logged, queue, process>>
        /\ CutOff
    BY <1>4 DEF WriteFails, GivesUp
  <2>2. /\ logfile' \in Seq(Nat) /\ LogOrdered'
        /\ Positions(logfile) \subseteq Positions(logfile')
        /\ partial' \subseteq partial \union Positions(writing)
    BY <1>3, <2>1
  <2>3. /\ lost'["failed"] = lost["failed"] \union Positions(writing)
        /\ lost'["full"] = lost["full"] /\ lost'["killed"] = lost["killed"]
        /\ lost' \in [Losses -> SUBSET Nat]
    BY <2>1 DEF Losses, Positions
  <2>4. LogTyped'
    BY <2>1, <2>2, <2>3
  <2>5. Accounted'
    BY <2>1, <2>2, <2>3 DEF Accounted
  <2>6. QED
    BY <2>1, <2>2, <2>3, <2>4, <2>5
<1>7. CASE Killed
  <2>1. /\ lost' = [lost EXCEPT !["killed"] = @ \union (Positions(queue) \union Positions(writing))]
        /\ queue' = <<>> /\ writing' = <<>> /\ logged' = logged
        /\ CutOff
    BY <1>7 DEF Killed, Ends, GivesUp
  <2>2. /\ logfile' \in Seq(Nat) /\ LogOrdered'
        /\ Positions(logfile) \subseteq Positions(logfile')
        /\ partial' \subseteq partial \union Positions(writing)
    BY <1>3, <2>1
  <2>3. /\ lost'["killed"] = lost["killed"] \union Positions(queue) \union Positions(writing)
        /\ lost'["full"] = lost["full"] /\ lost'["failed"] = lost["failed"]
        /\ lost' \in [Losses -> SUBSET Nat]
    BY <2>1 DEF Losses, Positions
  <2>4. LogTyped'
    BY <2>1, <2>2, <2>3, CapacityAssumption
  <2>5. Accounted'
    BY <2>1, <2>2, <2>3 DEF Accounted
  <2>6. QED
    BY <2>1, <2>2, <2>3, <2>4, <2>5
<1>8. CASE Joined
  <2>1. /\ queue = <<>> /\ writing = <<>> /\ queue' = <<>> /\ writing' = <<>>
        /\ UNCHANGED <<logged, logfile, partial, lost>>
    BY <1>8 DEF Joined, Ends
  <2>2. Positions(queue) = {} /\ Positions(writing) = {}
    BY <2>1 DEF Positions
  <2>3. LogOrdered' /\ LogTyped'
    BY <2>1 DEF LogOrdered, Rising, Before, UpTo
  <2>4. Accounted'
    BY <2>1, <2>2 DEF Accounted
  <2>5. QED
    BY <2>1, <2>3, <2>4
<1>5. CASE Exit \/ Restart
  BY <1>5 DEF Exit, Restart, LogOrdered, Accounted
<1>6. QED
  BY <1>1, <1>2, <1>4, <1>5, <1>7, <1>8 DEF AuditStep, WriterStep

\* What a step of ToolCalls does to the log.
LEMMA LogSteps ==
  ASSUME [Next]_vars
  PROVE  UNCHANGED audit \/ AuditStep \/ \E event \in Records : LogEvent(event)
<1>1. \A c \in Calls : CallRecord(c) \in Records /\ ResultRecord(c) \in Records
  BY DEF CallRecord, ResultRecord, Records
<1>2. ASSUME UNCHANGED vars \/ Finished \/ Outside
      PROVE  UNCHANGED audit
  BY <1>2 DEF vars, Finished, Outside
<1>3. ASSUME NEW c \in Calls, \/ Continue(c) \/ FailsOrTimesOut(c) \/ Cancelled(c)
                              \/ \E args \in Asks[c] : CallLocal(c, args) \/ CallGithub(c, args)
      PROVE  UNCHANGED audit
  BY <1>3 DEF Continue, FailsOrTimesOut, Cancelled, CallLocal, CallGithub
<1>4. ASSUME NEW c \in Calls, RecordResult(c) \/ \E args \in Asks[c] : Record(c, args)
      PROVE  \E event \in Records : LogEvent(event)
  BY <1>1, <1>4 DEF Record, RecordResult
<1>5. ASSUME LogOrProcessStep PROVE AuditStep
  BY <1>5 DEF LogOrProcessStep
<1>6. QED
  BY <1>2, <1>3, <1>4, <1>5 DEF Next

LEMMA AuditAlways == Spec => []AuditInv
<1>1. Init => AuditInv
  <2> SUFFICES ASSUME Init PROVE AuditInv
    OBVIOUS
  <2>1. /\ logged = <<>> /\ queue = <<>> /\ writing = <<>> /\ logfile = <<>>
        /\ lost = [why \in Losses |-> {}] /\ process = "up" /\ partial = {}
    BY DEF Init, AuditInit
  <2>2. LogTyped
    BY <2>1, CapacityAssumption DEF LogTyped, Losses
  <2>3. LogOrdered /\ Accounted
    BY <2>1 DEF LogOrdered, Rising, Before, UpTo, Accounted
  <2>4. QED
    BY <2>1, <2>2, <2>3 DEF AuditInv
<1>2. AuditInv /\ [Next]_vars => AuditInv'
  <2> SUFFICES ASSUME AuditInv, [Next]_vars PROVE AuditInv'
    OBVIOUS
  <2>1. CASE UNCHANGED audit
    BY <2>1 DEF audit, AuditInv, LogTyped, LogOrdered, Rising, Before, UpTo, Accounted, Positions
  <2>2. QED
    BY <2>1, LogSteps, AuditStepInv, LogEventInv
<1>3. QED
  BY <1>1, <1>2, PTL DEF Spec

\* The file holds the records in the order they were logged (audit.py:35-46, 61-73).
THEOREM FileOrdered == Spec => []FileInOrder
<1>1. AuditInv => FileInOrder
  BY DEF AuditInv, LogOrdered, Rising, FileInOrder
<1>2. QED
  BY <1>1, AuditAlways, PTL

\* A record cannot be read from the file only because the queue was full, its write
\* failed, the process was killed, or the record before it was cut off so; whoever
\* ends by itself has written all others (audit.py:35-73).
THEOREM RecordsAccountedFor == Spec => []NothingElseLost
<1>1. AuditInv => NothingElseLost
  <2> SUFFICES ASSUME AuditInv, NEW n \in DOMAIN logged,
                      n \notin lost["full"] \union lost["failed"] \union lost["killed"],
                      ~(process \in {"up", "exiting"} /\ n \in Positions(queue) \union Positions(writing))
               PROVE  OnLine(n) \/ Glued(n)
    BY DEF NothingElseLost
  <2>1. PICK i \in DOMAIN logfile : logfile[i] = n
    BY DEF AuditInv, Accounted, Positions
  <2>2. n \notin partial
    BY DEF AuditInv
  <2>3. CASE i = 1 \/ logfile[i-1] \notin partial
    BY <2>1, <2>2, <2>3 DEF OnLine
  <2>4. CASE i # 1 /\ logfile[i-1] \in partial
    <3>1. i > 1
      BY <2>4 DEF AuditInv, LogTyped
    <3>2. logfile[i-1] \in lost["failed"] \union lost["killed"]
      BY <2>4 DEF AuditInv
    <3>3. QED
      BY <2>1, <3>1, <3>2 DEF Glued
  <2>5. QED
    BY <2>3, <2>4
<1>2. QED
  BY <1>1, AuditAlways, PTL

-----------------------------------------------------------------------------
(* The log implements Journal *)

\* The oldest record that waits is the writer's, or else the queue's.
LEMMA LineFacts ==
  ASSUME NEW w \in Seq(Nat), NEW q \in Seq(Nat), Len(w) <= 1
  PROVE  /\ w = <<>> => w \o q = q
         /\ w = <<>> /\ q # <<>> => <<Head(q)>> \o Tail(q) = q
         /\ w # <<>> => /\ w = <<w[1]>> /\ w \o q # <<>>
                        /\ Head(w \o q) = w[1] /\ Tail(w \o q) = q
<1>1. CASE w = <<>>
  <2>1. w \o q = q
    BY <1>1, ConcatEmptySeq
  <2>2. q # <<>> => <<Head(q)>> \o Tail(q) = q
    OBVIOUS
  <2>3. QED
    BY <1>1, <2>1, <2>2
<1>2. CASE w # <<>>
  <2>1. Len(w) \in Nat \ {0}
    BY <1>2, EmptySeq
  <2>2. Len(w) = 1
    <3>1. \A k \in Nat \ {0} : k <= 1 => k = 1
      OBVIOUS
    <3>2. QED
      BY <2>1, <3>1, Zenon
  <2>3. w = <<w[1]>>
    BY <2>2
  <2>4. w[1] \in Nat
    <3>1. 1 \in 1..Len(w)
      BY <2>2
    <3>2. QED
      BY <3>1, ElementOfSeq
  <2>5. <<w[1]>> \o q # <<>> /\ Head(<<w[1]>> \o q) = w[1] /\ Tail(<<w[1]>> \o q) = q
    BY <2>4, SMTT(30)
  <2>6. QED
    BY <1>2, <2>3, <2>5
<1>3. QED
  BY <1>1, <1>2

LEMMA NumbersReassociated == \A s, t, u \in Seq(Nat) : s \o (t \o u) = (s \o t) \o u
  BY ConcatAssociative, SMTT(30)

LEMMA JournalStep ==
  ASSUME AuditInv, [Next]_vars
  PROVE  Line!Next \/ UNCHANGED Line!journal
<1>0. /\ logged \in Seq(Records) /\ queue \in Seq(Nat) /\ writing \in Seq(Nat)
      /\ Len(queue) <= Capacity /\ Len(writing) <= 1
  BY DEF AuditInv, LogTyped
<1>1. CASE UNCHANGED audit
  BY <1>1 DEF audit, Line!journal
<1>2. ASSUME NEW event \in Records, LogEvent(event)
      PROVE  Line!Next
  <2> DEFINE n == Len(logged) + 1
  <2>1. /\ process = "up" /\ process' = process /\ logfile' = logfile /\ writing' = writing
        /\ queue' = Enqueue(queue, n)
        /\ logged' = Append(logged, event)
    BY <1>2 DEF LogEvent
  <2>2. n \in Nat /\ Len(logged') = n
    BY <1>0, <2>1
  <2> HIDE DEF n
  <2>3. queue' = queue \/ queue' = Append(queue, n)
    BY <2>1 DEF Enqueue
  <2>4. writing \o Append(queue, n) = Append(writing \o queue, n)
    <3>1. /\ Append(queue, n) = queue \o <<n>> /\ writing \o queue \in Seq(Nat) /\ <<n>> \in Seq(Nat)
      BY <1>0, <2>2, AppendIsConcat, ConcatProperties
    <3>2. Append(writing \o queue, n) = (writing \o queue) \o <<n>>
      BY <2>2, <3>1, AppendIsConcat
    <3>3. writing \o (queue \o <<n>>) = (writing \o queue) \o <<n>>
      BY <1>0, <3>1, NumbersReassociated
    <3>4. QED
      BY <3>1, <3>2, <3>3
  <2>5. (writing \o queue)' \in {writing \o queue, Append(writing \o queue, n)}
    BY <2>1, <2>3, <2>4
  <2>6. Line!Log
    BY <2>1, <2>2, <2>5 DEF Line!Log, n
  <2>7. QED
    BY <2>6 DEF Line!Next
<1>3. CASE TakeRecord
  <2>1. /\ writing = <<>> /\ queue # <<>> /\ writing' = <<Head(queue)>> /\ queue' = Tail(queue)
        /\ UNCHANGED <<logged, logfile, process>>
    BY <1>3 DEF TakeRecord
  <2>2. (writing \o queue)' = writing \o queue
    BY <1>0, <2>1, LineFacts
  <2>3. QED
    BY <2>1, <2>2 DEF Line!journal
<1>8. ASSUME writing # <<>>
      PROVE  /\ writing \o queue # <<>> /\ Tail(writing \o queue) = queue
             /\ logfile \o writing = Append(logfile, Head(writing \o queue))
  <2>1. /\ writing = <<writing[1]>> /\ writing \o queue # <<>>
        /\ Head(writing \o queue) = writing[1] /\ Tail(writing \o queue) = queue
    BY <1>0, <1>8, LineFacts
  <2>2. logfile \o <<writing[1]>> = Append(logfile, writing[1])
    <3>1. logfile \in Seq(Nat) /\ writing[1] \in Nat
      <4>1. writing \in Seq(Nat) /\ Len(writing) = 1
        BY <1>0, <2>1
      <4>2. 1 \in 1..Len(writing)
        BY <4>1
      <4>3. QED
        BY <1>0, <4>2, ElementOfSeq DEF AuditInv, LogTyped
    <3>2. QED
      BY <3>1, AppendIsConcat
  <2>3. QED
    BY <2>1, <2>2
<1>4. CASE WriteRecord \/ WriteFails
  <2>1. /\ writing # <<>> /\ writing' = <<>> /\ UNCHANGED <<logged, queue, process>>
        /\ logfile' = logfile \/ logfile' = logfile \o writing
    BY <1>4 DEF WriteRecord, WriteFails, CutOff
  <2>2. (writing \o queue)' = queue
    BY <1>0, <2>1, ConcatEmptySeq
  <2>3. QED
    BY <1>8, <2>1, <2>2 DEF Line!Next, Line!Write
<1>5. CASE Joined \/ Killed
  <2>1. /\ queue' = <<>> /\ writing' = <<>> /\ logged' = logged
        /\ \/ /\ process = "exiting" /\ process' = "ended" /\ queue = <<>> /\ writing = <<>>
              /\ logfile' = logfile
           \/ /\ process \in {"up", "exiting"} /\ process' = "dead"
              /\ logfile' = logfile \/ logfile' = logfile \o writing
    BY <1>5 DEF Joined, Killed, Ends, CutOff
  <2>2. (writing \o queue)' = <<>> /\ (queue = <<>> /\ writing = <<>> => writing \o queue = <<>>)
    BY <2>1, ConcatEmptySeq, EmptySeq
  <2>3. writing = <<>> => logfile \o writing = logfile
    BY ConcatEmptySeq DEF AuditInv, LogTyped
  <2>4. QED
    BY <1>8, <2>1, <2>2, <2>3 DEF Line!Next, Line!End, Line!Die
<1>6. CASE Exit \/ Restart
  BY <1>6 DEF Exit, Restart, Line!Next, Line!Leave, Line!Start
<1>7. QED
  BY <1>1, <1>2, <1>3, <1>4, <1>5, <1>6, LogSteps DEF AuditStep, WriterStep

\* Queue and writer are one line of records before a file that is only appended
\* to; a process that ends by itself has emptied it (audit.py:1-6, 35-57).
THEOREM LogIsJournal == Spec => ImplementsJournal
<1>1. Init => Line!Init
  <2>1. <<>> \o <<>> = <<>> /\ Len(<<>>) = 0
    OBVIOUS
  <2>2. QED
    BY <2>1 DEF Init, AuditInit, Line!Init
<1>2. AuditInv /\ [Next]_vars => [Line!Next]_(Line!journal)
  BY JournalStep
<1>3. QED
  BY <1>1, <1>2, AuditAlways, PTL DEF Spec, ImplementsJournal, Line!Spec

-----------------------------------------------------------------------------
(* What is on the wire, in the repositories and in the sandbox *)

\* A request belongs to a call of its tool, whether or not that call still waits;
\* what a branch is created from is the files of a branch.
WireOK(k, w) ==
  /\ w \in Requests \union Answers \union {NoMsg}
  /\ w \in Requests =>
       /\ k.args \in GithubAsks
       /\ w.verb \in {"getFile", "putFile"} => w.file \in 1..Len(k.args.files)
       /\ w.verb = "postRef" => w.sha \in Trees
  /\ k.at = "awaiting" /\ k.verb = "getRef" /\ w \in Answers /\ w.success => w.sha \in Trees

TreeTyped == tree \in [Repos -> [Branches -> Trees \union {NoBranch}]]
DiskTyped == disk \in [Names -> Seq(Lines) \union {Missing}]

WorldInv == TreeTyped /\ DiskTyped /\ \A c \in Calls : WireOK(call[c], wire[c])

LEMMA GithubAskTypes ==
  ASSUME NEW args \in GithubAsks
  PROVE  /\ args.tool \in RemoteTools /\ args.repo \in Repos
         /\ args.branch \in Branches /\ args.from \in Branches
         /\ args.files \in Seq([path : Paths, content : Contents])
         /\ \A i \in 1..Len(args.files) :
              args.files[i].path \in Paths /\ args.files[i].content \in Contents
<1>1. /\ args.tool \in RemoteTools /\ args.repo \in Repos
      /\ args.branch \in Branches /\ args.from \in Branches
      /\ args.files \in Seq([path : Paths, content : Contents])
  BY DEF GithubAsks
<1>2. \A i \in 1..Len(args.files) : args.files[i] \in [path : Paths, content : Contents]
  BY <1>1, ElementOfSeq
<1>3. QED
  BY <1>1, <1>2

LEMMA NoMsgFine ==
  ASSUME NEW k
  PROVE  WireOK(k, NoMsg)
BY NoMsgIsNone DEF WireOK

LEMMA AnswerFine ==
  ASSUME NEW k, NEW success \in BOOLEAN, NEW sha \in Shas,
         k.verb = "getRef" /\ success => sha \in Trees
  PROVE  WireOK(k, [success |-> success, sha |-> sha])
<1> DEFINE w == [success |-> success, sha |-> sha]
<1>1. w \notin Requests /\ w \in Answers /\ w.success = success /\ w.sha = sha
  BY AnswerIsNoRequest DEF Answers
<1> HIDE DEF w
<1>2. WireOK(k, w)
  BY <1>1 DEF WireOK
<1>3. QED
  BY <1>2 DEF w

LEMMA RequestFine ==
  ASSUME NEW k, NEW verb \in Verbs, NEW file \in Nat, NEW sha \in Shas, k.args \in GithubAsks,
         verb \in {"getFile", "putFile"} => file \in 1..Len(k.args.files),
         verb = "postRef" => sha \in Trees
  PROVE  WireOK(k, [verb |-> verb, file |-> file, sha |-> sha])
<1> DEFINE w == [verb |-> verb, file |-> file, sha |-> sha]
<1>1. w \in Requests /\ w \notin Answers /\ w.verb = verb /\ w.file = file /\ w.sha = sha
  BY RequestIsNoAnswer DEF Requests
<1> HIDE DEF w
<1>2. WireOK(k, w)
  BY <1>1 DEF WireOK
<1>3. QED
  BY <1>2 DEF w

\* GitHub answers.
LEMMA ServedFine ==
  ASSUME GithubInv, WorldInv, NEW c \in Calls, NEW success \in BOOLEAN, NEW sha \in Shas,
         Answer(c, success, sha), call' = call,
         call[c].at = "awaiting" /\ call[c].verb = "getRef" /\ success => sha \in Trees
  PROVE  \A d \in Calls : WireOK(call'[d], wire'[d])
<1>1. \A d \in Calls \ {c} : wire'[d] = wire[d]
  BY AnswerFrame
<1>2. CASE call[c].at = "awaiting"
  <2>1. wire'[c] = [success |-> success, sha |-> sha]
    BY <1>2 DEF Answer, GithubInv, Typed
  <2>2. QED
    BY <1>1, <1>2, <2>1, AnswerFine DEF WorldInv
<1>3. CASE call[c].at # "awaiting"
  <2>1. wire'[c] = NoMsg
    BY <1>3 DEF Answer, GithubInv, Typed
  <2>2. QED
    BY <1>1, <2>1, NoMsgFine DEF WorldInv
<1>4. QED
  BY <1>2, <1>3

\* Where a request goes.
LEMMA ServedTypes ==
  ASSUME GithubInv, WorldInv, NEW c \in Calls, wire[c] \in Requests
  PROVE  /\ call[c].args \in GithubAsks
         /\ call[c].args.repo \in Repos /\ call[c].args.branch \in Branches
         /\ call[c].args.from \in Branches
         /\ Files(c) \in Trees \union {NoBranch}
         /\ tree[call[c].args.repo][call[c].args.from] \in Trees \union {NoBranch}
         /\ wire[c].verb \in {"getFile", "putFile"} =>
              /\ Target(c, wire[c].file).path \in Paths
              /\ Target(c, wire[c].file).content \in Contents
<1>1. /\ call[c].args \in GithubAsks
      /\ wire[c].verb \in {"getFile", "putFile"} => wire[c].file \in 1..Len(call[c].args.files)
  BY DEF WorldInv, WireOK
<1>2. /\ call[c].args.repo \in Repos /\ call[c].args.branch \in Branches
      /\ call[c].args.from \in Branches
  BY <1>1, GithubAskTypes
<1>3. wire[c].verb \in {"getFile", "putFile"} =>
        Target(c, wire[c].file).path \in Paths /\ Target(c, wire[c].file).content \in Contents
  BY <1>1, GithubAskTypes DEF Target
<1>4. QED
  BY <1>1, <1>2, <1>3 DEF WorldInv, TreeTyped, Files

LEMMA ShasCover ==
  /\ Versions \subseteq Shas /\ Trees \subseteq Shas /\ NoBranch \in Shas
  /\ NoFile \in Versions /\ Contents \subseteq Versions
BY DEF Shas, Versions

\* Other files of a branch.
LEMMA TreeEdited ==
  ASSUME TreeTyped, NEW r \in Repos, NEW b \in Branches, NEW p \in Paths, NEW v \in Versions,
         tree[r][b] # NoBranch, tree' = [tree EXCEPT ![r][b][p] = v]
  PROVE  TreeTyped'
<1> DEFINE files == [tree[r][b] EXCEPT ![p] = v]
           repo  == [tree[r] EXCEPT ![b] = files]
<1>1. tree[r] \in [Branches -> Trees \union {NoBranch}] /\ tree[r][b] \in Trees
  BY DEF TreeTyped
<1>2. files \in Trees
  BY <1>1 DEF Trees
<1> HIDE DEF files
<1>3. repo \in [Branches -> Trees \union {NoBranch}]
  BY <1>1, <1>2
<1>4. tree' = [tree EXCEPT ![r] = repo]
  BY DEF repo, files
<1> HIDE DEF repo
<1>5. QED
  BY <1>3, <1>4 DEF TreeTyped

LEMMA GithubStepWorld ==
  ASSUME GithubInv, WorldInv, GithubStep
  PROVE  TreeTyped' /\ \A d \in Calls : WireOK(call'[d], wire'[d])
<1>1. CASE Push
  <2>1. ASSUME NEW r \in Listed, NEW b \in Branches, NEW p \in Paths, NEW v \in Versions,
               tree[r][b] # NoBranch, tree' = [tree EXCEPT ![r][b][p] = v]
        PROVE  TreeTyped'
    BY <2>1, NamesAssumption, TreeEdited DEF WorldInv
  <2>2. TreeTyped'
    <3> HIDE DEF TreeTyped
    <3>1. QED
      BY <1>1, <2>1 DEF Push
  <2>3. QED
    BY <1>1, <2>2 DEF Push, WorldInv
<1>2. ASSUME NEW c \in Calls, ServeGetFile(c)
      PROVE  TreeTyped' /\ \A d \in Calls : WireOK(call'[d], wire'[d])
  <2> DEFINE path == Target(c, wire[c].file).path
             held == IF Files(c) = NoBranch THEN NoFile ELSE Files(c)[path]
  <2>1. Arrives(c, "getFile") /\ Answer(c, held # NoFile, held) /\ UNCHANGED <<call, tree>>
    BY <1>2 DEF ServeGetFile
  <2>2. wire[c] \in Requests /\ wire[c].verb = "getFile" /\ (call[c].at = "awaiting" => call[c].verb = "getFile")
    BY <2>1, ArrivesFacts
  <2>3. path \in Paths /\ Files(c) \in Trees \union {NoBranch}
    BY <2>2, ServedTypes
  <2>4. held \in Shas
    BY <2>3, ShasCover DEF Trees
  <2> HIDE DEF held
  <2>5. (held # NoFile) \in BOOLEAN
    OBVIOUS
  <2>6. \A d \in Calls : WireOK(call'[d], wire'[d])
    BY <2>1, <2>2, <2>4, <2>5, ServedFine
  <2>7. QED
    BY <2>1, <2>6 DEF WorldInv, TreeTyped
<1>3. ASSUME NEW c \in Calls, ServePutFile(c)
      PROVE  TreeTyped' /\ \A d \in Calls : WireOK(call'[d], wire'[d])
  <2> DEFINE file == Target(c, wire[c].file)
             accepted == Files(c) # NoBranch /\ wire[c].sha = Files(c)[file.path]
             args == call[c].args
  <2>1. Arrives(c, "putFile") /\ Answer(c, accepted, NoFile) /\ UNCHANGED call
    BY <1>3 DEF ServePutFile
  <2>2. wire[c] \in Requests /\ wire[c].verb = "putFile" /\ (call[c].at = "awaiting" => call[c].verb = "putFile")
    BY <2>1, ArrivesFacts
  <2>3. /\ args.repo \in Repos /\ args.branch \in Branches
        /\ file.path \in Paths /\ file.content \in Versions
    BY <2>2, ServedTypes, ShasCover
  <2>4. NoFile \in Shas /\ accepted \in BOOLEAN
    BY ShasCover
  <2>5. tree' = IF accepted THEN [tree EXCEPT ![args.repo][args.branch][file.path] = file.content] ELSE tree
    BY <1>3 DEF ServePutFile
  <2>6. accepted => tree[args.repo][args.branch] # NoBranch
    BY DEF Files
  <2> HIDE DEF accepted, file, args
  <2>7. TreeTyped'
    BY <2>3, <2>5, <2>6, TreeEdited DEF WorldInv, TreeTyped
  <2>8. \A d \in Calls : WireOK(call'[d], wire'[d])
    BY <2>1, <2>2, <2>4, ServedFine
  <2>9. QED
    BY <2>7, <2>8
<1>4. ASSUME NEW c \in Calls, ServeGetRef(c)
      PROVE  TreeTyped' /\ \A d \in Calls : WireOK(call'[d], wire'[d])
  <2> DEFINE head == tree[call[c].args.repo][call[c].args.from]
  <2>1. Arrives(c, "getRef") /\ Answer(c, head # NoBranch, head) /\ UNCHANGED <<call, tree>>
    BY <1>4 DEF ServeGetRef
  <2>2. head \in Trees \union {NoBranch}
    BY <2>1, ServedTypes DEF Arrives
  <2> HIDE DEF head
  <2>3. head \in Shas /\ (head # NoBranch) \in BOOLEAN /\ (head # NoBranch => head \in Trees)
    BY <2>2, ShasCover
  <2>4. \A d \in Calls : WireOK(call'[d], wire'[d])
    BY <2>1, <2>3, ServedFine
  <2>5. QED
    BY <2>1, <2>4 DEF WorldInv, TreeTyped
<1>5. ASSUME NEW c \in Calls, ServePostRef(c)
      PROVE  TreeTyped' /\ \A d \in Calls : WireOK(call'[d], wire'[d])
  <2> DEFINE args == call[c].args
  <2>1. Arrives(c, "postRef") /\ UNCHANGED call
    BY <1>5 DEF ServePostRef
  <2>2. wire[c] \in Requests /\ wire[c].verb = "postRef" /\ (call[c].at = "awaiting" => call[c].verb = "postRef")
    BY <2>1, ArrivesFacts
  <2>3. args.repo \in Repos /\ args.branch \in Branches /\ wire[c].sha \in Trees
    BY <2>2, ServedTypes DEF WorldInv, WireOK
  <2>4. /\ tree' = [tree EXCEPT ![args.repo][args.branch] = wire[c].sha] \/ tree' = tree
        /\ Answer(c, TRUE, NoFile) \/ Answer(c, FALSE, NoFile)
    BY <1>5 DEF ServePostRef
  <2> HIDE DEF args
  <2>5. TreeTyped'
    BY <2>3, <2>4 DEF WorldInv, TreeTyped
  <2>6. \A d \in Calls : WireOK(call'[d], wire'[d])
    BY <2>1, <2>2, <2>4, ShasCover, ServedFine
  <2>7. QED
    BY <2>5, <2>6
<1>6. ASSUME NEW c \in Calls, ServePostPull(c)
      PROVE  TreeTyped' /\ \A d \in Calls : WireOK(call'[d], wire'[d])
  <2> DEFINE args == call[c].args
             valid == /\ Files(c) # NoBranch /\ tree[args.repo][args.from] # NoBranch
                      /\ \A p \in pulls : <<p[1], p[2], p[3]>> # <<args.repo, args.branch, args.from>>
  <2>1. Arrives(c, "postPull") /\ Answer(c, valid, NoFile) /\ UNCHANGED <<call, tree>>
    BY <1>6 DEF ServePostPull
  <2>2. call[c].at = "awaiting" => call[c].verb = "postPull"
    BY <2>1, ArrivesFacts
  <2>3. valid \in BOOLEAN /\ NoFile \in Shas
    BY ShasCover
  <2> HIDE DEF valid
  <2>4. \A d \in Calls : WireOK(call'[d], wire'[d])
    BY <2>1, <2>2, <2>3, ServedFine
  <2>5. QED
    BY <2>1, <2>4 DEF WorldInv, TreeTyped
<1>7. ASSUME NEW c \in Calls, ServeRead(c)
      PROVE  TreeTyped' /\ \A d \in Calls : WireOK(call'[d], wire'[d])
  <2> DEFINE there == Files(c) # NoBranch
  <2>1. Arrives(c, "read") /\ Answer(c, there, NoFile) /\ UNCHANGED <<call, tree>>
    BY <1>7 DEF ServeRead
  <2>2. call[c].at = "awaiting" => call[c].verb = "read"
    BY <2>1, ArrivesFacts
  <2>3. there \in BOOLEAN /\ NoFile \in Shas
    BY ShasCover
  <2> HIDE DEF there
  <2>4. \A d \in Calls : WireOK(call'[d], wire'[d])
    BY <2>1, <2>2, <2>3, ServedFine
  <2>5. QED
    BY <2>1, <2>4 DEF WorldInv, TreeTyped
<1>8. ASSUME NEW c \in Calls, Refuse(c)
      PROVE  TreeTyped' /\ \A d \in Calls : WireOK(call'[d], wire'[d])
  <2>1. Answer(c, FALSE, NoFile) /\ UNCHANGED <<call, tree>>
    BY <1>8 DEF Refuse
  <2>2. \A d \in Calls : WireOK(call'[d], wire'[d])
    BY <2>1, ShasCover, ServedFine
  <2>3. QED
    BY <2>1, <2>2 DEF WorldInv, TreeTyped
<1>9. ASSUME NEW c \in Calls, Lose(c)
      PROVE  TreeTyped' /\ \A d \in Calls : WireOK(call'[d], wire'[d])
  <2>1. wire' = [wire EXCEPT ![c] = NoMsg] /\ UNCHANGED <<call, tree>>
    BY <1>9 DEF Lose
  <2>2. QED
    BY <2>1, NoMsgFine DEF WorldInv, TreeTyped, GithubInv, Typed
<1>10. QED
  BY <1>1, <1>2, <1>3, <1>4, <1>5, <1>6, <1>7, <1>8, <1>9 DEF GithubStep

LEMMA StartGithubWorld ==
  ASSUME GithubInv, WorldInv, NEW c \in Calls, NEW args \in Asks[c], StartGithub(c, args)
  PROVE  tree' = tree /\ \A d \in Calls : WireOK(call'[d], wire'[d])
<1> DEFINE verb == FirstVerb[args.tool]
<1>1. /\ call[c] \in CallStates /\ call[c].at = "idle" /\ args.tool \in RemoteTools
      /\ args \in GithubAsks /\ wire[c] = NoMsg
  BY AskTypes DEF StartGithub, GithubInv, Typed, CallOK, IdleOK
<1>2. tree' = tree
  BY DEF StartGithub
<1>3. CASE RepoDenied(args) \/ (args.tool = "github_commit_files" /\ args.files = <<>>)
  <2>1. /\ call' = [call EXCEPT ![c].at = "done", ![c].args = args, ![c].result = "error"]
        /\ wire' = wire
    BY <1>3 DEF StartGithub
  <2>2. \A d \in Calls \ {c} : call'[d] = call[d] /\ wire'[d] = wire[d]
    BY <2>1 DEF GithubInv, Typed
  <2>3. wire'[c] = NoMsg
    BY <1>1, <2>1
  <2>4. QED
    BY <1>2, <2>2, <2>3, NoMsgFine DEF WorldInv
<1>4. CASE ~(RepoDenied(args) \/ (args.tool = "github_commit_files" /\ args.files = <<>>))
  <2>1. /\ call' = [call EXCEPT ![c].at = "awaiting", ![c].args = args, ![c].verb = verb]
        /\ wire' = [wire EXCEPT ![c] = [verb |-> verb, file |-> 1, sha |-> NoFile]]
    BY <1>4 DEF StartGithub
  <2>2. verb \in Verbs /\ verb # "postRef"
    BY <1>1 DEF FirstVerb, RemoteTools, Verbs
  <2>3. verb \in {"getFile", "putFile"} => 1 \in 1..Len(args.files)
    BY <1>1, <1>4 DEF FirstVerb, RemoteTools, GithubAsks
  <2> HIDE DEF verb
  <2>4. \A d \in Calls \ {c} : call'[d] = call[d] /\ wire'[d] = wire[d]
    BY <2>1 DEF GithubInv, Typed
  <2>5. /\ call'[c].args = args
        /\ wire'[c] = [verb |-> verb, file |-> 1, sha |-> NoFile]
    BY <1>1, <2>1 DEF GithubInv, Typed, CallStates
  <2>6. WireOK(call'[c], wire'[c])
    BY <1>1, <2>2, <2>3, <2>5, ShasCover, RequestFine
  <2>7. QED
    BY <1>2, <2>4, <2>6 DEF WorldInv
<1>5. QED
  BY <1>3, <1>4

\* A tool that sends its next request.
LEMMA SendsWorld ==
  ASSUME GithubInv, WorldInv, NEW c \in Calls, NEW old, Hears(c, old),
         NEW verb \in Verbs, NEW file \in Nat, NEW sha \in Shas, Sends(c, verb, file, sha),
         verb \in {"getFile", "putFile"} => file \in 1..Len(call[c].args.files),
         verb = "postRef" => sha \in Trees
  PROVE  \A d \in Calls : WireOK(call'[d], wire'[d])
<1>1. call[c] \in CallStates /\ call[c].args \in GithubAsks
  BY HearsFacts
<1>2. /\ \A d \in Calls \ {c} : call'[d] = call[d] /\ wire'[d] = wire[d]
      /\ call'[c].args = call[c].args
      /\ wire'[c] = [verb |-> verb, file |-> file, sha |-> sha]
  BY <1>1 DEF Sends, GithubInv, Typed, CallStates
<1>3. WireOK(call'[c], wire'[c])
  BY <1>1, <1>2, RequestFine
<1>4. QED
  BY <1>2, <1>3 DEF WorldInv

\* A tool that returns.
LEMMA ConcludesWorld ==
  ASSUME GithubInv, WorldInv, NEW c \in Calls, NEW text, Concludes(c, text)
  PROVE  \A d \in Calls : WireOK(call'[d], wire'[d])
<1>1. /\ \A d \in Calls \ {c} : call'[d] = call[d] /\ wire'[d] = wire[d]
      /\ wire'[c] = NoMsg
  BY DEF Concludes, Returns, Consumed, GithubInv, Typed
<1>2. QED
  BY <1>1, NoMsgFine DEF WorldInv

LEMMA ResumeWorld ==
  ASSUME GithubInv, WorldInv, NEW c \in Calls, Resume(c)
  PROVE  tree' = tree /\ \A d \in Calls : WireOK(call'[d], wire'[d])
<1>1. tree' = tree
  BY DEF Resume
<1>2. CASE GotFile(c)
  <2> DEFINE sha == IF wire[c].success THEN wire[c].sha ELSE NoFile
  <2>1. Hears(c, "getFile") /\ Sends(c, "putFile", call[c].file, sha)
    BY <1>2 DEF GotFile
  <2>2. /\ call[c] \in CallStates /\ call[c].at = "awaiting" /\ call[c].verb = "getFile"
        /\ wire[c] \in Answers /\ AwaitingOK(call[c])
    BY <2>1, HearsFacts
  <2>3. sha \in Shas
    BY <2>2, ShasCover DEF Answers
  <2>4. /\ call[c].file \in Nat \ {0} /\ call[c].file <= Len(call[c].args.files)
        /\ Len(call[c].args.files) \in Nat
    BY <2>2 DEF AwaitingOK, CallStates, GithubAsks
  <2>5. call[c].file \in Nat /\ call[c].file \in 1..Len(call[c].args.files)
    BY <2>4
  <2>6. "putFile" \in Verbs
    BY DEF Verbs
  <2> HIDE DEF sha
  <2>7. QED
    BY <1>1, <2>1, <2>3, <2>5, <2>6, SendsWorld
<1>3. CASE PutDone(c) /\ ~(wire[c].success /\ call[c].file < Len(call[c].args.files))
  BY <1>1, <1>3, ConcludesWorld DEF PutDone
<1>4. CASE PutDone(c) /\ wire[c].success /\ call[c].file < Len(call[c].args.files)
  <2>1. Hears(c, "putFile") /\ Sends(c, "getFile", call[c].file + 1, NoFile)
    BY <1>4 DEF PutDone
  <2>2. /\ call[c] \in CallStates /\ call[c].at = "awaiting" /\ call[c].verb = "putFile"
        /\ AwaitingOK(call[c])
    BY <2>1, HearsFacts
  <2>3. call[c].file \in Nat \ {0} /\ Len(call[c].args.files) \in Nat
    BY <2>2 DEF AwaitingOK, CallStates, GithubAsks
  <2>4. call[c].file + 1 \in Nat /\ call[c].file + 1 \in 1..Len(call[c].args.files)
    BY <1>4, <2>3
  <2>5. "getFile" \in Verbs /\ NoFile \in Shas
    BY ShasCover DEF Verbs
  <2>6. QED
    BY <1>1, <2>1, <2>4, <2>5, SendsWorld
<1>5. CASE GotRef(c) /\ wire[c].success
  <2>1. Hears(c, "getRef") /\ Sends(c, "postRef", 1, wire[c].sha)
    BY <1>5 DEF GotRef
  <2>2. call[c].at = "awaiting" /\ call[c].verb = "getRef" /\ wire[c] \in Answers
    BY <2>1, HearsFacts
  <2>3. wire[c].sha \in Trees
    BY <1>5, <2>2 DEF WorldInv, WireOK
  <2>4. wire[c].sha \in Shas /\ "postRef" \in Verbs /\ 1 \in Nat
    BY <2>3, ShasCover DEF Verbs
  <2>5. QED
    BY <1>1, <2>1, <2>3, <2>4, SendsWorld
<1>6. CASE GotRef(c) /\ ~wire[c].success
  BY <1>1, <1>6, ConcludesWorld DEF GotRef
<1>7. CASE BranchDone(c) \/ PullDone(c) \/ ReadDone(c)
  BY <1>1, <1>7, ConcludesWorld DEF BranchDone, PullDone, ReadDone
<1>8. QED
  BY <1>2, <1>3, <1>4, <1>5, <1>6, <1>7 DEF Resume

\* A call that is over leaves its request on its way.
LEMMA OverWorld ==
  ASSUME NEW k, NEW k2, NEW w, WireOK(k, w), k2.args = k.args, k2.at = "done"
  PROVE  WireOK(k2, w)
BY DEF WireOK

LEMMA InterruptedWorld ==
  ASSUME GithubInv, WorldInv, NEW c \in Calls, NEW how, Interrupted(c, how)
  PROVE  tree' = tree /\ \A d \in Calls : WireOK(call'[d], wire'[d])
<1>1. /\ call[c] \in CallStates
      /\ call' = [call EXCEPT ![c].at = "done", ![c].result = how]
      /\ wire' = [wire EXCEPT ![c] = IF @ \in Requests THEN @ ELSE NoMsg]
      /\ tree' = tree
  BY DEF Interrupted, Returns, GithubInv, Typed
<1>2. /\ \A d \in Calls \ {c} : call'[d] = call[d] /\ wire'[d] = wire[d]
      /\ call'[c].args = call[c].args /\ call'[c].at = "done"
      /\ wire'[c] = wire[c] \/ wire'[c] = NoMsg
  BY <1>1 DEF GithubInv, Typed, CallStates
<1>3. WireOK(call'[c], wire'[c])
  BY <1>2, NoMsgFine, OverWorld DEF WorldInv
<1>4. QED
  BY <1>1, <1>2, <1>3 DEF WorldInv

-----------------------------------------------------------------------------
(* The sandbox *)

\* What a file tool is asked for.
LEMMA FileAskTypes ==
  ASSUME NEW c \in Calls, NEW args \in Asks[c], args.tool \in FileTools
  PROVE  /\ args \in FileAsks /\ args.name \in Names
         /\ args.tool = "write_file" => args.lines \in Seq(Lines)
         /\ args.tool = "apply_patch" => args.patch \in Seq(Tokens)
<1>1. args \in GithubAsks \union FileAsks
  BY AsksAssumption
<1>2. args \notin GithubAsks
  BY DEF GithubAsks, FileTools, RemoteTools
<1>3. args \in FileAsks
  BY <1>1, <1>2
<1>4. CASE args \in [tool : {"read_file"}, name : Names]
  BY <1>3, <1>4
<1>5. CASE args \in [tool : {"write_file"}, name : Names, lines : Seq(Lines)]
  BY <1>3, <1>5
<1>6. CASE args \in [tool : {"apply_patch"}, name : Names, patch : Seq(Tokens)]
  BY <1>3, <1>6
<1>7. QED
  BY <1>3, <1>4, <1>5, <1>6 DEF FileAsks

LEMMA FileEffectTyped ==
  ASSUME DiskTyped, NEW c \in Calls, NEW args \in Asks[c], args.tool \in FileTools, FileEffect(args)
  PROVE  DiskTyped'
<1>1. CASE args.tool = "read_file"
  BY <1>1 DEF FileEffect, DiskTyped
<1>2. CASE args.tool = "write_file"
  BY <1>2, FileAskTypes DEF FileEffect, WriteFile, DiskTyped
<1>3. CASE args.tool = "apply_patch"
  <2>1. args.name \in Names /\ args.patch \in Seq(Tokens) /\ ApplyPatch(args.name, args.patch)
    BY <1>3, FileAskTypes DEF FileEffect
  <2>2. CASE PatchAccepted(args.name, args.patch)
    <3>1. /\ disk' = [disk EXCEPT ![args.name] = Patched(disk[args.name], args.patch)]
          /\ disk[args.name] \in Seq(Lines)
      BY <2>1, <2>2 DEF ApplyPatch, PatchAccepted, DiskTyped
    <3>2. Patched(disk[args.name], args.patch) \in Seq(Lines)
      BY <2>1, <3>1, PatchedTyped
    <3>3. QED
      BY <2>1, <3>1, <3>2 DEF DiskTyped
  <2>3. CASE ~PatchAccepted(args.name, args.patch)
    BY <2>1, <2>3 DEF ApplyPatch, DiskTyped
  <2>4. QED
    BY <2>2, <2>3
<1>4. QED
  BY <1>1, <1>2, <1>3 DEF FileTools

LEMMA CallLocalWorld ==
  ASSUME GithubInv, WorldInv, NEW c \in Calls, NEW args \in Asks[c], CallLocal(c, args)
  PROVE  WorldInv'
<1>1. /\ call[c].at = "idle" /\ args.tool \in FileTools /\ FileEffect(args)
      /\ UNCHANGED <<wire, tree>>
      /\ \A d \in Calls \ {c} : call'[d] = call[d]
  BY DEF CallLocal, GithubInv, Typed
<1>2. wire[c] = NoMsg
  BY <1>1 DEF GithubInv, CallOK, IdleOK
<1>3. DiskTyped'
  BY <1>1, FileEffectTyped DEF WorldInv
<1>4. \A d \in Calls : WireOK(call'[d], wire'[d])
  BY <1>1, <1>2, NoMsgFine DEF WorldInv
<1>5. QED
  BY <1>1, <1>3, <1>4 DEF WorldInv, TreeTyped

LEMMA ProcessWorld ==
  ASSUME GithubInv, WorldInv, LogOrProcessStep
  PROVE  WorldInv'
<1>1. UNCHANGED <<wire, tree, disk>>
  BY DEF LogOrProcessStep
<1>2. ASSUME NEW c \in Calls PROVE WireOK(call'[c], wire'[c])
  <2>1. \/ call'[c] = call[c]
        \/ call'[c].at = "done" /\ call'[c].args = call[c].args
    BY DEF LogOrProcessStep, GithubInv, Typed, CallStates
  <2>2. QED
    BY <1>1, <2>1, OverWorld DEF WorldInv
<1>3. QED
  BY <1>1, <1>2 DEF WorldInv, TreeTyped, DiskTyped

LEMMA WorldAlways == Spec => []WorldInv
<1>1. Init => WorldInv
  <2> SUFFICES ASSUME Init PROVE WorldInv
    OBVIOUS
  <2>1. TreeTyped /\ DiskTyped
    BY NamesAssumption, WorkspaceAssumption DEF Init, GithubInit, WorkspaceInit, TreeTyped, DiskTyped
  <2>2. \A c \in Calls : wire[c] = NoMsg
    BY DEF Init, GithubInit
  <2>3. QED
    BY <2>1, <2>2, NoMsgFine DEF WorldInv
<1>2. GithubInv /\ WorldInv /\ [Next]_vars => WorldInv'
  <2> SUFFICES ASSUME GithubInv, WorldInv, [Next]_vars PROVE WorldInv'
    OBVIOUS
  <2>1. CASE UNCHANGED vars
    BY <2>1 DEF vars, github, WorldInv, TreeTyped, DiskTyped
  <2>2. ASSUME NEW c \in Calls, Continue(c) \/ FailsOrTimesOut(c) \/ Cancelled(c)
        PROVE WorldInv'
    BY <2>2, ResumeWorld, InterruptedWorld
       DEF Continue, FailsOrTimesOut, Cancelled, WorldInv, TreeTyped, DiskTyped
  <2>3. ASSUME NEW c \in Calls, NEW args \in Asks[c], CallLocal(c, args)
        PROVE WorldInv'
    BY <2>3, CallLocalWorld
  <2>4. ASSUME NEW c \in Calls, NEW args \in Asks[c], CallGithub(c, args)
        PROVE WorldInv'
    BY <2>4, StartGithubWorld DEF CallGithub, WorldInv, TreeTyped, DiskTyped
  <2>5. CASE Outside
    BY <2>5, GithubStepWorld DEF Outside, WorldInv, DiskTyped
  <2>6. CASE LogOrProcessStep
    BY <2>6, ProcessWorld
  <2>7. ASSUME NEW c \in Calls, RecordResult(c) \/ \E args \in Asks[c] : Record(c, args)
        PROVE WorldInv'
    BY <2>7 DEF Record, RecordResult, github, WorldInv, TreeTyped, DiskTyped
  <2>8. QED
    BY <2>1, <2>2, <2>3, <2>4, <2>5, <2>6, <2>7 DEF Next, Finished
<1>3. QED
  BY <1>1, <1>2, GithubAlways, PTL DEF Spec

-----------------------------------------------------------------------------
(* The type invariant *)

\* What waits for the file, and what is in it, was logged.
LogPlaced ==
  /\ logfile \in Seq(DOMAIN logged) /\ queue \in Seq(DOMAIN logged)
  /\ writing \in Seq(DOMAIN logged)
  /\ partial \subseteq DOMAIN logged

LEMMA LogPlacedAlways == Spec => []LogPlaced
<1>1. Init => LogPlaced
  BY DEF Init, AuditInit, LogPlaced
<1>2. AuditInv /\ LogPlaced /\ [Next]_vars => LogPlaced'
  <2> SUFFICES ASSUME AuditInv, LogPlaced, [Next]_vars PROVE LogPlaced'
    OBVIOUS
  <2>1. CASE UNCHANGED audit
    BY <2>1 DEF audit, LogPlaced
  <2>2. ASSUME NEW event \in Records, LogEvent(event)
        PROVE  LogPlaced'
    <3> DEFINE n == Len(logged)
    <3>1. /\ n \in Nat /\ DOMAIN logged = 1..n /\ DOMAIN logged' = 1..(n + 1)
      BY <2>2 DEF LogEvent, AuditInv, LogTyped
    <3>2. /\ queue' = queue \/ queue' = Append(queue, n + 1)
          /\ UNCHANGED <<logfile, writing, partial>>
      BY <2>2 DEF LogEvent, Enqueue
    <3> HIDE DEF n
    <3>3. 1..n \subseteq 1..(n + 1) /\ n + 1 \in 1..(n + 1)
      BY <3>1
    <3>4. ASSUME NEW s \in Seq(1..n) PROVE s \in Seq(1..(n + 1))
      BY <3>3, SeqMonotonic
    <3>5. queue' \in Seq(1..(n + 1))
      <4>1. queue \in Seq(1..(n + 1))
        BY <3>1, <3>4 DEF LogPlaced
      <4>2. Append(queue, n + 1) \in Seq(1..(n + 1))
        BY <3>3, <4>1, AppendProperties
      <4>3. QED
        BY <3>2, <4>1, <4>2
    <3>6. QED
      BY <3>1, <3>2, <3>3, <3>4, <3>5 DEF LogPlaced
  <2>3. CASE TakeRecord
    BY <2>3 DEF TakeRecord, LogPlaced
  <2>4. ASSUME AuditStep, ~TakeRecord
        PROVE  LogPlaced'
    <3>1. logged' = logged
      BY <2>4 DEF AuditStep, WriterStep, WriteRecord, WriteFails, Exit, Joined, Killed, Ends, Restart
    <3>2. logfile' = logfile \/ logfile' = logfile \o writing
      BY <2>4 DEF AuditStep, WriterStep, WriteRecord, WriteFails, CutOff, Exit, Joined, Killed, Restart
    <3>3. queue' = queue \/ queue' = <<>>
      BY <2>4 DEF AuditStep, WriterStep, WriteRecord, WriteFails, Exit, Joined, Killed, Ends, Restart
    <3>4. writing' = writing \/ writing' = <<>>
      BY <2>4 DEF AuditStep, WriterStep, WriteRecord, WriteFails, Exit, Joined, Killed, Ends, Restart
    <3>5. logfile \o writing \in Seq(DOMAIN logged) /\ <<>> \in Seq(DOMAIN logged)
      BY ConcatProperties, EmptySeq DEF LogPlaced
    <3>6. /\ logfile' \in Seq(DOMAIN logged) /\ queue' \in Seq(DOMAIN logged)
          /\ writing' \in Seq(DOMAIN logged)
      BY <3>2, <3>3, <3>4, <3>5, Zenon DEF LogPlaced
    <3>7. partial' = partial \/ partial' = partial \union Positions(writing)
      BY <2>4 DEF AuditStep, WriterStep, WriteRecord, WriteFails, CutOff, Exit, Joined, Killed, Restart
    <3>8. Positions(writing) \subseteq DOMAIN logged
      <4>1. \A i \in DOMAIN writing : writing[i] \in DOMAIN logged
        BY DEF LogPlaced
      <4>2. QED
        BY <4>1 DEF Positions
    <3>9. QED
      BY <3>1, <3>6, <3>7, <3>8 DEF LogPlaced
  <2>5. QED
    BY <2>1, <2>2, <2>3, <2>4, LogSteps
<1>3. QED
  BY <1>1, <1>2, AuditAlways, PTL DEF Spec

\* Messages are put on the wire one at a time.
LEMMA WireAlways == Spec => [](wire = [c \in Calls |-> wire[c]])
<1> DEFINE IsWire == wire = [c \in Calls |-> wire[c]]
           Step == wire' = wire \/ \E c \in Calls : \E w : wire' = [wire EXCEPT ![c] = w]
<1>1. Init => IsWire
  BY DEF Init, GithubInit
<1>2. [Next]_vars => Step
  <2>1. ASSUME UNCHANGED vars PROVE Step
    BY <2>1 DEF vars, github
  <2>2. ASSUME NEW c \in Calls, Continue(c) \/ FailsOrTimesOut(c) \/ Cancelled(c)
        PROVE  Step
    BY <2>2 DEF Continue, Resume, GotFile, PutDone, GotRef, BranchDone, PullDone, ReadDone, Sends,
                Concludes, Consumed, FailsOrTimesOut, Cancelled, Interrupted
  <2>3. ASSUME NEW c \in Calls, NEW args \in Asks[c], CallLocal(c, args) \/ CallGithub(c, args)
        PROVE  Step
    BY <2>3 DEF CallLocal, CallGithub, StartGithub
  <2>4. ASSUME Outside PROVE Step
    BY <2>4 DEF Outside, GithubStep, ServeGetFile, ServePutFile, ServeGetRef, ServePostRef,
                ServePostPull, ServeRead, Refuse, Lose, Push, Answer
  <2>5. ASSUME LogOrProcessStep PROVE Step
    BY <2>5 DEF LogOrProcessStep
  <2>6. ASSUME NEW c \in Calls, RecordResult(c) \/ \E args \in Asks[c] : Record(c, args)
        PROVE  Step
    BY <2>6 DEF Record, RecordResult, github
  <2>7. QED
    BY <2>1, <2>2, <2>3, <2>4, <2>5, <2>6 DEF Next, Finished
<1>3. IsWire /\ Step => IsWire'
  OBVIOUS
<1>4. IsWire /\ [Next]_vars => IsWire'
  BY <1>2, <1>3
<1>5. QED
  BY <1>1, <1>4, PTL DEF Spec

\* What the event loop does until it awaits.
RunningInv ==
  running # <<>> =>
    /\ process = "up"
    /\ \E c \in Calls :
         running = <<c>> \/ (running \in {c} \X Asks[c] /\ call[c].at = "idle")

LEMMA RunningAlways == Spec => []RunningInv
<1>1. Init => RunningInv
  BY DEF Init, RunningInv
<1>2. RunningInv /\ [Next]_vars => RunningInv'
  <2> SUFFICES ASSUME RunningInv, [Next]_vars PROVE RunningInv'
    OBVIOUS
  <2>1. CASE UNCHANGED vars \/ Finished
    BY <2>1 DEF vars, audit, github, Finished, RunningInv
  <2>2. ASSUME NEW c \in Calls, NEW args \in Asks[c], Record(c, args)
        PROVE  RunningInv'
    <3>1. /\ running' = <<c, args>> /\ call[c].at = "idle" /\ call' = call
          /\ process' = "up"
      BY <2>2 DEF Record, LogEvent, github
    <3>2. running' \in {c} \X Asks[c]
      BY <3>1
    <3>3. QED
      BY <3>1, <3>2 DEF RunningInv
  <2>3. ASSUME NEW c \in Calls, NEW args \in Asks[c], CallLocal(c, args) \/ CallGithub(c, args)
        PROVE  RunningInv'
    <3>1. /\ running = <<c, args>> /\ process' = process
          /\ running' = <<c>> \/ running' = <<>>
      BY <2>3 DEF CallLocal, CallGithub, ReturnsOrAwaits, audit
    <3>2. QED
      BY <3>1 DEF RunningInv
  <2>4. ASSUME NEW c \in Calls, Continue(c) \/ FailsOrTimesOut(c)
        PROVE  RunningInv'
    <3>1. /\ process' = "up"
          /\ running' = <<c>> \/ running' = <<>>
      BY <2>4 DEF Continue, FailsOrTimesOut, LoopIsFree, ReturnsOrAwaits, audit
    <3>2. QED
      BY <3>1 DEF RunningInv
  <2>5. ASSUME NEW c \in Calls, RecordResult(c) \/ Cancelled(c)
        PROVE  RunningInv'
    BY <2>5 DEF RecordResult, Cancelled, LoopIsFree, RunningInv
  <2>6. CASE Outside
    <3>1. call' = call
      BY <2>6 DEF Outside, GithubStep, ServeGetFile, ServePutFile, ServeGetRef, ServePostRef,
                  ServePostPull, ServeRead, Refuse, Lose, Push
    <3>2. QED
      BY <2>6, <3>1 DEF Outside, audit, RunningInv
  <2>7. CASE LogOrProcessStep
    BY <2>7 DEF LogOrProcessStep, RunningInv
  <2>8. QED
    BY <2>1, <2>2, <2>3, <2>4, <2>5, <2>6, <2>7 DEF Next
<1>3. QED
  BY <1>1, <1>2, PTL DEF Spec

\* What is awaited, what is on the wire, in the repositories, in the sandbox and
\* in the log is what the code puts there (agent.py:557-564, github_tools.py:140-255,
\* filesystem.py:132-211, audit.py:35-73).
THEOREM TypeCorrect == Spec => []TypeOK
<1> DEFINE IsWire == wire = [c \in Calls |-> wire[c]]
<1>1. GithubInv /\ WorldInv /\ AuditInv /\ LogPlaced /\ RunningInv /\ IsWire => TypeOK
  <2> SUFFICES ASSUME GithubInv, WorldInv, AuditInv, LogPlaced, RunningInv, IsWire PROVE TypeOK
    OBVIOUS
  <2>1. call \in [Calls -> CallStates]
    BY DEF GithubInv, Typed
  <2>2. wire \in [Calls -> Requests \union Answers \union {NoMsg}]
    <3>1. \A c \in Calls : wire[c] \in Requests \union Answers \union {NoMsg}
      BY DEF WorldInv, WireOK
    <3>2. QED
      BY <3>1
  <2>3. ASSUME NEW c \in Calls, wire[c] \in Requests PROVE call[c].at # "idle"
    BY <2>3, NoMsgIsNone DEF GithubInv, CallOK, IdleOK
  <2>4. QED
    BY <2>1, <2>2, <2>3
       DEF TypeOK, CallStates, WorldInv, TreeTyped, DiskTyped, AuditInv, LogTyped, LogPlaced, RunningInv
<1>2. QED
  BY <1>1, GithubAlways, WorldAlways, AuditAlways, LogPlacedAlways, RunningAlways, WireAlways, PTL

-----------------------------------------------------------------------------
(* Patches *)

\* Only apply_patch reports a patch applied, and then the file holds the result.
LEMMA OnlyPatchPatches ==
  ASSUME GithubInv, DiskTyped, [Next]_vars, NEW c \in Calls, PatchCalled(c)
  PROVE  LET args == call'[c].args IN
         /\ args.name \in Names /\ args.patch \in Seq(Tokens)
         /\ disk[args.name] \in Seq(Lines)
         /\ disk'[args.name] = Patched(disk[args.name], args.patch)
<1> DEFINE args == call'[c].args
<1>0. /\ call[c] \in CallStates /\ CallOK(c, call[c], wire[c], seen[c], committed[c], created, pulls)
      /\ call \in [Calls -> CallStates]
  BY DEF GithubInv, Typed
<1>1. /\ call'[c] # call[c] /\ call'[c].at = "done" /\ call'[c].result = "ok"
      /\ args.tool = "apply_patch"
  BY DEF PatchCalled
<1>2. ASSUME NEW asked \in Asks[c], CallLocal(c, asked)
      PROVE  /\ args.name \in Names /\ args.patch \in Seq(Tokens)
             /\ disk[args.name] \in Seq(Lines)
             /\ disk'[args.name] = Patched(disk[args.name], args.patch)
  <2>1. /\ asked.tool \in FileTools /\ FileEffect(asked)
        /\ args = asked /\ call'[c].result = FileResult(asked)
    BY <1>0, <1>2 DEF CallLocal, CallStates
  <2>2. asked.tool = "apply_patch" /\ FileResult(asked) = "ok"
    BY <1>1, <2>1
  <2>3. asked.name \in Names /\ asked.patch \in Seq(Tokens)
    BY <2>1, <2>2, FileAskTypes
  <2>4. PatchAccepted(asked.name, asked.patch)
    BY <2>2 DEF FileResult
  <2>5. disk' = [disk EXCEPT ![asked.name] = Patched(disk[asked.name], asked.patch)]
    BY <2>1, <2>2, <2>4 DEF FileEffect, ApplyPatch
  <2>6. disk[asked.name] \in Seq(Lines)
    BY <2>3, <2>4 DEF PatchAccepted, DiskTyped
  <2>7. QED
    BY <2>1, <2>3, <2>5, <2>6 DEF DiskTyped
<1>3. ASSUME NEW asked \in Asks[c], CallGithub(c, asked)
      PROVE  FALSE
  <2>1. asked.tool \in RemoteTools /\ args = asked
    BY <1>0, <1>3 DEF CallGithub, StartGithub, CallStates
  <2>2. QED
    BY <1>1, <2>1 DEF RemoteTools
<1>4. ASSUME Continue(c) \/ FailsOrTimesOut(c) \/ Cancelled(c)
      PROVE  FALSE
  <2>1. call[c].at = "awaiting"
    BY <1>4 DEF Continue, Resume, GotFile, PutDone, GotRef, BranchDone, PullDone, ReadDone, Hears,
                FailsOrTimesOut, Cancelled, Interrupted
  <2>2. args = call[c].args
    BY <1>0, <1>4 DEF Continue, Resume, GotFile, PutDone, GotRef, BranchDone, PullDone, ReadDone, Sends,
                      Concludes, Returns, FailsOrTimesOut, Cancelled, Interrupted, CallStates
  <2>3. args.tool \in RemoteTools
    BY <1>0, <2>1, <2>2, GithubAskTypes DEF CallOK, AwaitingOK
  <2>4. QED
    BY <1>1, <2>3 DEF RemoteTools
<1>5. ASSUME NEW d \in Calls \ {c},
             \/ \E asked \in Asks[d] : CallLocal(d, asked) \/ CallGithub(d, asked)
             \/ Continue(d) \/ FailsOrTimesOut(d) \/ Cancelled(d)
      PROVE  FALSE
  BY <1>0, <1>1, <1>5
     DEF CallLocal, CallGithub, StartGithub, Continue, Resume, GotFile, PutDone, GotRef, BranchDone,
         PullDone, ReadDone, Sends, Concludes, Returns, FailsOrTimesOut, Cancelled, Interrupted
<1>6. CASE Outside
  BY <1>1, <1>6 DEF Outside, GithubStep, ServeGetFile, ServePutFile, ServeGetRef, ServePostRef,
                    ServePostPull, ServeRead, Refuse, Lose, Push
<1>7. CASE LogOrProcessStep
  <2>1. \/ call'[c] = call[c]
        \/ call[c].at = "awaiting" /\ call'[c].result = call[c].result
    BY <1>0, <1>7 DEF LogOrProcessStep, CallStates
  <2>2. QED
    BY <1>0, <1>1, <2>1 DEF CallOK, AwaitingOK
<1>8. CASE UNCHANGED vars
  BY <1>1, <1>8 DEF vars, github
<1>9. CASE \E d \in Calls : RecordResult(d) \/ \E asked \in Asks[d] : Record(d, asked)
  BY <1>1, <1>9 DEF Record, RecordResult, github
<1>10. QED
  BY <1>2, <1>3, <1>4, <1>5, <1>6, <1>7, <1>8, <1>9 DEF Next, Finished

\* A patch made for the file as it is leads to the file it was made for, if its
\* hunks end in lines of the old file (filesystem.py:174-211).
THEOREM PatchesLandAsMeant == Spec => PatchesLandWhole
<1> DEFINE Lands(c) ==
        LET args == call'[c].args IN
        Fits(disk[args.name], args.patch) /\ EndsInOldLines(args.patch) =>
          disk'[args.name] = Intended(disk[args.name], args.patch)
<1>1. ASSUME GithubInv, WorldInv, [Next]_vars, NEW c \in Calls, PatchCalled(c)
      PROVE  Lands(c)
  BY <1>1, OnlyPatchPatches, PatchLands DEF WorldInv
<1>2. ASSUME GithubInv, WorldInv, [Next]_vars
      PROVE  [\A c \in Calls : PatchCalled(c) => Lands(c)]_vars
  BY <1>1, <1>2
<1> HIDE DEF Lands
<1>3. Spec => [][\A c \in Calls : PatchCalled(c) => Lands(c)]_vars
  BY <1>2, GithubAlways, WorldAlways, PTL DEF Spec
<1>4. QED
  BY <1>3 DEF PatchesLandWhole, Lands
=============================================================================
