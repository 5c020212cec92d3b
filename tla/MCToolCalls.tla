----------------------------- MODULE MCToolCalls -----------------------------
(* Model-checking instances of ToolCalls. *)
EXTENDS ToolCalls, TLC

CONSTANTS c1, c2, mine, other, trunk, dev, p1, v1, v2, notes, secret, a, b

TwoCalls    == {c1, c2}
OneCall     == {c1}
TwoRepos    == {mine, other}
ListedRepos == {mine}
TwoBranches == {trunk, dev}
OnePath     == {p1}
TwoContents == {v1, v2}
TwoNames    == {notes, secret}
UsableNames == {notes}
TwoLines    == {a, b}

Nothing == [p \in Paths |-> NoFile]

\* `dev` is not there yet, or is, without the file that `trunk` holds.
SomeTrees ==
  {[r \in TwoRepos |-> [x \in TwoBranches |->
      IF x = trunk THEN [Nothing EXCEPT ![p1] = v1] ELSE d]] : d \in {NoBranch, Nothing}}

Ask(tool, repo, files) ==
  [tool |-> tool, repo |-> repo, branch |-> dev, from |-> trunk, files |-> files]

OneFile  == <<[path |-> p1, content |-> v2]>>
TwoFiles == <<[path |-> p1, content |-> v1], [path |-> p1, content |-> v2]>>

GithubCalls ==
  {Ask("github_commit_files", mine, TwoFiles),
   Ask("github_create_branch", mine, <<>>), Ask("github_create_pull_request", mine, <<>>),
   Ask("github_read", mine, <<>>), Ask("github_commit_files", other, OneFile)}

\* Patches of one hunk of up to three tokens, of two hunks, and of none, of hunks
\* that change something; with lines before the first hunk, and the marker of a
\* missing line end.
BodyTokens == {Tagged(t, l) : t \in {"=", "-"}, l \in TwoLines} \union {Tagged("+", b)}
OldCount(body) == Len(SelectSeq(body, LAMBDA t : t.tag # "+"))
Hunk(start, body) == <<Header(IF OldCount(body) = 0 THEN start - 1 ELSE start, OldCount(body))>> \o body

Bodies(n) ==
  {body \in UNION {[1..k -> BodyTokens] : k \in 1..n} : \E i \in DOMAIN body : body[i].tag # "="}

Written == {<<>>, <<a, b>>, <<a, b, a>>}

OneHunk  == {Hunk(s, body) : s \in {1, 2, 3}, body \in Bodies(3)}
TwoHunks == {Hunk(1, x) \o Hunk(3, y) : x \in Bodies(2), y \in Bodies(2)}
Fitting  == {p \in OneHunk \union TwoHunks : \E f \in Written : Fits(f, p)}
OddOnes  == {<<Tagged("\\", a)>>, Hunk(1, <<Tagged("-", a)>>) \o <<Tagged("\\", a)>>,
             Hunk(0, <<Tagged("-", a)>>),
             <<Tagged("-", a), Tagged("+", b)>> \o Hunk(1, <<Tagged("+", b), Tagged("=", a)>>),
             <<Header(2, 1), Tagged("+", a), Tagged("\\", a), Tagged("-", b), Tagged("\\", a)>>}

Patch(name, patch) == [tool |-> "apply_patch", name |-> name, patch |-> patch]
Write(name, lines) == [tool |-> "write_file", name |-> name, lines |-> lines]

FileCalls ==
  {[tool |-> "read_file", name |-> n] : n \in TwoNames}
    \union {Write(notes, f) : f \in Written}
    \union {Write(secret, <<a>>), Patch(secret, Hunk(1, <<Tagged("-", a)>>))}
    \union {Patch(notes, p) : p \in Fitting \union OddOnes}

AllCalls   == [c \in TwoCalls |-> GithubCalls \union FileCalls]
PatchCalls == [c \in TwoCalls |-> FileCalls]

NoFiles == {[n \in TwoNames |-> Missing]}

\* The next steps of a call: it is made, or a tool runs to its next await.
Starts(c) == running = <<>> /\ Len(running') = 2 /\ running'[1] = c
Remote(c) == call'[c] # call[c] /\ call'[c].args.tool \in RemoteTools

Patches ==
  \/ Len(running) = 2 /\ running[2].tool = "apply_patch"
  \/ Len(running') = 2 /\ running'[2].tool = "apply_patch"

\* Files are patched in states in which the other call, made before, has been
\* one to write the file: what GitHub does is of no consequence to patches.
PatchAfterWrite ==
  \A c \in Calls : Starts(c) /\ Patches =>
    \A d \in Calls \ {c} : call[d].args \in {Write(notes, f) : f \in Written}

WriterIdle == queue = <<>> /\ writing = <<>>

\* The writer thread is done before anything else happens, but reads and writes
\* of files and the end of the process; and GitHub does nothing while the event
\* loop is about to record a result or to make a call.
WriterKeepsUp ==
  /\ call' = call /\ (wire' # wire \/ tree' # tree \/ pushes' # pushes) => running = <<>>
  /\ wire' # wire \/ tree' # tree \/ (\E c \in Calls : Remote(c) \/ (Starts(c) /\ Patches))
       => WriterIdle

LaterCalls == {Write(notes, <<a, b>>), [tool |-> "read_file", name |-> secret]}

\* At most one of these goes wrong in a behaviour: the first write fails, the
\* process ends, somebody pushes (while a request is on its way).  It
\* exits in an orderly way when nothing is on its way.  After a restart or a failed
\* write, calls only write a file or are denied one, so that they leave records.
OneDisturbance ==
  /\ lost'["failed"] \subseteq {1}
  /\ pushes' # pushes => (\E c \in Calls : wire[c] # NoMsg) /\ tree'[mine][trunk] = tree[mine][trunk]
  /\ lost'["failed"] = {} \/ (process' = "up" /\ starts' = 1)
  /\ pushes' = 0 \/ (lost'["failed"] = {} /\ process' = "up" /\ starts' = 1)
  /\ process = "up" /\ process' = "exiting" => \A c \in Calls : wire[c] = NoMsg
  /\ starts > 1 \/ lost["failed"] # {} => \A c \in Calls :
       ~Remote(c) /\ (Starts(c) => running'[2] \in LaterCalls)
  /\ Patches => process' = "up" /\ starts = 1 /\ lost'["failed"] = {}

Constraint == PatchAfterWrite /\ WriterKeepsUp /\ OneDisturbance

Symmetry == Permutations(Calls)
=============================================================================
