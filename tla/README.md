# A TLA+ model of LocalBot

LocalBot is a Discord bot (with a web UI) that answers messages with local language models.
It runs one `llama-server` process at a time, swaps models on demand, lets the model call tools,
and fires scheduled prompts. Most of it is asyncio code on one event loop, so whatever goes wrong
goes wrong at an `await`: another task runs, a deadline cancels the task, a process dies, or the
bot itself is restarted between two writes. Those are the behaviours modelled here.

Paths below are relative to `src/src/localbot/` in the repository.

## 1. Inventory

| component | state | operations | interacts with | correct if |
|---|---|---|---|---|
| model registry `adapters/model_registry.py` | lock, active slot, server, client, idle task | `acquire`, `shutdown`, idle worker | starts and stops servers, hands clients to the agent | one server at a time, fields agree, handed-out client is current, heavy slots get unloaded, every acquire ends |
| server process `adapters/llamacpp_server.py` | process, log task | `start`, `stop` | owned by the registry | nothing runs that nobody can stop |
| HTTP client `adapters/llamacpp_client.py` | session, model family | `chat`, `wait_until_ready` | used by agent and registry | a swap under a request is reported as such |
| agent `agent.py` | none of its own; each `handle` is a task | `handle`, `_run_local`, `_run_two_phase`, `_run_loop` | registry, tools, history, audit log | every turn ends, on the model it asked for; tools are not repeated |
| scheduler `scheduler/service.py`, `store.py`, `tools/scheduler_tools.py` | table rows, user time zones, APScheduler's live jobs | `start`, `add_job`, `cancel_job`, `_fire` | agent (tools and scheduled prompts), commands | table and live jobs in step over failures and restarts; limits hold; due jobs are delivered |
| Discord client `app.py`, `commands.py` | readiness flag, rate-limit table | `on_ready`, `on_message`, `close`, commands | everything | messages are answered once ready; one per window |
| history `storage/history.py` | rows per user | `get_history`, `append_message`, `clear_history` | agent, commands | bounded, in order, whole turns where nothing came between |
| audit log `storage/audit.py` | queue of 10000, writer thread | `log_event`, `_drain`, the join at exit | everyone | never blocks, keeps order, loses nothing without a reason |
| GitHub tools `tools/github_tools.py` | none; repositories at GitHub | commit, branch, pull request, three reads | dispatch, other people's pushes | a call does its steps once and in order, says OK of what it did, overwrites only what it saw |
| filesystem tools `tools/filesystem.py` | files of the sandbox | read, write, patch, list, search | dispatch | a patch leads to the file it was made for |
| tool registry `tools/registry.py` | none | `dispatch`, with a timeout | agent, tools, audit log | an error or a timeout becomes a text |
| web UI `webui.py` | readiness event, a token queue per request | `chat_completions`, lifespan | agent, a second scheduler | every stream ends, tokens in order |
| updater `adapters/llamacpp_updater.py`, `_downloader.py` | install directory | check, prompt, download, extract | `on_ready`, running servers | all files of one build, newer than the one found |
| pure code `messaging.py`, `intent.py`, `config.py`, `prompts.py` | none | | | |

What is hard in this code:

- `_swap_to` suspends five times with the lock held, half of its work done at each. A cancellation
  (`asyncio.timeout` in `Agent.handle`, or `shutdown()` cancelling the idle worker) can surface at
  every one of them.
- A client is handed out and used after the lock is released. Anybody may swap its model away.
- A scheduled job is stored in two places written one after the other, and the process may end
  between them.
- APScheduler runs jobs on worker threads, the audit log writes on one of its own.
- A tool is cancelled by its timeout or by the deadline of its turn, but the request it has sent may
  still reach GitHub.
- `on_ready` fires at every reconnect: update checks and warm-ups overlap.

`PROJECT.json` lists each hazard at its line with the properties that cover it.

## 2. Modules

| module | models | state |
|---|---|---|
| `ModelRegistry` | registry and server processes | Python's fields (`active`, `server`, `client`, `timer`), who holds the lock and at which await (`holder`, `stage`, `target`, `fresh`), the processes of the operating system (`serving`), and the callers |
| `SingleSlot` | abstract: what `model_registry.py:3-4` promises, but for processes that get lost | which process serves which slot, and which are lost |
| `AgentRequest` | `agent.py` and `LlamaCppClient.chat`, composed with `ModelRegistry` by `INSTANCE` | the registry's variables and a record per request (`turn`) |
| `SchedulerService` | scheduler, its store and tools, the process around it | table `rows`, `settings`, live jobs, phase of the process, the id between the two writes, threads and queued tasks |
| `Conversation` | `storage/history.py`, `app.py`'s `on_message`, `_send_scheduled` and rate limiter, the `clear` command, around the turns of `Agent.handle` | each user's rows, where each turn is, readiness, the limiter's table and its clocks; `seen`, `torn` and `dirty`, history variables |
| `AuditLog` | `storage/audit.py` and the end of its process | `queue`, what the writer holds (`writing`), `logfile` and which of its records are incomplete (`partial`); `logged` and `lost`, history variables |
| `Journal` | abstract: what `audit.py:1-6` and `log_event` promise | records still to be written, the file |
| `GithubTools` | `tools/github_tools.py`, GitHub and other people's pushes (external) | per call where it is (`call`) and its message in flight (`wire`), `tree`, `pulls`; `seen`, `committed`, `created`, history variables |
| `Workspace` | `tools/filesystem.py`: reading, writing, the parser and the application of patches, as recursive functions; what a unified diff means, written independently as a reader that goes once through the patch and the file side by side (`Fits`, `Intended`) | `disk` |
| `ToolCalls` | `agent.py`'s tool calls and `dispatch`: `AuditLog`, `GithubTools` and `Workspace` composed | theirs, and what the event loop is doing until it next awaits (`running`) |
| `Updater` | `app.py`'s update check, `llamacpp_updater.py`, `llamacpp_downloader.py` | per task its `check`, the files of `dir`, the release `published`, whether the executable is a `bare` name; `installed` and `torn`, history variables |
| `MC...` | instances for TLC; `MCAgentScenarios` runs two instances of `AgentRequest` as one | |
| `...Proofs` | theorems; `WorkspaceProofs` has those about patches, `ToolCallsProofs` the others of the tools | |
| `Induction` | induction and recursion over the naturals from the well-foundedness of `<` | |

**How actions correspond to code.** What the code does between two awaits is one action.
`acquire` finding its slot is `Hit`; finding another one is `BeginSwap`, followed by `StopServer`,
`StartServer` and `SwapDone`, or `StartFails`, or `NotReady` and `CleanUp`. `DeadlineCancels` and
`Shutdown` cancel a task wherever it is. In `AgentRequest` a request chats (`AnswerText`,
`AnswerEcho`, `AnswerCalls`, `AnswerError`, `ChatTimesOut`, `Disconnected`) or runs tools
(`NextCall`, `CallsDone`); a request that `acquire` hands its client to posts its first chat in the
same step, since the code does not suspend in between. `add_job` is `SaveJob` then `RegisterJob`,
so that `Exit` can fall between them. In
`Conversation` a turn begins (`Accept`, `Scheduled`), reads the history, and ends with nothing to
keep or with `AppendQuestion` and `AppendAnswer`, which other turns, `Clear`, `Fails` and `Exit` may
separate. In `SchedulerService` the hand-over from the worker thread is `FireSync`, and `Fire` is the
task on the loop that calls the send callback, which returns with `Delivered`. In `ToolCalls` a call is
recorded (`Record`), dispatched, and its result recorded (`RecordResult`). The event loop does nothing
else from `Record` to the first await and from the end of the tool to `RecordResult` (`running`), but
the writer thread, GitHub and a kill do. A local tool is one action (`CallLocal`); a GitHub tool
runs to its first await (`CallGithub`), goes on with each answer (`Continue`, whose disjuncts are
named after what came back: `GotFile`, `PutDone`, `GotRef`, ...), and ends by itself, by an error or
the timeout (`FailsOrTimesOut`), or by its turn's deadline (`Cancelled`), which records nothing; what
GitHub does is `Serve...`, `Refuse` and `Push`. `LogOrProcessStep` is the
writer thread and the end and restart of the process, which ends calls and leaves requests on their
way. In `Updater` the two halves of a check answer independently (`Detected`, `FetchedRelease`),
`Decide`, `Answered`, `Resolved` and `Downloaded` follow the code's awaits, and the extraction, which
has none, is one action that ends (`ExtractDone`) or stops at any file (`ExtractStops`).
`AgentRequest` says what the model does during a turn of `Conversation`; those two share no state,
since a request never looks at the history again after its beginning.

**Abstractions.**

- A server/client pair is one element of `Procs`; `_swap_to` always makes both together. Closing a
  client's session does not suspend in a way that lets another task into the critical section, so
  it is part of the step before it.
- A response of the server and the resumption of the task that awaited it are one step.
- `server.stop()` always ends with the process gone. That it also awaits its log task matters once:
  there it swallows a cancellation (`AgentRequest!Deadline`, second disjunct).
- `idle_unload_seconds` is positive, as by default; with 0 there is no idle worker.
- Messages are any of `Routes`; cron expressions are one of three classes, by what `_validate_cron`
  and `CronTrigger` do with them. A job's prompt is left out.
- The Groq branch of `handle` has no step: `GroqClient.chat` takes no `tools` argument, so
  `_run_groq_loop` raises before its first await and `_run_local` follows.
- In `Conversation` a worker thread's transaction and the resumption of the turn are one step.
  `max_history_messages` is any natural number (12 by default, and nothing checks it); a negative one is
  no limit to SQLite and is left out. The limiter's clock is the time since a message of the user last
  began a turn, up to the point where the limiter forgets it; it goes on over a restart, which empties
  only the limiter's table (and may be one of the machine, which resets the clock behind
  `time.monotonic()`: `uptime`, which stands for the 0.0 assumed for users the limiter does not know).
  Messages too early or too long never reach the limiter and have no step.
- `torn` is the set of turns that have another turn's row, or a `clear`, between their question and
  their answer. `dirty` counts how many of a user's oldest rows were written by the time such a turn,
  a failed second insertion or an exit between the two did its damage. Nothing later is excused.
- In `AuditLog` a record is its position among the calls of `log_event`; its text is left out. A write
  that fails, and a kill, may leave a part of the line in the file; how long a part is left out.
- In `GithubTools` a file's hash is its content, so a branch's is its files. `github_read` stands for
  the three tools that only read. A timeout and an error yield the same text to the caller, so they
  are one action. A request may be lost only once its caller has given up: before that a loss shows
  in nothing but the timeout.
- In `Workspace` a file is a sequence of lines, each with its line end;
  which names `_safe_resolve` and the check for binaries let through is the constant `Usable`.
  A token of a patch is a header, or a line with its tag: `=` (context, a space in a real patch), `-`, `+`,
  or `\` for anything else. `Fits` is about patches without the marker `\ No newline at end of file`, which the
  parser drops; patches with it are applied in the runs, but `PatchesLandWhole` says nothing of them. A hunk is where it starts, how many old lines it replaces, and its new ones.
- In `Updater` a build is a number and a release has one archive; its digest may be missing, and the
  download damaged. With a bare executable name the archive goes to the
  working directory, which starts empty, while `--version` and the server run the build on PATH
  (`PathBuild`). A zip member is checked against its CRC before the file is replaced. Whether a
  server runs matters because its executable cannot be written to.
- Failing sqlite calls are left out of the scheduler, and so is the web UI's process, which shares the database.

## 3. Runs

| run | instance | shows |
|---|---|---|
| `registry` | 2 requests, 4 pairs, general and coding configured, every environment event, 1 orphan | fields agree; hand-outs are the stored client of the slot asked for; heavy slots have an unloader; only cancellations lose processes, only cancelled stops tear a slot down; `SingleSlot` is implemented |
| `registry_two_servers` | deadlines only | **violated**: two servers run after a deadline hits a swap |
| `registry_crash` | crashes only | **violated**: a request is handed the client of a server that has exited |
| `agent` | two scenarios, fairness. `alone`: 1 request at a time, 2 iterations of 2 distinct calls, deadlines, crashes, shutdown. `rivals`: 2 requests evicting one another, one of them possibly two-phase | agent and registry agree; no loop repeats a call; answers come from the right model; every turn ends; heavy slots are unloaded in the end |
| `agent_swap` | 1 request, idle worker | **violated**: a swap during a tool call is not retried |
| `agent_repeats` | 1 request, 1 call, idle worker | **violated**: a turn runs a tool twice with the same arguments |
| `scheduler` | 3 ids, 2 users, 2 time zones, all cron classes, 2 jobs in all, 1 per user, 2 exits | the two copies of a job stay in step; a due prompt reaches the send callback; restart |
| `scheduler_poison` | the same | **violated**: a stored job cannot be registered |
| `conversation` | 1 user, 3 turns, cap of 3 rows, window 2, limiter's memory of 1 window, 1 exit | histories capped, and whole exchanges from the last disturbance on; the limiter's forgetting changes no verdict; turns of one process a window apart |
| `tools` | 2 calls of any tool, 2 branches with a file, 1 push, a log queue of 2, 2 starts, files of up to 3 lines, 1 or 2 hunks | the log is ordered, accounts for every record and implements `Journal`; commits are in order and replace only what was seen; OK is true; patches that end in context land whole |
| `workspace_patch` | the file tools of `tools` | **violated**: lines added at the end of a hunk are dropped |
| `updater` | 2 overlapping checks, 3 builds, archives that add a file and that rename the executable, a path and a bare name, 2 starts, fairness | a check writes only newer builds than it found; older ones replace newer ones only where two checks install; the directory is whole unless an extraction stopped; every check ends |

**Bounds, and why they are enough.** Two requests and the idle worker are three contenders for the
lock: one inside, one waiting, one holding a client. The stored pair, the fresh pair, an orphan and
a pair a request still holds make four `Procs`; with `MaxOrphans = 0`, in `agent`, three do, since the closed
client of one request and the stored and fresh pairs are all that two requests keep apart.
`MaxOrphans` bounds only how many processes cancellations may lose; further cancellations of that
kind are not taken. One configured heavy slot besides general gives swaps in both directions and the
fall-back of a slot that is not configured. In `agent`, `alone` allows two
iterations, so that a repeated call comes back before the cap and the cap is met at the last chat;
`rivals` is about swaps only and allows no tools, deadlines, crashes or shutdown, but failed starts. A
scenario leaves out inputs and mishaps, of which no fairness condition speaks; it never disables an
action that must happen. Three job ids with a limit of two jobs let every limit be reached
with an id to spare; two exits give a restart after a restart. Three turns of one user put two overlapping turns beside one that trims; a cap of 3 rows, passed
by the second exchange, is the odd case, in which trimming cuts an exchange in half (the theorems hold for any cap). Users of a conversation meet only in the limiter's table, where forgetting
one takes no notice of the others, and the theorems hold for any number of them. `EvictFactor` is 10
in the code; 1 is the value nearest to an error. `MaxOverlap` bounds the prompts of
one job that are waiting on the event loop.
Two tool calls are one that acts and one that interferes with it; one branch they commit to, one to
branch off, a call that commits one path twice (the second must find what the first left), and one
push by somebody else. A log queue of 2 is overrun by three records, which two calls and their results
exceed. The patches are all that fit some file of up to three lines over an alphabet of two, with one
hunk of up to three tokens or two of up to two, and five odd ones: without a hunk, at line 0, with
lines before the first hunk, and with markers of a missing line end after a hunk and inside one.
Three constraints keep `tools` within reach of TLC, each by leaving out combinations of things that
have nothing to do with one another (`MCToolCalls`): files are patched after the other call has
written them, since GitHub is of no consequence to patches (`PatchAfterWrite`); the writer thread
catches up before the next step at GitHub and before a patch, so that the queue fills up by file calls
and by records that follow one another at once, and GitHub does nothing between a record and the
dispatch next to it (`WriterKeepsUp`); and one thing at most goes wrong outside the two calls, a failed
write (of the first record), the end of the process or a push, and after the first two of these only files are
written (`OneDisturbance`). The theorems of section 5 hold
without any of them. Two update checks are what a reconnect makes; three builds let one appear between
the offer and the download. `updater` turns the deadlock check off, since a bot whose last process
has ended stops.
`agent` names new pairs in a fixed order (`LowestFreeProc`), because symmetry is unsound
for liveness; a step it excludes is a renaming of one it keeps. Symmetry sets are used in safety
runs only.

**Deadlock** is checked in every passing run but `updater`.

**Fairness** is what the liveness properties of `agent`, `scheduler` and `updater` rest on. `asyncio.Lock` wakes its waiters in order, and whoever is inside leaves, so a waiter
is served although the lock is not always free when one looks: strong fairness on taking the lock.
The stages inside are bounded by timeouts (5 s to stop, 120 polls to become ready), chats by
`model_timeout_seconds`, tools by `tool_timeout_seconds`: weak fairness. No fairness on requests
arriving, deadlines, crashes, shutdown, or a request letting its client go.
The bot's process is restarted when it ends, and the backend then either starts or fails to.
Every await of an update check has a timeout, the prompt too: weak fairness on its steps. Nothing is
assumed of releases, servers, exits and restarts.
`Fire` has strong fairness since `add_job` occupies the loop between its two steps. None is assumed of
`Delivered`: a send callback is a whole turn, whose end is the agent's affair.

## 4. What the violated runs say

1. `registry_two_servers`: only `except RuntimeError` stops a half-started server
   (`model_registry.py:130`); a `CancelledError` there leaves it running, and the next `acquire`
   starts another. README and module docstring promise one at a time.
2. `registry_crash`: the repository's README promises "Self-healing - detects `llama-server` crashes and restarts
   automatically" (`src/README.md:37`). `acquire` compares slot names only (`model_registry.py:85`) and
   `ensure_running` has no caller: requests for the slot are handed the client of a server that has
   exited, until another slot has been loaded in between. The turns end all the same (`EveryTurnEnds`).
3. `agent_swap`: `chat` turns a disconnect into `ModelSwappedError`, but posting on a session that
   is already closed raises a plain `RuntimeError`, so a swap that happens while tools run ends the
   request.
4. `agent_repeats`: the docstring of `_run_loop` promises that a tool is not called "with the same arguments
   twice in one turn" (`agent.py:482-483`), but the set behind it belongs to one loop (`agent.py:490`). The
   retry after a swap and the second phase start with an empty one, and a tool with side effects may run
   again. Within each loop the promise is kept (`RepeatsOnlyInNewLoop`, theorem `Dedup`).
5. `scheduler_poison`: `0 17-9 * * *`, `*/0 * * * *` or `*/90 * * * *` pass `_validate_cron`, the row
   is saved, and `CronTrigger` raises. The user is told the job could not be scheduled; the row
   counts against the limits and makes the next `start()` stop half-way. Everything proved about the
   scheduler takes such rows into account.
6. `workspace_patch`: `apply_patch` takes lines of a hunk's body until it has seen as many old lines as
   the header announces (`filesystem.py:184`). Lines added after the last old line are dropped, and a
   hunk that only adds (`@@ -3,0 +4,2 @@`) is dropped altogether; the tool says OK. A hunk that ends in
   context, as `diff -u` writes them except at the end of a file, is applied whole (`PatchesLandWhole`).

The assertion of `acquire` (`model_registry.py:88`) can fail too: `_stop_current` closes the client, awaits
`server.stop()`, and clears the slot only after that, so a deadline that cancels the swap at this await
leaves the slot active with its client gone, and each request for it trips the assertion until another
slot is loaded. `registry` contains these behaviours; `TornDownOnlyByCancelledStop` says that nothing
else leads there, and the theorem `AssertionFailsOnlyAfterCancelledStop` that this is the only state in
which the assertion fails.

Behaviour the models show that no line of the repository promises otherwise, so no run calls it wrong:

- `github_commit_files` looks the file's hash up right before the PUT, not when the model read the
  file: a push between `github_read_file` and the commit is overwritten. `ReplacesOnlyWhatItSaw` is
  about the hash the call itself looked up.
- A call whose turn was cancelled may still commit, once, when its request arrives.
- A second update check may extract while a server runs (the executable cannot be replaced then, and
  the extraction stops half-way). A directory left like this whose executable is the new one reports
  the new build, so no later check repairs it.
- Two checks that overlap may end in a downgrade: one installs a release that the other, which was
  slower, replaces by an older one it had looked up before. One check alone never does
  (`DowngradesOnlyByOverlap`).
- With a bare executable name, the default, an update is extracted into the working directory and takes no
  effect: PATH is what runs. Each start offers it again.
- After a restart the limiter's table is empty, and a message may begin a turn right after the last one.
  In the first seconds after the machine's boot a first message may be limited (`LimitsExactly`).
- Turns of one user that overlap leave their rows alternating; a `clear` during a turn leaves its answer
  without a question, and so does an odd `max_history_messages` once the history is full.
- The prompt's thread outlives its timeout (`app.py:194`) and takes the next line typed.

## 5. Proofs

Proved by TLAPS, for any number of requests, pairs, jobs, users and time zones. The assumptions are
those of the modules: names are distinct, limits are naturals, configured slots are slots.

**Registry** (`ModelRegistryProofs`). The properties are not inductive: what a `SwapDone` stores
depends on the stage that preceded it. `RegistryInv` adds what holds at each stage: who the holder
is, whether a pair is fresh and what it serves, which fields are already cleared, and where the
idle worker and the stopper are. From it follow `TypeCorrect`, `FieldsAgree`, `HeavyUnloader`, and
the action properties `HandOutCorrect` and `OrphansAreCancellations`. `HeldClients` adds that a
client a request still holds is either closed or on the slot the request wants.
`AssertionFailsOnlyAfterCancelledStop` and `Refinement` (`Spec => Single!Spec`) hold under every failure
and cancellation. For `Refinement`, `RegistryInv` says that while a swap is about to start a server no
other runs but orphans, which `SingleSlot` calls lost. `OneServer` holds under the extra assumption
`NoCancellation`, that neither deadlines nor shutdown occur; without it run `registry_two_servers`
refutes it.

**Requests** (`AgentRequestProofs`). `RequestsUseRegistry` shows that every step of a request is a
registry step or leaves the registry alone, so every theorem on the registry is one on the
composition. `AgentInv` adds that turn and task agree (a turn is acquiring iff its task waits for or
holds the lock), that the slot wanted is the resolved slot of the turn, and that `repeated` stays
empty: the set of the current loop holds all it has run. `OwnModel` then follows from `HeldClients`; `Dedup` from the
last part.

**Scheduler** (`SchedulerServiceProofs`). `SchedulerInv` adds that the table is finite within its
limits (`CountInv`), that the row between the two writes is there and not registered (`AddingInv`),
that a live job equals its registrable row (`LiveInv`), and that what was confirmed is registrable
(`ConfirmedInv`). The cardinality lemmas are `SaveKeepsLimits` and `CancelKeepsLimits`.

**Conversation** (`ConversationProofs`). `ConversationInv` adds to the types that whoever the limiter
does not know, though seen by this process, has been quiet for a window (`LimiterInv`), and that after
its last `dirty` row a user's history is whole exchanges but for the question of the one untorn turn
between its rows (`Tidy`). The lemma
`ExchangeAppended` carries the argument: although each insertion trims by itself, a question and its
answer appended to whole exchanges leave whole exchanges, up to the one the cap cuts. `TypeCorrect`
contains the cap on the history; `WholeHistories`, `LimiterExact` and `SpacedOut` are the run's other
properties. None assumes anything of the cap but that it is a natural number.

**Tool calls** (`ToolCallsProofs`), in four parts, each with an invariant of its own. `GithubInv`
says of each call what is awaited, what is on its wire and what was committed for it: the request in
flight is for the file after the committed ones, its hash is what the call saw, and it is there also
after the call has returned, in which case the result was not OK. The lemmas `OneCall` and `MoreMade`
let a step of one call leave the others alone. `CommitsInOrder`, `OkMeansDone` and
`ReplacesOnlyWhatItSaw` follow. `AuditInv` orders file, writer and queue: every record in the file is
older than the one being written, that one than those queued, and those than the next one logged; from
it `FileInOrder`, and the refinement of `Journal`
(`LogIsJournal`), which maps the writer's hands followed by the queue to its one line of pending
records: taking a record out is a stutter, writing it or failing to removes the head. For
`NothingElseLost` it adds that every record is in the file, held, or given up for a reason (`Accounted`),
and that whatever is incomplete was given up; a clean exit gives nothing up, so it must have written
what it held. `WorldInv` types what is outside the
calls: a request on the wire belongs to a call of its tool even after that call has returned, so what
it does to a repository is typed; the sha a branch is created from is the files of a branch; files
hold lines, whatever was patched. `RunningInv` says what the event loop is in the middle of. With the other invariants it gives `TypeOK`. Nothing is assumed of the numbers of
calls, files, repositories, pushes or starts.

**Patches** (`WorkspaceProofs`). `PatchLands`: for any file and any patch that fits it and whose hunks
end in old lines, parsing the patch and splicing its hunks in from the last to the first gives exactly
what the reader writes who goes through both from the front. The two work in opposite directions, so the
proof is an induction over the tokens with an invariant between parser and reader (`Lockstep`):
the reader's output so far, continued with the rest of the old lines, is what splicing the hunks parsed
so far makes of the file, and outside a hunk's old side both have read equally far. `LastHunkFirst` lets
a new hunk at the end be spliced first without moving the earlier ones, `HunkOver` closes a hunk.
`PatchesLandAsMeant` applies it to the calls: only a call of `apply_patch` reports a patch applied.
Without the condition on the hunks' ends it is false (`workspace_patch`). `PatchedTyped` holds of
any patch.

**Induction** (`Induction`). The library's induction theorems take an operator as parameter, which
the provers cannot instantiate. The module states induction over a set of naturals instead
(`SetInduction`, `RangeInduction`), from the fact that every nonempty set of naturals has a least
element, and derives from it that the recursive functions of `Workspace` exist and compute what their
definitions say (`RecursionExists`).

**Updater** (`UpdaterProofs`). `UpdaterInv` adds to `InstalledWhole` what a check knows at each stage:
the build it found is older than the one it offers, the archive is no older than that, and what is
about to be extracted is not older than what is installed, unless another check of the process has
installed something (`NoneOlder`). Proved for any number of overlapping checks
and any archives: `TypeOK`, `InstalledWhole`, `InstallsOffered`, `DowngradesOnlyByOverlap`.

**Model-checked only**: what holds under fairness (`HeavyEventuallyUnloaded`,
`EveryTurnEnds`, `DueIsDelivered`, `RestartRestoresJobs`, `EveryCheckEnds`), which TLAPS does not reach
here. Every safety property of a passing run is a theorem.

## 6. Not modelled, and what is left

- The web UI: `chat_completions` passes `history=` to `Agent.handle` (`webui.py:355-359`), which takes
  no such parameter, so every request raises `TypeError` before the agent is reached. The token queue
  behind it never carries a token; a model of it would be of a program that does not run. Its
  process's own scheduler over the same table is left out as well: `SchedulerService` is one process.
- The Groq path, for the same reason: `chat()` takes no `tools` argument.
- `messaging.py`, `intent.py`, `config.py`, `prompts.py`, `storage/db.py`: pure functions, constants and
  an idempotent script. Any route is possible in the model, which covers every classification.
- `list_directory`, `search_in_files`, the log reader, time formatting, search and reddit: they change
  nothing and keep no state but a session.
- `LlamaCppClient`'s token budgets, think-stripping and the assembly of streamed deltas: computations
  on one answer between two awaits.
- The shape of the message list (at the iteration cap an assistant message keeps its tool calls
  without results) and `CronTrigger`'s calendar (weekday 0 is Monday there): see the hazards of
  `PROJECT.json` without a property.

Next, in this order: the message list in `AgentRequest`; the order of the steps of `LocalBot.close`,
and what holds of the registry after `shutdown`; a second process over the scheduler's table; text
splitting and think-stripping as functions against a reference.
