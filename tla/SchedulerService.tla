-------------------------- MODULE SchedulerService --------------------------
(***************************************************************************)
(* Scheduled prompts: scheduler/service.py over scheduler/store.py, as the *)
(* bot process drives them.                                                *)
(*                                                                         *)
(* A job lives in two places: a row of the SQLite table, which survives    *)
(* the process, and a live APScheduler job, which does not.  add_job       *)
(* writes the row first and registers the live job second; the process can *)
(* end in between, and registering can raise for an expression that        *)
(* _validate_cron has let through.  Service calls run on the event loop    *)
(* and never interleave with one another; APScheduler runs a due job's     *)
(* callback on a worker thread, which hands the prompt back to the loop.   *)
(***************************************************************************)
EXTENDS Naturals, FiniteSets

CONSTANTS
  JobIds, Users, Timezones,
  Crons,        \* the classes of cron expressions users come up with
  UTC,
  MaxJobs,      \* scheduler_max_jobs
  MaxPerUser,   \* scheduler_max_jobs_per_user
  MaxExits,     \* bound on the number of times the process ends
  MaxOverlap,   \* bound on the prompts of one job under way to the user
  NoJob

\* "good": accepted by CronTrigger.  "poison": every number is in range, so
\* _validate_cron accepts it, but CronTrigger raises ValueError (0 17-9 * * *,
\* */0 * * * *, */90 * * * *).  "malformed": rejected by _validate_cron.
CronClasses == {"good", "poison", "malformed"}

ASSUME CronsAssumption  == Crons \subseteq CronClasses
ASSUME LimitsAssumption == MaxJobs \in Nat /\ MaxPerUser \in Nat
ASSUME BoundsAssumption == MaxExits \in Nat /\ MaxOverlap \in Nat
ASSUME UTCAssumption    == UTC \in Timezones

Jobs == [user : Users, cron : CronClasses, timezone : Timezones]
ASSUME NoJobAssumption == NoJob \notin Jobs \union JobIds

VARIABLES
  rows,       \* table scheduled_jobs: the job stored under each id, or NoJob
  settings,   \* table user_settings: each user's timezone
  live,       \* the job each id is registered with in APScheduler, or NoJob
  phase,      \* the bot process
  adding,     \* the id add_job has saved but not yet registered, or NoJob
  inThread,   \* jobs whose _fire_sync is on a worker thread
  queued,     \* per job, the _fire tasks waiting on the event loop
  sending,    \* per job, the _fire tasks inside the send callback
  confirmed,  \* ids whose schedule_job call told the user it succeeded
  exits       \* how often the process has ended

store    == <<rows, settings>>
delivery == <<inThread, queued, sending>>
vars     == <<store, live, phase, adding, delivery, confirmed, exits>>

\* _start_backend logged an exception and _backend_ready stays False: "cold"
\* before the scheduler was started, "failed" in the middle of starting it.
Phases == {"down", "booting", "ready", "cold", "failed"}

TypeOK ==
  /\ rows \in [JobIds -> Jobs \union {NoJob}]
  /\ settings \in [Users -> Timezones]
  /\ live \in [JobIds -> Jobs \union {NoJob}]
  /\ phase \in Phases
  /\ adding \in JobIds \union {NoJob}
  /\ inThread \subseteq JobIds
  /\ queued \in [JobIds -> Nat]
  /\ sending \in [JobIds -> Nat]
  /\ confirmed \subseteq JobIds
  /\ exits \in Nat

-----------------------------------------------------------------------------
Stored      == {j \in JobIds : rows[j] # NoJob}
StoredBy(u) == {j \in Stored : rows[j].user = u}
Live        == {j \in JobIds : live[j] # NoJob}
Running     == phase \in {"ready", "failed"}

\* The event loop is free: add_job is not in the middle of its two writes.
LoopFree == adding = NoJob

\* _validate_cron: field count and the range of every number, nothing else.
PassesValidation(c) == c # "malformed"

\* CronTrigger(...) accepts the fields.
Registrable(c) == c = "good"

\* Mutant of HasRoom: counts up to and including the limit.
HasRoomOffByOne(u) ==
  Cardinality(Stored) <= MaxJobs /\ Cardinality(StoredBy(u)) <= MaxPerUser
\* The two limit checks of add_job on the counts read by count_jobs_atomic.
HasRoom(u) ==
  Cardinality(Stored) < MaxJobs /\ Cardinality(StoredBy(u)) < MaxPerUser

Init ==
  /\ rows = [j \in JobIds |-> NoJob]
  /\ settings = [u \in Users |-> UTC]
  /\ live = [j \in JobIds |-> NoJob]
  /\ phase = "down"
  /\ adding = NoJob
  /\ inThread = {}
  /\ queued = [j \in JobIds |-> 0]
  /\ sending = [j \in JobIds |-> 0]
  /\ confirmed = {}
  /\ exits = 0

-----------------------------------------------------------------------------
(* The process *)

\* The client logs in; _start_backend is on its way to scheduler.start().
Boot ==
  /\ phase = "down"
  /\ phase' = "booting"
  /\ UNCHANGED <<store, live, adding, delivery, confirmed, exits>>

\* The update check or warm_general() raises: the scheduler is never started.
WarmUpFails ==
  /\ phase = "booting"
  /\ phase' = "cold"
  /\ UNCHANGED <<store, live, adding, delivery, confirmed, exits>>

\* on_ready fires again after a reconnect and _start_backend runs anew.  Once
\* APScheduler runs, its second start() raises and nothing changes.
ReadyAgain ==
  /\ phase = "cold"
  /\ phase' = "booting"
  /\ UNCHANGED <<store, live, adding, delivery, confirmed, exits>>

\* Mutant of Start: the persisted rows are not registered.
StartEmpty ==
  /\ phase = "booting"
  /\ phase' = "ready"
  /\ UNCHANGED <<store, live, adding, delivery, confirmed, exits>>

\* scheduler.start(): register every persisted job in table order.  The first
\* row CronTrigger refuses ends the loop with an exception, which leaves the
\* rows before it (any of the others, as the order is the table's) registered
\* and _start_backend without setting _backend_ready.
Start ==
  /\ phase = "booting"
  /\ IF \A j \in Stored : Registrable(rows[j].cron)
       THEN phase' = "ready" /\ live' = rows
       ELSE /\ phase' = "failed"
            /\ \E done \in SUBSET {j \in Stored : Registrable(rows[j].cron)} :
                 live' = [j \in JobIds |-> IF j \in done THEN rows[j] ELSE NoJob]
  /\ UNCHANGED <<store, adding, delivery, confirmed, exits>>

\* The process is stopped or killed: only the database remains.
Exit ==
  /\ phase # "down" /\ exits < MaxExits
  /\ exits' = exits + 1
  /\ phase' = "down"
  /\ live' = [j \in JobIds |-> NoJob]
  /\ adding' = NoJob
  /\ inThread' = {}
  /\ queued' = [j \in JobIds |-> 0]
  /\ sending' = [j \in JobIds |-> 0]
  /\ UNCHANGED <<store, confirmed>>

-----------------------------------------------------------------------------
(* The service's operations *)

\* A request can reach the scheduler tools: messages are turned away until
\* _backend_ready is set, a scheduled prompt in its callback is not.
Reachable ==
  \/ phase = "ready"
  \/ phase = "failed" /\ \E j \in JobIds : sending[j] > 0

\* add_job up to save_job: validate, check the limits, snapshot the user's
\* timezone, insert the row under a new id.  A failed check changes nothing.
\* (Ids whose job is gone altogether are reused here.)
SaveJob(u, c) ==
  /\ Reachable /\ LoopFree
  /\ PassesValidation(c)
  /\ HasRoom(u)
  /\ \E j \in JobIds \ (Stored \union inThread) :
       /\ queued[j] = 0 /\ sending[j] = 0
       /\ rows' = [rows EXCEPT ![j] = [user |-> u, cron |-> c, timezone |-> settings[u]]]
       /\ adding' = j
       /\ confirmed' = confirmed \ {j}
  /\ UNCHANGED <<settings, live, phase, delivery, exits>>

\* Mutant of RegisterJob: confirms whatever _register does.
RegisterJobBlindly ==
  /\ adding # NoJob
  /\ IF Registrable(rows[adding].cron)
       THEN live' = [live EXCEPT ![adding] = rows[adding]]
       ELSE UNCHANGED live
  /\ confirmed' = confirmed \union {adding}
  /\ adding' = NoJob
  /\ UNCHANGED <<store, phase, delivery, exits>>

\* The rest of add_job: _register, then schedule_job's answer.  A ValueError
\* from CronTrigger becomes "Could not schedule job"; the row stays.
RegisterJob ==
  /\ adding # NoJob
  /\ IF Registrable(rows[adding].cron)
       THEN /\ live' = [live EXCEPT ![adding] = rows[adding]]
            /\ confirmed' = confirmed \union {adding}
       ELSE UNCHANGED <<live, confirmed>>
  /\ adding' = NoJob
  /\ UNCHANGED <<store, phase, delivery, exits>>

\* Mutant of CancelJob: leaves the live job registered.
CancelRowOnly(u, j) ==
  /\ phase # "down" /\ LoopFree
  /\ rows[j] # NoJob /\ rows[j].user = u
  /\ rows' = [rows EXCEPT ![j] = NoJob]
  /\ confirmed' = confirmed \ {j}
  /\ UNCHANGED <<settings, live, phase, adding, delivery, exits>>

\* cancel_job(j, u): delete the row if it is this user's, then the live job if
\* there is one.  The `jobs cancel` command works even while booting.
CancelJob(u, j) ==
  /\ phase # "down" /\ LoopFree
  /\ rows[j] # NoJob /\ rows[j].user = u
  /\ rows' = [rows EXCEPT ![j] = NoJob]
  /\ live' = [live EXCEPT ![j] = NoJob]
  /\ confirmed' = confirmed \ {j}
  /\ UNCHANGED <<settings, phase, adding, delivery, exits>>

\* Mutant of SetTimezone: the user's jobs follow the new timezone.
SetTimezoneOfJobs(u, tz) ==
  /\ phase # "down" /\ LoopFree
  /\ settings' = [settings EXCEPT ![u] = tz]
  /\ rows' = [j \in JobIds |-> IF j \in StoredBy(u)
                                 THEN [rows[j] EXCEPT !.timezone = tz] ELSE rows[j]]
  /\ UNCHANGED <<live, phase, adding, delivery, confirmed, exits>>

\* The `timezone set` command.
SetTimezone(u, tz) ==
  /\ phase # "down" /\ LoopFree
  /\ settings' = [settings EXCEPT ![u] = tz]
  /\ UNCHANGED <<rows, live, phase, adding, delivery, confirmed, exits>>

-----------------------------------------------------------------------------
(* Firing *)

\* APScheduler finds a live job due and submits _fire_sync to a worker thread;
\* it runs at most one instance of a job (max_instances = 1).
Due(j) ==
  /\ Running /\ LoopFree
  /\ live[j] # NoJob /\ j \notin inThread
  /\ queued[j] + sending[j] < MaxOverlap
  /\ inThread' = inThread \union {j}
  /\ UNCHANGED <<store, live, phase, adding, queued, sending, confirmed, exits>>

\* _fire_sync on the worker thread: call_soon_threadsafe(create_task, _fire).
FireSync(j) ==
  /\ j \in inThread
  /\ inThread' = inThread \ {j}
  /\ queued' = [queued EXCEPT ![j] = @ + 1]
  /\ UNCHANGED <<store, live, phase, adding, sending, confirmed, exits>>

\* Mutant of Fire: the prompt is dropped.
FireDrops(j) ==
  /\ LoopFree
  /\ queued[j] > 0
  /\ queued' = [queued EXCEPT ![j] = @ - 1]
  /\ UNCHANGED <<store, live, phase, adding, inThread, sending, confirmed, exits>>

\* _fire starts on the loop and calls the send callback with the prompt.
Fire(j) ==
  /\ LoopFree
  /\ queued[j] > 0
  /\ queued' = [queued EXCEPT ![j] = @ - 1]
  /\ sending' = [sending EXCEPT ![j] = @ + 1]
  /\ UNCHANGED <<store, live, phase, adding, inThread, confirmed, exits>>

\* Mutant of Delivered: completes without a task.
DeliveredTwice(j) ==
  /\ LoopFree
  /\ sending' = [sending EXCEPT ![j] = @ - 1]
  /\ UNCHANGED <<store, live, phase, adding, inThread, queued, confirmed, exits>>

\* The send callback returns, or its exception is logged by _fire.
Delivered(j) ==
  /\ LoopFree
  /\ sending[j] > 0
  /\ sending' = [sending EXCEPT ![j] = @ - 1]
  /\ UNCHANGED <<store, live, phase, adding, inThread, queued, confirmed, exits>>

Next ==
  \/ Boot \/ WarmUpFails \/ ReadyAgain \/ Start \/ Exit
  \/ \E u \in Users, c \in Crons : SaveJob(u, c)
  \/ RegisterJob
  \/ \E u \in Users, j \in JobIds : CancelJob(u, j)
  \/ \E u \in Users, tz \in Timezones : SetTimezone(u, tz)
  \/ \E j \in JobIds : Due(j) \/ FireSync(j) \/ Fire(j) \/ Delivered(j)

Spec == Init /\ [][Next]_vars

\* The process is restarted when it ends (docker's restart policy), calls run
\* to their end, threads and new loop tasks get to run.  No job need ever be due,
\* and no callback need return.
Fairness ==
  /\ WF_vars(Boot) /\ WF_vars(Start \/ WarmUpFails) /\ WF_vars(RegisterJob)
  /\ \A j \in JobIds : WF_vars(FireSync(j)) /\ SF_vars(Fire(j))

FairSpec == Spec /\ Fairness

-----------------------------------------------------------------------------
(* Properties *)

\* No order of calls and restarts, and no job left behind by a failed or
\* interrupted add_job, takes the table over the global or a user's limit.
WithinLimits ==
  /\ Cardinality(Stored) <= MaxJobs
  /\ \A u \in Users : Cardinality(StoredBy(u)) <= MaxPerUser

\* In a process that started well, exactly the rows CronTrigger accepts are
\* registered, each with the owner and the timezone of its row.
LiveMirrorsRows ==
  phase = "ready" /\ LoopFree =>
    live = [j \in JobIds |->
              IF j \in Stored /\ Registrable(rows[j].cron) THEN rows[j] ELSE NoJob]

\* A job its user was told about is in the table until it is cancelled, through
\* every restart, and a process that started well has it registered.
ConfirmedJobsKept ==
  confirmed \subseteq Stored /\ (phase = "ready" => confirmed \subseteq Live)

\* What runs is always backed by a row: after a cancellation or a restart no
\* job keeps firing without one, not even in a process that started badly.
NothingLiveWithoutRow == \A j \in Live : live[j] = rows[j]

\* A row is written once, with the timezone its user has at that moment, and
\* never changed; later timezone changes do not shift it.
RowsAreSnapshots ==
  [][\A j \in JobIds :
       /\ rows[j] # NoJob => rows'[j] \in {rows[j], NoJob}
       /\ rows[j] = NoJob /\ rows'[j] # NoJob =>
            rows'[j].timezone = settings[rows'[j].user]]_vars

\* A due job's prompt gets from the worker thread over the event loop into the
\* send callback, unless the process ends first: also when the service is in the
\* middle of other calls, the job is cancelled meanwhile, or start() has failed.
DueIsDelivered ==
  \A j \in JobIds : j \in inThread ~> (sending[j] > 0 \/ phase = "down")

\* After the process ends, every confirmed job becomes live again or has been
\* cancelled, unless the backend fails to start: the warm-up raised, or start()
\* stumbled over a row CronTrigger refuses.
RestartRestoresJobs ==
  \A j \in JobIds :
    j \in confirmed ~>
      j \in Live \/ j \notin confirmed \/ phase \in {"cold", "failed"}

\* "Return an error description if *expr* is invalid, else None"
\* (service.py:38): an expression the service stores can be registered.
StoredJobsRegistrable == \A j \in Stored : Registrable(rows[j].cron)
=============================================================================
