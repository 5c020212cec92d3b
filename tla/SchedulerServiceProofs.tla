----------------------- MODULE SchedulerServiceProofs -----------------------
(***************************************************************************)
(* Proofs about SchedulerService, for any sets of ids, users and timezones *)
(* and any limits.                                                         *)
(***************************************************************************)
EXTENDS SchedulerService, FiniteSetTheorems, TLAPS

\* The limits, with the finiteness that makes counting meaningful.
CountInv == IsFiniteSet(Stored) /\ WithinLimits

\* add_job between its two writes: the row is there, nothing else yet.
AddingInv ==
  adding # NoJob =>
    /\ adding \in Stored /\ adding \notin confirmed
    /\ live[adding] = NoJob
    /\ Running

\* Live jobs are copies of registrable rows; a process that started well has
\* all of them, one that has not started has none.
LiveInv ==
  /\ \A j \in JobIds : live[j] # NoJob => live[j] = rows[j] /\ Registrable(rows[j].cron)
  /\ ~Running => \A j \in JobIds : live[j] = NoJob
  /\ phase = "ready" =>
       \A j \in JobIds :
         rows[j] # NoJob /\ Registrable(rows[j].cron) /\ j # adding => live[j] = rows[j]

\* Only registered jobs were ever confirmed.
ConfirmedInv ==
  \A j \in confirmed : rows[j] # NoJob /\ Registrable(rows[j].cron)

SchedulerInv == TypeOK /\ CountInv /\ AddingInv /\ LiveInv /\ ConfirmedInv

-----------------------------------------------------------------------------
LEMMA InitSchedulerInv == Init => SchedulerInv
<1> SUFFICES ASSUME Init PROVE SchedulerInv
  OBVIOUS
<1>1. TypeOK
  BY UTCAssumption DEF Init, TypeOK, Phases
<1>2. CountInv
  <2>1. Stored = {} /\ \A u \in Users : StoredBy(u) = {}
    BY DEF Init, Stored, StoredBy
  <2>2. QED
    BY <2>1, FS_EmptySet, LimitsAssumption DEF CountInv, WithinLimits
<1>3. AddingInv /\ LiveInv /\ ConfirmedInv
  BY DEF Init, AddingInv, LiveInv, ConfirmedInv, Running
<1>4. QED
  BY <1>1, <1>2, <1>3 DEF SchedulerInv

\* A step that does not touch the table keeps the limits.
LEMMA RowsUnchanged == CountInv /\ rows' = rows => CountInv'
  BY DEF CountInv, WithinLimits, Stored, StoredBy

\* Saving one row under a new id, with room for it, keeps the limits.
LEMMA SaveKeepsLimits ==
  ASSUME TypeOK, CountInv, NEW u \in Users, HasRoom(u), NEW j \in JobIds \ Stored,
         NEW job \in Jobs, job.user = u, rows' = [rows EXCEPT ![j] = job]
  PROVE  CountInv'
<1>1. Stored' = Stored \union {j} /\ j \notin Stored
  BY NoJobAssumption DEF Stored, TypeOK
<1>2. IsFiniteSet(Stored') /\ Cardinality(Stored') = Cardinality(Stored) + 1
  BY <1>1, FS_AddElement DEF CountInv
<1>3. ASSUME NEW w \in Users
      PROVE  Cardinality(StoredBy(w)') <= MaxPerUser
  <2>1. IsFiniteSet(StoredBy(w)) /\ j \notin StoredBy(w)
    BY FS_Subset DEF CountInv, StoredBy
  <2>2. CASE w = u
    <3>1. StoredBy(w)' = StoredBy(w) \union {j}
      BY <2>2, <1>1, NoJobAssumption DEF StoredBy, Stored, TypeOK
    <3>2. Cardinality(StoredBy(w)') = Cardinality(StoredBy(w)) + 1
      BY <2>1, <3>1, FS_AddElement
    <3>3. Cardinality(StoredBy(w)) \in Nat /\ Cardinality(StoredBy(w)) < MaxPerUser
      BY <2>1, <2>2, FS_CardinalityType DEF HasRoom
    <3>4. QED
      BY <3>2, <3>3, LimitsAssumption
  <2>3. CASE w # u
    <3>1. StoredBy(w)' = StoredBy(w)
      BY <2>3, <1>1 DEF StoredBy, Stored, TypeOK
    <3>2. QED
      BY <3>1 DEF CountInv, WithinLimits
  <2>4. QED
    BY <2>2, <2>3
<1>4. Cardinality(Stored) \in Nat /\ Cardinality(Stored) < MaxJobs
  BY FS_CardinalityType DEF CountInv, HasRoom
<1>5. QED
  BY <1>2, <1>3, <1>4, LimitsAssumption DEF CountInv, WithinLimits

\* Deleting a row keeps the limits.
LEMMA CancelKeepsLimits ==
  ASSUME TypeOK, CountInv, NEW j \in JobIds, rows' = [rows EXCEPT ![j] = NoJob]
  PROVE  CountInv'
<1>1. Stored' \subseteq Stored /\ \A w \in Users : StoredBy(w)' \subseteq StoredBy(w)
  BY DEF Stored, StoredBy, TypeOK
<1>2. IsFiniteSet(Stored') /\ Cardinality(Stored') <= Cardinality(Stored)
  BY <1>1, FS_Subset DEF CountInv
<1>3. ASSUME NEW w \in Users
      PROVE  Cardinality(StoredBy(w)') <= MaxPerUser
  <2>1. IsFiniteSet(StoredBy(w))
    BY FS_Subset DEF CountInv, StoredBy
  <2>2. /\ IsFiniteSet(StoredBy(w)')
        /\ Cardinality(StoredBy(w)') <= Cardinality(StoredBy(w))
    BY <1>1, <2>1, FS_Subset
  <2>3. QED
    BY <2>1, <2>2, FS_CardinalityType, LimitsAssumption DEF CountInv, WithinLimits
<1>4. QED
  BY <1>2, <1>3, FS_CardinalityType, LimitsAssumption DEF CountInv, WithinLimits

\* Every action keeps the invariant.
LEMMA SchedulerInvStep == SchedulerInv /\ [Next]_vars => SchedulerInv'
<1> SUFFICES ASSUME SchedulerInv, [Next]_vars PROVE SchedulerInv'
  OBVIOUS
<1> USE NoJobAssumption
    DEF SchedulerInv, TypeOK, AddingInv, LiveInv, ConfirmedInv, Running, LoopFree,
        Stored, Registrable, Phases, store, delivery
<1>1. CASE Boot
  BY <1>1, RowsUnchanged DEF Boot
<1>2. CASE Start
  BY <1>2, RowsUnchanged DEF Start
<1>3. CASE Exit \/ WarmUpFails \/ ReadyAgain
  BY <1>3, RowsUnchanged DEF Exit, WarmUpFails, ReadyAgain
<1>4. ASSUME NEW u \in Users, NEW c \in Crons, SaveJob(u, c)
      PROVE  SchedulerInv'
  <2>1. PICK j \in JobIds \ (Stored \union inThread) :
          /\ rows' = [rows EXCEPT ![j] = [user |-> u, cron |-> c, timezone |-> settings[u]]]
          /\ adding' = j
          /\ confirmed' = confirmed \ {j}
    BY <1>4 DEF SaveJob
  <2> DEFINE job == [user |-> u, cron |-> c, timezone |-> settings[u]]
  <2>2. job \in Jobs /\ job # NoJob /\ job.user = u
    BY CronsAssumption DEF Jobs
  <2>3. CountInv'
    BY <1>4, <2>1, <2>2, SaveKeepsLimits DEF SaveJob
  <2>4. /\ rows[j] = NoJob /\ rows'[j] = job
        /\ \A i \in JobIds : i # j => rows'[i] = rows[i]
    BY <2>1
  <2>5. /\ adding = NoJob /\ Reachable
        /\ UNCHANGED <<settings, live, phase, inThread, queued, sending, exits>>
    BY <1>4 DEF SaveJob
  <2>6. TypeOK'
    BY <2>1, <2>2, <2>5
  <2>7. AddingInv' /\ LiveInv' /\ ConfirmedInv'
    <3> HIDE DEF job
    <3>1. QED
      BY <2>1, <2>2, <2>4, <2>5 DEF Reachable
  <2>8. QED
    BY <2>3, <2>6, <2>7
<1>5. CASE RegisterJob
  BY <1>5, RowsUnchanged DEF RegisterJob
<1>6. ASSUME NEW u \in Users, NEW j \in JobIds, CancelJob(u, j)
      PROVE  SchedulerInv'
  <2>1. CountInv'
    BY <1>6, CancelKeepsLimits DEF CancelJob
  <2>2. QED
    BY <1>6, <2>1 DEF CancelJob
<1>7. ASSUME NEW u \in Users, NEW tz \in Timezones, SetTimezone(u, tz)
      PROVE  SchedulerInv'
  BY <1>7, RowsUnchanged DEF SetTimezone
<1>8. ASSUME NEW j \in JobIds, Due(j)
      PROVE  SchedulerInv'
  BY <1>8, RowsUnchanged DEF Due
<1>9. ASSUME NEW j \in JobIds, FireSync(j)
      PROVE  SchedulerInv'
  BY <1>9, RowsUnchanged DEF FireSync
<1>10. ASSUME NEW j \in JobIds, Fire(j)
       PROVE  SchedulerInv'
  BY <1>10, RowsUnchanged DEF Fire
<1>11. ASSUME NEW j \in JobIds, Delivered(j)
       PROVE  SchedulerInv'
  BY <1>11, RowsUnchanged DEF Delivered
<1>12. CASE UNCHANGED vars
  BY <1>12, RowsUnchanged DEF vars
<1>13. QED
  BY <1>1, <1>2, <1>3, <1>4, <1>5, <1>6, <1>7, <1>8, <1>9, <1>10, <1>11, <1>12 DEF Next

LEMMA SchedulerInvariant == Spec => []SchedulerInv
  BY InitSchedulerInv, SchedulerInvStep, PTL DEF Spec

-----------------------------------------------------------------------------
\* Every variable keeps its type.
THEOREM TypeCorrect == Spec => []TypeOK
  BY SchedulerInvariant, PTL DEF SchedulerInv

\* The job limits hold whatever the order of calls, failures and restarts.
THEOREM Limits == Spec => []WithinLimits
  BY SchedulerInvariant, PTL DEF SchedulerInv, CountInv

\* In a process that started well, APScheduler holds exactly the registrable rows.
THEOREM Mirror == Spec => []LiveMirrorsRows
<1>1. SchedulerInv => LiveMirrorsRows
  BY NoJobAssumption
  DEF SchedulerInv, TypeOK, LiveInv, LiveMirrorsRows, LoopFree, Stored
<1>2. QED
  BY <1>1, SchedulerInvariant, PTL

\* Confirmed jobs survive restarts and are registered again.
THEOREM ConfirmedKept == Spec => []ConfirmedJobsKept
<1>1. SchedulerInv => ConfirmedJobsKept
  BY NoJobAssumption
  DEF SchedulerInv, TypeOK, AddingInv, LiveInv, ConfirmedInv, ConfirmedJobsKept, Stored, Live
<1>2. QED
  BY <1>1, SchedulerInvariant, PTL

\* No job fires without a row behind it.
THEOREM LiveHasRow == Spec => []NothingLiveWithoutRow
<1>1. SchedulerInv => NothingLiveWithoutRow
  BY DEF SchedulerInv, LiveInv, NothingLiveWithoutRow, Live
<1>2. QED
  BY <1>1, SchedulerInvariant, PTL

\* Rows are immutable snapshots of the owner's timezone.
THEOREM Snapshots == Spec => RowsAreSnapshots
<1>1. SchedulerInv /\ [Next]_vars =>
        [\A j \in JobIds :
           /\ rows[j] # NoJob => rows'[j] \in {rows[j], NoJob}
           /\ rows[j] = NoJob /\ rows'[j] # NoJob =>
                rows'[j].timezone = settings[rows'[j].user]]_vars
  BY NoJobAssumption
  DEF SchedulerInv, TypeOK, Stored, Next, Boot, WarmUpFails, ReadyAgain, Start, Exit, SaveJob, RegisterJob,
      CancelJob, SetTimezone, Due, FireSync, Fire, Delivered, store, vars
<1>2. QED
  BY <1>1, SchedulerInvariant, PTL DEF Spec, RowsAreSnapshots
=============================================================================
