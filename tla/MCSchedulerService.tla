------------------------- MODULE MCSchedulerService -------------------------
(* Model-checking instances of SchedulerService. *)
EXTENDS SchedulerService, TLC

CONSTANTS j1, j2, j3, u1, u2, utc, oslo

ThreeIds     == {j1, j2, j3}
TwoUsers     == {u1, u2}
TwoTimezones == {utc, oslo}
AllCrons     == CronClasses

Symmetry == Permutations(JobIds) \union Permutations(Users)
=============================================================================
