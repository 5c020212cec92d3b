-------------------------- MODULE MCModelRegistry --------------------------
(* Model-checking instances of ModelRegistry. *)
EXTENDS ModelRegistry, TLC

CONSTANTS r1, r2, p1, p2, p3, p4

TwoRequests == {r1, r2}
FourProcs   == {p1, p2, p3, p4}

AllSlots    == Slots
TwoSlots    == {"general", "coding"}

AllEvents    == EnvironmentEvents
DeadlineOnly == {"deadline"}
CrashOnly    == {"crash"}

\* Pairs and requests are interchangeable: the specification treats them alike.
Symmetry == Permutations(Procs) \union Permutations(Requests)
=============================================================================
