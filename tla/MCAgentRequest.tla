--------------------------- MODULE MCAgentRequest ---------------------------
(* Model-checking instances of AgentRequest. *)
EXTENDS AgentRequest

CONSTANTS r1, r2, p1, p2, p3, c1, c2

OneRequest  == {r1}
TwoRequests == {r1, r2}
ThreeProcs  == {p1, p2, p3}
OneCall     == {c1}
TwoCalls    == {c1, c2}

TwoSlots         == {"general", "coding"}
AllRoutes        == {"general", "coding", "twoPhase"}
CodingOrTwoPhase == {"coding", "twoPhase"}

NoEvents         == {}
AllEvents        == {"deadline", "crash", "shutdown"}

\* The runs name a new server/client pair deterministically: a step this excludes
\* is a renaming of one it keeps.
Rank == [p \in Procs |-> CASE p = p1 -> 1 [] p = p2 -> 2 [] OTHER -> 3]

LowestFreeProc ==
  fresh = NoProc /\ fresh' # NoProc =>
    \A p \in Procs : Registry!Unreferenced(p) => Rank[fresh'] <= Rank[p]

=============================================================================
