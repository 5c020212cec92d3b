--------------------------- MODULE MCConversation ---------------------------
(* Model-checking instances of Conversation. *)
EXTENDS Conversation, TLC

CONSTANTS u1, u2, t1, t2, t3

OneUser    == {u1}
TwoUsers   == {u1, u2}
ThreeTurns == {t1, t2, t3}
TwoTurns   == {t1, t2}

\* Users and turns are interchangeable.
Symmetry == Permutations(Users) \union Permutations(Turns)
=============================================================================
