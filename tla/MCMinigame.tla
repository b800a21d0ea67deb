----------------------------- MODULE MCMinigame -----------------------------
(* An owner and two players, three characters; all must vote. With five     *)
(* players, no owner, and votes_percentage 0.7, as it is when no preference *)
(* is set, TLC refutes EndedByValidVoters.                                  *)
EXTENDS Minigame, TLC

CONSTANTS p1, p2, p3, p4, p5, k1, k2, k3, k4, k5

\* Sound for a property of states and steps.
AlikeAll == Permutations(Char) \cup Permutations(Player)

=============================================================================
