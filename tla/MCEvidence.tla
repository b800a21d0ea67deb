----------------------------- MODULE MCEvidence -----------------------------
(* A player and one who may be an owner; items for one position, that are shown in the dark and can be
   hidden in, and hidden ones. *)
EXTENDS Evidence

CONSTANTS own, p

K(at, lit, may) == [at |-> at, lit |-> lit, may |-> may]

Items == {K("wit", 1, {"hide", "take", "edit"}), K("hidden", 0, {"take", "edit"})}

\* Bound: own does not move about, inventories are used in one mode and while everybody was sent what
\* is due, and being blinded comes alone.
Bound ==
  /\ pos[own] = "wit"
  /\ viewing # {} \/ bag[p] > 0 => mode = "HiddenCM" /\ unsent = {}
  /\ blinded # {} => ~dark /\ viewing = {}

=============================================================================
