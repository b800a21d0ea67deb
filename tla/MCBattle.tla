------------------------------ MODULE MCBattle ------------------------------
(* Three clients, one guild. *)
EXTENDS Battle, TLC

CONSTANTS c1, c2, c3, b1, b2, b3, g1

Alike == Permutations(Client) \cup Permutations(Body)

\* What other areas make of objects: of a guild of theirs, selected, or down.
Changed ==
  {Unhurt(g1), [Unhurt(None) EXCEPT !.sel = "skip"], [Unhurt(None) EXCEPT !.up = FALSE]}

\* Bound: two clients once the count is off, or one has been abroad or is gone for good;
\* and not both of these, unless the others of the two are gone, or both have come back.
Bound ==
  /\ disturbed \/ abroad \cup attached # {} => Cardinality(Around \cup attached) <= 2
  /\ disturbed /\ attached # {} => here = {}
  /\ disturbed /\ abroad # {} => abroad = here /\ started /\ DOMAIN guilds = {}
  /\ disturbed => lost = {}

=============================================================================
