------------------------------- MODULE IdPool -------------------------------
(***************************************************************************)
(* What the ids of the server promise: a client is given one that nobody   *)
(* else has, keeps that very one for as long as it is registered, and       *)
(* gives it up when it leaves.  Which of the free ids it gets is not said.  *)
(***************************************************************************)
CONSTANTS
  Holder,  \* those who may have an id
  Id       \* the ids there are

VARIABLE held  \* the ids in use: a function from those who have one

Taken == {held[h] : h \in DOMAIN held}

Init == held = [h \in {} |-> h]

Take(h, i) ==
  /\ h \notin DOMAIN held
  /\ i \in Id \ Taken
  /\ held' = [g \in DOMAIN held \cup {h} |-> IF g = h THEN i ELSE held[g]]

Give(h) ==
  /\ h \in DOMAIN held
  /\ held' = [g \in DOMAIN held \ {h} |-> held[g]]

Next == \E h \in Holder : Give(h) \/ \E i \in Id : Take(h, i)

Spec == Init /\ [][Next]_held

=============================================================================
