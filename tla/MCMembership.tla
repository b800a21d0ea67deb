---------------------------- MODULE MCMembership ----------------------------
(* Two hubs of two areas, h1 with the single_cm preference and h2 with autokick; two
   connections of one person, who may follow each other, and claim any area or hub. *)
EXTENDS Membership

CONSTANTS c1, c2, c3, c4, a1, a2, b1, b2, h1, h2

MCHubOf == [a \in Area |-> IF a \in {a1, a2} THEN h1 ELSE h2]
MCDefaultArea == [h \in Hub |-> IF h = h1 THEN a1 ELSE b1]
MCOnePerson == [c \in Client |-> c1]
MCCharlist == [h \in Hub |-> h]

=============================================================================
