------------------------------- MODULE MCPanel -------------------------------
(* Two hubs, every account may claim both; one connection, two GM accounts. *)
(* OneHubPerAccount is refuted already with one account and two browsers.   *)
EXTENDS Panel

CONSTANTS c1, u1, u2, s1, s2, h1, h2

MCAllowedHubs == [u \in Account |-> Hub]

=============================================================================
