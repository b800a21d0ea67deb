------------------------------- MODULE MCParts -------------------------------
(* Parts.cfg: an owner and a player who talk and play music, of three lists; lists of the hub and one area,
   of a client in two areas; three areas; one guard with a mute shorter than its interval,
   one with a longer one; two moderators, profiles and passwords; two addresses of one device
   and bans of 18 hours; a single_cm hub where only CMs lock; two hubs of players. *)
EXTENDS Parts, TLC

CONSTANTS
  o, p, s1, s2, s3, hub1, a1, a2, a3, file1, ic, cc, peer1, peer2, p1, p2, p3, v1, v2, v3, w1, w2

SongLists == {{}, {{s1, s2}, {s3}}, {{s1, s3}}}

Lengths == s1 :> "loops" @@ s2 :> "missing" @@ s3 :> "timed"

ServerFiles == {{s3}, {s2, s3}}

SongsOf == file1 :> {s1}

FirstAreas == << a1, a2, a3 >>

Times == ic :> 2 @@ cc :> 1
Intervals == ic :> 3 @@ cc :> 2
Mutes == ic :> 2 @@ cc :> 3

Addresses == peer1 :> 1 @@ peer2 :> 2
Devices == peer1 :> "d" @@ peer2 :> "d"

=============================================================================
