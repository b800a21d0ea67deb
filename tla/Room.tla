-------------------------------- MODULE Room --------------------------------
(***************************************************************************)
(* Who may get into, out of, and speak in one area: its CMs, its lock, its *)
(* mute and its invite list, for the players of the hub and for the system *)
(* executor that runs the area's scripts (Area.get_script_client).         *)
(*                                                                         *)
(* The hub is one where only areas can be claimed (can_gm unset, no GM, no *)
(* moderator), so that nobody was given keys to lock the area with (they   *)
(* give them); the rest of it is one place that is never locked.  Players  *)
(* have characters: locks do not hold spectators.  What the executor is    *)
(* told to do is left out: it is in the area, and it is an owner of it.    *)
(***************************************************************************)
EXTENDS Integers, FiniteSets, FiniteSetsExt

CONSTANTS
  Player,         \* connections of players
  Script,         \* the system executor of the area
  PlayerLimit,    \* playerlimit: the number of ids
  SingleCm,       \* the single_cm preference of the hub
  LockingAllowed, \* the locking_allowed preference: all may lock from within
  CanCm           \* the can_cm preference

VARIABLES
  online,      \* connected players
  id,          \* client.id
  here,        \* area.clients
  cms,         \* area._owners
  locked,      \* area.locked
  muted,       \* area.muted
  invite_list, \* area.invite_list, a set of ids; old_invite_list is the same
               \* object from the first debate on
  debate,      \* area.minigame # ""
  old_muted    \* area.old_muted

vars == << online, id, here, cms, locked, muted, invite_list, debate,
           old_muted >>

debating == << debate, old_muted >>

Ids == 0 .. PlayerLimit - 1

ScriptId == -1

IdOf(c) == IF c = Script THEN ScriptId ELSE id[c]

TypeOK ==
  /\ online \subseteq Player
  /\ id \in [Player -> Ids]
  /\ here \subseteq online \cup {Script}
  /\ cms \subseteq online \cup {Script}
  /\ locked \in BOOLEAN /\ muted \in BOOLEAN
  /\ invite_list \subseteq Ids \cup {ScriptId}
  /\ debate \in BOOLEAN /\ old_muted \in BOOLEAN

Init ==
  /\ online = {} /\ id = [c \in Player |-> 0]
  /\ here = {} /\ cms = {}
  /\ locked = FALSE /\ muted = FALSE
  /\ invite_list = {}
  /\ debate = FALSE /\ old_muted = FALSE

-----------------------------------------------------------------------------
\* Losing a CM, and leaving

\* Mutant: the executor counts as a CM.
AnyCms(owners) == owners

\* real_cms: the executor is not one.
RealCms(owners) == owners \ {Script}

\* remove_owner without c gives the area back its original state.
Resets(c) == SingleCm /\ RealCms(cms \ {c}) = {}

\* Area.remove_client takes the rights of a CM that walks away.
LosesCm(c) == SingleCm /\ c \in cms

\* "unlock if we were the last client in this area": only where anyone may
\* lock, and no CM is left.
LastOut(c) ==
  /\ LockingAllowed
  /\ RealCms(IF LosesCm(c) THEN cms \ {c} ELSE cms) = {}
  /\ Cardinality(here) - 1 <= 0

\* The area is reset because c, a CM, loses its rights by going.
ResetBy(c) == c \in cms /\ Resets(c)

\* What the end of c's rights and its departure do to the lock and the mute;
\* rest are the invitations that are kept in any case.
Unlocks(c, rest) ==
  /\ locked' = (locked /\ ~ResetBy(c) /\ ~(c \in here /\ LastOut(c)))
  /\ muted' = (muted /\ ~ResetBy(c))
  /\ invite_list' = IF muted /\ ResetBy(c) THEN {} ELSE rest

\* Area.remove_client, but for the client set
RemoveClient(c, rest) ==
  /\ cms' = IF LosesCm(c) THEN cms \ {c} ELSE cms
  /\ Unlocks(c, rest)

\* Mutant: the client stays in the client set.
StillPresent(c) == here

Present(c) == here \ {c}

-----------------------------------------------------------------------------
\* Players come and go

FreeIds == Ids \ {id[c] : c \in online}

Connect(c) ==
  /\ c \notin online
  /\ FreeIds # {}
  /\ online' = online \cup {c}
  /\ id' = [id EXCEPT ![c] = Min(FreeIds)]
  /\ UNCHANGED << here, cms, locked, muted, invite_list, debating >>

\* Mutant: the id stays on the invite list.
InvitesKept(c) == invite_list

\* "that ID will no longer refer to this specific player"
InvitesWithout(c) == invite_list \ {id[c]}

\* TsuServer3.remove_client: Area.remove_client if it is here, then the rights
\* and the invitations that are left, in every area.
Disconnect(c) ==
  /\ c \in online
  /\ online' = online \ {c}
  /\ id' = [id EXCEPT ![c] = 0]
  /\ here' = Present(c)
  /\ cms' = cms \ {c}
  /\ Unlocks(c, InvitesWithout(c))
  /\ UNCHANGED debating

Passes(c) == ~locked \/ c \in cms \/ id[c] \in invite_list

\* change_area into the area
Enter(c) ==
  /\ c \in online \ here
  /\ Passes(c)
  /\ here' = here \cup {c}
  /\ UNCHANGED << online, id, cms, locked, muted, invite_list, debating >>

\* change_area out of it
Leave(c) ==
  /\ c \in online \cap here
  /\ Passes(c)
  /\ here' = Present(c)
  /\ RemoveClient(c, invite_list)
  /\ UNCHANGED << online, id, debating >>

\* /area_kick without a destination: the target leaves the area of the CM and
\* enters it again.
KickInPlace(c, t) ==
  /\ c \in cms \cap here
  /\ t \in here \cap online
  /\ RemoveClient(t, invite_list \ {id[t]})
  /\ UNCHANGED << online, id, here, debating >>

\* get_script_client, when the first script or trigger of the area runs
StartScript ==
  /\ Script \notin here
  /\ here' = here \cup {Script}
  /\ cms' = cms \cup {Script}
  /\ UNCHANGED << online, id, locked, muted, invite_list, debating >>

-----------------------------------------------------------------------------
\* Commands

\* Commands for area owners of the area one is in.
Owner(c) == c \in cms \cap here \cap online

\* /cm
GrantCm(c, t) ==
  /\ c \in here \cap online
  /\ CanCm
  /\ cms = {} \/ Owner(c)
  /\ t = c \/ Owner(c)
  /\ t \in here
  /\ cms' = cms \cup {t}
  /\ UNCHANGED << online, id, here, locked, muted, invite_list, debating >>

\* /uncm; the executor answers to its id as well.
RevokeCm(c, t) ==
  /\ Owner(c)
  /\ t \in cms
  /\ cms' = cms \ {t}
  /\ IF Resets(t)
       THEN /\ locked' = FALSE /\ muted' = FALSE
            /\ invite_list' = IF muted THEN {} ELSE invite_list
       ELSE UNCHANGED << locked, muted, invite_list, debating >>
  /\ UNCHANGED << online, id, here, debating >>

\* /lock and /unlock, by a CM or by anyone inside where that is allowed (and by who holds
\* keys, which nobody does here)
SetLock(c, to) ==
  /\ c \in online
  /\ c \in cms \/ (LockingAllowed /\ c \in here)
  /\ locked # to
  /\ locked' = to
  /\ UNCHANGED << online, id, here, cms, muted, invite_list, debating >>

\* /area_mute and /area_unmute, which a CM may use from another area that it
\* owns too: either forgets the invitations.
SetMute(c, to) ==
  /\ c \in cms \cap online
  /\ muted # to
  /\ muted' = to
  /\ invite_list' = {}
  /\ UNCHANGED << online, id, here, cms, locked, debating >>

\* /invite of a client of the hub
Invite(c, t) ==
  /\ Owner(c)
  /\ t \in online \cup (here \cap {Script})
  /\ invite_list' = invite_list \cup {IdOf(t)}
  /\ UNCHANGED << online, id, here, cms, locked, muted, debating >>

\* /uninvite
Uninvite(c, t) ==
  /\ Owner(c)
  /\ t \in online \cup (here \cap {Script})
  /\ invite_list' = invite_list \ {IdOf(t)}
  /\ UNCHANGED << online, id, here, cms, locked, muted, debating >>

-----------------------------------------------------------------------------
\* Debates (see Minigame): what they do to the mute and the invitations

\* start_debate while there is none
StartDebate(c, t) ==
  /\ ~debate
  /\ c \in here \cap online
  /\ t \in here \ {c}
  /\ debate' = TRUE
  /\ old_muted' = muted /\ muted' = TRUE
  /\ invite_list' = {id[c], IdOf(t)}
  /\ UNCHANGED << online, id, here, cms, locked >>

\* start_debate that makes, or joins, a Scrum Debate
JoinDebate(c) ==
  /\ debate
  /\ c \in here \cap online
  /\ invite_list' = invite_list \cup {id[c]}
  /\ UNCHANGED << online, id, here, cms, locked, muted, debating >>

\* end_minigame: the invitations of the debate are those of the area now.
EndDebate ==
  /\ debate
  /\ debate' = FALSE
  /\ muted' = old_muted
  /\ UNCHANGED << online, id, here, cms, locked, invite_list, old_muted >>

Next ==
  \/ \E c \in Player : Connect(c) \/ Disconnect(c) \/ Enter(c) \/ Leave(c)
                       \/ JoinDebate(c)
  \/ StartScript
  \/ EndDebate
  \/ \E c \in Player, to \in BOOLEAN : SetLock(c, to) \/ SetMute(c, to)
  \/ \E c \in Player, t \in Player \cup {Script} :
       \/ KickInPlace(c, t) \/ GrantCm(c, t) \/ RevokeCm(c, t)
       \/ Invite(c, t) \/ Uninvite(c, t) \/ StartDebate(c, t)

Spec == Init /\ [][Next]_vars

-----------------------------------------------------------------------------
\* Properties

\* An invitation is to somebody who is connected: one that was given to a
\* client that left never lets in the next client with its id.
InvitesAreOwned ==
  invite_list \ {ScriptId} \subseteq {id[c] : c \in online}

\* In a single_cm hub where only CMs lock, the area is locked only while it has
\* a CM who is a player, however the last one went (on foot, kicked, /uncm, a
\* lost connection) and whatever scripts have run: players are not left behind
\* a lock that nobody of theirs can open.
LockHasACm == SingleCm /\ locked /\ ~LockingAllowed => cms \ {Script} # {}

\* In a single_cm hub a locked area has somebody in it: "unlock if we were the
\* last client in this area and it was locked" (Area.remove_client). It does not
\* hold, as the README explains.
LockHasSomebodyIn == SingleCm /\ locked => here \cap Player # {}

=============================================================================
