-------------------------------- MODULE Parts --------------------------------
(***************************************************************************)
(* Nine parts of the server that share no state, side by side: messages    *)
(* and testimony, the jukebox, the lists of music, the links between       *)
(* areas, the flood guards, the moderators, the bans, who may get into a   *)
(* room, and the lists of players.                                         *)
(*                                                                         *)
(* A behaviour is one of one part, which it chooses at the start, so that  *)
(* the states of the parts do not multiply; each part has the variables of *)
(* its module, and properties of its own.                                  *)
(***************************************************************************)
EXTENDS Integers, Sequences, FiniteSets

CONSTANT None

VARIABLE part

\* Messages and testimony
CONSTANTS Client, Owners, Silenced, CanWhisper, MaxStatements, MaxMessages

VARIABLES last, testimony, index, title, recording, sent, overheard, moved, shown

tvars == << last, testimony, index, title, recording, sent, overheard, moved, shown >>

T == INSTANCE Messages

\* The jukebox
CONSTANTS Song, Stop, Silence, Lists, Length, MaxChance

VARIABLES inside, jukebox, votes, looper, music, mine, locked, canDj, dj, lapsed

jvars == << inside, jukebox, votes, looper, music, mine, locked, canDj, dj, lapsed >>

J == INSTANCE Jukebox WITH here <- inside

\* The lists of music
CONSTANTS Listener, Area, Hub, File, Songs, AddedSongs, Header, Server, ServerLists, Unsaved, Used

VARIABLES list, ref, replace, allow, at, held, kept, seen, untold

lvars == << list, ref, replace, allow, at, held, kept, seen, untold >>

L == INSTANCE MusicLists WITH Client <- Listener

\* The areas of a hub
CONSTANTS Location, First, Walker, GMs, MaxAreas, MaxLinks

VARIABLES areas, links, where

avars == << areas, links, where >>

A == INSTANCE Areas WITH Area <- Location, Client <- Walker

\* The flood guards of a client
CONSTANTS Guard, TimesPerInterval, IntervalLength, MuteLength, MaxTime

VARIABLES now, exempt, ring, counter, muted, let

fvars == << now, exempt, ring, counter, muted, let >>

F == INSTANCE FloodGuard

\* Moderators
CONSTANTS Profile, Password

VARIABLES file, modpass, mod, used

mvars == << file, modpass, mod, used >>

M == INSTANCE Moderators

\* Bans
CONSTANTS Peer, AddressOf, DeviceOf, Never, Durations, Window, MaxId, LastTime

VARIABLES bans, ip_bans, hdid_bans, timers, clock, wakes, up, online

bvars == << bans, ip_bans, hdid_bans, timers, clock, wakes, up, online >>

B == INSTANCE Bans WITH Client <- Peer, now <- clock, MaxTime <- LastTime

\* Who may get into a room
CONSTANTS Player, Script, PlayerLimit, SingleCm, LockingAllowed, CanCm

VARIABLES connected, id, here, cms, shut, silent, invite_list, debate, old_muted

rvars == << connected, id, here, cms, shut, silent, invite_list, debate, old_muted >>

R == INSTANCE Room WITH online <- connected, locked <- shut, muted <- silent

\* The lists of players
CONSTANTS Viewer, World, Lobby

VARIABLES present, number, hub, playing, concealed, registered, listed, screen

pvars == << present, number, hub, playing, concealed, registered, listed, screen >>

P == INSTANCE PlayerList WITH Client <- Viewer, Hub <- World, online <- present, id <- number

\* What the settings are: numbers and sets of the kinds that config.yaml and the tables of
\* the server hold, a server with music (a list that is emptied differs from it), and names that
\* are no numbers and of one thing only.
ASSUME PartsAssumption ==
  /\ None \notin Int \cup Area /\ Never \notin Int
  /\ {} \notin ServerLists /\ Used \subseteq {Hub} \cup Area \cup Listener
  /\ Server \notin {Hub} \cup Area \cup Listener
  /\ Hub \notin Area \cup Listener /\ Area \cap Listener = {}
  /\ MaxStatements \in Nat /\ MaxMessages \in Nat
  /\ \A g \in Guard : TimesPerInterval[g] \in Nat \ {0} /\ IntervalLength[g] \in Nat
  /\ MaxTime \in Nat
  /\ Durations \subseteq Int /\ Window \in Int
  /\ Script \notin Player /\ PlayerLimit \in Nat \ {0}
  /\ {SingleCm, LockingAllowed, CanCm} \subseteq BOOLEAN
  /\ Lobby \in World

-----------------------------------------------------------------------------

vars == << part, tvars, jvars, lvars, avars, fvars, mvars, bvars, rvars, pvars >>

Part == {"messages", "jukebox", "music lists", "areas", "flood guards", "moderators", "bans",
         "room", "player lists"}

\* Where the start is free, the other parts start in one way.
Init ==
  /\ part \in Part
  /\ T!Init /\ J!Init /\ L!Init /\ A!Init /\ F!Init /\ M!Init /\ B!Init /\ R!Init /\ P!Init
  /\ part # "jukebox" => ~jukebox
  /\ part # "music lists" => list[Server] = CHOOSE songs \in ServerLists : TRUE
  /\ part # "moderators" => file = [name \in Profile |-> CHOOSE pw \in Password : TRUE]

Next ==
  \/ /\ part = "messages" /\ T!Next
     /\ UNCHANGED << part, jvars, lvars, avars, fvars, mvars, bvars, rvars, pvars >>
  \/ /\ part = "jukebox" /\ J!Next
     /\ UNCHANGED << part, tvars, lvars, avars, fvars, mvars, bvars, rvars, pvars >>
  \/ /\ part = "music lists" /\ L!Next
     /\ UNCHANGED << part, tvars, jvars, avars, fvars, mvars, bvars, rvars, pvars >>
  \/ /\ part = "areas" /\ A!Next
     /\ UNCHANGED << part, tvars, jvars, lvars, fvars, mvars, bvars, rvars, pvars >>
  \/ /\ part = "flood guards" /\ F!Next
     /\ UNCHANGED << part, tvars, jvars, lvars, avars, mvars, bvars, rvars, pvars >>
  \/ /\ part = "moderators" /\ M!Next
     /\ UNCHANGED << part, tvars, jvars, lvars, avars, fvars, bvars, rvars, pvars >>
  \/ /\ part = "bans" /\ B!Next
     /\ UNCHANGED << part, tvars, jvars, lvars, avars, fvars, mvars, rvars, pvars >>
  \/ /\ part = "room" /\ R!Next
     /\ UNCHANGED << part, tvars, jvars, lvars, avars, fvars, mvars, bvars, pvars >>
  \/ /\ part = "player lists" /\ P!Next
     /\ UNCHANGED << part, tvars, jvars, lvars, avars, fvars, mvars, bvars, rvars >>

Spec == Init /\ [][Next]_vars

-----------------------------------------------------------------------------
\* The properties of the parts, which their modules explain

\* Testimony: the index is of the statement that everybody saw last.
IndexIsOfTheShown == T!IndexIsOfTheShown

\* Messages: /w promises that only the speaker, those it names and the owners hear it.
WhispersArePrivate == T!WhispersArePrivate

\* Jukebox: while it is on and has something to play, it goes on playing.
JukeboxPlaysOn == J!JukeboxPlaysOn

\* Music lists: a client was sent the list that now holds for it.
ShownIsCurrent == L!ShownIsCurrent

\* Areas: a swap keeps the ways between areas, and a removal opens none.
ReorderingKeepsTheWays == A!ReorderingKeepsTheWays

\* Flood guards: no more than times_per_interval in any interval_length.
AtMostPerInterval == F!AtMostPerInterval

\* Moderators: their passwords are those of the last /refresh.
ModsAreCurrent == M!ModsAreCurrent

\* Bans: one with a date is lifted at that date, over crashes.
DatedBansEnd == B!DatedBansEnd

\* Bans: one ends before its date, or at all, only if a moderator lifts it.
BansLast == B!BansLast

\* Room: an invitation never lets in the next client with the id it was given to.
InvitesAreOwned == R!InvitesAreOwned

\* Room: where only CMs lock, a locked area has a CM who is a player.
LockHasACm == R!LockHasACm

\* Player lists: everybody has the announced clients of the own hub on the list, no others.
ListsAgree == P!ListsAgree

\* Player lists: whoever plays in sight of others is on their lists.
NobodyIsMissing == P!NobodyIsMissing

=============================================================================
