----------------------------- MODULE PlayerList -----------------------------
(***************************************************************************)
(* The list of players on each client's screen (PlayerStateObserver): the  *)
(* PR packets that add and remove the entries, for clients that join,      *)
(* leave, hide, change their character and change hubs, and ids that are   *)
(* used again.                                                             *)
(*                                                                         *)
(* Packets are delivered in order, so that an entry is on the screen as    *)
(* soon as it is sent.  The fields of an entry (PU) are left out.          *)
(***************************************************************************)
EXTENDS Integers, FiniteSets, FiniteSetsExt

CONSTANTS
  Client,       \* connections
  PlayerLimit,  \* playerlimit: the number of ids
  Hub,
  Lobby         \* the default hub

VARIABLES
  online,      \* client_manager.clients
  id,          \* client.id
  hub,         \* client.area.area_manager
  playing,     \* char_id is neither None nor -1
  concealed,   \* client._hidden
  registered,  \* client_list: the clients that receive the packets
  listed,      \* the clients that are announced
  screen       \* the ids on each client's player list

vars == << online, id, hub, playing, concealed, registered, listed, screen >>

Ids == 0 .. PlayerLimit - 1

TypeOK ==
  /\ online \subseteq Client
  /\ id \in [Client -> Ids]
  /\ hub \in [Client -> Hub]
  /\ playing \subseteq online /\ concealed \subseteq online
  /\ registered \subseteq online /\ listed \subseteq registered
  /\ screen \in [Client -> SUBSET Ids]

Init ==
  /\ online = {} /\ id = [c \in Client |-> 0]
  /\ hub = [c \in Client |-> Lobby]
  /\ playing = {} /\ concealed = {}
  /\ registered = {} /\ listed = {}
  /\ screen = [c \in Client |-> {}]

-----------------------------------------------------------------------------
\* Packets

\* The clients of hub h that get packets.
Receivers(h) == {t \in registered : hub[t] = h}

\* PR of c to a set of clients
Adding(to, c) == [t \in Client |-> IF t \in to THEN screen[t] \cup {id[c]} ELSE screen[t]]

Removing(to, c) == [t \in Client |-> IF t \in to THEN screen[t] \ {id[c]} ELSE screen[t]]

\* notify_visibility_changed, once c is hidden or not
NotifyVisibilityChanged(c, hidden) ==
  CASE c \in listed /\ hidden ->
         /\ listed' = listed \ {c}
         /\ screen' = Removing(Receivers(hub[c]), c)
    [] c \in registered \ listed /\ ~hidden ->
         /\ listed' = listed \cup {c}
         /\ screen' = Adding(Receivers(hub[c]), c)
    [] OTHER -> UNCHANGED << listed, screen >>

\* client.hidden: spectators always are.
Hidden(c) == c \notin playing \/ c \in concealed

\* send_player_list: what c is handed of the others in hub h
Handed(c, h) == {id[d] : d \in {d \in listed \ {c} : hub[d] = h}}

-----------------------------------------------------------------------------
\* Clients

FreeIds == Ids \ {id[c] : c \in online}

Connect(c) ==
  /\ c \notin online
  /\ FreeIds # {}
  /\ online' = online \cup {c}
  /\ id' = [id EXCEPT ![c] = Min(FreeIds)]
  /\ UNCHANGED << hub, playing, concealed, registered, listed, screen >>

\* net_cmd_rd, the first time: send_done and register_client.  No character
\* is left, so that the client is not announced yet.
Join(c) ==
  /\ c \in online \ registered
  /\ playing' = playing \ {c}
  /\ registered' = registered \cup {c}
  /\ screen' = [screen EXCEPT ![c] = Handed(c, hub[c])]
  /\ UNCHANGED << online, id, hub, concealed, listed >>

\* Mutant: the client is dropped from the receivers only.
StillListed(c) == listed

Unlisted(c) == listed \ {c}

\* TsuServer3.remove_client: unregister_client, and the id is free.
Disconnect(c) ==
  /\ c \in online
  /\ online' = online \ {c}
  /\ registered' = registered \ {c}
  /\ listed' = Unlisted(c)
  /\ screen' = [(IF c \in listed THEN Removing(Receivers(hub[c]), c) ELSE screen)
                  EXCEPT ![c] = {}]
  /\ id' = [id EXCEPT ![c] = 0]
  /\ hub' = [hub EXCEPT ![c] = Lobby]
  /\ playing' = playing \ {c} /\ concealed' = concealed \ {c}

\* send_done on its own: the character selection is opened for the client,
\* which is a spectator from then on.  The observer is not told.
CharSelect(c) ==
  /\ c \in playing
  /\ playing' = playing \ {c}
  /\ UNCHANGED << online, id, hub, concealed, registered, listed, screen >>

\* Mutant: only a client that is announced is looked at again.
OnlyIfListed(c) == c \in listed

\* notify_character_changed: the listing may have to be added or dropped.
Relisted(c) == c \in registered

\* change_character: to a character or to spectator
ChangeCharacter(c, spectate) ==
  /\ c \in online
  /\ playing' = IF spectate THEN playing \ {c} ELSE playing \cup {c}
  /\ IF Relisted(c)
       THEN NotifyVisibilityChanged(c, spectate \/ c \in concealed)
       ELSE UNCHANGED << listed, screen >>
  /\ UNCHANGED << online, id, hub, concealed, registered >>

\* hide: by oneself, by a CM, as a GM, in evidence
Hide(c, tog) ==
  /\ c \in online
  /\ concealed' = IF tog THEN concealed \cup {c} ELSE concealed \ {c}
  /\ NotifyVisibilityChanged(c, tog \/ c \notin playing)
  /\ UNCHANGED << online, id, hub, playing, registered >>

-----------------------------------------------------------------------------
\* Changing hubs

\* Mutant: the old hub is not told.
OldHubKept(c) == {}

\* The clients of the old hub that drop c
OldHub(c) == Receivers(hub[c]) \ {c}

\* On the way c may be revealed in the old hub (out of the evidence that it
\* hid in, or as its GM, by remove_owner), and lose its character if the
\* hubs' lists differ.  Whether it is on the lists of the old hub by then:
Known(c, revealed) == c \in listed \/ (revealed /\ c \in playing)

\* Whether it is in sight in the new one:
Shown(c, revealed, reselect) ==
  c \in playing /\ ~reselect /\ (revealed \/ c \notin concealed)

\* What c's own list becomes: its own entry is not taken off it.
OwnScreen(c, h, known, shown) ==
  ((screen[c] \cup (IF known THEN {id[c]} ELSE {})) \ {id[d] : d \in OldHub(c)})
    \cup Handed(c, h) \cup (IF shown THEN {id[c]} ELSE {})

\* set_area into hub h, which ends in notify_hub_changed: both sides of the
\* old hub's entries go, those of the new hub come.
ChangeHub(c, h, revealed, reselect) ==
  LET known == Known(c, revealed)
      shown == Shown(c, revealed, reselect)
  IN  /\ c \in online
      /\ h # hub[c]
      /\ revealed => c \in concealed
      /\ hub' = [hub EXCEPT ![c] = h]
      /\ playing' = playing \ (IF reselect THEN {c} ELSE {})
      /\ concealed' = IF revealed THEN concealed \ {c} ELSE concealed
      /\ IF c \in registered
           THEN /\ listed' = IF shown THEN listed \cup {c} ELSE listed \ {c}
                /\ screen' = [t \in Client |->
                     IF t = c THEN OwnScreen(c, h, known, shown)
                     ELSE (screen[t] \ IF known /\ t \in OldHub(c) THEN {id[c]} ELSE {})
                            \cup IF shown /\ t \in Receivers(h) THEN {id[c]} ELSE {}]
           ELSE UNCHANGED << listed, screen >>
      /\ UNCHANGED << online, id, registered >>

Next ==
  \/ \E c \in Client : \/ Connect(c) \/ Join(c) \/ Disconnect(c)
                       \/ CharSelect(c)
  \/ \E c \in Client, b \in BOOLEAN : ChangeCharacter(c, b) \/ Hide(c, b)
  \/ \E c \in Client, h \in Hub, revealed, reselect \in BOOLEAN :
       ChangeHub(c, h, revealed, reselect)

Spec == Init /\ [][Next]_vars

-----------------------------------------------------------------------------
\* Properties

\* Everybody who has joined has the announced clients of the own hub on the
\* list, and nobody else: no client of another hub, and no one that left,
\* whose id may be a new client's by now.
ListsAgree ==
  \A t \in registered : screen[t] \ {id[t]} = Handed(t, hub[t])

\* Nobody who plays in sight of others is missing from their lists, however it
\* came into sight (a character taken, /unhide, a GM's rights given up).
NobodyIsMissing == \A c \in registered : ~Hidden(c) => c \in listed

=============================================================================
