----------------------------- MODULE Membership -----------------------------
(***************************************************************************)
(* Who is connected, in which area, with which authority, following whom.  *)
(*                                                                         *)
(* The server runs on one asyncio event loop: a packet handler runs to     *)
(* its end before the next one starts.  Every handler is one action here,  *)
(* except Client.change_area, whose loop over the followers recurses: its  *)
(* activation records are kept in "frames", and every other handler waits  *)
(* for frames = << >>.  Client, Area and Hub stand for the Python objects. *)
(***************************************************************************)
EXTENDS Naturals, Sequences

CONSTANTS
  Client,       \* connections the server may ever have at the same time
  Area, Hub,    \* Area and AreaManager objects
  Ipid, Hdid,   \* addresses and hardware ids
  None,         \* no leader, no continuation
  HubOf,        \* the AreaManager of an area
  DefaultArea,  \* AreaManager.default_area() of each hub
  DefaultHub,   \* HubManager.default_hub()
  IpidOf,       \* the address a connection comes from
  HdidOf,       \* the hardware id a connection sends with HI
  Mod,          \* connections logged in as moderators
  SingleCm,     \* hubs whose single_cm preference is set
  AutoKick,     \* hubs whose autokick_to_latest_area preference is set
  Charlist,     \* the character list of each hub
  CanGm,        \* hubs whose can_gm preference is set
  RemoteGmOnly, \* hubs that only the GM panel may claim
  CanCm         \* areas whose can_cm preference is set

ASSUME TopologyAssumption ==
  /\ HubOf \in [Area -> Hub]
  /\ DefaultArea \in [Hub -> Area]
  /\ \A h \in Hub : HubOf[DefaultArea[h]] = h
  /\ DefaultHub \in Hub

ASSUME ClientAssumption ==
  /\ IpidOf \in [Client -> Ipid]
  /\ HdidOf \in [Client -> Hdid]
  /\ Mod \subseteq Client
  /\ None \notin Client

VARIABLES
  online,      \* client_manager.clients
  checked,     \* clients whose HI packet was accepted (is_checked)
  spectating,  \* clients with char_id = -1
  area,        \* client.area
  clients,     \* area.clients
  cms,         \* area._owners
  gms,         \* area_manager.owners
  following,   \* client.following
  forced,      \* clients with forced_to_follow
  frames       \* activations of change_area that have not returned

vars == << online, checked, spectating, area, clients, cms, gms, following,
           forced, frames >>

(* One activation of change_area: who moves, where to, the clients its     *)
(* loop has not reached, and the target /follow records once it returns.   *)
Frame == [who : Client, to : Area, todo : SUBSET Client,
          follow : Client \cup {None}]

TypeOK ==
  /\ online \subseteq Client
  /\ checked \subseteq online
  /\ spectating \subseteq online
  /\ area \in [Client -> Area]
  /\ clients \in [Area -> SUBSET Client]
  /\ cms \in [Area -> SUBSET Client]
  /\ gms \in [Hub -> SUBSET Client]
  /\ following \in [Client -> Client \cup {None}]
  /\ forced \subseteq online
  /\ frames \in Seq(Frame)

-----------------------------------------------------------------------------
\* Reading the state

Idle == frames = << >>

ClientHub(c) == HubOf[area[c]]

\* Area.owners: the CMs of the area and the GMs of its hub.
owners(a) == gms[HubOf[a]] \cup cms[a]

IsGm(c) == c \in gms[ClientHub(c)]

\* Client.get_targets by id, not local: the clients of the caller's hub.
Targets(c) == UNION {clients[a] : a \in {x \in Area : HubOf[x] = ClientHub(c)}}

\* Whether change_area skips its access checks.
Allowed(c, to) == c \in Mod \/ c \in owners(to) \/ c \in spectating

Followers(fol, c) == {f \in Client : fol[f] = c}

-----------------------------------------------------------------------------
\* The parts of Client.set_area

\* Mutant: the single_cm preference is forgotten when a CM walks away.
LosesCmInOtherHubOnly(c, a, to) ==
  HubOf[a] = ClientHub(c) /\ HubOf[to] # ClientHub(c)

\* CM rights in every area of the hub go on a change of hub, those in the
\* area left go in a single_cm hub.
LosesCm(c, a, to) ==
  \/ HubOf[a] = ClientHub(c) /\ HubOf[to] # ClientHub(c)
  \/ a = area[c] /\ HubOf[a] \in SingleCm

LosesGm(c, h, to) == h = ClientHub(c) /\ h # HubOf[to]

\* Mutant: the client stays in the client set of the area it leaves.
EnteredOnly(c, to) == [clients EXCEPT ![to] = @ \cup {c}]

\* Area.remove_client of the old area, Area.new_client of the new one.
Entered(c, to) ==
  [a \in Area |-> IF a = to THEN clients[a] \cup {c}
                  ELSE IF a = area[c] THEN clients[a] \ {c}
                  ELSE clients[a]]

\* The leader must be in the new area; fol is the following relation the
\* caller has just stored.
KeepLeader(fol, c, to) ==
  IF fol[c] \in clients[to] THEN fol ELSE [fol EXCEPT ![c] = None]

\* A change of hub brings up the character screen unless both hubs use one
\* character list and the new one has no autokick.
CharSelectNeeded(c, to) ==
  /\ HubOf[to] # ClientHub(c)
  /\ HubOf[to] \in AutoKick \/ Charlist[HubOf[to]] # Charlist[ClientHub(c)]

\* Client.set_area; fol and spec are what the caller has just stored.
SetArea(fol, spec, c, to) ==
  /\ gms' = [h \in Hub |-> IF LosesGm(c, h, to) THEN gms[h] \ {c} ELSE gms[h]]
  /\ cms' = [a \in Area |-> IF LosesCm(c, a, to) THEN cms[a] \ {c} ELSE cms[a]]
  /\ clients' = Entered(c, to)
  /\ area' = [area EXCEPT ![c] = to]
  /\ following' = KeepLeader(fol, c, to)
  /\ spectating' = IF CharSelectNeeded(c, to) THEN spec \cup {c} ELSE spec

-----------------------------------------------------------------------------
\* Connections and characters

Init ==
  /\ online = {} /\ checked = {} /\ spectating = {}
  /\ area = [c \in Client |-> DefaultArea[DefaultHub]]
  /\ clients = [a \in Area |-> {}]
  /\ cms = [a \in Area |-> {}]
  /\ gms = [h \in Hub |-> {}]
  /\ following = [c \in Client |-> None]
  /\ forced = {}
  /\ frames = << >>

\* TsuServer3.new_client; the Client object is new.
Connect(c) ==
  /\ Idle
  /\ c \notin online
  /\ online' = online \cup {c}
  /\ area' = [area EXCEPT ![c] = DefaultArea[DefaultHub]]
  /\ clients' = [clients EXCEPT ![DefaultArea[DefaultHub]] = @ \cup {c}]
  /\ UNCHANGED << checked, spectating, cms, gms, following, forced, frames >>

\* HI from a client that is not banned.
Handshake(c) ==
  /\ Idle
  /\ c \in online \ checked
  /\ checked' = checked \cup {c}
  /\ UNCHANGED << online, spectating, area, clients, cms, gms, following,
                  forced, frames >>

\* Mutant: only the CM rights of the area the client is in are taken back.
CmsLeftHere(c) == [cms EXCEPT ![area[c]] = @ \ {c}]

\* CM rights are taken back in every area of every hub.
CmsLeft(c) == [a \in Area |-> cms[a] \ {c}]

\* Mutant: the followers of the one that left keep following it.
OwnFollowGone(c) == [following EXCEPT ![c] = None]

\* Nobody follows a client that left; its own fields are gone with it.
FollowGone(c) == [f \in Client |-> IF following[f] = c \/ f = c
                                     THEN None ELSE following[f]]

\* TsuServer3.remove_client, run by connection_lost: Area.remove_client, then
\* ClientManager.remove_client.  GM rights are taken back in the hub the
\* client is in only.
Disconnect(c) ==
  /\ Idle
  /\ c \in online
  /\ online' = online \ {c}
  /\ checked' = checked \ {c}
  /\ spectating' = spectating \ {c}
  /\ clients' = [clients EXCEPT ![area[c]] = @ \ {c}]
  /\ gms' = [gms EXCEPT ![ClientHub(c)] = @ \ {c}]
  /\ cms' = CmsLeft(c)
  /\ following' = FollowGone(c)
  /\ forced' = forced \ {c}
  /\ UNCHANGED << area, frames >>

\* send_done: RD from the client, /switch, or a character list that changed.
CharSelect(c) ==
  /\ Idle
  /\ c \in online
  /\ spectating' = spectating \cup {c}
  /\ UNCHANGED << online, checked, area, clients, cms, gms, following, forced,
                  frames >>

\* change_character to a character of the list.  In an autokick hub the
\* character may have a latest area, never the default one.
SelectCharacter(c) ==
  /\ Idle
  /\ c \in checked
  /\ \/ /\ spectating' = spectating \ {c}
        /\ UNCHANGED << area, clients, cms, gms, following >>
     \/ /\ ClientHub(c) \in AutoKick
        /\ \E a \in Area :
             /\ HubOf[a] = ClientHub(c) /\ a # DefaultArea[HubOf[a]]
             /\ SetArea(following, spectating \ {c}, c, a)
  /\ UNCHANGED << online, checked, forced, frames >>

-----------------------------------------------------------------------------
\* Moving, and being followed

\* The areas /area and /hub lead to.
Reachable(c) == {a \in Area : HubOf[a] = ClientHub(c) \/ a = DefaultArea[HubOf[a]]}

\* "You can't escape when you've been forced to follow someone!"
HeldBack(c, to) ==
  /\ ~Allowed(c, to)
  /\ c \in forced
  /\ following[c] # None
  /\ area[following[c]] # to

\* Mutant: change_area does not look whether the client is there already.
MayEnterAgain(c, to) == ~HeldBack(c, to)

\* change_area cannot succeed otherwise.  Its other obstacles (locks, links,
\* passwords, spectating, hiding places, delays, taken characters) are left
\* open: each may let the client pass or not.
MayEnter(c, to) == area[c] # to /\ ~HeldBack(c, to)

Call(c, to, f) == [who |-> c, to |-> to, todo |-> online, follow |-> f]

Top == frames[Len(frames)]

Caller == SubSeq(frames, 1, Len(frames) - 1)

\* change_area up to its loop over the followers, for a client that gets in.
ChangeArea(c, to) ==
  /\ Idle
  /\ c \in checked
  /\ to \in Reachable(c)
  /\ MayEnter(c, to)
  /\ SetArea(following, spectating, c, to)
  /\ frames' = << Call(c, to, None) >>
  /\ UNCHANGED << online, checked, forced >>

\* The loop comes to a client that follows the one moving.
Visits(f) ==
  /\ ~Idle
  /\ f \in Top.todo
  /\ following[f] = Top.who

Visited(f) == [frames EXCEPT ![Len(frames)].todo = @ \ {f}]

\* The leader is in another hub now.
LeaderLeftHub(f) ==
  /\ Visits(f)
  /\ ClientHub(f) # ClientHub(Top.who)
  /\ following' = [following EXCEPT ![f] = None]
  /\ frames' = Visited(f)
  /\ UNCHANGED << online, checked, spectating, area, clients, cms, gms, forced >>

\* change_area of the follower succeeds.
FollowerComes(f) ==
  /\ Visits(f)
  /\ ClientHub(f) = ClientHub(Top.who)
  /\ MayEnter(f, Top.to)
  /\ SetArea(following, spectating, f, Top.to)
  /\ frames' = Append(Visited(f), Call(f, Top.to, None))
  /\ UNCHANGED << online, checked, forced >>

\* try_access_area fails: change_area reports it and returns, no exception.
FollowerRefused(f) ==
  /\ Visits(f)
  /\ ClientHub(f) = ClientHub(Top.who)
  /\ MayEnter(f, Top.to)
  /\ ~Allowed(f, Top.to)
  /\ frames' = Visited(f)
  /\ UNCHANGED << online, checked, spectating, area, clients, cms, gms,
                  following, forced >>

\* The return of change_area, and of /follow around it.
Return(fol) ==
  /\ frames' = Caller
  /\ IF Top.follow = None
       THEN following' = fol /\ UNCHANGED forced
       ELSE /\ following' = [fol EXCEPT ![Top.who] = Top.follow]
            /\ forced' = forced \ {Top.who}
  /\ UNCHANGED << online, checked, spectating, area, clients, cms, gms >>

\* change_area of the follower raises ClientError (always so when it is there
\* already): it stops following, and the loop is left for good.
FollowerFails(f) ==
  /\ Visits(f)
  /\ ClientHub(f) = ClientHub(Top.who)
  /\ Return([following EXCEPT ![f] = None])

\* Mutant: the loop goes on until nobody follows any more.
NobodyFollows == Followers(following, Top.who) = {}

\* No client is left to visit that follows the one that moved.
LoopDone == Followers(following, Top.who) \cap Top.todo = {}

LoopEnds ==
  /\ ~Idle
  /\ LoopDone
  /\ Return(following)

-----------------------------------------------------------------------------
\* Commands about following

\* /follow
Follow(c, t) ==
  /\ Idle
  /\ c \in checked
  /\ t \in Targets(c) \ {c}
  /\ c \notin forced \/ c \in Mod \/ IsGm(c) \/ following[c] = None
  /\ t \in clients[area[c]] \/ c \in Mod \/ IsGm(c)
  /\ following[c] # t
  /\ \/ /\ area[c] = area[t]
        /\ following' = [following EXCEPT ![c] = t]
        /\ forced' = forced \ {c}
        /\ UNCHANGED << area, clients, cms, gms, spectating, frames >>
     \/ /\ MayEnter(c, area[t])
        /\ SetArea(following, spectating, c, area[t])
        /\ frames' = << Call(c, area[t], t) >>
        /\ UNCHANGED forced
  /\ UNCHANGED << online, checked >>

\* /unfollow, or /follow with the leader one has already
Unfollow(c) ==
  /\ Idle
  /\ c \in checked
  /\ following[c] # None
  /\ c \notin forced \/ c \in Mod \/ IsGm(c)
  /\ following' = [following EXCEPT ![c] = None]
  /\ forced' = forced \ {c}
  /\ UNCHANGED << online, checked, spectating, area, clients, cms, gms, frames >>

\* /unfollow of someone who follows nobody shakes off the followers.
ShakeOff(c) ==
  /\ Idle
  /\ c \in checked
  /\ following[c] = None
  /\ LET allowed == c \in Mod \/ IsGm(c)
         shaken == {f \in Followers(following, c) \cap Targets(c) :
                      \/ allowed
                      \/ /\ f \notin Mod /\ ~IsGm(f)
                         /\ f \in clients[area[c]]
                         /\ f \notin forced}
     IN following' = [f \in Client |-> IF f \in shaken THEN None
                                                       ELSE following[f]]
  /\ UNCHANGED << online, checked, spectating, area, clients, cms, gms, forced,
                  frames >>

\* /unfollow <id> by a moderator or GM
Free(c, t) ==
  /\ Idle
  /\ c \in checked
  /\ c \in Mod \/ IsGm(c)
  /\ t \in Targets(c) \cap forced
  /\ following' = [following EXCEPT ![t] = None]
  /\ forced' = forced \ {t}
  /\ UNCHANGED << online, checked, spectating, area, clients, cms, gms, frames >>

\* /force_follow <id>
ForceFollow(c, t) ==
  /\ Idle
  /\ c \in checked
  /\ c \in Mod \/ IsGm(c)
  /\ t \in Targets(c) \ {c}
  /\ forced' = forced \cup {t}
  /\ LET fol == [following EXCEPT ![t] = c]
     IN \/ /\ area[t] = area[c]
           /\ following' = fol
           /\ UNCHANGED << area, clients, cms, gms, spectating >>
        \/ /\ area[t] # area[c]
           /\ SetArea(fol, spectating, t, area[c])
  /\ UNCHANGED << online, checked, frames >>

\* /area_kick and /kick_to_latest_area, one target of their loop at a time
Kick(c, t, to) ==
  /\ Idle
  /\ c \in checked
  /\ t \in Targets(c)
  /\ HubOf[to] = ClientHub(c)
  /\ \/ c \in Mod \/ IsGm(c)
     \/ c \in cms[area[c]] /\ t \in clients[area[c]] /\ c \in owners(to)
  /\ SetArea(following, spectating, t, to)
  /\ UNCHANGED << online, checked, forced, frames >>

-----------------------------------------------------------------------------
\* Authority

\* client.hdid, empty until HI.
KnownHdid(c) == IF c \in checked THEN HdidOf[c] ELSE None

\* get_multiclients: what looks like the same person.
Multiclients(c) ==
  {m \in online : IpidOf[m] = IpidOf[c] \/ KnownHdid(m) = KnownHdid(c)}

\* Mutant: only the client itself is looked at.
GmElsewhereItself(t) == FALSE

\* A client of the same person is GM of another hub.
GmElsewhere(t) ==
  \E m \in Multiclients(t) : IsGm(m) /\ ClientHub(m) # ClientHub(t)

\* AreaManager.can_claim_in_game, with no GM panel session around.
CanClaimInGame(h) == h \notin RemoteGmOnly /\ gms[h] = {}

\* /gm: oneself, a client of the hub, or all of one's clients with "*", which
\* stops at the first of them that is GM elsewhere.
GrantGm(c, granted) ==
  /\ Idle
  /\ c \in checked
  /\ c \in Mod \/ ClientHub(c) \in CanGm
  /\ c \in Mod \/ IsGm(c) \/ CanClaimInGame(ClientHub(c))
  /\ granted \subseteq Targets(c)
  /\ \A t \in granted : ~GmElsewhere(t)
  /\ LET mine == Multiclients(c) \cap Targets(c)
     IN \/ granted \in {{c}, mine}
        \/ granted \subseteq mine /\ \E t \in mine : GmElsewhere(t)
        \/ (c \in Mod \/ IsGm(c)) /\ \E t \in Client : granted = {t}
  /\ gms' = [gms EXCEPT ![ClientHub(c)] = @ \cup granted]
  /\ UNCHANGED << online, checked, spectating, area, clients, cms, following,
                  forced, frames >>

\* /ungm
RevokeGm(c, t) ==
  /\ Idle
  /\ c \in checked
  /\ c \in Mod \/ IsGm(c)
  /\ t \in Targets(c) \cap gms[ClientHub(c)]
  /\ gms' = [gms EXCEPT ![ClientHub(c)] = @ \ {t}]
  /\ UNCHANGED << online, checked, spectating, area, clients, cms, following,
                  forced, frames >>

\* /cm: oneself, a client of the area, or all of one's clients with "*".  The
\* latter stops at the first client of the hub that is in another area, so
\* any part of those in this area may come before it.
GrantCm(c, granted) ==
  /\ Idle
  /\ c \in checked
  /\ c \in Mod \/ IsGm(c) \/ area[c] \in CanCm
  /\ c \in Mod \/ c \in owners(area[c]) \/ cms[area[c]] = {}
  /\ granted \subseteq clients[area[c]]
  /\ LET mine == Multiclients(c) \cap Targets(c)
     IN \/ granted \in {{c}, mine}
        \/ granted \subseteq mine /\ ~(mine \subseteq clients[area[c]])
        \/ (c \in Mod \/ c \in owners(area[c])) /\ \E t \in Client : granted = {t}
  /\ cms' = [cms EXCEPT ![area[c]] = @ \cup granted]
  /\ UNCHANGED << online, checked, spectating, area, clients, gms, following,
                  forced, frames >>

\* /uncm
RevokeCm(c, t) ==
  /\ Idle
  /\ c \in checked
  /\ c \in Mod \/ c \in owners(area[c])
  /\ t \in Targets(c) \cap cms[area[c]]
  /\ cms' = [cms EXCEPT ![area[c]] = @ \ {t}]
  /\ UNCHANGED << online, checked, spectating, area, clients, gms, following,
                  forced, frames >>

-----------------------------------------------------------------------------

Loop == (\E f \in Client : \/ LeaderLeftHub(f) \/ FollowerComes(f)
                           \/ FollowerRefused(f) \/ FollowerFails(f))
        \/ LoopEnds

Next ==
  \/ \E c \in Client : \/ Connect(c) \/ Handshake(c) \/ Disconnect(c)
                       \/ CharSelect(c) \/ SelectCharacter(c)
                       \/ Unfollow(c) \/ ShakeOff(c)
  \/ \E c \in Client, to \in Area : ChangeArea(c, to)
  \/ \E c, t \in Client : \/ Follow(c, t) \/ Free(c, t) \/ ForceFollow(c, t)
                          \/ RevokeGm(c, t) \/ RevokeCm(c, t)
  \/ \E c, t \in Client, to \in Area : Kick(c, t, to)
  \/ \E c \in Client, granted \in SUBSET Client :
       GrantGm(c, granted) \/ GrantCm(c, granted)
  \/ Loop

\* A handler that has begun runs to its end.
Spec == Init /\ [][Next]_vars /\ WF_vars(Loop)

-----------------------------------------------------------------------------
\* Properties

\* A registered client is in the client set of its own area and of no other
\* (client.area, area.clients and client_manager.clients agree), whatever
\* mixture of moves, kicks, forced moves and disconnects led there.
Placement ==
  /\ \A c \in online : c \in clients[area[c]]
  /\ \A a \in Area : \A c \in clients[a] : c \in online /\ area[c] = a

\* GM and CM rights belong to connected clients that are in the hub: no way
\* out of a hub, and no disconnect, leaves an owner behind ("Make sure a
\* single person can't hoard all the hubs", set_area).
AuthorityIsLocal ==
  /\ \A h \in Hub : \A c \in gms[h] : c \in online /\ ClientHub(c) = h
  /\ \A a \in Area : \A c \in cms[a] : c \in online /\ ClientHub(c) = HubOf[a]

\* In a single_cm hub a CM is in the one area it is CM of.
SingleCmIsPresent ==
  \A a \in Area : HubOf[a] \in SingleCm => \A c \in cms[a] : area[c] = a

\* Nobody is GM of two hubs, not even with several connections from one
\* address.  (By hardware id it does not hold: a GM may nominate a connection
\* before its HI.)
OneHubPerPerson ==
  \A g, h \in Hub : \A c \in gms[g], d \in gms[h] :
    IpidOf[c] = IpidOf[d] => g = h

\* Between handlers, a follower and its leader are both connected and in one
\* hub: the loop over followers misses nobody when the leader changes hub.
FollowWithinHub ==
  Idle => \A f \in Client : following[f] # None =>
            /\ f \in online /\ following[f] \in online
            /\ ClientHub(f) = ClientHub(following[f])

\* No client moves twice in one cascade of followers, even when clients
\* follow each other in a circle: the recursion is as deep as there are
\* clients, at most.
MovesOnce ==
  \A i, j \in 1 .. Len(frames) : frames[i].who = frames[j].who => i = j

\* A cascade of followers comes to its end: the server is not lost in it.
CascadeEnds == ~Idle ~> Idle

=============================================================================
