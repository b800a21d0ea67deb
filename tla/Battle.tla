------------------------------- MODULE Battle -------------------------------
(***************************************************************************)
(* The battle of one area (commands/battle.py): who fights, what each      *)
(* fighter has selected, the turn that is played when the number of        *)
(* selections is that of the fighters, guilds, and fighters who leave the  *)
(* area, surrender, are removed or have their place taken over by /fight.  *)
(*                                                                         *)
(* client.battle is a reference: the place of a fighter is taken over by   *)
(* sharing it, so battle objects have an identity here (Body). Numbers     *)
(* (hp, mana, the stats, chances) are abstracted to what they decide: who  *)
(* is up, who acts first, who is hit. A turn is played in one call; its    *)
(* steps are actions here, during which no command is handled. Fights are  *)
(* allowed in the area, and fighters' files exist.                         *)
(*                                                                         *)
(* client.battle goes with the client into other areas, whose battles and  *)
(* guilds are not modelled: what they do to the objects of clients that    *)
(* are, or have been, there is.                                            *)
(***************************************************************************)
EXTENDS Integers, Sequences, FiniteSets

CONSTANTS
  Client,
  Body,      \* identities of BattleChar objects
  Guild,     \* names of guilds
  Ailments,  \* the statuses that moves inflict
  None,
  Picks,     \* the kinds of moves and items the fighters have
  MaxListed, \* bound on the length of a guild's list, which may name a client twice
  GuildCap,  \* bound: guilds are formed, and items are used, while so many clients are
             \* there or have fighters
  MaxCount, Undercut,  \* bounds on num_selected_move: -Undercut .. MaxCount
  Written    \* what battles and guilds of other areas make of an object

ASSUME BattleAssumption ==
  /\ IsFiniteSet(Client) /\ IsFiniteSet(Body)
  /\ Cardinality(Body) >= Cardinality(Client)
  /\ None \notin Client \cup Body \cup Guild
  /\ Picks \subseteq {"hit", "hitAll", "help", "helpAll", "item", "itemAll"}
  /\ {MaxCount, GuildCap} \subseteq Nat /\ MaxListed \in Nat /\ Undercut \in Nat

VARIABLES
  here,       \* area.clients
  attached,   \* others whose client.area this is: their connection, or their way out, ended here
  lost,       \* those of them whose connection is lost
  abroad,     \* clients that fight in other areas, or are in guilds there
  fighters,   \* area.fighters
  counted,    \* area.num_selected_move
  started,    \* area.battle_started
  guilds,     \* area.battle_guilds: name -> members, the leader first
  body,       \* client.battle: a Body, or None
  char,       \* the BattleChar objects
  queue,      \* fighters that have not acted in the turn that is played
  playing,    \* whether a turn is being played
  takenOver,  \* history: who refers to the object of a place that is another's, to one that
              \* such a client brought into a guild, or to one that another area wrote to
  disturbed   \* history: a selection was lost without being uncounted, or one brought
              \* in uncounted; a turn or a departure failed; somebody of takenOver joined
              \* a battle or a guild, or came to be of it while fighting

vars == << here, attached, lost, abroad, fighters, counted, started, guilds, body, char, queue,
           playing, takenOver, disturbed >>

\* Moves hit one or all ("atkall"), enemies or, to help, allies; so do items.
Moves == {"hit", "hitAll", "help", "helpAll"}

Items == {"item", "itemAll"}

Area == {"hitAll", "helpAll", "itemAll"}

Selection == Moves \cup Items \cup {"none", "skip"}

Statuses == Ailments \cup {"none", "sleep-2", "sleep-3", "enraged"}

BattleChar ==
  [up : BOOLEAN, sel : Selection, target : Client \cup {None},
   status : Statuses, guild : Guild \cup {None}, on : BOOLEAN]

ASSUME WrittenAssumption == Written \subseteq BattleChar

\* A new BattleChar; "on" stands for a current_client.
Unhurt(g) ==
  [up |-> TRUE, sel |-> "none", target |-> None, status |-> "none", guild |-> g, on |-> TRUE]

\* Clients whose client.area this is.
Inside == here \cup attached

Members(g) == {guilds[g][i] : i \in DOMAIN guilds[g]}

Has(c) == body[c] # None

Of(c) == char[body[c]]

Selected(c) == Of(c).sel # "none"

Sharing(c) == {d \in Client : body[d] = body[c]}

\* The bound GuildCap, when c comes or gets a fighter.
Around == here \cup {d \in Client : Has(d)}

Bounded(c) == c \in Around \/ DOMAIN guilds = {} \/ Cardinality(Around) < GuildCap

TypeOK ==
  /\ here \subseteq Client /\ attached \subseteq Client \ here /\ lost \subseteq attached
  /\ abroad \subseteq Client
  /\ fighters \subseteq Client /\ queue \subseteq fighters
  /\ counted \in Int
  /\ {started, playing, disturbed} \subseteq BOOLEAN /\ takenOver \subseteq Client
  /\ DOMAIN guilds \subseteq Guild
  /\ \A g \in DOMAIN guilds : guilds[g] \in Seq(Client)
  /\ body \in [Client -> Body \cup {None}]
  /\ char \in [Body -> BattleChar]
  /\ \A c \in fighters : Has(c)

Init ==
  /\ here = {} /\ attached = {} /\ lost = {} /\ abroad = {}
  /\ fighters = {} /\ counted = 0 /\ started = FALSE
  /\ guilds = [g \in {} |-> << >>]
  /\ body = [c \in Client |-> None]
  /\ char = [b \in Body |-> Unhurt(None)]
  /\ queue = {} /\ playing = FALSE
  /\ takenOver = {} /\ disturbed = FALSE

-----------------------------------------------------------------------------
\* Battle objects

\* find_guild: of the guilds of the area the client is in. Other areas have guilds for those
\* that have been abroad.
FindGuild(c, gs) ==
  LET In(g) == \E i \in DOMAIN gs[g] : gs[g][i] = c
  IN IF c \notin Inside THEN IF c \in abroad THEN Guild \cup {None} ELSE {None}
     ELSE {IF \E g \in DOMAIN gs : In(g) THEN CHOOSE g \in DOMAIN gs : In(g) ELSE None}

\* reload_fighter, choose_fighter: new objects for the clients of D, over objects
\* as chars has them, with the guilds gs.
Reload(D, chars, gs) ==
  \E fresh \in [D -> Body \ {body[c] : c \in Client \ D}], found \in [D -> Guild \cup {None}] :
    /\ \A c, d \in D : fresh[c] = fresh[d] => c = d
    /\ \A c \in D : found[c] \in FindGuild(c, gs)
    /\ body' = [c \in Client |-> IF c \in D THEN fresh[c] ELSE body[c]]
    /\ char' = [b \in Body |->
                  IF \E c \in D : fresh[c] = b
                  THEN Unhurt(found[CHOOSE c \in D : fresh[c] = b])
                  ELSE IF \E c \in Client \ D : body[c] = b THEN chars[b]
                  ELSE Unhurt(None)]      \* nobody's any more
    /\ takenOver' = (takenOver \ D) \cup {c \in D \ Inside : found[c] # None}

Idle == ~playing

\* A command in the area.
Command(c) == Idle /\ c \in Inside \ lost

\* The object of a fighter is replaced while its selection stays counted, or by one that
\* names a guild of another area.
Loses(c) == disturbed' = (disturbed \/ (c \in fighters /\ (Selected(c) \/ c \in takenOver')))

\* choose_fighter, here or elsewhere; reload_fighter in a battle elsewhere.
Choose(c) ==
  /\ Idle /\ Bounded(c) /\ c \notin lost \ abroad
  /\ Reload({c}, char, guilds)
  /\ IF Has(c) THEN Loses(c) ELSE UNCHANGED disturbed
  /\ UNCHANGED << here, fighters, counted, started, guilds, queue, playing, attached, lost,
                  abroad >>

\* create_move and delete_move end with a reload.
EditMoves(c) == Has(c) /\ Choose(c)

-----------------------------------------------------------------------------
\* Presence

Enter(c) ==
  /\ Idle /\ c \notin Inside /\ Bounded(c)
  /\ here' = here \cup {c}
  /\ UNCHANGED << fighters, counted, started, guilds, body, char, queue, playing, disturbed,
                  takenOver, attached, lost, abroad >>

Without(s, c) ==
  LET i == CHOOSE j \in DOMAIN s : s[j] = c /\ \A k \in 1 .. j - 1 : s[k] # c
  IN IF \E j \in DOMAIN s : s[j] = c
     THEN SubSeq(s, 1, i - 1) \o SubSeq(s, i + 1, Len(s)) ELSE s

CountedForEver(c) == counted

UncountedOnLeave(c) == IF Selected(c) THEN counted - 1 ELSE counted

\* The guild that the client's object names is one of the area and lists the client.
Listed(c) == LET g == Of(c).guild IN g = None \/ (g \in DOMAIN guilds /\ c \in Members(g))

\* Before the battle starts it goes on without its fighter. Where the guild does not list
\* that, an exception comes before the selection is uncounted.
Departs(c) == c \in fighters /\ ~started

LeavingFails(c) == Departs(c) /\ ~Listed(c)

\* Area.remove_client. A selection that is not counted any more stays in the object,
\* so that a fighter who comes back has selected already.
Removed(c) ==
  /\ here' = here \ {c}
  /\ fighters' = IF Departs(c) THEN fighters \ {c} ELSE fighters
  /\ disturbed' = (disturbed \/ LeavingFails(c))
  /\ \/ /\ c \notin fighters
        /\ UNCHANGED << counted, guilds, char >>
     \/ /\ c \in fighters /\ started
        /\ char' = [char EXCEPT ![body[c]].on = FALSE]
        /\ UNCHANGED << counted, guilds >>
     \/ /\ Departs(c)
        /\ char' = [char EXCEPT ![body[c]].guild = None]
        /\ \/ LeavingFails(c) /\ UNCHANGED << counted, guilds >>
           \/ /\ ~LeavingFails(c) /\ (Selected(c) => counted > -Undercut)
              /\ guilds' = IF Of(c).guild = None THEN guilds
                           ELSE [guilds EXCEPT ![Of(c).guild] = Without(@, c)]
              /\ counted' = UncountedOnLeave(c)

\* set_area. When remove_client fails the client stays, without being of area.clients, and
\* can go away later without being removed.
Leave(c) ==
  /\ Command(c)
  /\ \/ /\ c \in here /\ Removed(c)
        /\ attached' = IF LeavingFails(c) THEN attached \cup {c} ELSE attached
     \/ /\ c \notin here /\ attached' = attached \ {c}
        /\ UNCHANGED << here, fighters, counted, guilds, char, disturbed >>
  /\ UNCHANGED << started, body, queue, playing, takenOver, lost, abroad >>

\* tsuserver.remove_client. client.area is what it was.
Disconnect(c) ==
  /\ Command(c) /\ Removed(c)
  /\ attached' = attached \cup {c} /\ lost' = lost \cup {c}
  /\ UNCHANGED << started, body, queue, playing, takenOver, abroad >>

-----------------------------------------------------------------------------
\* Other areas

\* Battles and guilds of other areas write to the object of a client that is there, or that
\* they still list.
Elsewhere(c) ==
  /\ Idle /\ Has(c) /\ c \in (Client \ Inside) \cup abroad
  /\ abroad' = abroad \cup {c}
  /\ \E o \in Written : char' = [char EXCEPT ![body[c]] = o]
  /\ takenOver' = takenOver \cup Sharing(c)
  /\ disturbed' = (disturbed \/ Sharing(c) \cap fighters # {})
  /\ UNCHANGED << here, fighters, counted, started, guilds, body, queue, playing, attached,
                  lost >>

\* /fight in a battle there, in the place of t.
ReconnectElsewhere(c, t) ==
  /\ Idle /\ Bounded(c) /\ c \notin Inside
  /\ t \in abroad \ {c} /\ Has(t) /\ Of(t).on
  /\ abroad' = abroad \cup {c}
  /\ body' = [body EXCEPT ![c] = body[t]]
  /\ char' = [b \in Body |-> IF \E d \in Client : body'[d] = b THEN char[b] ELSE Unhurt(None)]
  /\ takenOver' = takenOver \cup Sharing(t) \cup {c}
  /\ disturbed' = (disturbed \/ (Sharing(t) \cup {c}) \cap fighters # {})
  /\ UNCHANGED << here, fighters, counted, started, guilds, queue, playing, attached, lost >>

-----------------------------------------------------------------------------
\* Fighting

\* /fight of somebody who is not in the battle, before it starts.
Fight(c) ==
  /\ Command(c) /\ Has(c) /\ c \notin fighters /\ ~started
  /\ fighters' = fighters \cup {c}
  /\ disturbed' = (disturbed \/ Selected(c) \/ c \in takenOver)
  /\ UNCHANGED << here, counted, started, guilds, body, char, queue, playing, takenOver,
                  attached, lost, abroad >>

TwoInOne(c, t) == fighters \cup {c}

Replaced(c, t) == (fighters \ {t}) \cup {c}

\* /fight in a started battle: takes the place of a fighter that is still connected
\* (its name, or chance, says which). It fails half-way where the guild does not list it.
Reconnect(c, t) ==
  /\ Command(c) /\ started /\ c \notin fighters
  /\ t \in fighters /\ Of(t).on
  /\ body' = [body EXCEPT ![c] = body[t]]
  /\ char' = [b \in Body |-> IF \E d \in Client : body'[d] = b THEN char[b] ELSE Unhurt(None)]
  /\ LET g == Of(t).guild
         i == CHOOSE j \in DOMAIN guilds[g] : guilds[g][j] = t
     IN IF Listed(t)
        THEN /\ fighters' = Replaced(c, t)
             /\ guilds' = IF g = None THEN guilds ELSE [guilds EXCEPT ![g][i] = c]
             /\ takenOver' = (IF t \in takenOver THEN {c} \cup takenOver ELSE takenOver \ {c}) \cup {t}
        ELSE takenOver' = takenOver \cup {c} /\ UNCHANGED << fighters, guilds >>
  /\ UNCHANGED << here, counted, started, queue, playing, disturbed, attached, lost, abroad >>

\* /fight of a fighter that came back.
Resume(c) ==
  /\ Command(c) /\ started /\ c \in fighters
  /\ char' = [char EXCEPT ![body[c]].on = TRUE]
  /\ UNCHANGED << here, fighters, counted, started, guilds, body, queue, playing, disturbed,
                  takenOver, attached, lost, abroad >>

StillStarted(left) == started

StillOn(left) == started /\ left # {}

\* surrender, remove_fighter: one that has selected is reset and stays, its selection
\* counted; the other goes, and nobody looks whether the turn is complete now.
GivesUp(c) ==
  /\ fighters' = IF Selected(c) THEN fighters ELSE fighters \ {c}
  /\ Reload({c}, char, guilds)
  /\ started' = StillOn(fighters')
  /\ Loses(c)
  /\ UNCHANGED << here, counted, guilds, queue, playing, attached, lost, abroad >>

Surrender(c) == Command(c) /\ c \in fighters /\ GivesUp(c)

RemoveFighter(c) == Idle /\ c \in fighters /\ GivesUp(c)

RefreshBattle ==
  /\ Idle
  /\ Reload(fighters, char, guilds)
  /\ fighters' = {} /\ counted' = 0 /\ started' = FALSE
  /\ UNCHANGED << here, guilds, queue, playing, disturbed, attached, lost, abroad >>

-----------------------------------------------------------------------------
\* Guilds

\* Somebody joins a guild: the object that says so may be another's, whom it does not list.
Brings(c) ==
  takenOver' = IF c \in takenOver THEN takenOver \cup {d \in Client : body[d] = body[c]}
               ELSE takenOver

CreateGuild(c, g) ==
  /\ Command(c) /\ Has(c) /\ g \notin DOMAIN guilds
  /\ Cardinality(Around) <= GuildCap
  /\ guilds' = [h \in DOMAIN guilds \cup {g} |-> IF h = g THEN << c >> ELSE guilds[h]]
  /\ char' = [char EXCEPT ![body[c]].guild = g]
  /\ disturbed' = (disturbed \/ c \in takenOver) /\ Brings(c)
  /\ UNCHANGED << here, fighters, counted, started, body, queue, playing, attached, lost,
                  abroad >>

Leads(c, g) ==
  Has(c) /\ Of(c).guild = g /\ g \in DOMAIN guilds /\ guilds[g] # << >> /\ Head(guilds[g]) = c

\* join_guild: the leader lists somebody.
JoinGuild(c, t) ==
  /\ Command(c) /\ t \in here /\ Has(t) /\ Of(t).guild = None
  /\ \E g \in Guild :
       /\ Leads(c, g) /\ Len(guilds[g]) < MaxListed
       /\ guilds' = [guilds EXCEPT ![g] = Append(@, t)]
       /\ char' = [char EXCEPT ![body[t]].guild = g]
  /\ disturbed' = (disturbed \/ t \in takenOver) /\ Brings(t)
  /\ UNCHANGED << here, fighters, counted, started, body, queue, playing, attached, lost,
                  abroad >>

\* _remove_from_guild, by oneself (here or elsewhere), a GM, or the leader.
LeaveGuild(t) ==
  /\ Idle /\ Has(t) /\ Of(t).guild # None
  /\ t \notin lost \/ \E c \in Inside \ lost, g \in Guild : Leads(c, g) /\ t \in Members(g)
  /\ LET g == Of(t).guild
         listed == t \in Inside /\ g \in DOMAIN guilds /\ t \in Members(g)
         left == Without(guilds[g], t)
     IN guilds' = IF ~listed THEN guilds
                  ELSE IF left = << >> THEN [h \in DOMAIN guilds \ {g} |-> guilds[h]]
                  ELSE [guilds EXCEPT ![g] = left]
  /\ char' = [char EXCEPT ![body[t]].guild = None]
  /\ UNCHANGED << here, fighters, counted, started, body, queue, playing, disturbed, takenOver,
                  attached, lost, abroad >>

\* Closing a guild: the objects of its members forget it too.
Forgetting(D) == {body[c] : c \in UNION {Members(g) : g \in D}}

CloseGuilds(D) ==
  /\ Idle /\ D \subseteq DOMAIN guilds
  /\ guilds' = [g \in DOMAIN guilds \ D |-> guilds[g]]
  /\ char' = [b \in Body |-> IF b \in Forgetting(D)
                             THEN [char[b] EXCEPT !.guild = None] ELSE char[b]]
  /\ UNCHANGED << here, fighters, counted, started, body, queue, playing, disturbed, takenOver,
                  attached, lost, abroad >>

-----------------------------------------------------------------------------
\* Selecting

\* _finish_turn_if_ready: the turn is played when the numbers are equal.
FinishIfReady(n) ==
  /\ counted' = n
  /\ playing' = (n = Cardinality(fighters))
  /\ queue' = IF playing' THEN fighters ELSE {}

\* A target is a fighter, and is not looked at for what hits all.
Selects(c, s, t) ==
  /\ Command(c) /\ c \in fighters /\ ~Selected(c) /\ counted < MaxCount
  /\ IF s \in Area THEN t = None ELSE t \in fighters
  /\ char' = [char EXCEPT ![body[c]].sel = s, ![body[c]].target = t, ![body[c]].on = TRUE]
  /\ FinishIfReady(counted + 1)
  /\ UNCHANGED << here, fighters, started, guilds, body, disturbed, takenOver, attached, lost,
                  abroad >>

\* The mana is there.
UseMove(c, s, t) == s \in Moves /\ Selects(c, s, t)

\* The item is in the bag, and is taken out when the turn is played.
UseItem(c, s, t) ==
  s \in Items /\ Cardinality(Around) <= GuildCap /\ Selects(c, s, t)

SkipMove(c) ==
  /\ Command(c) /\ c \in fighters /\ ~Selected(c) /\ counted < MaxCount
  /\ char' = [char EXCEPT ![body[c]].sel = "skip"]
  /\ FinishIfReady(counted + 1)
  /\ UNCHANGED << here, fighters, started, guilds, body, disturbed, takenOver, attached, lost,
                  abroad >>

ForceSkipMove(c) ==
  /\ Idle /\ c \in fighters /\ counted < MaxCount
  /\ char' = [char EXCEPT ![body[c]].sel = "skip"]
  /\ FinishIfReady(IF Selected(c) THEN counted ELSE counted + 1)
  /\ UNCHANGED << here, fighters, started, guilds, body, disturbed, takenOver, attached, lost,
                  abroad >>

-----------------------------------------------------------------------------
\* Playing a turn

\* What a status does to its fighter's action: whether it acts, and its status then.
\* (That paralysis, or the accuracy of a move, stops it is one of the ways to miss.)
Held(status) ==
  {h \in BOOLEAN \X Statuses :
    \/ status = "stunned" /\ h = << FALSE, "none" >>
    \/ status = "confused" /\ h \in {<< TRUE, "none" >>, << FALSE, status >>, << TRUE, status >>}
    \/ status = "sleep-1" /\ h = << FALSE, "sleep-2" >>
    \/ status = "sleep-2" /\ h = << FALSE, "sleep-3" >>
    \/ status = "sleep-3" /\ h = << TRUE, "none" >>
    \/ status \notin {"stunned", "confused", "sleep-1", "sleep-2", "sleep-3"}
         /\ h = << TRUE, status >>}

\* _get_move_targets, with the fighters and guilds of the area the fighter is in by now (None
\* stands for the target nobody has given).
Targets(c, s) ==
  LET g == Of(c).guild
      allies == IF g = None THEN {c} ELSE Members(g)
  IN CASE s \in Area /\ c \notin Inside -> SUBSET abroad
       [] s = "helpAll" /\ c \in Inside -> {IF g = None THEN fighters ELSE Members(g) \cap fighters}
       [] s \in {"hitAll", "itemAll"} /\ c \in Inside -> {fighters \ allies}
       [] OTHER -> {{Of(c).target} \ {None}}

\* The guild is looked up although it has been closed, or although it is of another area.
Forgotten(c, s) ==
  s \in Area /\ Of(c).guild # None /\ c \in Inside /\ Of(c).guild \notin DOMAIN guilds

Unknown(c, s) == s \in Area /\ Of(c).guild # None /\ c \notin Inside

\* Status effects: only on those without one; healing takes it away.
Ailing(status) == IF status = "none" THEN Ailments \cup {"none"} ELSE {status}

Healed(status) == {status, "none"}

\* A hit: somebody asleep wakes up, who is down suffers nothing more.
Struck(o) ==
  LET woken == IF o.status \in {"sleep-1", "sleep-2", "sleep-3"} THEN "none" ELSE o.status
  IN {[o EXCEPT !.up = FALSE, !.status = woken]}
       \cup {[o EXCEPT !.status = s] : s \in Ailing(woken)} \cup {o}

Helped(o) == {[o EXCEPT !.status = s] : s \in Healed(o.status)}

\* An item hurts by its status alone, or helps.
Treated(o) == {[o EXCEPT !.status = s] : s \in Ailing(o.status) \cup Healed(o.status)}

Outcomes(s, o) ==
  CASE s \in {"hit", "hitAll"} -> Struck(o)
    [] s \in {"help", "helpAll"} -> Helped(o)
    [] s = "item" -> Treated(o)
    [] OTHER -> {o}

\* _apply_self_buffs, and the rage that is spent on a hit.
Rage(s, status) ==
  (IF s \in {"hit", "hitAll"} /\ status = "enraged" THEN {"none"} ELSE {status})
    \cup (IF s \in {"hit", "hitAll", "item"} THEN {"enraged"} \cap Ailments ELSE {})

\* _process_fighter_action, for a move or an item that is carried out on bodies B.
CarriesOut(c, s, chars, B) ==
  \E hit \in [B -> UNION {Outcomes(s, chars[b]) : b \in B}] :
    /\ \A b \in B : hit[b] \in Outcomes(s, chars[b])
    /\ LET after == [b \in Body |-> IF b \in B THEN hit[b] ELSE chars[b]] IN
       \E r \in Rage(s, after[body[c]].status) :
         char' = [after EXCEPT ![body[c]].status = r]

\* Fighters act in the order of their speed. One whose selection was lost plays its
\* last move (moves[-1]), on the target None.
Act(c) ==
  /\ playing /\ c \in queue
  /\ queue' = queue \ {c}
  /\ \/ /\ ~Of(c).up \/ Of(c).sel = "skip"
        /\ UNCHANGED char
     \/ /\ Of(c).up /\ Of(c).sel # "skip"
        /\ \E h \in Held(Of(c).status) :
             LET held == [char EXCEPT ![body[c]].status = h[2]] IN
             \/ char' = held                  \* held back, or misses
             \/ /\ h[1]
                /\ \E s \in (IF Selected(c) THEN {Of(c).sel}
                              ELSE Picks \cap (Moves \ {"help"})) :
                     /\ ~Forgotten(c, s)
                     /\ \E T \in Targets(c, s) :
                          CarriesOut(c, s, held, {body[t] : t \in {u \in T : Has(u) /\ Of(u).up}})
  /\ UNCHANGED << here, fighters, counted, started, guilds, body, playing, disturbed, takenOver,
                  attached, lost, abroad >>

\* The turn ends in an exception: no moves, help for nobody, a guild that is gone.
\* What was done stays, the fighters stay counted, and no turn is over.
TurnFails(c) ==
  /\ playing /\ c \in queue /\ Of(c).up /\ Of(c).sel # "skip"
  /\ ~Selected(c) \/ Forgotten(c, Of(c).sel) \/ Unknown(c, Of(c).sel)
  /\ \E h \in Held(Of(c).status) :
       h[1] /\ char' = [char EXCEPT ![body[c]].status = h[2]]
  /\ queue' = {} /\ playing' = FALSE
  /\ disturbed' = TRUE
  /\ UNCHANGED << here, fighters, counted, started, guilds, body, takenOver, attached, lost,
                  abroad >>

\* _cleanup_dead_fighters: who has stayed selects anew.
Unselected(chars) ==
  [b \in Body |-> IF \E c \in fighters : body[c] = b
                  THEN [chars[b] EXCEPT !.sel = "none", !.target = None] ELSE chars[b]]

\* _resolve_battle_outcome: the guild that is left alone, if it is one.
WinningGuild(left) ==
  {g \in Guild : left # {} /\ \A c \in left : Of(c).guild = g}

\* end-of-turn damage, _cleanup_dead_fighters, _resolve_battle_outcome and the rest of
\* _finish_turn_if_ready. It fails where the guild that has won was closed, or lists nobody.
EndTurn ==
  /\ playing /\ queue = {}
  /\ \E hurt \in SUBSET {c \in fighters : Of(c).up /\ Of(c).status \in {"poison", "burn", "freeze"}} :
       LET left == {c \in fighters \ hurt : Of(c).up}
           over == Cardinality(left) <= 1
           won == WinningGuild(left)
           fails == ~over /\ \E g \in won : g \notin DOMAIN guilds \/ guilds[g] = << >>
           winners == IF over THEN left ELSE UNION {Members(g) : g \in won \cap DOMAIN guilds}
       IN /\ Reload((fighters \ left) \cup winners, Unselected(char), guilds)
          /\ fighters' = IF over \/ (won # {} /\ ~fails) THEN {} ELSE left
          /\ IF fails THEN UNCHANGED << counted, started >>
             ELSE counted' = 0 /\ started' = (fighters' # {})
          /\ disturbed' = (disturbed \/ fails)
  /\ playing' = FALSE
  /\ UNCHANGED << here, guilds, queue, attached, lost, abroad >>

-----------------------------------------------------------------------------
Next ==
  \/ \E c \in Client :
       \/ Choose(c) \/ EditMoves(c) \/ Enter(c) \/ Leave(c) \/ Disconnect(c) \/ Elsewhere(c)
       \/ Fight(c) \/ Resume(c) \/ Surrender(c) \/ RemoveFighter(c)
       \/ SkipMove(c) \/ ForceSkipMove(c) \/ LeaveGuild(c) \/ Act(c) \/ TurnFails(c)
       \/ \E t \in Client : Reconnect(c, t) \/ ReconnectElsewhere(c, t) \/ JoinGuild(c, t)
       \/ \E s \in Picks, t \in Client \cup {None} : UseMove(c, s, t) \/ UseItem(c, s, t)
       \/ \E g \in Guild : CreateGuild(c, g)
  \/ \E D \in SUBSET Guild : CloseGuilds(D)
  \/ RefreshBattle
  \/ EndTurn

Spec == Init /\ [][Next]_vars

-----------------------------------------------------------------------------
\* Properties

\* num_selected_move, which alone decides when a turn is played, is the number of
\* fighters that have selected something, as long as no fighter was reset or replaced
\* after its selection, or came back with the one it had left with, no turn has failed,
\* and nobody fights on with an object that was taken over.
CountIsRight ==
  Idle /\ ~disturbed => counted = Cardinality({c \in fighters : Selected(c)})

\* No two fighters act through one battle object, whoever took over whose place, came
\* back, was reloaded or won (a hit on one would hit the other, one selection would
\* count for both), but for clients who lost their places to others and kept the object,
\* and for those whose object they brought into a guild meanwhile.
OneBodyEach ==
  \A c, d \in fighters : c # d /\ body[c] = body[d] => {c, d} \subseteq takenOver

\* A battle that is under way has fighters; one that has not started has only fighters
\* that are in the area, so that those who left do not hold up the first turn.
BattleHasFighters ==
  /\ started => fighters # {}
  /\ ~started /\ ~disturbed => fighters \subseteq here

\* The guild a client is said to be in is open and lists it (otherwise its commands,
\* and the turn in which it acts, end in an exception, and the guild wins without it), but
\* for the same clients.
GuildsAreListed ==
  \A c \in Client \ takenOver :
    Has(c) /\ Of(c).guild # None => Of(c).guild \in DOMAIN guilds /\ c \in Members(Of(c).guild)

\* docs/battle_commands_user_guide.md, and the docstring of _finish_turn_if_ready: the
\* turn resolves when every active fighter has selected an action. It does not hold, as
\* the README explains.
TurnWaitsForAll ==
  playing /\ queue = fighters => \A c \in fighters : Selected(c)

=============================================================================
