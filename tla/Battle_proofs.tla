----------------------------- MODULE Battle_proofs -----------------------------
(***************************************************************************)
(* That the count of selections is right, that a battle has fighters and   *)
(* each of them a body, and that guilds list whom they have, for any       *)
(* number of clients, guilds and kinds of moves. The count rests on who    *)
(* shares battle objects: a selection is written into an object, and       *)
(* counts once only because no other fighter has that object. Who shares   *)
(* them rests on the guilds, which say who is reloaded when one has won.   *)
(***************************************************************************)
EXTENDS Battle, FiniteSetTheorems, SequenceTheorems, WellFoundedInduction, TLAPS

\* The battle objects and who has them; a turn that is not played has no queue.
Objects ==
  /\ here \subseteq Client /\ fighters \subseteq Client /\ takenOver \subseteq Client
  /\ body \in [Client -> Body \cup {None}]
  /\ char \in [Body -> BattleChar]
  /\ DOMAIN guilds \subseteq Guild
  /\ counted \in Int
  /\ \A c \in fighters : body[c] \in Body
  /\ queue \subseteq fighters /\ (~playing => queue = {})

\* Of two clients with one object, one has lost its place to another, and does not fight.
Apart ==
  ~disturbed =>
    /\ \A c \in fighters : c \notin takenOver
    /\ \A c, d \in Client : c # d /\ body[c] \in Body /\ body[c] = body[d] =>
         c \in takenOver \/ d \in takenOver

\* Guilds' lists name clients.
Lists == \A g \in DOMAIN guilds : guilds[g] \in Seq(Client)

CountInv == Objects /\ Lists /\ Apart /\ CountIsRight

-----------------------------------------------------------------------------
\* Battle objects

\* A new BattleChar is one, unselected (BattleChar.__init__).
LEMMA UnhurtIsObject ==
  ASSUME NEW g \in Guild \cup {None}
  PROVE  Unhurt(g) \in BattleChar /\ Unhurt(g).sel = "none" /\ Unhurt(g).guild = g
BY DEF Unhurt, BattleChar, Selection, Statuses

\* A guild that is found is open and lists the client, if this is its area (find_guild).
LEMMA GuildFound ==
  ASSUME NEW c \in Inside, NEW gs, NEW g \in FindGuild(c, gs), g # None
  PROVE  g \in DOMAIN gs /\ \E i \in DOMAIN gs[g] : gs[g][i] = c
<1> DEFINE In(h) == \E i \in DOMAIN gs[h] : gs[h][i] = c
<1>1. (\E h \in DOMAIN gs : In(h)) /\ g = CHOOSE h \in DOMAIN gs : In(h)
  BY Zenon DEF FindGuild
<1>2. PICK h \in DOMAIN gs : In(h) BY <1>1
<1> HIDE DEF In
<1>3. (CHOOSE k \in DOMAIN gs : In(k)) \in DOMAIN gs /\ In(CHOOSE k \in DOMAIN gs : In(k))
  BY <1>2
<1> QED BY <1>1, <1>3 DEF In

\* Reloading gives the clients of D objects of their own, unselected, of the guilds that are
\* found, and leaves the others theirs; who is in a guild elsewhere is set down for it
\* (reload_fighter).
LEMMA Reloaded ==
  ASSUME NEW D, NEW chars \in [Body -> BattleChar], NEW gs,
         body \in [Client -> Body \cup {None}], Reload(D, chars, gs)
  PROVE  /\ body' \in [Client -> Body \cup {None}] /\ char' \in [Body -> BattleChar]
         /\ \A c \in D \cap Client : body'[c] \in Body /\ char'[body'[c]].sel = "none"
         /\ \A c \in Client \ D : body'[c] = body[c]
         /\ \A c \in Client \ D : body[c] \in Body => char'[body[c]] = chars[body[c]]
         /\ \A c \in D \cap Client, d \in Client : c # d => body'[c] # body'[d]
         /\ \A c : c \notin D => (c \in takenOver' <=> c \in takenOver)
         /\ \A c \in D \cap Client :
              /\ char'[body'[c]].guild \in FindGuild(c, gs)
              /\ c \notin Inside /\ c \notin takenOver' => char'[body'[c]].guild = None
<1>1. PICK fresh \in [D -> Body \ {body[c] : c \in Client \ D}], found \in [D -> Guild \cup {None}] :
        /\ \A c, d \in D : fresh[c] = fresh[d] => c = d
        /\ \A c \in D : found[c] \in FindGuild(c, gs)
        /\ body' = [c \in Client |-> IF c \in D THEN fresh[c] ELSE body[c]]
        /\ char' = [b \in Body |->
                      IF \E c \in D : fresh[c] = b
                      THEN Unhurt(found[CHOOSE c \in D : fresh[c] = b])
                      ELSE IF \E c \in Client \ D : body[c] = b THEN chars[b]
                      ELSE Unhurt(None)]
        /\ takenOver' = (takenOver \ D) \cup {c \in D \ Inside : found[c] # None}
  BY Zenon DEF Reload
<1>2. \A c \in D \cap Client : body'[c] = fresh[c] /\ fresh[c] \in Body BY <1>1
<1>3. \A c \in Client \ D : body'[c] = body[c] BY <1>1
<1>4. body' \in [Client -> Body \cup {None}] BY <1>1
<1>5. \A c \in D, d \in Client \ D : fresh[c] # body[d] BY <1>1
<1>6. ASSUME NEW b \in Body PROVE char'[b] \in BattleChar
  <2>1. CASE \E c \in D : fresh[c] = b
    <3>1. (CHOOSE c \in D : fresh[c] = b) \in D BY <2>1
    <3>2. char'[b] = Unhurt(found[CHOOSE c \in D : fresh[c] = b]) BY <1>1, <2>1
    <3> QED BY <1>1, <3>1, <3>2, UnhurtIsObject
  <2>2. CASE ~\E c \in D : fresh[c] = b
    <3>1. char'[b] \in {chars[b], Unhurt(None)} BY <1>1, <2>2
    <3> QED BY <3>1, UnhurtIsObject
  <2> QED BY <2>1, <2>2
<1>7. char' \in [Body -> BattleChar] BY <1>1, <1>6
<1>8. ASSUME NEW c \in D \cap Client PROVE char'[body'[c]] = Unhurt(found[c])
  <2>1. (CHOOSE d \in D : fresh[d] = fresh[c]) = c BY <1>1, <1>8
  <2> QED BY <1>1, <1>2, <1>8, <2>1
<1>9. \A c \in Client \ D : body[c] \in Body => char'[body[c]] = chars[body[c]]
  BY <1>1, <1>5
<1>10. \A c \in D \cap Client, d \in Client : c # d => body'[c] # body'[d]
  BY <1>1, <1>2, <1>3, <1>5
<1>11. \A c : c \notin D => (c \in takenOver' <=> c \in takenOver) BY <1>1
<1>12. ASSUME NEW c \in D \cap Client
       PROVE  /\ char'[body'[c]].guild \in FindGuild(c, gs) /\ char'[body'[c]].sel = "none"
              /\ c \notin Inside /\ c \notin takenOver' => char'[body'[c]].guild = None
  <2>1. found[c] \in Guild \cup {None} /\ found[c] \in FindGuild(c, gs) BY <1>1, <1>12
  <2>2. char'[body'[c]].guild = found[c] /\ char'[body'[c]].sel = "none"
    BY <1>8, <1>12, <2>1, UnhurtIsObject
  <2>3. c \notin Inside /\ c \notin takenOver' => found[c] = None BY <1>1, <1>12
  <2> QED BY <2>1, <2>2, <2>3
<1> QED BY <1>2, <1>3, <1>4, <1>7, <1>9, <1>10, <1>11, <1>12

\* Nobody else is set down by a reload.
LEMMA ReloadedTakers ==
  ASSUME NEW D \in SUBSET Client, NEW chars, NEW gs, takenOver \subseteq Client,
         Reload(D, chars, gs)
  PROVE  takenOver' \subseteq Client
<1>1. takenOver' \subseteq takenOver \cup D BY DEF Reload
<1> QED BY <1>1

\* Going away from the area, by moving or by being disconnected: who does not fight goes
\* as it is, who fights in a battle under way is not connected any more, and who is to fight
\* in one is put out of it and, if it lists him, of his guild.
Goes(c) == Leave(c) \/ Disconnect(c)

GoesQuietly(c) ==
  /\ c \notin fighters \/ c \notin here
  /\ UNCHANGED << fighters, guilds, char, counted >> /\ (disturbed' <=> disturbed)

GoesOff(c) ==
  /\ c \in fighters /\ started /\ char' = [char EXCEPT ![body[c]].on = FALSE]
  /\ UNCHANGED << fighters, guilds, counted >> /\ (disturbed' <=> disturbed)

GoesBadly(c) ==
  /\ c \in fighters /\ ~started /\ char' = [char EXCEPT ![body[c]].guild = None]
  /\ fighters' = fighters \ {c} /\ disturbed'
  /\ UNCHANGED << guilds, counted >>

GoesWell(c) ==
  /\ c \in fighters /\ ~started /\ char' = [char EXCEPT ![body[c]].guild = None]
  /\ fighters' = fighters \ {c} /\ (disturbed' <=> disturbed)
  /\ \/ Of(c).guild = None /\ guilds' = guilds
     \/ /\ Of(c).guild \in DOMAIN guilds
        /\ guilds' = [guilds EXCEPT ![Of(c).guild] = Without(guilds[Of(c).guild], c)]
  /\ counted' = UncountedOnLeave(c)

LEMMA Going ==
  ASSUME NEW c \in Client, Goes(c)
  PROVE  /\ Idle /\ UNCHANGED << started, body, queue, playing, takenOver, abroad >>
         /\ here' \subseteq here /\ here \ {c} \subseteq here' /\ (disturbed => disturbed')
         /\ GoesQuietly(c) \/ GoesOff(c) \/ GoesBadly(c) \/ GoesWell(c)
<1>1. Idle /\ UNCHANGED << started, body, queue, playing, takenOver, abroad >>
  BY Zenon DEF Goes, Leave, Disconnect, Command
<1>2. CASE ~Removed(c)
  <2>1. Leave(c) /\ c \notin here
        /\ UNCHANGED << here, fighters, counted, guilds, char, disturbed >>
    BY <1>2 DEF Goes, Leave, Disconnect
  <2> QED BY <1>1, <2>1 DEF GoesQuietly
<1>3. CASE Removed(c)
  <2>1. /\ here' = here \ {c}
        /\ fighters' = IF Departs(c) THEN fighters \ {c} ELSE fighters
        /\ disturbed' = (disturbed \/ LeavingFails(c))
    BY <1>3, Zenon DEF Removed
  <2>2. CASE c \notin fighters
    <3>1. UNCHANGED << guilds, char, counted >> BY <1>3, <2>2 DEF Removed, Departs
    <3> QED BY <1>1, <2>1, <2>2, <3>1 DEF GoesQuietly, Departs, LeavingFails
  <2>3. CASE c \in fighters /\ started
    <3>1. UNCHANGED << guilds, counted >> /\ char' = [char EXCEPT ![body[c]].on = FALSE]
      BY <1>3, <2>3 DEF Removed, Departs
    <3> QED BY <1>1, <2>1, <2>3, <3>1 DEF GoesOff, Departs, LeavingFails
  <2>4. CASE Departs(c)
    <3>1. /\ char' = [char EXCEPT ![body[c]].guild = None]
          /\ \/ LeavingFails(c) /\ UNCHANGED << counted, guilds >>
             \/ /\ ~LeavingFails(c)
                /\ guilds' = IF Of(c).guild = None THEN guilds
                             ELSE [guilds EXCEPT ![Of(c).guild] = Without(@, c)]
                /\ counted' = UncountedOnLeave(c)
      BY <1>3, <2>4 DEF Removed, Departs
    <3>2. CASE LeavingFails(c)
      BY <1>1, <2>1, <2>4, <3>1, <3>2 DEF GoesBadly, Departs
    <3>3. CASE ~LeavingFails(c)
      <4>1. Of(c).guild = None \/ Of(c).guild \in DOMAIN guilds
        BY <2>4, <3>3 DEF LeavingFails, Listed
      <4> QED BY <1>1, <2>1, <2>4, <3>1, <3>3, <4>1 DEF GoesWell, Departs
    <3> QED BY <3>2, <3>3
  <2> QED BY <2>2, <2>3, <2>4 DEF Departs
<1> QED BY <1>2, <1>3

\* Writing a selection, a guild, a status or a connection leaves a battle object.
LEMMA Updated ==
  ASSUME NEW o \in BattleChar
  PROVE  /\ \A s \in Selection : [o EXCEPT !.sel = s] \in BattleChar
         /\ \A s \in Selection, t \in Client \cup {None} :
              [o EXCEPT !.sel = s, !.target = t, !.on = TRUE] \in BattleChar
         /\ \A g \in Guild \cup {None} : [o EXCEPT !.guild = g] \in BattleChar
         /\ \A x \in Statuses : [o EXCEPT !.status = x] \in BattleChar
         /\ \A x \in BOOLEAN : [o EXCEPT !.on = x] \in BattleChar
         /\ [o EXCEPT !.sel = "none", !.target = None] \in BattleChar
         /\ [o EXCEPT !.sel = "none", !.target = None].sel = "none"
<1>1. "none" \in Selection BY DEF Selection
<1> QED BY <1>1 DEF BattleChar

-----------------------------------------------------------------------------
\* The objects keep their form through what a turn does to them

\* A status that holds a fighter back leaves it with a status.
LEMMA HeldIsStatus ==
  ASSUME NEW status, NEW h \in Held(status)
  PROVE  h[2] \in Statuses
BY DEF Held

\* Rage leaves a status.
LEMMA RageIsStatus ==
  ASSUME NEW s, NEW status \in Statuses, NEW r \in Rage(s, status)
  PROVE  r \in Statuses
BY DEF Rage, Statuses

\* What a move or an item does to an object leaves a battle object.
LEMMA OutcomeIsObject ==
  ASSUME NEW s, NEW o \in BattleChar, NEW e \in Outcomes(s, o)
  PROVE  e \in BattleChar
<1>1. Ailments \subseteq Statuses /\ "none" \in Statuses BY DEF Statuses
<1>2. \A x \in Statuses : [o EXCEPT !.status = x] \in BattleChar BY DEF BattleChar
<1>3. \A x \in Statuses : [o EXCEPT !.up = FALSE, !.status = x] \in BattleChar
  BY DEF BattleChar
<1>4. o.status \in Statuses BY DEF BattleChar
<1>5. \A x \in Statuses : Ailing(x) \subseteq Statuses /\ Healed(x) \subseteq Statuses
  BY <1>1 DEF Ailing, Healed
<1>6. \A x \in Struck(o) : x \in BattleChar
  BY <1>1, <1>2, <1>3, <1>4, <1>5 DEF Struck
<1>7. \A x \in Helped(o) : x \in BattleChar BY <1>2, <1>4, <1>5 DEF Helped
<1>8. \A x \in Treated(o) : x \in BattleChar BY <1>2, <1>4, <1>5 DEF Treated
<1> QED BY <1>6, <1>7, <1>8 DEF Outcomes

\* A move that is carried out leaves battle objects.
LEMMA CarriedOut ==
  ASSUME NEW c, body[c] \in Body, NEW s, NEW B, NEW chars \in [Body -> BattleChar],
         CarriesOut(c, s, chars, B)
  PROVE  char' \in [Body -> BattleChar]
<1>1. PICK hit \in [B -> UNION {Outcomes(s, chars[b]) : b \in B}] :
        /\ \A b \in B : hit[b] \in Outcomes(s, chars[b])
        /\ LET after == [b \in Body |-> IF b \in B THEN hit[b] ELSE chars[b]] IN
             \E r \in Rage(s, after[body[c]].status) :
               char' = [after EXCEPT ![body[c]].status = r]
  BY DEF CarriesOut
<1> DEFINE after == [b \in Body |-> IF b \in B THEN hit[b] ELSE chars[b]]
<1>2. PICK r \in Rage(s, after[body[c]].status) : char' = [after EXCEPT ![body[c]].status = r]
  BY <1>1
<1>3. \A b \in Body : after[b] \in BattleChar BY <1>1, OutcomeIsObject
<1>4. after \in [Body -> BattleChar] BY <1>3
<1>5. after[body[c]].status \in Statuses BY <1>3 DEF BattleChar
<1>6. r \in Statuses BY <1>2, <1>5, RageIsStatus
<1> HIDE DEF after
<1> QED BY <1>2, <1>4, <1>6 DEF BattleChar

\* Cleaning up after a turn leaves battle objects, those of the fighters unselected.
LEMMA UnselectedObjects ==
  ASSUME Objects
  PROVE  /\ Unselected(char) \in [Body -> BattleChar]
         /\ \A c \in fighters : Unselected(char)[body[c]].sel = "none"
<1>1. \A b \in Body : char[b] \in BattleChar BY DEF Objects
<1>2. \A b \in Body : /\ [char[b] EXCEPT !.sel = "none", !.target = None] \in BattleChar
                       /\ [char[b] EXCEPT !.sel = "none", !.target = None].sel = "none"
  BY <1>1, Updated
<1> QED BY <1>1, <1>2 DEF Unselected, Objects

-----------------------------------------------------------------------------
\* A battle has fighters

\* A started battle has fighters, and before it starts the fighters are in the area: for any
\* number of clients. Clients that are of the area without being in it have lost their
\* connection, until a departure fails.
Present == BattleHasFighters /\ (~disturbed => attached \subseteq lost)

THEOREM BattleAlwaysHasFighters == Spec => []BattleHasFighters
<1>1. Init => Present BY DEF Init, Present, BattleHasFighters
<1>2. Present /\ [Next]_vars => Present'
  <2> SUFFICES ASSUME Present, [Next]_vars PROVE Present' OBVIOUS
  <2> USE DEF Present, BattleHasFighters
  <2>1. ASSUME NEW c \in Client, Choose(c) \/ EditMoves(c) PROVE Present'
    <3>1. UNCHANGED << here, fighters, started, attached, lost >> BY <2>1 DEF Choose, EditMoves
    <3>2. disturbed => disturbed' BY <2>1 DEF Choose, EditMoves, Loses
    <3> QED BY <3>1, <3>2
  <2>2. ASSUME NEW c \in Client, Enter(c) PROVE Present' BY <2>2 DEF Enter
  <2>3. ASSUME NEW c \in Client, Leave(c) \/ Disconnect(c) PROVE Present'
    <3>1. /\ started' = started /\ here \ {c} \subseteq here' /\ (disturbed => disturbed')
          /\ GoesQuietly(c) \/ GoesOff(c) \/ GoesBadly(c) \/ GoesWell(c)
      BY <2>3, Going DEF Goes
    <3>2. started' => fighters' # {}
      BY <3>1 DEF GoesQuietly, GoesOff, GoesBadly, GoesWell
    <3>3. ~started' /\ ~disturbed' => fighters' \subseteq here'
      BY <3>1 DEF GoesQuietly, GoesOff, GoesBadly, GoesWell
    <3>4. ~disturbed' => attached' \subseteq lost'
      <4>1. CASE Disconnect(c) BY <3>1, <4>1 DEF Disconnect
      <4>2. CASE Leave(c)
        <5>1. lost' = lost /\ (attached' \subseteq attached \/ disturbed')
          BY <4>2 DEF Leave, Removed
        <5> QED BY <3>1, <5>1
      <4> QED BY <2>3, <4>1, <4>2
    <3> QED BY <3>2, <3>3, <3>4
  <2>4. ASSUME NEW c \in Client, Fight(c) PROVE Present'
    BY <2>4 DEF Fight, Command, Inside
  <2>5. ASSUME NEW c \in Client, Resume(c) PROVE Present' BY <2>5 DEF Resume
  <2>6. ASSUME NEW c \in Client, Surrender(c) \/ RemoveFighter(c) PROVE Present'
    BY <2>6 DEF Surrender, RemoveFighter, GivesUp, StillOn, Loses
  <2>7. ASSUME NEW c \in Client, SkipMove(c) \/ ForceSkipMove(c) PROVE Present'
    BY <2>7 DEF SkipMove, ForceSkipMove
  <2>8. ASSUME NEW c \in Client, NEW s, NEW t, UseMove(c, s, t) \/ UseItem(c, s, t)
        PROVE  Present'
    BY <2>8 DEF UseMove, UseItem, Selects
  <2>9. ASSUME NEW c \in Client, LeaveGuild(c) PROVE Present'
    BY <2>9 DEF LeaveGuild
  <2>10. ASSUME NEW c \in Client, NEW g \in Guild, CreateGuild(c, g) PROVE Present'
    BY <2>10 DEF CreateGuild
  <2>11. ASSUME NEW D, CloseGuilds(D) PROVE Present' BY <2>11 DEF CloseGuilds
  <2>12. ASSUME NEW c \in Client, NEW t \in Client, JoinGuild(c, t) PROVE Present'
    BY <2>12 DEF JoinGuild
  <2>13. ASSUME NEW c \in Client, NEW t \in Client, Reconnect(c, t) PROVE Present'
    BY <2>13 DEF Reconnect, Replaced
  <2>19. ASSUME NEW c \in Client, Elsewhere(c) PROVE Present' BY <2>19 DEF Elsewhere
  <2>20. ASSUME NEW c \in Client, NEW t \in Client, ReconnectElsewhere(c, t) PROVE Present'
    BY <2>20 DEF ReconnectElsewhere
  <2>14. ASSUME NEW c \in Client, Act(c) PROVE Present' BY <2>14 DEF Act
  <2>15. ASSUME NEW c \in Client, TurnFails(c) PROVE Present' BY <2>15 DEF TurnFails
  <2>16. CASE RefreshBattle BY <2>16 DEF RefreshBattle
  <2>17. CASE EndTurn
    <3>1. PICK hurt \in SUBSET {c \in fighters : Of(c).up /\ Of(c).status \in {"poison", "burn", "freeze"}} :
            LET left == {c \in fighters \ hurt : Of(c).up}
                over == Cardinality(left) <= 1
                won == WinningGuild(left)
                fails == ~over /\ \E g \in won : g \notin DOMAIN guilds \/ guilds[g] = << >>
            IN /\ fighters' = IF over \/ (won # {} /\ ~fails) THEN {} ELSE left
               /\ IF fails THEN UNCHANGED << counted, started >>
                  ELSE counted' = 0 /\ started' = (fighters' # {})
               /\ disturbed' = (disturbed \/ fails)
      BY <2>17 DEF EndTurn
    <3> DEFINE left == {c \in fighters \ hurt : Of(c).up}
    <3>2. Cardinality({}) = 0 BY FS_EmptySet
    <3>3. CASE Cardinality(left) <= 1
      <4>1. UNCHANGED << attached, lost >> BY <2>17 DEF EndTurn
      <4> QED BY <3>1, <3>3, <4>1
    <3>4. CASE ~(Cardinality(left) <= 1)
      <4>1. left # {}
        <5> SUFFICES ASSUME left = {} PROVE FALSE OBVIOUS
        <5> HIDE DEF left
        <5> QED BY <3>2, <3>4
      <4>2. UNCHANGED << here, attached, lost >> /\ left \subseteq fighters BY <2>17 DEF EndTurn
      <4> QED BY <3>1, <3>4, <4>1, <4>2
    <3> QED BY <3>3, <3>4
  <2>18. CASE UNCHANGED vars BY <2>18 DEF vars
  <2> QED BY <2>1, <2>2, <2>3, <2>4, <2>5, <2>6, <2>7, <2>8, <2>9, <2>10, <2>11, <2>12,
             <2>13, <2>14, <2>15, <2>16, <2>17, <2>18, <2>19, <2>20 DEF Next
<1>3. Present => BattleHasFighters BY DEF Present
<1> QED BY <1>1, <1>2, <1>3, PTL DEF Spec

-----------------------------------------------------------------------------
\* The battle objects keep their form

\* What does not touch fighters and objects keeps Objects; so the actions below show
\* only what they do to these.
LEMMA ReloadKeepsObjects ==
  ASSUME Objects, NEW D \in SUBSET Client, NEW chars \in [Body -> BattleChar],
         Reload(D, chars, guilds)
  PROVE  /\ body' \in [Client -> Body \cup {None}] /\ char' \in [Body -> BattleChar]
         /\ takenOver' \subseteq Client
         /\ \A c \in fighters : body'[c] \in Body
         /\ \A c \in D \cap Client : body'[c] \in Body
<1>1. \A c \in D \cap Client : body'[c] \in Body BY Reloaded DEF Objects
<1>2. \A c \in Client \ D : body'[c] = body[c] BY Reloaded DEF Objects
<1>3. \A c \in fighters : body'[c] \in Body BY <1>1, <1>2 DEF Objects
<1>4. body' \in [Client -> Body \cup {None}] /\ char' \in [Body -> BattleChar]
  BY Reloaded DEF Objects
<1>5. takenOver' \subseteq Client BY ReloadedTakers DEF Objects
<1> QED BY <1>1, <1>3, <1>4, <1>5

\* A turn ends with a reload of clients, who are fighters or members of guilds, and of no
\* fighter that goes on, unless it fails.
LEMMA EndTurnReloads ==
  ASSUME Objects, Lists, EndTurn
  PROVE  \E D \in SUBSET Client :
           /\ Reload(D, Unselected(char), guilds)
           /\ disturbed' \/ fighters' \cap D = {}
<1>1. PICK hurt \in SUBSET {c \in fighters : Of(c).up /\ Of(c).status \in {"poison", "burn", "freeze"}} :
        LET left == {c \in fighters \ hurt : Of(c).up}
            over == Cardinality(left) <= 1
            won == WinningGuild(left)
            fails == ~over /\ \E g \in won : g \notin DOMAIN guilds \/ guilds[g] = << >>
            winners == IF over THEN left ELSE UNION {Members(g) : g \in won \cap DOMAIN guilds}
        IN /\ Reload((fighters \ left) \cup winners, Unselected(char), guilds)
           /\ fighters' = IF over \/ (won # {} /\ ~fails) THEN {} ELSE left
           /\ disturbed' = (disturbed \/ fails)
  BY Zenon DEF EndTurn
<1> DEFINE left == {c \in fighters \ hurt : Of(c).up}
           over == Cardinality(left) <= 1
           won == WinningGuild(left)
           fails == ~over /\ \E g \in won : g \notin DOMAIN guilds \/ guilds[g] = << >>
           winners == IF over THEN left ELSE UNION {Members(g) : g \in won \cap DOMAIN guilds}
           D == (fighters \ left) \cup winners
<1>2. /\ Reload(D, Unselected(char), guilds)
      /\ fighters' = IF over \/ (won # {} /\ ~fails) THEN {} ELSE left
      /\ disturbed' = (disturbed \/ fails)
  BY <1>1, Zenon
<1>3. left \subseteq Client /\ fighters \subseteq Client BY DEF Objects
<1>4. \A g \in DOMAIN guilds : Members(g) \subseteq Client
  BY ElementOfSeq, LenProperties DEF Members, Lists
<1> HIDE DEF left, won
<1>5. D \in SUBSET Client BY <1>3, <1>4
<1>6. disturbed' \/ fighters' \cap D = {}
  <2>1. CASE over \/ (won # {} /\ ~fails) BY <1>2, <2>1
  <2>2. CASE ~over /\ fails BY <1>2, <2>2
  <2>3. CASE ~over /\ won = {}
    <3>1. winners = {} BY <2>3
    <3>2. fighters' = left BY <1>2, <2>3
    <3> QED BY <3>1, <3>2
  <2> QED BY <2>1, <2>2, <2>3
<1> QED BY <1>2, <1>5, <1>6

\* Every step keeps the battle objects in form: a fighter always has one, and what a
\* turn, a guild or a selection writes into it is what a BattleChar holds.
LEMMA ObjectsStep ==
  ASSUME Objects, Lists, [Next]_vars
  PROVE  Objects'
<1> USE DEF Objects
<1>a. \A b \in Body : char[b] \in BattleChar OBVIOUS
<1>b. \A c \in Client : Has(c) => body[c] \in Body BY DEF Has
<1>c. Selection = {"hit", "hitAll", "help", "helpAll", "item", "itemAll", "none", "skip"}
  BY DEF Selection, Moves, Items
<1>1. ASSUME NEW c \in Client, Choose(c) \/ EditMoves(c) PROVE Objects'
  <2>1. Choose(c) BY <1>1 DEF EditMoves
  <2> QED BY <2>1, ReloadKeepsObjects DEF Choose
<1>2. ASSUME NEW c \in Client, Enter(c) PROVE Objects' BY <1>2 DEF Enter
<1>3. ASSUME NEW c \in Client, Goes(c) PROVE Objects'
  <2>1. /\ Idle /\ UNCHANGED << body, queue, playing, takenOver >> /\ here' \subseteq here
        /\ GoesQuietly(c) \/ GoesOff(c) \/ GoesBadly(c) \/ GoesWell(c)
    BY <1>3, Going
  <2>2. CASE GoesQuietly(c) BY <2>1, <2>2 DEF GoesQuietly
  <2>3. CASE GoesOff(c)
    <3>1. char' \in [Body -> BattleChar] BY <2>3, <1>a, Updated DEF GoesOff
    <3> QED BY <2>1, <2>3, <3>1 DEF GoesOff
  <2>4. CASE GoesBadly(c) \/ GoesWell(c)
    <3>1. char' = [char EXCEPT ![body[c]].guild = None] /\ fighters' \subseteq fighters
      BY <2>4 DEF GoesBadly, GoesWell
    <3>2. char' \in [Body -> BattleChar] BY <3>1, <1>a, Updated
    <3>3. counted' \in Int BY <2>4 DEF GoesBadly, GoesWell, UncountedOnLeave
    <3>4. DOMAIN guilds' = DOMAIN guilds BY <2>4 DEF GoesBadly, GoesWell
    <3>5. queue' = {} /\ ~playing' BY <2>1 DEF Idle
    <3> QED BY <2>1, <3>1, <3>2, <3>3, <3>4, <3>5
  <2> QED BY <2>1, <2>2, <2>3, <2>4
<1>4. ASSUME NEW c \in Client, Fight(c) PROVE Objects'
  BY <1>4, <1>b DEF Fight, Command, Idle
<1>5. ASSUME NEW c \in Client, Resume(c) PROVE Objects'
  <2>1. char' = [char EXCEPT ![body[c]].on = TRUE] BY <1>5 DEF Resume
  <2>2. char' \in [Body -> BattleChar] BY <2>1, <1>a, Updated
  <2> QED BY <1>5, <2>2 DEF Resume
<1>6. ASSUME NEW c \in Client, Surrender(c) \/ RemoveFighter(c) PROVE Objects'
  <2>1. Idle /\ c \in fighters /\ GivesUp(c) BY <1>6 DEF Surrender, RemoveFighter, Command
  <2>2. fighters' \subseteq fighters BY <2>1 DEF GivesUp
  <2>3. Reload({c}, char, guilds) BY <2>1 DEF GivesUp
  <2>4. body' \in [Client -> Body \cup {None}] /\ char' \in [Body -> BattleChar]
        /\ takenOver' \subseteq Client /\ \A d \in fighters : body'[d] \in Body
    BY <2>3, ReloadKeepsObjects
  <2>5. here' = here /\ counted' = counted /\ guilds' = guilds /\ queue' = {} /\ ~playing'
    BY <2>1 DEF GivesUp, Idle
  <2> QED BY <2>2, <2>4, <2>5
<1>7. ASSUME NEW c \in Client, SkipMove(c) \/ ForceSkipMove(c) PROVE Objects'
  <2>1. char' = [char EXCEPT ![body[c]].sel = "skip"] /\ c \in fighters
    BY <1>7 DEF SkipMove, ForceSkipMove
  <2>2. char' \in [Body -> BattleChar] BY <2>1, <1>a, <1>c, Updated
  <2>3. FinishIfReady(counted) \/ FinishIfReady(counted + 1)
    BY <1>7 DEF SkipMove, ForceSkipMove
  <2>4. counted' \in Int /\ queue' \subseteq fighters /\ (~playing' => queue' = {})
    BY <2>3 DEF FinishIfReady
  <2>5. UNCHANGED << here, fighters, guilds, body, takenOver >>
    BY <1>7 DEF SkipMove, ForceSkipMove
  <2> QED BY <2>2, <2>4, <2>5
<1>8. ASSUME NEW c \in Client, NEW s \in Picks, NEW t \in Client \cup {None},
             UseMove(c, s, t) \/ UseItem(c, s, t)
      PROVE  Objects'
  <2>1. Selects(c, s, t) /\ s \in Selection
    BY <1>8, <1>c, BattleAssumption DEF UseMove, UseItem
  <2>2. char' = [char EXCEPT ![body[c]].sel = s, ![body[c]].target = t, ![body[c]].on = TRUE]
        /\ c \in fighters
    BY <2>1 DEF Selects
  <2>3. char' = [char EXCEPT ![body[c]] = [char[body[c]] EXCEPT !.sel = s, !.target = t, !.on = TRUE]]
    BY <2>2
  <2>4. char' \in [Body -> BattleChar] BY <2>1, <2>3, <1>a, Updated
  <2>5. counted' \in Int /\ queue' \subseteq fighters /\ (~playing' => queue' = {})
    BY <2>1 DEF Selects, FinishIfReady
  <2>6. UNCHANGED << here, fighters, guilds, body, takenOver >> BY <2>1 DEF Selects
  <2> QED BY <2>4, <2>5, <2>6
<1>9. ASSUME NEW c \in Client, LeaveGuild(c) PROVE Objects'
  <2>1. char' = [char EXCEPT ![body[c]].guild = None] /\ body[c] \in Body
    BY <1>9, <1>b DEF LeaveGuild
  <2>2. char' \in [Body -> BattleChar] BY <2>1, <1>a, Updated
  <2>3. DOMAIN guilds' \subseteq DOMAIN guilds BY <1>9 DEF LeaveGuild
  <2> QED BY <1>9, <2>2, <2>3 DEF LeaveGuild
<1>10. ASSUME NEW c \in Client, NEW g \in Guild, CreateGuild(c, g) PROVE Objects'
  <2>1. char' = [char EXCEPT ![body[c]].guild = g] /\ body[c] \in Body
    BY <1>10, <1>b DEF CreateGuild
  <2>2. char' \in [Body -> BattleChar] BY <2>1, <1>a, Updated
  <2>3. DOMAIN guilds' = DOMAIN guilds \cup {g} BY <1>10 DEF CreateGuild
  <2>4. takenOver' \subseteq Client BY <1>10 DEF CreateGuild, Brings
  <2> QED BY <1>10, <2>2, <2>3, <2>4 DEF CreateGuild
<1>11. ASSUME NEW D, CloseGuilds(D) PROVE Objects'
  <2>1. char' \in [Body -> BattleChar] BY <1>11, <1>a, Updated DEF CloseGuilds
  <2>2. DOMAIN guilds' \subseteq DOMAIN guilds BY <1>11 DEF CloseGuilds
  <2> QED BY <1>11, <2>1, <2>2 DEF CloseGuilds
<1>12. ASSUME NEW c \in Client, NEW t \in Client, JoinGuild(c, t) PROVE Objects'
  <2>1. PICK g \in Guild : char' = [char EXCEPT ![body[t]].guild = g]
    BY <1>12 DEF JoinGuild
  <2>2. body[t] \in Body BY <1>12, <1>b DEF JoinGuild
  <2>3. char' \in [Body -> BattleChar] BY <2>1, <2>2, <1>a, Updated
  <2>4. DOMAIN guilds' = DOMAIN guilds BY <1>12 DEF JoinGuild
  <2>5. takenOver' \subseteq Client BY <1>12 DEF JoinGuild, Brings
  <2> QED BY <1>12, <2>3, <2>4, <2>5 DEF JoinGuild
<1>13. ASSUME NEW c \in Client, NEW t \in Client, Reconnect(c, t) PROVE Objects'
  <2>1. t \in fighters /\ Idle /\ body' = [body EXCEPT ![c] = body[t]]
        /\ char' = [b \in Body |-> IF \E d \in Client : body'[d] = b THEN char[b] ELSE Unhurt(None)]
        /\ here' = here /\ counted' = counted /\ queue' = {} /\ ~playing'
    BY <1>13 DEF Reconnect, Command, Idle
  <2>2. body' \in [Client -> Body \cup {None}] /\ \A d \in fighters \cup {c} : body'[d] \in Body
    BY <2>1
  <2>3. Unhurt(None) \in BattleChar BY UnhurtIsObject
  <2>4. char' \in [Body -> BattleChar] BY <2>1, <2>3, <1>a
  <2>5. /\ fighters' \subseteq fighters \cup {c} /\ DOMAIN guilds' = DOMAIN guilds
        /\ takenOver' \subseteq Client
    BY <1>13 DEF Reconnect, Replaced
  <2> QED BY <2>1, <2>2, <2>4, <2>5
<1>19. ASSUME NEW c \in Client, Elsewhere(c) PROVE Objects'
  <2>1. PICK o \in Written : char' = [char EXCEPT ![body[c]] = o] BY <1>19 DEF Elsewhere
  <2>2. char' \in [Body -> BattleChar] BY <2>1, WrittenAssumption
  <2>3. takenOver' \subseteq Client BY <1>19 DEF Elsewhere, Sharing
  <2> QED BY <1>19, <2>2, <2>3 DEF Elsewhere
<1>20. ASSUME NEW c \in Client, NEW t \in Client, ReconnectElsewhere(c, t) PROVE Objects'
  <2>1. /\ body' = [body EXCEPT ![c] = body[t]] /\ body[t] \in Body
        /\ char' = [b \in Body |-> IF \E d \in Client : body'[d] = b THEN char[b] ELSE Unhurt(None)]
        /\ UNCHANGED << here, counted, queue, playing, fighters, guilds >>
    BY <1>20, <1>b DEF ReconnectElsewhere
  <2>2. body' \in [Client -> Body \cup {None}] /\ \A d \in fighters : body'[d] \in Body
    BY <2>1
  <2>3. Unhurt(None) \in BattleChar BY UnhurtIsObject
  <2>4. char' \in [Body -> BattleChar] BY <2>1, <2>3, <1>a
  <2>5. takenOver' \subseteq Client BY <1>20 DEF ReconnectElsewhere, Sharing
  <2> QED BY <2>1, <2>2, <2>4, <2>5
<1>14. ASSUME NEW c \in Client, Act(c) PROVE Objects'
  <2>1. c \in fighters /\ body[c] \in Body BY <1>14 DEF Act
  <2>2. char' \in [Body -> BattleChar]
    <3>1. CASE UNCHANGED char BY <3>1
    <3>2. CASE ~UNCHANGED char
      <4>1. PICK h \in Held(Of(c).status) :
              LET held == [char EXCEPT ![body[c]].status = h[2]] IN
              \/ char' = held
              \/ \E s, B : CarriesOut(c, s, held, B)
        BY <1>14, <3>2 DEF Act
      <4>2. [char EXCEPT ![body[c]].status = h[2]] \in [Body -> BattleChar]
        BY <2>1, <1>a, HeldIsStatus, Updated
      <4> QED BY <4>1, <4>2, <2>1, CarriedOut
    <3> QED BY <3>1, <3>2
  <2> QED BY <1>14, <2>2 DEF Act
<1>15. ASSUME NEW c \in Client, TurnFails(c) PROVE Objects'
  <2>1. PICK h \in Held(Of(c).status) : char' = [char EXCEPT ![body[c]].status = h[2]]
    BY <1>15 DEF TurnFails
  <2>2. body[c] \in Body BY <1>15 DEF TurnFails
  <2>3. char' \in [Body -> BattleChar] BY <2>1, <2>2, <1>a, HeldIsStatus, Updated
  <2> QED BY <1>15, <2>3 DEF TurnFails
<1>16. CASE RefreshBattle
  <2>1. Reload(fighters, char, guilds) BY <1>16 DEF RefreshBattle
  <2>2. body' \in [Client -> Body \cup {None}] /\ char' \in [Body -> BattleChar]
        /\ takenOver' \subseteq Client
    BY <2>1, ReloadKeepsObjects
  <2>3. fighters' = {} /\ counted' = 0 /\ here' = here /\ guilds' = guilds /\ queue' = {}
    BY <1>16 DEF RefreshBattle, Idle
  <2> QED BY <2>2, <2>3
<1>17. CASE EndTurn
  <2>1. PICK D \in SUBSET Client : Reload(D, Unselected(char), guilds)
    BY <1>17, EndTurnReloads
  <2>2. body' \in [Client -> Body \cup {None}] /\ char' \in [Body -> BattleChar]
        /\ takenOver' \subseteq Client /\ \A c \in fighters : body'[c] \in Body
    BY <2>1, UnselectedObjects, ReloadKeepsObjects
  <2>3. fighters' \subseteq fighters /\ counted' \in Int BY <1>17 DEF EndTurn
  <2>4. here' = here /\ guilds' = guilds /\ queue' = {} BY <1>17 DEF EndTurn
  <2> QED BY <2>2, <2>3, <2>4
<1>18. CASE UNCHANGED vars BY <1>18 DEF vars
<1> QED BY <1>1, <1>2, <1>3, <1>4, <1>5, <1>6, <1>7, <1>8, <1>9, <1>10, <1>11, <1>12,
           <1>13, <1>14, <1>15, <1>16, <1>17, <1>18, <1>19, <1>20 DEF Next, Goes

-----------------------------------------------------------------------------
\* Who shares battle objects

\* A reload gives objects of their own: nobody shares one who did not before.
LEMMA ReloadKeepsApart ==
  ASSUME Objects, Apart, NEW D, NEW chars \in [Body -> BattleChar], Reload(D, chars, guilds),
         fighters' \subseteq fighters, disturbed => disturbed',
         \A c \in fighters' \cap D : disturbed' \/ c \notin takenOver'
  PROVE  Apart'
<1> SUFFICES ASSUME ~disturbed, ~disturbed'
             PROVE  /\ \A c \in fighters' : c \notin takenOver'
                    /\ \A c, d \in Client : c # d /\ body'[c] \in Body /\ body'[c] = body'[d] =>
                         c \in takenOver' \/ d \in takenOver'
  BY DEF Apart
<1>1. \A c : c \notin D => (c \in takenOver' <=> c \in takenOver) BY Reloaded DEF Objects
<1>2. \A c \in Client \ D : body'[c] = body[c] BY Reloaded DEF Objects
<1>3. \A c \in D \cap Client, d \in Client : c # d => body'[c] # body'[d]
  BY Reloaded DEF Objects
<1>4. \A c \in fighters' : c \notin takenOver' BY <1>1 DEF Apart
<1>5. ASSUME NEW c \in Client, NEW d \in Client,
             c # d, body'[c] \in Body, body'[c] = body'[d]
      PROVE  c \in takenOver' \/ d \in takenOver'
  <2>1. c \notin D /\ d \notin D BY <1>3, <1>5
  <2>2. body'[c] = body[c] /\ body'[d] = body[d] BY <1>2, <2>1
  <2>3. c \in takenOver \/ d \in takenOver BY <1>5, <2>2 DEF Apart
  <2> QED BY <1>1, <2>1, <2>3
<1> QED BY <1>4, <1>5

\* Steps that leave objects with those who have them.
LEMMA SameKeepsApart ==
  ASSUME Apart, body' = body, takenOver' = takenOver, fighters' \subseteq fighters,
         disturbed => disturbed'
  PROVE  Apart'
BY DEF Apart

\* Every step keeps fighters' objects apart, as long as nothing was disturbed: taking a
\* place over is the one step that shares an object, and the other stops fighting.
LEMMA ApartStep ==
  ASSUME Objects, Lists, Apart, [Next]_vars
  PROVE  Apart'
<1>a. char \in [Body -> BattleChar] BY DEF Objects
<1>1. ASSUME NEW c \in Client, Choose(c) \/ EditMoves(c) PROVE Apart'
  <2>1. Choose(c) BY <1>1 DEF EditMoves
  <2>2. Reload({c}, char, guilds) /\ fighters' = fighters /\ (disturbed => disturbed')
    BY <2>1 DEF Choose, Loses
  <2>3. c \in fighters => disturbed' \/ c \notin takenOver'
    <3>1. c \in fighters => Has(c) BY BattleAssumption DEF Objects, Has
    <3> QED BY <2>1, <3>1 DEF Choose, Loses
  <2> QED BY <2>2, <2>3, <1>a, ReloadKeepsApart
<1>2. ASSUME NEW c \in Client, Enter(c) PROVE Apart' BY <1>2, SameKeepsApart DEF Enter
<1>3. ASSUME NEW c \in Client, Goes(c) PROVE Apart'
  <2>1. /\ body' = body /\ takenOver' = takenOver /\ (disturbed => disturbed')
        /\ GoesQuietly(c) \/ GoesOff(c) \/ GoesBadly(c) \/ GoesWell(c)
    BY <1>3, Going
  <2>2. fighters' \subseteq fighters BY <2>1 DEF GoesQuietly, GoesOff, GoesBadly, GoesWell
  <2> QED BY <2>1, <2>2, SameKeepsApart
<1>4. ASSUME NEW c \in Client, Fight(c) PROVE Apart' BY <1>4 DEF Fight, Apart
<1>5. ASSUME NEW c \in Client, Resume(c) PROVE Apart' BY <1>5, SameKeepsApart DEF Resume
<1>6. ASSUME NEW c \in Client, Surrender(c) \/ RemoveFighter(c) PROVE Apart'
  <2>1. GivesUp(c) BY <1>6 DEF Surrender, RemoveFighter
  <2>2. /\ Reload({c}, char, guilds) /\ fighters' \subseteq fighters
        /\ disturbed' = (disturbed \/ (c \in fighters /\ (Selected(c) \/ c \in takenOver')))
    BY <2>1 DEF GivesUp, Loses
  <2>3. \A d \in fighters' \cap {c} : disturbed' \/ d \notin takenOver' BY <2>2
  <2> QED BY <2>2, <2>3, <1>a, ReloadKeepsApart
<1>7. ASSUME NEW c \in Client, SkipMove(c) \/ ForceSkipMove(c) PROVE Apart'
  BY <1>7, SameKeepsApart DEF SkipMove, ForceSkipMove
<1>8. ASSUME NEW c, NEW s, NEW t, UseMove(c, s, t) \/ UseItem(c, s, t) PROVE Apart'
  BY <1>8, SameKeepsApart DEF UseMove, UseItem, Selects
<1>9. ASSUME NEW c \in Client, LeaveGuild(c) PROVE Apart'
  BY <1>9, SameKeepsApart DEF LeaveGuild
<1>10. ASSUME NEW c \in Client, NEW g, CreateGuild(c, g) PROVE Apart'
  <2>1. /\ body' = body /\ fighters' = fighters /\ disturbed' = (disturbed \/ c \in takenOver)
        /\ c \notin takenOver => takenOver' = takenOver
    BY <1>10 DEF CreateGuild, Brings
  <2> QED BY <2>1 DEF Apart
<1>11. ASSUME NEW D, CloseGuilds(D) PROVE Apart' BY <1>11, SameKeepsApart DEF CloseGuilds
<1>12. ASSUME NEW c \in Client, NEW t, JoinGuild(c, t) PROVE Apart'
  <2>1. /\ body' = body /\ fighters' = fighters /\ disturbed' = (disturbed \/ t \in takenOver)
        /\ t \notin takenOver => takenOver' = takenOver
    BY <1>12 DEF JoinGuild, Brings
  <2> QED BY <2>1 DEF Apart
<1>13. ASSUME NEW c \in Client, NEW t \in Client, Reconnect(c, t) PROVE Apart'
  <2> SUFFICES ASSUME ~disturbed PROVE Apart' BY <1>13 DEF Apart, Reconnect
  <2>1. c \notin fighters /\ t \in fighters /\ c # t /\ t \notin takenOver
    BY <1>13 DEF Reconnect, Apart
  <2>2. body'[c] = body[t] /\ \A d \in Client \ {c} : body'[d] = body[d]
    BY <1>13 DEF Reconnect, Objects
  <2>3. \/ fighters' = (fighters \ {t}) \cup {c} /\ takenOver' = (takenOver \ {c}) \cup {t}
        \/ fighters' = fighters /\ takenOver' = takenOver \cup {c}
    BY <1>13, <2>1 DEF Reconnect, Replaced
  <2>4. \A d \in fighters' : d \notin takenOver' BY <2>1, <2>3 DEF Apart
  <2>5. ASSUME NEW x \in Client, NEW y \in Client,
               x # y, body'[x] \in Body, body'[x] = body'[y]
        PROVE  x \in takenOver' \/ y \in takenOver'
    <3>1. CASE x # c /\ y # c
      <4>1. x \in takenOver \/ y \in takenOver BY <2>2, <2>5, <3>1 DEF Apart
      <4> QED BY <2>3, <3>1, <4>1
    <3>2. CASE x = c \/ y = c
      <4>1. PICK z \in {x, y} : z # c /\ z \in Client /\ body[z] = body[t] /\ body[t] \in Body
        BY <2>2, <2>5, <3>2
      <4>2. z = t \/ z \in takenOver BY <2>1, <4>1 DEF Apart
      <4> QED BY <2>3, <3>2, <4>1, <4>2
    <3> QED BY <3>1, <3>2
  <2> QED BY <2>4, <2>5 DEF Apart
<1>19. ASSUME NEW c \in Client, Elsewhere(c) PROVE Apart'
  BY <1>19 DEF Elsewhere, Apart
<1>20. ASSUME NEW c \in Client, NEW t \in Client, ReconnectElsewhere(c, t) PROVE Apart'
  <2> SUFFICES ASSUME ~disturbed' PROVE Apart' BY DEF Apart
  <2>1. /\ ~disturbed /\ fighters' = fighters
        /\ takenOver' = takenOver \cup Sharing(t) \cup {c}
        /\ (Sharing(t) \cup {c}) \cap fighters = {}
    BY <1>20 DEF ReconnectElsewhere
  <2>2. body'[c] = body[t] /\ \A d \in Client \ {c} : body'[d] = body[d]
    BY <1>20 DEF ReconnectElsewhere, Objects
  <2>3. \A d \in fighters' : d \notin takenOver' BY <2>1 DEF Apart
  <2>4. ASSUME NEW x \in Client, NEW y \in Client,
               x # y, body'[x] \in Body, body'[x] = body'[y]
        PROVE  x \in takenOver' \/ y \in takenOver'
    <3>1. CASE x = c \/ y = c BY <2>1, <3>1
    <3>2. CASE x # c /\ y # c
      <4>1. x \in takenOver \/ y \in takenOver BY <2>1, <2>2, <2>4, <3>2 DEF Apart
      <4> QED BY <2>1, <4>1
    <3> QED BY <3>1, <3>2
  <2> QED BY <2>3, <2>4 DEF Apart
<1>14. ASSUME NEW c \in Client, Act(c) PROVE Apart' BY <1>14, SameKeepsApart DEF Act
<1>15. ASSUME NEW c \in Client, TurnFails(c) PROVE Apart'
  BY <1>15, SameKeepsApart DEF TurnFails
<1>16. CASE RefreshBattle
  <2>1. Reload(fighters, char, guilds) /\ fighters' = {} /\ disturbed' = disturbed
    BY <1>16 DEF RefreshBattle
  <2> QED BY <2>1, <1>a, ReloadKeepsApart
<1>17. CASE EndTurn
  <2>1. PICK D \in SUBSET Client : /\ Reload(D, Unselected(char), guilds)
                                   /\ disturbed' \/ fighters' \cap D = {}
    BY <1>17, EndTurnReloads
  <2>2. fighters' \subseteq fighters /\ (disturbed => disturbed') BY <1>17 DEF EndTurn
  <2> QED BY <2>1, <2>2, UnselectedObjects, ReloadKeepsApart
<1>18. CASE UNCHANGED vars BY <1>18, SameKeepsApart DEF vars
<1> QED BY <1>1, <1>2, <1>3, <1>4, <1>5, <1>6, <1>7, <1>8, <1>9, <1>10, <1>11, <1>12,
           <1>13, <1>14, <1>15, <1>16, <1>17, <1>18, <1>19, <1>20 DEF Next, Goes

-----------------------------------------------------------------------------
\* The count of selections

\* The fighters that have selected, whom num_selected_move counts.
Choosers == {c \in fighters : Selected(c)}

\* They are finitely many.
LEMMA FiniteChoosers ==
  ASSUME Objects
  PROVE  IsFiniteSet(fighters) /\ IsFiniteSet(Choosers)
<1>1. IsFiniteSet(fighters) BY FS_Subset, BattleAssumption DEF Objects
<1>2. Choosers \subseteq fighters BY DEF Choosers
<1> QED BY <1>1, <1>2, FS_Subset

\* Where the same fighters have selected and the same number is counted, the count stays
\* right.
LEMMA SameChoosers ==
  ASSUME CountIsRight, playing' = playing, counted' = counted, disturbed => disturbed',
         ~disturbed' => Choosers' = Choosers
  PROVE  CountIsRight'
BY DEF CountIsRight, Choosers, Idle

\* Steps that leave every fighter its object and every object its selection.
LEMMA SameSelections ==
  ASSUME CountIsRight, playing' = playing, counted' = counted, disturbed => disturbed',
         fighters' = fighters, body' = body,
         \A c \in fighters : char'[body[c]].sel = char[body[c]].sel
  PROVE  CountIsRight'
<1>1. Choosers' = Choosers BY DEF Choosers, Selected, Of
<1> QED BY <1>1, SameChoosers

\* Writing a guild, a status or a connection into an object keeps all selections.
LEMMA SelectionKept ==
  ASSUME char \in [Body -> BattleChar], NEW b, NEW x,
         \/ char' = [char EXCEPT ![b].guild = x]
         \/ char' = [char EXCEPT ![b].on = x]
         \/ char' = [char EXCEPT ![b].status = x]
  PROVE  \A e \in Body : char'[e].sel = char[e].sel
<1>1. \A o \in BattleChar : /\ [o EXCEPT !.guild = x].sel = o.sel
                            /\ [o EXCEPT !.on = x].sel = o.sel
                            /\ [o EXCEPT !.status = x].sel = o.sel
  BY DEF BattleChar
<1>2. \A e \in Body : char'[e] \in {char[e], [char[e] EXCEPT !.guild = x],
                                    [char[e] EXCEPT !.on = x], [char[e] EXCEPT !.status = x]}
  OBVIOUS
<1> QED BY <1>1, <1>2

\* A fighter that selects is one more, if nobody shares its object.
LEMMA OneMoreChooser ==
  ASSUME Objects, Apart, ~disturbed, NEW c \in fighters, ~Selected(c),
         fighters' = fighters, body' = body,
         char'[body[c]].sel # "none",
         \A e \in Body \ {body[c]} : char'[e] = char[e]
  PROVE  Cardinality(Choosers') = Cardinality(Choosers) + 1
<1>1. \A d \in fighters : d # c => body[d] \in Body \ {body[c]}
  BY DEF Objects, Apart
<1>2. Choosers' = Choosers \cup {c}
  BY <1>1 DEF Choosers, Selected, Of
<1>3. c \notin Choosers BY DEF Choosers
<1> QED BY <1>2, <1>3, FiniteChoosers, FS_AddElement

\* Reloading D keeps the selections of the others, and D has none then.
LEMMA ReloadedChoosers ==
  ASSUME Objects, NEW D, Reload(D, char, guilds), fighters' \subseteq fighters
  PROVE  Choosers' = (fighters' \cap Choosers) \ D
<1>1. \A c \in D \cap Client : char'[body'[c]].sel = "none" BY Reloaded DEF Objects
<1>2. \A c \in fighters \ D : body'[c] = body[c] /\ char'[body[c]] = char[body[c]]
  <2>1. \A c \in Client \ D : body'[c] = body[c] BY Reloaded DEF Objects
  <2>2. \A c \in Client \ D : body[c] \in Body => char'[body[c]] = char[body[c]]
    BY Reloaded DEF Objects
  <2> QED BY <2>1, <2>2 DEF Objects
<1>3. fighters \subseteq Client BY DEF Objects
<1> QED BY <1>1, <1>2, <1>3 DEF Choosers, Selected, Of

\* Every step keeps the count right, as long as nothing was disturbed.
LEMMA CountStep ==
  ASSUME Objects, Apart, CountIsRight, [Next]_vars
  PROVE  CountIsRight'
<1>a. char \in [Body -> BattleChar] /\ \A c \in fighters : body[c] \in Body BY DEF Objects
<1>b. Idle /\ ~disturbed => counted = Cardinality(Choosers) BY DEF CountIsRight, Choosers
<1>1. ASSUME NEW c \in Client, Choose(c) \/ EditMoves(c) PROVE CountIsRight'
  <2>1. Choose(c) BY <1>1 DEF EditMoves
  <2>2. Reload({c}, char, guilds) /\ fighters' = fighters BY <2>1 DEF Choose
  <2>3. Choosers' = Choosers \ {c} BY <2>2, ReloadedChoosers DEF Choosers
  <2>4. c \in Choosers => disturbed'
    <3> SUFFICES ASSUME c \in Choosers PROVE disturbed' OBVIOUS
    <3>1. c \in fighters /\ Selected(c) /\ Has(c)
      BY <1>a, BattleAssumption DEF Choosers, Has
    <3> QED BY <2>1, <3>1 DEF Choose, Loses
  <2>5. playing' = playing /\ counted' = counted /\ (disturbed => disturbed')
    BY <2>1 DEF Choose, Loses
  <2> QED BY <2>3, <2>4, <2>5, SameChoosers
<1>2. ASSUME NEW c \in Client, Enter(c) PROVE CountIsRight'
  BY <1>2, SameSelections DEF Enter
<1>3. ASSUME NEW c \in Client, Goes(c) PROVE CountIsRight'
  <2>1. /\ Idle /\ body' = body /\ playing' = playing /\ (disturbed => disturbed')
        /\ GoesQuietly(c) \/ GoesOff(c) \/ GoesBadly(c) \/ GoesWell(c)
    BY <1>3, Going
  <2>2. CASE GoesQuietly(c) BY <2>1, <2>2, SameSelections DEF GoesQuietly
  <2>3. CASE GoesOff(c)
    <3>1. \A e \in Body : char'[e].sel = char[e].sel BY <2>3, <1>a, SelectionKept DEF GoesOff
    <3> QED BY <2>1, <2>3, <3>1, <1>a, SameSelections DEF GoesOff
  <2>4. CASE GoesBadly(c) BY <2>4 DEF GoesBadly, CountIsRight
  <2>5. CASE GoesWell(c)
    <3>1. char' = [char EXCEPT ![body[c]].guild = None] /\ c \in fighters
          /\ counted' = UncountedOnLeave(c) /\ (disturbed' <=> disturbed)
          /\ fighters' = fighters \ {c}
      BY <2>5 DEF GoesWell
    <3>2. \A e \in Body : char'[e].sel = char[e].sel BY <3>1, <1>a, SelectionKept
    <3>3. Choosers' = Choosers \ {c} BY <2>1, <3>1, <3>2, <1>a DEF Choosers, Selected, Of
    <3>4. CASE Selected(c)
      <4>1. c \in Choosers BY <3>1, <3>4 DEF Choosers
      <4>2. Cardinality(Choosers \ {c}) = Cardinality(Choosers) - 1
        BY <4>1, FiniteChoosers, FS_RemoveElement
      <4>3. counted' = counted - 1 BY <3>1, <3>4 DEF UncountedOnLeave
      <4> QED BY <2>1, <3>1, <3>3, <4>2, <4>3, <1>b DEF CountIsRight, Choosers
    <3>5. CASE ~Selected(c)
      <4>1. Choosers' = Choosers BY <3>3, <3>5 DEF Choosers
      <4>2. counted' = counted BY <3>1, <3>5 DEF UncountedOnLeave
      <4> QED BY <2>1, <3>1, <4>1, <4>2, SameChoosers
    <3> QED BY <3>4, <3>5
  <2> QED BY <2>1, <2>2, <2>3, <2>4, <2>5
<1>4. ASSUME NEW c \in Client, Fight(c) PROVE CountIsRight'
  <2>1. fighters' = fighters \cup {c} /\ body' = body /\ char' = char /\ playing' = playing
        /\ counted' = counted /\ disturbed' = (disturbed \/ Selected(c) \/ c \in takenOver)
    BY <1>4 DEF Fight
  <2>2. ~disturbed' => Choosers' = Choosers BY <2>1 DEF Choosers, Selected, Of
  <2> QED BY <2>1, <2>2, SameChoosers
<1>5. ASSUME NEW c \in Client, Resume(c) PROVE CountIsRight'
  <2>1. char' = [char EXCEPT ![body[c]].on = TRUE] BY <1>5 DEF Resume
  <2>2. \A e \in Body : char'[e].sel = char[e].sel BY <2>1, <1>a, SelectionKept
  <2> QED BY <1>5, <1>a, <2>2, SameSelections DEF Resume
<1>6. ASSUME NEW c \in Client, Surrender(c) \/ RemoveFighter(c) PROVE CountIsRight'
  <2>1. GivesUp(c) /\ c \in fighters BY <1>6 DEF Surrender, RemoveFighter
  <2>2. Reload({c}, char, guilds) /\ playing' = playing /\ counted' = counted
        /\ disturbed' = (disturbed \/ Selected(c) \/ c \in takenOver')
        /\ fighters' = IF Selected(c) THEN fighters ELSE fighters \ {c}
    BY <2>1 DEF GivesUp, Loses
  <2>3. Choosers' = (fighters' \cap Choosers) \ {c} BY <2>2, ReloadedChoosers
  <2>4. ~disturbed' => Choosers' = Choosers BY <2>2, <2>3 DEF Choosers
  <2> QED BY <2>2, <2>4, SameChoosers
<1>7. ASSUME NEW c \in Client, SkipMove(c) \/ ForceSkipMove(c) PROVE CountIsRight'
  <2>1. char' = [char EXCEPT ![body[c]].sel = "skip"] /\ c \in fighters /\ Idle
        /\ fighters' = fighters /\ body' = body /\ disturbed' = disturbed
    BY <1>7 DEF SkipMove, ForceSkipMove, Command
  <2>2. FinishIfReady(IF Selected(c) THEN counted ELSE counted + 1)
    BY <1>7 DEF SkipMove, ForceSkipMove
  <2>3. counted' = IF Selected(c) THEN counted ELSE counted + 1 BY <2>2 DEF FinishIfReady
  <2>4. \A o \in BattleChar : [o EXCEPT !.sel = "skip"].sel = "skip" BY DEF BattleChar
  <2>5. char'[body[c]].sel = "skip" /\ \A e \in Body \ {body[c]} : char'[e] = char[e]
    BY <2>1, <2>4, <1>a
  <2> SUFFICES ASSUME ~disturbed PROVE Cardinality(Choosers') = counted'
    BY <2>1 DEF CountIsRight, Choosers
  <2>6. CASE Selected(c)
    <3>1. Choosers' = Choosers
      BY <2>1, <2>5, <2>6, <1>a DEF Choosers, Selected, Of
    <3> QED BY <2>1, <2>3, <2>6, <3>1, <1>b
  <2>7. CASE ~Selected(c)
    <3>1. Cardinality(Choosers') = Cardinality(Choosers) + 1
      BY <2>1, <2>5, <2>7, OneMoreChooser
    <3> QED BY <2>1, <2>3, <2>7, <3>1, <1>b
  <2> QED BY <2>6, <2>7
<1>8. ASSUME NEW c \in Client, NEW s \in Picks, NEW t \in Client \cup {None},
             UseMove(c, s, t) \/ UseItem(c, s, t)
      PROVE  CountIsRight'
  <2>1. Selects(c, s, t) /\ s # "none" BY <1>8, BattleAssumption DEF UseMove, UseItem
  <2>2. char' = [char EXCEPT ![body[c]] = [char[body[c]] EXCEPT !.sel = s, !.target = t, !.on = TRUE]]
        /\ c \in fighters /\ ~Selected(c) /\ Idle
        /\ fighters' = fighters /\ body' = body /\ disturbed' = disturbed
        /\ counted' = counted + 1
    BY <2>1 DEF Selects, FinishIfReady, Command
  <2>3. \A o \in BattleChar : [o EXCEPT !.sel = s, !.target = t, !.on = TRUE].sel = s
    BY DEF BattleChar
  <2>4. char'[body[c]].sel = s /\ \A e \in Body \ {body[c]} : char'[e] = char[e]
    BY <2>2, <2>3, <1>a
  <2> SUFFICES ASSUME ~disturbed PROVE Cardinality(Choosers') = counted'
    BY <2>2 DEF CountIsRight, Choosers
  <2>5. Cardinality(Choosers') = Cardinality(Choosers) + 1
    BY <2>1, <2>2, <2>4, OneMoreChooser
  <2> QED BY <2>2, <2>5, <1>b
<1>9. ASSUME NEW c \in Client, LeaveGuild(c) PROVE CountIsRight'
  <2>1. char' = [char EXCEPT ![body[c]].guild = None] BY <1>9 DEF LeaveGuild
  <2>2. \A e \in Body : char'[e].sel = char[e].sel BY <2>1, <1>a, SelectionKept
  <2> QED BY <1>9, <1>a, <2>2, SameSelections DEF LeaveGuild
<1>10. ASSUME NEW c \in Client, NEW g, CreateGuild(c, g) PROVE CountIsRight'
  <2>1. char' = [char EXCEPT ![body[c]].guild = g] BY <1>10 DEF CreateGuild
  <2>2. \A e \in Body : char'[e].sel = char[e].sel BY <2>1, <1>a, SelectionKept
  <2> QED BY <1>10, <1>a, <2>2, SameSelections DEF CreateGuild
<1>11. ASSUME NEW D, CloseGuilds(D) PROVE CountIsRight'
  <2>1. \A o \in BattleChar : [o EXCEPT !.guild = None].sel = o.sel BY DEF BattleChar
  <2>2. \A e \in Body : char'[e].sel = char[e].sel BY <1>11, <1>a, <2>1 DEF CloseGuilds
  <2> QED BY <1>11, <1>a, <2>2, SameSelections DEF CloseGuilds
<1>12. ASSUME NEW c \in Client, NEW t, JoinGuild(c, t) PROVE CountIsRight'
  <2>1. PICK g : char' = [char EXCEPT ![body[t]].guild = g] BY <1>12 DEF JoinGuild
  <2>2. \A e \in Body : char'[e].sel = char[e].sel BY <2>1, <1>a, SelectionKept
  <2> QED BY <1>12, <1>a, <2>2, SameSelections DEF JoinGuild
<1>13. ASSUME NEW c \in Client, NEW t \in Client, Reconnect(c, t) PROVE CountIsRight'
  <2>1. /\ Idle /\ playing' = playing /\ counted' = counted /\ disturbed' = disturbed
        /\ c \notin fighters /\ t \in fighters /\ body' = [body EXCEPT ![c] = body[t]]
        /\ char' = [b \in Body |-> IF \E d \in Client : body'[d] = b THEN char[b] ELSE Unhurt(None)]
        /\ fighters' = fighters \/ fighters' = (fighters \ {t}) \cup {c}
    BY <1>13 DEF Reconnect, Replaced, Command
  <2>2. fighters \subseteq Client /\ \A d \in fighters : body'[d] = body[d]
    BY <2>1 DEF Objects
  <2>3. body'[c] = body[t] BY <2>1 DEF Objects
  <2>4. \A d \in fighters : char'[body[d]] = char[body[d]]
    BY <2>1, <2>2, <1>a
  <2>5. CASE fighters' = fighters
    <3>1. Choosers' = Choosers BY <2>2, <2>4, <2>5 DEF Choosers, Selected, Of
    <3> QED BY <2>1, <3>1, SameChoosers
  <2>6. CASE fighters' = (fighters \ {t}) \cup {c}
    <3>1. CASE Selected(t)
      <4>1. Choosers' = (Choosers \ {t}) \cup {c}
        BY <2>1, <2>2, <2>3, <2>4, <2>6, <3>1 DEF Choosers, Selected, Of
      <4>2. t \in Choosers /\ c \notin Choosers BY <2>1, <3>1 DEF Choosers
      <4>3. Cardinality(Choosers \ {t}) = Cardinality(Choosers) - 1
            /\ IsFiniteSet(Choosers \ {t})
        BY <4>2, FiniteChoosers, FS_RemoveElement
      <4>4. Cardinality(Choosers') = Cardinality(Choosers \ {t}) + 1
        BY <4>1, <4>2, <4>3, FS_AddElement
      <4>5. Cardinality(Choosers) \in Nat BY FiniteChoosers, FS_CardinalityType
      <4>6. Cardinality(Choosers') = Cardinality(Choosers) BY <4>3, <4>4, <4>5
      <4> QED BY <2>1, <4>6, <1>b DEF CountIsRight, Choosers, Idle
    <3>2. CASE ~Selected(t)
      <4>1. Choosers' = Choosers
        BY <2>1, <2>2, <2>3, <2>4, <2>6, <3>2 DEF Choosers, Selected, Of
      <4> QED BY <2>1, <4>1, SameChoosers
    <3> QED BY <3>1, <3>2
  <2> QED BY <2>1, <2>5, <2>6
<1>19. ASSUME NEW c \in Client, Elsewhere(c) PROVE CountIsRight'
  <2>1. /\ body' = body /\ fighters' = fighters /\ playing' = playing /\ counted' = counted
        /\ disturbed' = (disturbed \/ Sharing(c) \cap fighters # {})
    BY <1>19 DEF Elsewhere
  <2>2. ASSUME ~disturbed' PROVE Choosers' = Choosers
    <3>1. \A d \in fighters : body[d] # body[c] BY <2>1, <2>2 DEF Sharing, Objects
    <3>2. PICK o : char' = [char EXCEPT ![body[c]] = o] BY <1>19 DEF Elsewhere
    <3>3. \A d \in fighters : char'[body[d]] = char[body[d]] BY <3>1, <3>2, <1>a
    <3> QED BY <2>1, <3>3 DEF Choosers, Selected, Of
  <2> QED BY <2>1, <2>2, SameChoosers
<1>20. ASSUME NEW c \in Client, NEW t \in Client, ReconnectElsewhere(c, t) PROVE CountIsRight'
  <2>1. /\ body' = [body EXCEPT ![c] = body[t]] /\ fighters' = fighters
        /\ char' = [b \in Body |-> IF \E d \in Client : body'[d] = b THEN char[b] ELSE Unhurt(None)]
        /\ playing' = playing /\ counted' = counted
        /\ disturbed' = (disturbed \/ (Sharing(t) \cup {c}) \cap fighters # {})
    BY <1>20 DEF ReconnectElsewhere
  <2>2. ASSUME ~disturbed' PROVE Choosers' = Choosers
    <3>1. c \notin fighters BY <2>1, <2>2
    <3>2. \A d \in fighters : body'[d] = body[d] /\ d \in Client BY <2>1, <3>1 DEF Objects
    <3>3. \A d \in fighters : char'[body'[d]] = char[body[d]] BY <2>1, <3>2, <1>a
    <3> QED BY <2>1, <3>2, <3>3 DEF Choosers, Selected, Of
  <2> QED BY <2>1, <2>2, SameChoosers
<1>14. ASSUME NEW c \in Client, Act(c) PROVE CountIsRight'
  BY <1>14 DEF Act, CountIsRight, Idle
<1>15. ASSUME NEW c \in Client, TurnFails(c) PROVE CountIsRight'
  BY <1>15 DEF TurnFails, CountIsRight
<1>16. CASE RefreshBattle
  <2>1. Choosers' = {} BY <1>16 DEF RefreshBattle, Choosers
  <2>2. Cardinality({}) = 0 BY FS_EmptySet
  <2> QED BY <1>16, <2>1, <2>2 DEF RefreshBattle, CountIsRight, Choosers
<1>17. CASE EndTurn
  <2>1. PICK D : /\ Reload(D, Unselected(char), guilds)
                 /\ fighters' \subseteq fighters
                 /\ counted' = 0 \/ disturbed'
    BY <1>17 DEF EndTurn
  <2>2. \A c \in fighters : char'[body'[c]].sel = "none"
    <3>1. Unselected(char) \in [Body -> BattleChar] BY UnselectedObjects
    <3>2. \A c \in D \cap Client : char'[body'[c]].sel = "none" BY <2>1, <3>1, Reloaded DEF Objects
    <3>3. \A c \in Client \ D : body'[c] = body[c] BY <2>1, <3>1, Reloaded DEF Objects
    <3>4. \A c \in Client \ D : body[c] \in Body => char'[body[c]] = Unselected(char)[body[c]]
      BY <2>1, <3>1, Reloaded DEF Objects
    <3>5. fighters \subseteq Client BY DEF Objects
    <3> QED BY <3>2, <3>3, <3>4, <3>5, <1>a, UnselectedObjects
  <2>3. Choosers' = {} BY <2>1, <2>2 DEF Choosers, Selected, Of
  <2>4. Cardinality({}) = 0 BY FS_EmptySet
  <2> QED BY <2>1, <2>3, <2>4 DEF CountIsRight, Choosers
<1>18. CASE UNCHANGED vars
  BY <1>18, SameSelections DEF vars
<1> QED BY <1>1, <1>2, <1>3, <1>4, <1>5, <1>6, <1>7, <1>8, <1>9, <1>10, <1>11, <1>12,
           <1>13, <1>14, <1>15, <1>16, <1>17, <1>18, <1>19, <1>20 DEF Next, Goes

-----------------------------------------------------------------------------
\* Guilds and the objects that say whose they are

\* Of two clients with one object one lost its place, or got its object from one that had
\* lost it; where the other did not, it fights in the battle that is under way, and the
\* first does not. (Where nothing was disturbed, Apart says more of the fighters.)
Shared(c, d) == c # d /\ body[c] \in Body /\ body[c] = body[d]

Mixed(c, d) == Shared(c, d) /\ c \in takenOver /\ d \notin takenOver

Owned ==
  /\ \A c, d \in Client : Shared(c, d) => c \in takenOver \/ d \in takenOver
  /\ \A c, d \in Client : Mixed(c, d) => started /\ d \in fighters /\ c \notin fighters

BodyInv == Objects /\ Lists /\ Owned /\ GuildsAreListed

\* After a reload, clients that share an object are outside D and shared it before.
LEMMA ReloadedShared ==
  ASSUME Objects, NEW D, NEW chars \in [Body -> BattleChar], Reload(D, chars, guilds),
         NEW c \in Client, NEW d \in Client, Shared(c, d)'
  PROVE  /\ Shared(c, d) /\ c \notin D /\ d \notin D
         /\ c \in takenOver' <=> c \in takenOver
         /\ d \in takenOver' <=> d \in takenOver
<1>1. \A e : e \notin D => (e \in takenOver' <=> e \in takenOver) BY Reloaded DEF Objects
<1>2. \A e \in Client \ D : body'[e] = body[e] BY Reloaded DEF Objects
<1>3. \A e \in D \cap Client, f \in Client : e # f => body'[e] # body'[f]
  BY Reloaded DEF Objects
<1>4. c \notin D /\ d \notin D BY <1>3 DEF Shared
<1> QED BY <1>1, <1>2, <1>4 DEF Shared

\* A reload keeps Owned, if of the pairs that it leaves nobody changes sides.
LEMMA ReloadKeepsOwned ==
  ASSUME Objects, Owned, NEW D, NEW chars \in [Body -> BattleChar], Reload(D, chars, guilds),
         \A c, d \in Client :
           Mixed(c, d) /\ c \notin D /\ d \notin D => started' /\ d \in fighters' /\ c \notin fighters'
  PROVE  Owned'
<1> SUFFICES ASSUME NEW c \in Client, NEW d \in Client, Shared(c, d)'
             PROVE  /\ c \in takenOver' \/ d \in takenOver'
                    /\ c \in takenOver' /\ d \notin takenOver' =>
                         started' /\ d \in fighters' /\ c \notin fighters'
  BY DEF Owned, Mixed
<1>1. /\ Shared(c, d) /\ c \notin D /\ d \notin D
      /\ c \in takenOver' <=> c \in takenOver
      /\ d \in takenOver' <=> d \in takenOver
  BY ReloadedShared
<1> QED BY <1>1 DEF Owned, Mixed

\* A reload keeps the guilds listed: the new objects say what is found.
LEMMA ReloadKeepsListed ==
  ASSUME Objects, GuildsAreListed, NEW D, NEW chars \in [Body -> BattleChar],
         Reload(D, chars, guilds), guilds' = guilds,
         \A b \in Body : chars[b].guild = char[b].guild
  PROVE  GuildsAreListed'
<1> SUFFICES ASSUME NEW c \in Client, c \notin takenOver', body'[c] # None,
                    char'[body'[c]].guild # None
             PROVE  /\ char'[body'[c]].guild \in DOMAIN guilds
                    /\ \E i \in DOMAIN guilds[char'[body'[c]].guild] :
                         guilds[char'[body'[c]].guild][i] = c
  BY DEF GuildsAreListed, Has, Of, Members
<1>1. CASE c \in D
  <2>1. /\ char'[body'[c]].guild \in FindGuild(c, guilds)
        /\ c \notin Inside => char'[body'[c]].guild = None
    BY <1>1, Reloaded DEF Objects
  <2> QED BY <2>1, GuildFound
<1>2. CASE c \notin D
  <2>1. c \notin takenOver /\ body'[c] = body[c] BY <1>2, Reloaded DEF Objects
  <2>2. body[c] \in Body BY <2>1 DEF Objects
  <2>3. char'[body[c]] = chars[body[c]] BY <1>2, <2>2, Reloaded DEF Objects
  <2>4. char'[body'[c]].guild = char[body[c]].guild BY <2>1, <2>2, <2>3
  <2> QED BY <1>2, <2>1, <2>2, <2>4 DEF GuildsAreListed, Has, Of, Members
<1> QED BY <1>1, <1>2

-----------------------------------------------------------------------------
\* The lists of guilds

In(x, s) == \E i \in DOMAIN s : s[i] = x

\* list.remove takes out the first that is the client, and leaves everybody else listed.
LEMMA WithoutOne ==
  ASSUME NEW s \in Seq(Client), NEW c
  PROVE  /\ Without(s, c) \in Seq(Client)
         /\ \A x : x # c /\ In(x, s) => In(x, Without(s, c))
<1>1. DOMAIN s = 1 .. Len(s) /\ Len(s) \in Nat BY LenProperties
<1>2. CASE ~In(c, s) BY <1>2, Zenon DEF Without, In
<1>3. CASE In(c, s)
  <2> DEFINE First(j) == s[j] = c /\ \A k \in 1 .. j - 1 : s[k] # c
             i == CHOOSE j \in DOMAIN s : First(j)
             a == SubSeq(s, 1, i - 1)
             b == SubSeq(s, i + 1, Len(s))
             at == {j \in DOMAIN s : s[j] = c}
  <2>1. at \subseteq Nat /\ at # {} BY <1>1, <1>3 DEF In
  <2>2. PICK m \in at : \A k \in at : ~(<< k, m >> \in OpToRel(<, Nat))
    BY <2>1, WFMin, NatLessThanWellFounded
  <2>3. ASSUME NEW k \in at PROVE m <= k
    <3>1. << k, m >> \in Nat \X Nat /\ k \in Nat /\ m \in Nat BY <2>1
    <3>2. ~(<< k, m >>[1] < << k, m >>[2]) BY <2>2, <3>1, Zenon DEF OpToRel
    <3> QED BY <3>1, <3>2
  <2>4. m \in DOMAIN s /\ First(m) BY <1>1, <2>3
  <2> HIDE DEF First
  <2>5. i \in 1 .. Len(s) /\ First(i) BY <1>1, <2>4
  <2>6. s[i] = c BY <2>5 DEF First
  <2>7. Without(s, c) = a \o b
    BY <1>3, Zenon DEF Without, In, First
  <2> HIDE DEF i, at
  <2>8. a \in Seq(Client) /\ Len(a) = i - 1 /\ \A p \in 1 .. i - 1 : a[p] = s[p]
    BY <1>1, <2>5, SubSeqProperties, ElementOfSeq
  <2>9. /\ b \in Seq(Client) /\ Len(b) = Len(s) - i
        /\ \A p \in 1 .. Len(s) - i : b[p] = s[i + p]
    <3>1. \A j \in i + 1 .. Len(s) : s[j] \in Client BY <1>1, <2>5, ElementOfSeq
    <3>2. i + 1 \in Int /\ Len(s) \in Int BY <1>1, <2>5
    <3>3. /\ b \in Seq(Client)
          /\ Len(b) = IF i + 1 <= Len(s) THEN Len(s) - (i + 1) + 1 ELSE 0
          /\ \A p \in 1 .. Len(s) - (i + 1) + 1 : b[p] = s[(i + 1) + p - 1]
      BY <3>1, <3>2, SubSeqProperties
    <3> HIDE DEF b
    <3>4. Len(b) = Len(s) - i
      <4>1. Len(s) \in Int /\ i \in Int /\ i <= Len(s) BY <1>1, <2>5
      <4>2. \A n, k \in Int : k <= n => n - k = IF k + 1 <= n THEN n - (k + 1) + 1 ELSE 0
        OBVIOUS
      <4> QED BY <3>3, <4>1, <4>2, Zenon
    <3>5. ASSUME NEW p \in 1 .. Len(s) - i PROVE b[p] = s[i + p]
      <4>1. p \in 1 .. Len(s) - (i + 1) + 1 /\ (i + 1) + p - 1 = i + p BY <1>1, <2>5
      <4> QED BY <3>3, <4>1
    <3> QED BY <3>3, <3>4, <3>5
  <2> HIDE DEF a, b
  <2> DEFINE w == a \o b
  <2>10. /\ w \in Seq(Client) /\ Len(w) = Len(a) + Len(b)
         /\ \A p \in 1 .. Len(a) + Len(b) : w[p] = IF p <= Len(a) THEN a[p] ELSE b[p - Len(a)]
    BY <2>8, <2>9, ConcatProperties
  <2> HIDE DEF w
  <2>11. Len(w) = Len(s) - 1 /\ DOMAIN w = 1 .. Len(s) - 1
    BY <1>1, <2>5, <2>8, <2>9, <2>10, LenProperties
  <2>12. \A p \in 1 .. i - 1 : p \in 1 .. Len(s) - 1 /\ w[p] = s[p]
    BY <1>1, <2>5, <2>8, <2>9, <2>10
  <2>13. ASSUME NEW p \in i + 1 .. Len(s)
         PROVE  p - 1 \in 1 .. Len(s) - 1 /\ w[p - 1] = s[p]
    <3>1. /\ p - 1 \in 1 .. Len(a) + Len(b) /\ ~(p - 1 <= Len(a)) /\ (p - 1) - Len(a) = p - i
          /\ p - i \in 1 .. Len(s) - i /\ i + (p - i) = p /\ p - 1 \in 1 .. Len(s) - 1
      BY <1>1, <2>5, <2>8, <2>9
    <3> QED BY <2>9, <2>10, <3>1
  <2>14. ASSUME NEW x, x # c, NEW j \in DOMAIN s, s[j] = x PROVE In(x, w)
    <3>1. j \in 1 .. i - 1 \/ j \in i + 1 .. Len(s) BY <1>1, <2>5, <2>6, <2>14
    <3>2. CASE j \in 1 .. i - 1 BY <2>11, <2>12, <2>14, <3>2 DEF In
    <3>3. CASE j \in i + 1 .. Len(s) BY <2>11, <2>13, <2>14, <3>3 DEF In
    <3> QED BY <3>1, <3>2, <3>3
  <2> QED BY <2>7, <2>10, <2>14 DEF In, w
<1> QED BY <1>2, <1>3

\* Putting a client where another is listed leaves the others listed.
LEMMA OtherName ==
  ASSUME NEW s \in Seq(Client), NEW i, NEW c \in Client
  PROVE  /\ [s EXCEPT ![i] = c] \in Seq(Client)
         /\ i \in DOMAIN s => In(c, [s EXCEPT ![i] = c])
         /\ \A j \in DOMAIN s : j # i => In(s[j], [s EXCEPT ![i] = c])
<1>1. DOMAIN s = 1 .. Len(s) /\ Len(s) \in Nat BY LenProperties
<1>2. CASE i \in 1 .. Len(s) BY <1>1, <1>2, ExceptSeq DEF In
<1>3. CASE i \notin 1 .. Len(s)
  <2>1. [s EXCEPT ![i] = c] = s BY <1>1, <1>3
  <2> QED BY <1>1, <1>3, <2>1 DEF In
<1> QED BY <1>2, <1>3

\* Guilds' lists stay lists of clients.
LEMMA ListsStep ==
  ASSUME Objects, Lists, [Next]_vars
  PROVE  Lists'
<1>1. CASE guilds' = guilds BY <1>1 DEF Lists
<1>2. ASSUME NEW c \in Client, Goes(c) PROVE Lists'
  <2>1. CASE guilds' = guilds BY <1>1, <2>1
  <2>2. CASE guilds' # guilds
    <3>1. GoesWell(c) BY <1>2, <2>2, Going DEF GoesQuietly, GoesOff, GoesBadly
    <3>2. PICK g \in DOMAIN guilds : guilds' = [guilds EXCEPT ![g] = Without(guilds[g], c)]
      BY <2>2, <3>1 DEF GoesWell
    <3>3. Without(guilds[g], c) \in Seq(Client) BY WithoutOne DEF Lists
    <3> QED BY <3>2, <3>3 DEF Lists
  <2> QED BY <2>1, <2>2
<1>3. ASSUME NEW t \in Client, LeaveGuild(t) PROVE Lists'
  <2> DEFINE g == Of(t).guild
             left == Without(guilds[g], t)
  <2>1. \/ guilds' = guilds
        \/ g \in DOMAIN guilds /\ guilds' = [h \in DOMAIN guilds \ {g} |-> guilds[h]]
        \/ g \in DOMAIN guilds /\ guilds' = [guilds EXCEPT ![g] = left]
    BY <1>3, Zenon DEF LeaveGuild
  <2>2. g \in DOMAIN guilds => left \in Seq(Client) BY WithoutOne DEF Lists
  <2> HIDE DEF g, left
  <2> QED BY <1>1, <2>1, <2>2 DEF Lists
<1>4. ASSUME NEW c \in Client, NEW g \in Guild, CreateGuild(c, g) PROVE Lists'
  <2>1. << c >> \in Seq(Client) OBVIOUS
  <2> QED BY <1>4, <2>1 DEF CreateGuild, Lists
<1>5. ASSUME NEW D, CloseGuilds(D) PROVE Lists' BY <1>5 DEF CloseGuilds, Lists
<1>6. ASSUME NEW c \in Client, NEW t \in Client, JoinGuild(c, t) PROVE Lists'
  <2>1. PICK g \in DOMAIN guilds : guilds' = [guilds EXCEPT ![g] = Append(guilds[g], t)]
    BY <1>6 DEF JoinGuild, Leads
  <2>2. Append(guilds[g], t) \in Seq(Client) BY AppendProperties DEF Lists
  <2> QED BY <2>1, <2>2 DEF Lists
<1>7. ASSUME NEW c \in Client, NEW t \in Client, Reconnect(c, t) PROVE Lists'
  <2>1. CASE guilds' = guilds BY <1>1, <2>1
  <2>2. CASE guilds' # guilds
    <3>1. \E g \in DOMAIN guilds : \E i : guilds' = [guilds EXCEPT ![g] = [guilds[g] EXCEPT ![i] = c]]
      <4>1. Listed(t) /\ Of(t).guild # None BY <1>7, <2>2 DEF Reconnect
      <4>2. Of(t).guild \in DOMAIN guilds BY <4>1 DEF Listed
      <4> QED BY <1>7, <4>1, <4>2 DEF Reconnect
    <3>2. PICK g \in DOMAIN guilds : \E i : guilds' = [guilds EXCEPT ![g] = [guilds[g] EXCEPT ![i] = c]]
      BY <3>1
    <3>3. PICK i : guilds' = [guilds EXCEPT ![g] = [guilds[g] EXCEPT ![i] = c]] BY <3>2
    <3>4. [guilds[g] EXCEPT ![i] = c] \in Seq(Client) BY OtherName DEF Lists
    <3> QED BY <3>3, <3>4 DEF Lists
  <2> QED BY <2>1, <2>2
<1>8. CASE UNCHANGED vars BY <1>1, <1>8 DEF vars
<1>9. ASSUME NEW c \in Client,
             \/ Choose(c) \/ EditMoves(c) \/ Enter(c) \/ Fight(c) \/ Resume(c) \/ Surrender(c)
             \/ RemoveFighter(c) \/ SkipMove(c) \/ ForceSkipMove(c) \/ Act(c) \/ TurnFails(c)
      PROVE  Lists'
  BY <1>1, <1>9 DEF Choose, EditMoves, Enter, Fight, Resume, Surrender, RemoveFighter, GivesUp,
                    SkipMove, ForceSkipMove, Act, TurnFails
<1>12. ASSUME NEW c, NEW t, Elsewhere(c) \/ ReconnectElsewhere(c, t) PROVE Lists'
  BY <1>1, <1>12 DEF Elsewhere, ReconnectElsewhere
<1>10. ASSUME NEW c, NEW s, NEW t, UseMove(c, s, t) \/ UseItem(c, s, t) PROVE Lists'
  BY <1>1, <1>10 DEF UseMove, UseItem, Selects
<1>11. CASE RefreshBattle \/ EndTurn BY <1>1, <1>11 DEF RefreshBattle, EndTurn
<1> QED BY <1>2, <1>3, <1>4, <1>5, <1>6, <1>7, <1>8, <1>9, <1>10, <1>11, <1>12 DEF Next, Goes

-----------------------------------------------------------------------------
\* num_selected_move is the number of fighters that have selected, for any number of
\* clients, guilds and kinds of moves, until a selection is lost uncounted.
THEOREM CountAlwaysRight == Spec => []CountIsRight
<1>1. Init => CountInv
  <2> SUFFICES ASSUME Init PROVE CountInv OBVIOUS
  <2>1. \A b \in Body : char[b] \in BattleChar
    BY DEF Init, Unhurt, BattleChar, Selection, Statuses
  <2>2. Objects BY <2>1 DEF Init, Objects
  <2>3. Apart /\ Lists BY BattleAssumption DEF Init, Apart, Lists
  <2>4. Cardinality({}) = 0 /\ {c \in fighters : Selected(c)} = {} BY FS_EmptySet DEF Init
  <2>5. CountIsRight BY <2>4 DEF Init, CountIsRight
  <2> QED BY <2>2, <2>3, <2>5 DEF CountInv
<1>2. CountInv /\ [Next]_vars => CountInv'
  BY ObjectsStep, ListsStep, ApartStep, CountStep DEF CountInv
<1>3. CountInv => CountIsRight BY DEF CountInv
<1> QED BY <1>1, <1>2, <1>3, PTL DEF Spec

-----------------------------------------------------------------------------
\* Who has whose object, whatever was disturbed

\* Steps that leave the objects with those who have them, and the fighters of a battle
\* that is under way.
LEMMA SameKeepsOwned ==
  ASSUME Owned, body' = body, takenOver' = takenOver, started => started' /\ fighters' = fighters
  PROVE  Owned'
BY DEF Owned, Mixed, Shared

\* Joining a guild with an object that is another's makes all who have it of one kind.
LEMMA BringsKeepsOwned ==
  ASSUME Owned, NEW c \in Client, Brings(c), body' = body, started' = started,
         fighters' = fighters
  PROVE  Owned'
<1>1. CASE c \notin takenOver BY <1>1, SameKeepsOwned DEF Brings
<1>2. CASE c \in takenOver
  <2>1. takenOver' = takenOver \cup {d \in Client : body[d] = body[c]} BY <1>2 DEF Brings
  <2>2. ASSUME NEW d \in Client, NEW e \in Client, Shared(d, e)' PROVE Shared(d, e)
    BY <2>2 DEF Shared
  <2>3. ASSUME NEW d \in Client, NEW e \in Client, Mixed(d, e)' PROVE Mixed(d, e)
    BY <2>1, <2>3 DEF Mixed, Shared
  <2> QED BY <2>1, <2>2, <2>3 DEF Owned
<1> QED BY <1>1, <1>2

\* Taking over a place shares its object: who had it is set down for it, or was already,
\* and then so is who takes it (/fight in a started battle).
LEMMA ReconnectKeepsOwned ==
  ASSUME Objects, Owned, GuildsAreListed, NEW c \in Client, NEW t \in Client, Reconnect(c, t)
  PROVE  Owned'
<1>1. /\ c \notin fighters /\ t \in fighters /\ c # t /\ started /\ started'
      /\ body[t] \in Body
  BY DEF Reconnect, Objects
<1>2. body'[c] = body[t] /\ \A d \in Client \ {c} : body'[d] = body[d]
  BY DEF Reconnect, Objects
<1>3. \/ fighters' = (fighters \ {t}) \cup {c} /\ t \in takenOver /\ takenOver' = takenOver \cup {c}
      \/ /\ fighters' = (fighters \ {t}) \cup {c} /\ t \notin takenOver
         /\ takenOver' = (takenOver \ {c}) \cup {t}
      \/ fighters' = fighters /\ t \in takenOver /\ takenOver' = takenOver \cup {c}
  <2> DEFINE g == Of(t).guild
             listed == Listed(t)
  <2>1. IF listed
        THEN /\ fighters' = Replaced(c, t)
             /\ takenOver' = (IF t \in takenOver THEN {c} \cup takenOver ELSE takenOver \ {c}) \cup {t}
        ELSE takenOver' = takenOver \cup {c} /\ fighters' = fighters
    BY Zenon DEF Reconnect
  <2>2. t \notin takenOver => listed
    BY <1>1, BattleAssumption DEF GuildsAreListed, Has, Listed
  <2> HIDE DEF listed
  <2> QED BY <2>1, <2>2 DEF Replaced
<1>4. ASSUME NEW d \in Client, NEW e \in Client, Shared(d, e)', d # c, e # c PROVE Shared(d, e)
  BY <1>2, <1>4 DEF Shared
<1>5. ASSUME NEW d \in Client, d # c, body'[d] = body'[c], d # t PROVE Shared(d, t)
  BY <1>1, <1>2, <1>5 DEF Shared
<1>6. CASE t \in takenOver
  <2>1. /\ takenOver' = takenOver \cup {c}
        /\ fighters' = fighters \/ fighters' = (fighters \ {t}) \cup {c}
    BY <1>3, <1>6
  <2>2. ASSUME NEW d \in Client, d # c, body'[d] = body'[c] PROVE d \in takenOver
    <3>1. CASE d = t BY <1>6, <3>1
    <3>2. CASE d # t
      <4>1. Shared(t, d) BY <1>5, <2>2, <3>2 DEF Shared
      <4> QED BY <1>1, <1>6, <4>1 DEF Owned, Mixed
    <3> QED BY <3>1, <3>2
  <2>3. ASSUME NEW d \in Client, NEW e \in Client, Shared(d, e)'
        PROVE  /\ d \in takenOver' \/ e \in takenOver'
               /\ d \in takenOver' /\ e \notin takenOver' => e \in fighters' /\ d \notin fighters'
    <3>1. CASE d = c \/ e = c BY <2>1, <2>2, <2>3, <3>1 DEF Shared
    <3>2. CASE d # c /\ e # c
      <4>1. Shared(d, e) BY <1>4, <2>3, <3>2
      <4> QED BY <1>6, <2>1, <3>2, <4>1 DEF Owned, Mixed
    <3> QED BY <3>1, <3>2
  <2> QED BY <1>1, <2>3 DEF Owned, Mixed
<1>7. CASE t \notin takenOver
  <2>1. takenOver' = (takenOver \ {c}) \cup {t} /\ fighters' = (fighters \ {t}) \cup {c}
    BY <1>3, <1>7
  <2>2. ASSUME NEW d \in Client, d # c, d # t, body'[d] = body'[c]
        PROVE  d \in takenOver /\ d \notin fighters
    <3>1. Shared(d, t) BY <1>5, <2>2
    <3> QED BY <1>7, <3>1 DEF Owned, Mixed
  <2>3. ASSUME NEW d \in Client, NEW e \in Client, Shared(d, e)'
        PROVE  /\ d \in takenOver' \/ e \in takenOver'
               /\ d \in takenOver' /\ e \notin takenOver' => e \in fighters' /\ d \notin fighters'
    <3>1. CASE d = c
      <4>1. e # c /\ body'[e] = body'[c] BY <2>3, <3>1 DEF Shared
      <4> QED BY <1>1, <2>1, <2>2, <3>1, <4>1
    <3>2. CASE e = c
      <4>1. d # c /\ body'[d] = body'[c] BY <2>3, <3>2 DEF Shared
      <4> QED BY <1>1, <2>1, <2>2, <3>2, <4>1
    <3>3. CASE d # c /\ e # c
      <4>1. Shared(d, e) BY <1>4, <2>3, <3>3
      <4>2. Shared(e, d) BY <4>1 DEF Shared
      <4> QED BY <1>7, <2>1, <3>3, <4>1, <4>2 DEF Owned, Mixed
    <3> QED BY <3>1, <3>2, <3>3
  <2> QED BY <1>1, <2>3 DEF Owned, Mixed
<1> QED BY <1>6, <1>7

\* Who stays in a battle whose turn is over keeps its side; a guild that wins reloads all
\* whom it lists, and it lists all who fight for it with an object of their own.
LEMMA EndTurnKeepsOwned ==
  ASSUME Objects, Owned, GuildsAreListed, EndTurn
  PROVE  Owned'
<1>1. PICK hurt \in SUBSET {c \in fighters : Of(c).up /\ Of(c).status \in {"poison", "burn", "freeze"}} :
        LET left == {c \in fighters \ hurt : Of(c).up}
            over == Cardinality(left) <= 1
            won == WinningGuild(left)
            fails == ~over /\ \E g \in won : g \notin DOMAIN guilds \/ guilds[g] = << >>
            winners == IF over THEN left ELSE UNION {Members(g) : g \in won \cap DOMAIN guilds}
        IN /\ Reload((fighters \ left) \cup winners, Unselected(char), guilds)
           /\ fighters' = IF over \/ (won # {} /\ ~fails) THEN {} ELSE left
           /\ IF fails THEN UNCHANGED << counted, started >>
              ELSE counted' = 0 /\ started' = (fighters' # {})
  BY Zenon DEF EndTurn
<1> DEFINE left == {c \in fighters \ hurt : Of(c).up}
           over == Cardinality(left) <= 1
           won == WinningGuild(left)
           fails == ~over /\ \E g \in won : g \notin DOMAIN guilds \/ guilds[g] = << >>
           winners == IF over THEN left ELSE UNION {Members(g) : g \in won \cap DOMAIN guilds}
           D == (fighters \ left) \cup winners
<1>2. /\ Reload(D, Unselected(char), guilds)
      /\ fighters' = IF over \/ (won # {} /\ ~fails) THEN {} ELSE left
      /\ IF fails THEN started' = started ELSE started' = (fighters' # {})
  BY <1>1, Zenon
<1>3. Unselected(char) \in [Body -> BattleChar] BY UnselectedObjects
<1>4. left \subseteq fighters OBVIOUS
<1>5. ASSUME NEW d \in left, d \in Client \ takenOver, body[d] \in Body, NEW g \in won
      PROVE  g \in DOMAIN guilds /\ d \in Members(g)
  <2>1. Of(d).guild = g /\ g \in Guild BY <1>5 DEF WinningGuild
  <2> QED BY <1>5, <2>1, BattleAssumption DEF GuildsAreListed, Has
<1> HIDE DEF left, won
<1>6. ASSUME NEW c \in Client, NEW d \in Client, Mixed(c, d), c \notin D, d \notin D
      PROVE  started' /\ d \in fighters' /\ c \notin fighters'
  <2>1. /\ started /\ d \in fighters /\ c \notin fighters /\ d \notin takenOver
        /\ body[d] \in Body
    BY <1>6 DEF Owned, Mixed, Shared
  <2>2. d \in left /\ d \notin winners BY <1>6, <2>1
  <2>3. ~over BY <2>2
  <2>4. won = {}
    <3> SUFFICES ASSUME NEW g \in won PROVE FALSE OBVIOUS
    <3>1. g \in DOMAIN guilds /\ d \in Members(g) BY <1>5, <2>1, <2>2
    <3> QED BY <2>2, <2>3, <3>1
  <2>5. fighters' = left BY <1>2, <2>3, <2>4
  <2> QED BY <1>2, <1>4, <2>1, <2>2, <2>5
<1> HIDE DEF D
<1> QED BY <1>2, <1>3, <1>6, ReloadKeepsOwned

\* Every step keeps who has whose object.
LEMMA OwnedStep ==
  ASSUME Objects, Owned, GuildsAreListed, [Next]_vars
  PROVE  Owned'
<1>a. char \in [Body -> BattleChar] BY DEF Objects
<1>1. ASSUME NEW c \in Client,
             \/ Enter(c) \/ Fight(c) \/ Resume(c) \/ SkipMove(c) \/ ForceSkipMove(c)
             \/ LeaveGuild(c) \/ Act(c) \/ TurnFails(c)
      PROVE  Owned'
  BY <1>1, SameKeepsOwned DEF Enter, Fight, Resume, SkipMove, ForceSkipMove, LeaveGuild,
                              Act, TurnFails
<1>2. ASSUME NEW c, NEW s, NEW t, UseMove(c, s, t) \/ UseItem(c, s, t) PROVE Owned'
  BY <1>2, SameKeepsOwned DEF UseMove, UseItem, Selects
<1>3. ASSUME NEW D, CloseGuilds(D) PROVE Owned' BY <1>3, SameKeepsOwned DEF CloseGuilds
<1>4. ASSUME NEW c \in Client, Choose(c) \/ EditMoves(c) PROVE Owned'
  <2>1. Choose(c) BY <1>4 DEF EditMoves
  <2>2. Reload({c}, char, guilds) /\ fighters' = fighters /\ started' = started
    BY <2>1 DEF Choose
  <2>3. \A d, e \in Client : Mixed(d, e) => started' /\ e \in fighters' /\ d \notin fighters'
    BY <2>2 DEF Owned
  <2> QED BY <2>2, <2>3, <1>a, ReloadKeepsOwned
<1>5. ASSUME NEW c \in Client, Surrender(c) \/ RemoveFighter(c) PROVE Owned'
  <2>1. GivesUp(c) BY <1>5 DEF Surrender, RemoveFighter
  <2>2. /\ Reload({c}, char, guilds) /\ fighters' \in {fighters, fighters \ {c}}
        /\ started' = StillOn(fighters')
    BY <2>1 DEF GivesUp
  <2>3. ASSUME NEW d \in Client, NEW e \in Client, Mixed(d, e), d \notin {c}, e \notin {c}
        PROVE  started' /\ e \in fighters' /\ d \notin fighters'
    <3>1. started /\ e \in fighters /\ d \notin fighters BY <2>3 DEF Owned
    <3>2. e \in fighters' /\ d \notin fighters' BY <2>2, <2>3, <3>1
    <3> QED BY <2>2, <3>1, <3>2 DEF StillOn
  <2> QED BY <2>2, <2>3, <1>a, ReloadKeepsOwned
<1>6. CASE RefreshBattle
  <2>1. Reload(fighters, char, guilds) BY <1>6 DEF RefreshBattle
  <2>2. \A d, e \in Client : Mixed(d, e) => e \in fighters BY DEF Owned
  <2> QED BY <2>1, <2>2, <1>a, ReloadKeepsOwned
<1>7. ASSUME NEW c \in Client, NEW g, CreateGuild(c, g) PROVE Owned'
  BY <1>7, BringsKeepsOwned DEF CreateGuild
<1>8. ASSUME NEW c, NEW t \in Client, JoinGuild(c, t) PROVE Owned'
  BY <1>8, BringsKeepsOwned DEF JoinGuild
<1>9. CASE UNCHANGED vars BY <1>9, SameKeepsOwned DEF vars
<1>10. ASSUME NEW c \in Client, Goes(c) PROVE Owned'
  <2>1. /\ UNCHANGED << started, body, takenOver >>
        /\ GoesQuietly(c) \/ GoesOff(c) \/ GoesBadly(c) \/ GoesWell(c)
    BY <1>10, Going
  <2>2. started => fighters' = fighters BY <2>1 DEF GoesQuietly, GoesOff, GoesBadly, GoesWell
  <2> QED BY <2>1, <2>2, SameKeepsOwned
<1>11. ASSUME NEW c \in Client, Elsewhere(c) PROVE Owned'
  <2>1. UNCHANGED << started, body, fighters >> /\ takenOver' = takenOver \cup Sharing(c)
    BY <1>11 DEF Elsewhere
  <2> QED BY <2>1 DEF Owned, Mixed, Shared, Sharing
<1>12. ASSUME NEW c \in Client, NEW t \in Client, ReconnectElsewhere(c, t) PROVE Owned'
  <2>1. /\ UNCHANGED << started, fighters >>
        /\ takenOver' = takenOver \cup Sharing(t) \cup {c}
        /\ body'[c] = body[t] /\ \A d \in Client \ {c} : body'[d] = body[d]
    BY <1>12 DEF ReconnectElsewhere, Objects
  <2>2. ASSUME NEW d \in Client, NEW e \in Client, Shared(d, e)'
        PROVE  /\ d \in takenOver' \/ e \in takenOver'
               /\ d \in takenOver' /\ e \notin takenOver' => started /\ e \in fighters /\ d \notin fighters
    <3>1. CASE d = c \/ e = c BY <2>1, <2>2, <3>1 DEF Shared, Sharing
    <3>2. CASE d # c /\ e # c
      <4>1. Shared(d, e) BY <2>1, <2>2, <3>2 DEF Shared
      <4>2. d \in Sharing(t) <=> e \in Sharing(t) BY <4>1 DEF Shared, Sharing
      <4> QED BY <2>1, <3>2, <4>1, <4>2 DEF Owned, Mixed
    <3> QED BY <3>1, <3>2
  <2> QED BY <2>1, <2>2 DEF Owned, Mixed
<1> QED BY <1>1, <1>2, <1>3, <1>4, <1>5, <1>6, <1>7, <1>8, <1>9, <1>10, <1>11, <1>12,
           ReconnectKeepsOwned, EndTurnKeepsOwned DEF Next, Goes

-----------------------------------------------------------------------------
\* Guilds list those who are said to be in them

\* What a client with an object of its own is said to be in, is open and lists it.
ListedIn(c, o, gs) == o.guild # None => o.guild \in DOMAIN gs /\ In(c, gs[o.guild])

LEMMA ListedMeans ==
  /\ GuildsAreListed <=>
       \A c \in Client : c \notin takenOver /\ body[c] # None => ListedIn(c, char[body[c]], guilds)
  /\ GuildsAreListed' <=>
       \A c \in Client : c \notin takenOver' /\ body'[c] # None =>
         ListedIn(c, char'[body'[c]], guilds')
BY DEF GuildsAreListed, ListedIn, In, Has, Of, Members

\* Steps that leave the guilds and what the objects say of them.
LEMMA SameKeepsListed ==
  ASSUME Objects, GuildsAreListed, body' = body, guilds' = guilds, takenOver' = takenOver,
         \A b \in Body : char'[b].guild = char[b].guild
  PROVE  GuildsAreListed'
<1>1. \A c \in Client : body[c] # None => char'[body[c]].guild = char[body[c]].guild
  BY DEF Objects
<1> QED BY <1>1 DEF GuildsAreListed, Has, Of, Members

\* Writing a selection, a status or a connection keeps the guild that an object says.
LEMMA GuildKept ==
  ASSUME NEW f \in [Body -> BattleChar], NEW h, NEW b, NEW x, NEW y,
         \/ h = [f EXCEPT ![b] = [f[b] EXCEPT !.sel = x, !.target = y, !.on = TRUE]]
         \/ h = [f EXCEPT ![b].sel = x]
         \/ h = [f EXCEPT ![b].on = x]
         \/ h = [f EXCEPT ![b].status = x]
  PROVE  \A e \in Body : h[e].guild = f[e].guild
<1>1. \A o \in BattleChar : /\ [o EXCEPT !.sel = x, !.target = y, !.on = TRUE].guild = o.guild
                            /\ [o EXCEPT !.sel = x].guild = o.guild
                            /\ [o EXCEPT !.on = x].guild = o.guild
                            /\ [o EXCEPT !.status = x].guild = o.guild
  BY DEF BattleChar
<1>2. \A e \in Body : h[e] \in {f[e], [f[e] EXCEPT !.sel = x, !.target = y, !.on = TRUE],
                                [f[e] EXCEPT !.sel = x], [f[e] EXCEPT !.on = x],
                                [f[e] EXCEPT !.status = x]}
  OBVIOUS
<1> QED BY <1>1, <1>2

\* What a move or an item does to an object leaves it its guild.
LEMMA OutcomeKeepsGuild ==
  ASSUME NEW s, NEW o \in BattleChar, NEW e \in Outcomes(s, o)
  PROVE  e.guild = o.guild
<1>1. \A x : [o EXCEPT !.status = x].guild = o.guild BY DEF BattleChar
<1>2. \A x : [o EXCEPT !.up = FALSE, !.status = x].guild = o.guild BY DEF BattleChar
<1>3. \A x \in Struck(o) : x.guild = o.guild BY <1>1, <1>2 DEF Struck
<1>4. \A x \in Helped(o) : x.guild = o.guild BY <1>1 DEF Helped
<1>5. \A x \in Treated(o) : x.guild = o.guild BY <1>1 DEF Treated
<1> QED BY <1>3, <1>4, <1>5 DEF Outcomes

\* A fighter's action leaves all their guilds.
LEMMA ActKeepsGuilds ==
  ASSUME Objects, NEW c \in Client, Act(c)
  PROVE  \A b \in Body : char'[b].guild = char[b].guild
<1>1. c \in fighters /\ body[c] \in Body /\ char \in [Body -> BattleChar]
  BY DEF Act, Objects
<1>2. CASE UNCHANGED char BY <1>2
<1>3. CASE ~UNCHANGED char
  <2>1. PICK h \in Held(Of(c).status) :
          LET held == [char EXCEPT ![body[c]].status = h[2]] IN
          \/ char' = held
          \/ \E s, B : CarriesOut(c, s, held, B)
    BY <1>3 DEF Act
  <2> DEFINE held == [char EXCEPT ![body[c]].status = h[2]]
  <2>2. \A b \in Body : held[b].guild = char[b].guild BY <1>1, GuildKept, ZenonT(40)
  <2>3. held \in [Body -> BattleChar]
    BY <1>1, HeldIsStatus, Updated
  <2>4. char' = held \/ \E s, B : CarriesOut(c, s, held, B) BY <2>1
  <2> HIDE DEF held
  <2>5. CASE char' = held BY <2>2, <2>5
  <2>6. CASE \E s, B : CarriesOut(c, s, held, B)
    <3>1. PICK s, B : CarriesOut(c, s, held, B) BY <2>6
    <3>2. PICK hit \in [B -> UNION {Outcomes(s, held[b]) : b \in B}] :
            /\ \A b \in B : hit[b] \in Outcomes(s, held[b])
            /\ LET after == [b \in Body |-> IF b \in B THEN hit[b] ELSE held[b]] IN
                 \E r \in Rage(s, after[body[c]].status) :
                   char' = [after EXCEPT ![body[c]].status = r]
      BY <3>1 DEF CarriesOut
    <3> DEFINE after == [b \in Body |-> IF b \in B THEN hit[b] ELSE held[b]]
    <3>3. PICK r \in Rage(s, after[body[c]].status) : char' = [after EXCEPT ![body[c]].status = r]
      BY <3>2
    <3>4. \A b \in Body : after[b] \in BattleChar /\ after[b].guild = held[b].guild
      BY <2>3, <3>2, OutcomeIsObject, OutcomeKeepsGuild
    <3>5. after \in [Body -> BattleChar] BY <3>4
    <3> HIDE DEF after
    <3>6. \A b \in Body : char'[b].guild = after[b].guild BY <3>3, <3>5, GuildKept
    <3> QED BY <2>2, <3>4, <3>6
  <2> QED BY <2>4, <2>5, <2>6
<1> QED BY <1>2, <1>3

\* Writing a guild into an object changes what it alone says.
LEMMA GuildWritten ==
  ASSUME Objects, NEW b \in Body, NEW x, char' = [char EXCEPT ![b].guild = x]
  PROVE  char'[b].guild = x /\ \A e \in Body : e # b => char'[e] = char[e]
<1>1. char \in [Body -> BattleChar] BY DEF Objects
<1>2. \A o \in BattleChar : [o EXCEPT !.guild = x].guild = x BY DEF BattleChar
<1> QED BY <1>1, <1>2

\* Somebody is put out of a guild, whose list may vanish with it: its object forgets the
\* guild, and the others stay listed.
LEMMA RemovalKeepsListed ==
  ASSUME Objects, Lists, GuildsAreListed, NEW c \in Client, body[c] \in Body,
         char' = [char EXCEPT ![body[c]].guild = None], body' = body, takenOver' = takenOver,
         NEW g,
         \A h : h # g /\ h \in DOMAIN guilds => h \in DOMAIN guilds' /\ guilds'[h] = guilds[h],
         g \in DOMAIN guilds => \A x \in Client : x # c /\ In(x, guilds[g]) =>
                                  g \in DOMAIN guilds' /\ In(x, guilds'[g])
  PROVE  GuildsAreListed'
<1>1. char'[body[c]].guild = None /\ \A e \in Body : e # body[c] => char'[e] = char[e]
  BY GuildWritten
<1>2. ASSUME NEW x \in Client, x \notin takenOver, body[x] # None, char'[body[x]].guild # None
      PROVE  ListedIn(x, char'[body[x]], guilds')
  <2>1. body[x] # body[c] /\ x # c /\ body[x] \in Body BY <1>1, <1>2 DEF Objects
  <2>2. char'[body[x]] = char[body[x]] BY <1>1, <2>1
  <2>3. ListedIn(x, char[body[x]], guilds) BY <1>2, ListedMeans
  <2> DEFINE h == char[body[x]].guild
  <2>4. h \in DOMAIN guilds /\ In(x, guilds[h]) BY <1>2, <2>2, <2>3 DEF ListedIn
  <2> HIDE DEF h
  <2>5. h \in DOMAIN guilds' /\ In(x, guilds'[h])
    <3>1. CASE h # g
      <4>1. h \in DOMAIN guilds' /\ guilds'[h] = guilds[h] BY <2>4, <3>1
      <4> QED BY <2>4, <4>1
    <3>2. CASE h = g BY <2>1, <2>4, <3>2
    <3> QED BY <3>1, <3>2
  <2> QED BY <2>2, <2>5 DEF ListedIn, h
<1>3. ASSUME NEW x \in Client, x \notin takenOver, body[x] # None
      PROVE  ListedIn(x, char'[body[x]], guilds')
  BY <1>2, <1>3 DEF ListedIn
<1> QED BY <1>3, ListedMeans

\* Somebody is listed in a guild: its object says so, and who else has that object is
\* taken for one who lost its own.
LEMMA AdditionKeepsListed ==
  ASSUME Objects, Owned, GuildsAreListed, NEW c \in Client, body[c] \in Body, NEW g,
         char' = [char EXCEPT ![body[c]].guild = g], body' = body, Brings(c),
         g \in DOMAIN guilds' /\ In(c, guilds'[g]),
         \A h \in DOMAIN guilds, x \in Client :
           In(x, guilds[h]) => h \in DOMAIN guilds' /\ In(x, guilds'[h])
  PROVE  GuildsAreListed'
<1>1. char'[body[c]].guild = g /\ \A e \in Body : e # body[c] => char'[e] = char[e]
  BY GuildWritten
<1>2. \A x \in Client : x \notin takenOver' => x \notin takenOver BY DEF Brings
<1>3. ASSUME NEW x \in Client, x \notin takenOver', body[x] # None
      PROVE  ListedIn(x, char'[body[x]], guilds')
  <2>1. CASE x = c BY <1>1, <2>1 DEF ListedIn
  <2>2. CASE x # c /\ body[x] = body[c]
    <3>1. Shared(x, c) BY <2>2 DEF Shared
    <3>2. c \in takenOver BY <1>2, <1>3, <3>1 DEF Owned
    <3>3. x \in takenOver' BY <2>2, <3>2 DEF Brings
    <3> QED BY <1>3, <3>3
  <2>3. CASE body[x] # body[c]
    <3>1. body[x] \in Body BY <1>3 DEF Objects
    <3>2. char'[body[x]] = char[body[x]] BY <1>1, <2>3, <3>1
    <3>3. ListedIn(x, char[body[x]], guilds) BY <1>2, <1>3, ListedMeans
    <3> QED BY <3>2, <3>3 DEF ListedIn
  <2> QED BY <2>1, <2>2, <2>3
<1> QED BY <1>3, ListedMeans

\* Who takes over a place is listed in its stead.
LEMMA ReconnectKeepsListed ==
  ASSUME Objects, Lists, GuildsAreListed, NEW c \in Client, NEW t \in Client, Reconnect(c, t)
  PROVE  GuildsAreListed'
<1> DEFINE g == Of(t).guild
           listed == Listed(t)
           i == CHOOSE j \in DOMAIN guilds[g] : guilds[g][j] = t
<1>1. /\ c \notin fighters /\ t \in fighters /\ c # t /\ body[t] \in Body
      /\ body' = [body EXCEPT ![c] = body[t]]
      /\ char' = [b \in Body |-> IF \E d \in Client : body'[d] = b THEN char[b] ELSE Unhurt(None)]
  BY DEF Reconnect, Objects
<1>2. body'[c] = body[t] /\ \A d \in Client \ {c} : body'[d] = body[d]
  BY <1>1 DEF Objects
<1>3. \A d \in Client : body'[d] # None => char'[body'[d]] = char[body'[d]]
  BY <1>1, <1>2 DEF Objects
<1>4. IF listed
      THEN /\ guilds' = IF g = None THEN guilds ELSE [guilds EXCEPT ![g][i] = c]
           /\ takenOver' = (IF t \in takenOver THEN {c} \cup takenOver ELSE takenOver \ {c}) \cup {t}
      ELSE takenOver' = takenOver \cup {c} /\ guilds' = guilds
  BY Zenon DEF Reconnect
<1>5. t \notin takenOver => listed
  BY <1>1, BattleAssumption DEF GuildsAreListed, Has, Listed
<1>6. g \in DOMAIN guilds /\ t \in Members(g) => i \in DOMAIN guilds[g] /\ guilds[g][i] = t
  BY DEF Members
<1>7. /\ g = char[body[t]].guild
      /\ listed <=> g = None \/ (g \in DOMAIN guilds /\ t \in Members(g))
  BY DEF Of, Listed
<1> HIDE DEF g, i, listed
<1>8. ASSUME NEW x \in Client, x \notin takenOver, body[x] # None, x # c
      PROVE  ListedIn(x, char[body[x]], guilds)
  BY <1>8, ListedMeans
<1>9. CASE ~listed \/ g = None
  <2>1. guilds' = guilds BY <1>4, <1>9
  <2>2. ASSUME NEW x \in Client, x \notin takenOver', body'[x] # None
        PROVE  ListedIn(x, char'[body'[x]], guilds')
    <3>1. char'[body'[x]] = char[body'[x]] BY <1>3, <2>2
    <3>2. CASE x = c
      <4>1. t \notin takenOver BY <1>4, <1>5, <2>2, <3>2
      <4>2. g = None BY <1>5, <1>9, <4>1
      <4> QED BY <1>2, <1>7, <3>1, <3>2, <4>2 DEF ListedIn
    <3>3. CASE x # c
      <4>1. x \notin takenOver BY <1>4, <2>2, <3>3
      <4>2. body'[x] = body[x] BY <1>2, <3>3
      <4>3. ListedIn(x, char[body[x]], guilds) BY <1>8, <2>2, <3>3, <4>1, <4>2
      <4> QED BY <2>1, <3>1, <4>2, <4>3
    <3> QED BY <3>2, <3>3
  <2> QED BY <2>2, ListedMeans
<1>10. CASE g # None /\ listed
  <2>1. g \in DOMAIN guilds /\ i \in DOMAIN guilds[g] /\ guilds[g][i] = t
    BY <1>6, <1>7, <1>10
  <2>2. /\ guilds' = [guilds EXCEPT ![g] = [guilds[g] EXCEPT ![i] = c]]
        /\ takenOver' = (IF t \in takenOver THEN {c} \cup takenOver ELSE takenOver \ {c}) \cup {t}
    BY <1>4, <1>10
  <2>3. guilds[g] \in Seq(Client) BY <2>1 DEF Lists
  <2>4. In(c, [guilds[g] EXCEPT ![i] = c]) BY <2>1, <2>3, OtherName
  <2>5. \A j \in DOMAIN guilds[g] : j # i => In(guilds[g][j], [guilds[g] EXCEPT ![i] = c])
    BY <2>3, OtherName
  <2>6. DOMAIN guilds' = DOMAIN guilds /\ guilds'[g] = [guilds[g] EXCEPT ![i] = c]
        /\ \A h \in DOMAIN guilds : h # g => guilds'[h] = guilds[h]
    BY <2>1, <2>2
  <2>7. ASSUME NEW x \in Client, x \notin takenOver', body'[x] # None
        PROVE  ListedIn(x, char'[body'[x]], guilds')
    <3>1. char'[body'[x]] = char[body'[x]] BY <1>3, <2>7
    <3>2. CASE x = c BY <1>2, <1>7, <2>1, <2>4, <2>6, <3>1, <3>2 DEF ListedIn
    <3>3. CASE x # c
      <4>1. x \notin takenOver /\ x # t BY <2>2, <2>7, <3>3
      <4>2. body'[x] = body[x] BY <1>2, <3>3
      <4>3. ListedIn(x, char[body[x]], guilds) BY <1>8, <2>7, <3>3, <4>1, <4>2
      <4>4. In(x, guilds[g]) => In(x, guilds'[g])
        <5> SUFFICES ASSUME NEW j \in DOMAIN guilds[g], guilds[g][j] = x PROVE In(x, guilds'[g])
          BY DEF In
        <5>1. j # i BY <2>1, <4>1
        <5> QED BY <2>5, <2>6, <5>1
      <4>5. \A h \in DOMAIN guilds : In(x, guilds[h]) => h \in DOMAIN guilds' /\ In(x, guilds'[h])
        BY <2>6, <4>4
      <4> QED BY <3>1, <4>2, <4>3, <4>5 DEF ListedIn
    <3> QED BY <3>2, <3>3
  <2> QED BY <2>7, ListedMeans
<1> QED BY <1>9, <1>10

\* Closing guilds makes the objects of all whom they list forget them.
LEMMA CloseKeepsListed ==
  ASSUME Objects, GuildsAreListed, NEW D, CloseGuilds(D)
  PROVE  GuildsAreListed'
<1>1. /\ guilds' = [g \in DOMAIN guilds \ D |-> guilds[g]]
      /\ char' = [b \in Body |-> IF b \in Forgetting(D)
                                 THEN [char[b] EXCEPT !.guild = None] ELSE char[b]]
      /\ body' = body /\ takenOver' = takenOver /\ D \subseteq DOMAIN guilds
  BY DEF CloseGuilds
<1>2. \A o \in BattleChar : [o EXCEPT !.guild = None].guild = None BY DEF BattleChar
<1>3. ASSUME NEW x \in Client, x \notin takenOver, body[x] # None, char'[body[x]].guild # None
      PROVE  ListedIn(x, char'[body[x]], guilds')
  <2>1. body[x] \in Body /\ char[body[x]] \in BattleChar BY <1>3 DEF Objects
  <2>2. body[x] \notin Forgetting(D) /\ char'[body[x]] = char[body[x]]
    BY <1>1, <1>2, <1>3, <2>1
  <2>3. ListedIn(x, char[body[x]], guilds) BY <1>3, ListedMeans
  <2> DEFINE h == char[body[x]].guild
  <2>4. h \in DOMAIN guilds /\ In(x, guilds[h]) BY <1>3, <2>2, <2>3 DEF ListedIn
  <2> HIDE DEF h
  <2>5. h \notin D
    <3> SUFFICES ASSUME h \in D PROVE body[x] \in Forgetting(D) BY <2>2
    <3>1. x \in Members(h) BY <2>4 DEF In, Members
    <3> QED BY <3>1 DEF Forgetting
  <2> QED BY <1>1, <2>2, <2>4, <2>5 DEF ListedIn, h
<1>4. ASSUME NEW x \in Client, x \notin takenOver, body[x] # None
      PROVE  ListedIn(x, char'[body[x]], guilds')
  BY <1>3, <1>4 DEF ListedIn
<1> QED BY <1>1, <1>4, ListedMeans

\* Every step keeps the guilds listed.
LEMMA ListedStep ==
  ASSUME Objects, Lists, Owned, GuildsAreListed, [Next]_vars
  PROVE  GuildsAreListed'
<1>a. char \in [Body -> BattleChar] /\ \A c \in Client : Has(c) => body[c] \in Body
  BY DEF Objects, Has
<1>1. ASSUME NEW c \in Client, Choose(c) \/ EditMoves(c) PROVE GuildsAreListed'
  <2>1. Choose(c) BY <1>1 DEF EditMoves
  <2> QED BY <2>1, <1>a, ReloadKeepsListed DEF Choose
<1>2. ASSUME NEW c \in Client, Enter(c) \/ Fight(c) PROVE GuildsAreListed'
  BY <1>2, SameKeepsListed DEF Enter, Fight
<1>3. ASSUME NEW c \in Client, Goes(c) PROVE GuildsAreListed'
  <2>1. /\ body' = body /\ takenOver' = takenOver
        /\ GoesQuietly(c) \/ GoesOff(c) \/ GoesBadly(c) \/ GoesWell(c)
    BY <1>3, Going
  <2>2. CASE GoesQuietly(c) BY <2>1, <2>2, SameKeepsListed DEF GoesQuietly
  <2>3. CASE GoesOff(c)
    <3>1. \A e \in Body : char'[e].guild = char[e].guild BY <2>3, <1>a, GuildKept DEF GoesOff
    <3> QED BY <2>1, <2>3, <3>1, SameKeepsListed DEF GoesOff
  <2>4. CASE GoesBadly(c) \/ GoesWell(c)
    <3>0. PICK g : g = Of(c).guild OBVIOUS
    <3>1. char' = [char EXCEPT ![body[c]].guild = None] /\ body[c] \in Body
      BY <2>4 DEF GoesBadly, GoesWell, Objects
    <3>2. \/ guilds' = guilds
          \/ g \in DOMAIN guilds /\ guilds' = [guilds EXCEPT ![g] = Without(guilds[g], c)]
      BY <2>4, <3>0 DEF GoesBadly, GoesWell
    <3>3. ASSUME g \in DOMAIN guilds, NEW x \in Client, x # c, In(x, guilds[g])
          PROVE  g \in DOMAIN guilds' /\ In(x, guilds'[g])
      <4>1. guilds[g] \in Seq(Client) BY <3>3 DEF Lists
      <4>2. In(x, Without(guilds[g], c)) BY <3>3, <4>1, WithoutOne
      <4> QED BY <3>2, <3>3, <4>2
    <3>4. \A h : h # g /\ h \in DOMAIN guilds => h \in DOMAIN guilds' /\ guilds'[h] = guilds[h]
      BY <3>2
    <3> QED BY <2>1, <3>1, <3>3, <3>4, RemovalKeepsListed
  <2> QED BY <2>1, <2>2, <2>3, <2>4
<1>4. ASSUME NEW c \in Client, Resume(c) PROVE GuildsAreListed'
  <2>1. char' = [char EXCEPT ![body[c]].on = TRUE] BY <1>4 DEF Resume
  <2>2. \A e \in Body : char'[e].guild = char[e].guild BY <2>1, <1>a, GuildKept
  <2> QED BY <1>4, <2>2, SameKeepsListed DEF Resume
<1>5. ASSUME NEW c \in Client, Surrender(c) \/ RemoveFighter(c) PROVE GuildsAreListed'
  BY <1>5, <1>a, ReloadKeepsListed DEF Surrender, RemoveFighter, GivesUp
<1>6. ASSUME NEW c \in Client, SkipMove(c) \/ ForceSkipMove(c) PROVE GuildsAreListed'
  <2>1. char' = [char EXCEPT ![body[c]].sel = "skip"] BY <1>6 DEF SkipMove, ForceSkipMove
  <2>2. \A e \in Body : char'[e].guild = char[e].guild BY <2>1, <1>a, GuildKept
  <2> QED BY <1>6, <2>2, SameKeepsListed DEF SkipMove, ForceSkipMove
<1>7. ASSUME NEW c, NEW s, NEW t, UseMove(c, s, t) \/ UseItem(c, s, t) PROVE GuildsAreListed'
  <2>1. Selects(c, s, t) BY <1>7 DEF UseMove, UseItem
  <2>2. char' = [char EXCEPT ![body[c]] = [char[body[c]] EXCEPT !.sel = s, !.target = t, !.on = TRUE]]
    BY <2>1, <1>a DEF Selects, Objects
  <2>3. \A e \in Body : char'[e].guild = char[e].guild BY <2>2, <1>a, GuildKept, ZenonT(40)
  <2> QED BY <2>1, <2>3, SameKeepsListed DEF Selects
<1>8. ASSUME NEW t \in Client, LeaveGuild(t) PROVE GuildsAreListed'
  <2>0. PICK g : g = Of(t).guild OBVIOUS
  <2> DEFINE left == Without(guilds[g], t)
  <2>1. /\ char' = [char EXCEPT ![body[t]].guild = None] /\ body' = body
        /\ takenOver' = takenOver /\ body[t] \in Body
    BY <1>8, <1>a DEF LeaveGuild
  <2>2. \/ guilds' = guilds
        \/ left = << >> /\ guilds' = [h \in DOMAIN guilds \ {g} |-> guilds[h]]
        \/ guilds' = [guilds EXCEPT ![g] = left]
    BY <1>8, <2>0, Zenon DEF LeaveGuild
  <2>3. ASSUME g \in DOMAIN guilds, NEW x \in Client, x # t, In(x, guilds[g])
        PROVE  g \in DOMAIN guilds' /\ In(x, guilds'[g])
    <3>1. guilds[g] \in Seq(Client) BY <2>3 DEF Lists
    <3>2. In(x, left) BY <2>3, <3>1, WithoutOne
    <3>3. left # << >> BY <3>2 DEF In
    <3> HIDE DEF left
    <3> QED BY <2>2, <2>3, <3>2, <3>3
  <2> HIDE DEF left
  <2>4. \A h : h # g /\ h \in DOMAIN guilds => h \in DOMAIN guilds' /\ guilds'[h] = guilds[h]
    BY <2>2
  <2> QED BY <2>1, <2>3, <2>4, RemovalKeepsListed
<1>9. ASSUME NEW c \in Client, NEW g \in Guild, CreateGuild(c, g) PROVE GuildsAreListed'
  <2>1. /\ char' = [char EXCEPT ![body[c]].guild = g] /\ body' = body /\ Brings(c)
        /\ body[c] \in Body /\ g \notin DOMAIN guilds
        /\ guilds' = [h \in DOMAIN guilds \cup {g} |-> IF h = g THEN << c >> ELSE guilds[h]]
    BY <1>9, <1>a DEF CreateGuild
  <2>2. g \in DOMAIN guilds' /\ In(c, guilds'[g]) BY <2>1 DEF In
  <2>3. \A h \in DOMAIN guilds : h \in DOMAIN guilds' /\ guilds'[h] = guilds[h] BY <2>1
  <2> QED BY <2>1, <2>2, <2>3, AdditionKeepsListed
<1>10. ASSUME NEW c \in Client, NEW t \in Client, JoinGuild(c, t) PROVE GuildsAreListed'
  <2>0. PICK g : g = Of(c).guild OBVIOUS
  <2>1. /\ char' = [char EXCEPT ![body[t]].guild = g] /\ body' = body /\ Brings(t)
        /\ body[t] \in Body /\ g \in DOMAIN guilds
        /\ guilds' = [guilds EXCEPT ![g] = Append(guilds[g], t)]
    BY <1>10, <2>0, <1>a DEF JoinGuild, Leads
  <2>2. guilds[g] \in Seq(Client) BY <2>1 DEF Lists
  <2> DEFINE s == guilds[g]
             w == Append(s, t)
  <2>3. /\ DOMAIN s = 1 .. Len(s) /\ Len(s) \in Nat /\ DOMAIN w = 1 .. Len(s) + 1
        /\ w[Len(s) + 1] = t /\ \A j \in 1 .. Len(s) : w[j] = s[j]
    BY <2>2, AppendProperties, LenProperties
  <2>4. guilds'[g] = w /\ DOMAIN guilds' = DOMAIN guilds
        /\ \A h \in DOMAIN guilds : h # g => guilds'[h] = guilds[h]
    BY <2>1
  <2> HIDE DEF w
  <2>5. In(t, w) /\ \A x : In(x, s) => In(x, w)
    <3>1. Len(s) + 1 \in DOMAIN w /\ \A j \in DOMAIN s : j \in DOMAIN w BY <2>3
    <3> QED BY <2>3, <3>1 DEF In
  <2>6. \A h \in DOMAIN guilds, x \in Client :
          In(x, guilds[h]) => h \in DOMAIN guilds' /\ In(x, guilds'[h])
    BY <2>4, <2>5
  <2> QED BY <2>1, <2>4, <2>5, <2>6, AdditionKeepsListed
<1>11. ASSUME NEW D, CloseGuilds(D) PROVE GuildsAreListed' BY <1>11, CloseKeepsListed
<1>12. ASSUME NEW c \in Client, NEW t \in Client, Reconnect(c, t) PROVE GuildsAreListed'
  BY <1>12, ReconnectKeepsListed
<1>13. ASSUME NEW c \in Client, Act(c) PROVE GuildsAreListed'
  <2>1. \A e \in Body : char'[e].guild = char[e].guild BY <1>13, ActKeepsGuilds
  <2> QED BY <1>13, <2>1, SameKeepsListed DEF Act
<1>14. ASSUME NEW c \in Client, TurnFails(c) PROVE GuildsAreListed'
  <2>1. PICK x : char' = [char EXCEPT ![body[c]].status = x] BY <1>14 DEF TurnFails
  <2>2. \A e \in Body : char'[e].guild = char[e].guild BY <2>1, <1>a, GuildKept, ZenonT(40)
  <2> QED BY <1>14, <2>2, SameKeepsListed DEF TurnFails
<1>15. CASE RefreshBattle BY <1>15, <1>a, ReloadKeepsListed DEF RefreshBattle
<1>16. CASE EndTurn
  <2>1. PICK D : Reload(D, Unselected(char), guilds) BY <1>16, EndTurnReloads
  <2>2. guilds' = guilds BY <1>16 DEF EndTurn
  <2>3. \A b \in Body : Unselected(char)[b].guild = char[b].guild
    <3>1. \A o \in BattleChar : [o EXCEPT !.sel = "none", !.target = None].guild = o.guild
      BY DEF BattleChar
    <3> QED BY <3>1, <1>a DEF Unselected
  <2> QED BY <2>1, <2>2, <2>3, UnselectedObjects, ReloadKeepsListed
<1>17. CASE UNCHANGED vars BY <1>17, SameKeepsListed DEF vars
<1>18. ASSUME NEW c \in Client, Elsewhere(c) PROVE GuildsAreListed'
  <2>1. UNCHANGED << body, guilds >> /\ takenOver' = takenOver \cup Sharing(c)
    BY <1>18 DEF Elsewhere
  <2>2. PICK o : char' = [char EXCEPT ![body[c]] = o] BY <1>18 DEF Elsewhere
  <2>3. ASSUME NEW x \in Client, x \notin takenOver', body[x] # None
        PROVE  ListedIn(x, char'[body[x]], guilds)
    <3>1. body[x] # body[c] /\ x \notin takenOver BY <2>1, <2>3 DEF Sharing
    <3>2. body[x] \in Body BY <2>3 DEF Objects
    <3>3. char'[body[x]] = char[body[x]] BY <2>2, <3>1, <3>2, <1>a
    <3> QED BY <2>3, <3>1, <3>3, ListedMeans
  <2> QED BY <2>1, <2>3, ListedMeans
<1>19. ASSUME NEW c \in Client, NEW t \in Client, ReconnectElsewhere(c, t)
       PROVE  GuildsAreListed'
  <2>1. /\ guilds' = guilds /\ takenOver' = takenOver \cup Sharing(t) \cup {c}
        /\ char' = [b \in Body |-> IF \E d \in Client : body'[d] = b THEN char[b] ELSE Unhurt(None)]
        /\ \A d \in Client \ {c} : body'[d] = body[d]
    BY <1>19 DEF ReconnectElsewhere, Objects
  <2>2. ASSUME NEW x \in Client, x \notin takenOver', body'[x] # None
        PROVE  ListedIn(x, char'[body'[x]], guilds)
    <3>1. x # c /\ x \notin takenOver /\ body'[x] = body[x] BY <2>1, <2>2
    <3>2. body[x] \in Body BY <2>2, <3>1 DEF Objects
    <3>3. char'[body[x]] = char[body[x]] BY <2>1, <3>1, <3>2
    <3> QED BY <2>2, <3>1, <3>3, ListedMeans
  <2> QED BY <2>1, <2>2, ListedMeans
<1> QED BY <1>1, <1>2, <1>3, <1>4, <1>5, <1>6, <1>7, <1>8, <1>9, <1>10, <1>11, <1>12,
           <1>13, <1>14, <1>15, <1>16, <1>17, <1>18, <1>19 DEF Next, Goes

-----------------------------------------------------------------------------
LEMMA BodiesKept == Spec => []BodyInv
<1>1. Init => BodyInv
  <2> SUFFICES ASSUME Init PROVE BodyInv OBVIOUS
  <2>1. \A b \in Body : char[b] \in BattleChar
    BY DEF Init, Unhurt, BattleChar, Selection, Statuses
  <2>2. Objects BY <2>1 DEF Init, Objects
  <2>3. \A c \in Client : body[c] = None BY DEF Init
  <2>4. Owned BY <2>3, BattleAssumption DEF Owned, Mixed, Shared
  <2>5. GuildsAreListed BY <2>3 DEF GuildsAreListed, Has
  <2>6. Lists BY DEF Init, Lists
  <2> QED BY <2>2, <2>4, <2>5, <2>6 DEF BodyInv
<1>2. BodyInv /\ [Next]_vars => BodyInv'
  BY ObjectsStep, ListsStep, OwnedStep, ListedStep DEF BodyInv
<1> QED BY <1>1, <1>2, PTL DEF Spec

\* No two fighters act through one battle object, for any number of clients and guilds,
\* whatever is taken over, reloaded, won or lost: but for those who lost their places to
\* others and kept the object, and for those whose object these brought into a guild.
THEOREM BodiesAlwaysApart == Spec => []OneBodyEach
<1>1. BodyInv => OneBodyEach
  <2> SUFFICES ASSUME BodyInv, NEW c \in fighters, NEW d \in fighters, c # d, body[c] = body[d]
               PROVE  c \in takenOver /\ d \in takenOver
    BY DEF OneBodyEach
  <2>1. c \in Client /\ d \in Client /\ Shared(c, d) /\ Shared(d, c)
    BY DEF BodyInv, Objects, Shared
  <2> QED BY <2>1 DEF BodyInv, Owned, Mixed
<1> QED BY <1>1, BodiesKept, PTL

\* The guild that a client is said to be in is open and lists it, for any number of clients
\* and guilds, but for the same clients.
THEOREM GuildsAlwaysListed == Spec => []GuildsAreListed
<1>1. BodyInv => GuildsAreListed BY DEF BodyInv
<1> QED BY <1>1, BodiesKept, PTL

\* Flags stay flags.
Flags == started \in BOOLEAN /\ playing \in BOOLEAN /\ disturbed \in BOOLEAN

\* Where the clients are.
Places == attached \subseteq Client \ here /\ lost \subseteq attached /\ abroad \subseteq Client

LEMMA PlacesStep ==
  ASSUME Places, [Next]_vars
  PROVE  Places'
<1>1. CASE UNCHANGED << here, attached, lost, abroad >> BY <1>1 DEF Places
<1>2. ASSUME NEW c \in Client,
             \/ Choose(c) \/ EditMoves(c) \/ Fight(c) \/ Resume(c) \/ Surrender(c)
             \/ RemoveFighter(c) \/ SkipMove(c) \/ ForceSkipMove(c) \/ LeaveGuild(c) \/ Act(c)
             \/ TurnFails(c)
      PROVE  Places'
  BY <1>1, <1>2 DEF Choose, EditMoves, Fight, Resume, Surrender, RemoveFighter, GivesUp, SkipMove,
                    ForceSkipMove, LeaveGuild, Act, TurnFails
<1>3. ASSUME NEW c, NEW s, NEW t,
             \/ UseMove(c, s, t) \/ UseItem(c, s, t) \/ Reconnect(c, t) \/ JoinGuild(c, t)
             \/ CreateGuild(c, s) \/ CloseGuilds(s)
      PROVE  Places'
  BY <1>1, <1>3 DEF UseMove, UseItem, Selects, Reconnect, JoinGuild, CreateGuild, CloseGuilds
<1>4. CASE RefreshBattle \/ EndTurn \/ UNCHANGED vars
  BY <1>1, <1>4 DEF RefreshBattle, EndTurn, vars
<1>5. ASSUME NEW c \in Client, Enter(c) PROVE Places' BY <1>5 DEF Enter, Inside, Places
<1>6. ASSUME NEW c \in Client, Leave(c) PROVE Places'
  <2>1. /\ UNCHANGED << lost, abroad >> /\ c \notin lost
        /\ \/ here' = here \ {c} /\ attached' \in {attached, attached \cup {c}}
           \/ here' = here /\ attached' = attached \ {c}
    BY <1>6 DEF Leave, Command, Removed
  <2> QED BY <2>1 DEF Places
<1>7. ASSUME NEW c \in Client, Disconnect(c) PROVE Places'
  <2>1. /\ abroad' = abroad /\ here' = here \ {c}
        /\ attached' = attached \cup {c} /\ lost' = lost \cup {c}
    BY <1>7 DEF Disconnect, Removed
  <2> QED BY <2>1 DEF Places
<1>8. ASSUME NEW c \in Client, NEW t, Elsewhere(c) \/ ReconnectElsewhere(c, t) PROVE Places'
  BY <1>8 DEF Elsewhere, ReconnectElsewhere, Places
<1> QED BY <1>2, <1>3, <1>4, <1>5, <1>6, <1>7, <1>8 DEF Next

LEMMA FlagsStep ==
  ASSUME Flags, [Next]_vars
  PROVE  Flags'
<1>1. started' \in BOOLEAN
  <2>1. \A c \in Client : Choose(c) \/ EditMoves(c) \/ Enter(c) \/ Leave(c) \/ Disconnect(c)
          \/ Elsewhere(c) \/ Fight(c) \/ Resume(c)
          \/ SkipMove(c) \/ ForceSkipMove(c) \/ LeaveGuild(c) \/ Act(c) \/ TurnFails(c)
          => started' = started
    BY DEF Choose, EditMoves, Enter, Leave, Disconnect, Elsewhere, Fight, Resume, SkipMove, ForceSkipMove,
           LeaveGuild, Act, TurnFails
  <2>2. \A c \in Client : Surrender(c) \/ RemoveFighter(c) => started' \in BOOLEAN
    BY DEF Surrender, RemoveFighter, GivesUp, StillOn, Flags
  <2>3. \A c, s, t : UseMove(c, s, t) \/ UseItem(c, s, t) \/ Reconnect(c, t)
                     \/ ReconnectElsewhere(c, t) \/ JoinGuild(c, t) \/ CreateGuild(c, s)
                     \/ CloseGuilds(s) => started' = started
    BY DEF UseMove, UseItem, Selects, Reconnect, ReconnectElsewhere, JoinGuild, CreateGuild,
           CloseGuilds
  <2>4. RefreshBattle => started' \in BOOLEAN BY DEF RefreshBattle
  <2>5. EndTurn => started' \in BOOLEAN BY DEF EndTurn, Flags
  <2>6. UNCHANGED vars => started' = started BY DEF vars
  <2> QED BY <2>1, <2>2, <2>3, <2>4, <2>5, <2>6 DEF Next, Flags
<1>2. playing' \in BOOLEAN
  <2>1. \A c \in Client : Choose(c) \/ EditMoves(c) \/ Enter(c) \/ Leave(c) \/ Disconnect(c)
          \/ Elsewhere(c) \/ Fight(c) \/ Resume(c)
          \/ Surrender(c) \/ RemoveFighter(c) \/ LeaveGuild(c) \/ Act(c)
          => playing' = playing
    BY DEF Choose, EditMoves, Enter, Leave, Disconnect, Elsewhere, Fight, Resume, Surrender,
           RemoveFighter, GivesUp, LeaveGuild, Act
  <2>2. \A c \in Client : SkipMove(c) \/ ForceSkipMove(c) \/ TurnFails(c) => playing' \in BOOLEAN
    BY DEF SkipMove, ForceSkipMove, FinishIfReady, TurnFails
  <2>3. ASSUME NEW c, NEW s, NEW t, UseMove(c, s, t) \/ UseItem(c, s, t) PROVE playing' \in BOOLEAN
    <3>1. FinishIfReady(counted + 1) BY <2>3 DEF UseMove, UseItem, Selects
    <3> QED BY <3>1 DEF FinishIfReady
  <2>4. \A c, s, t : Reconnect(c, t) \/ ReconnectElsewhere(c, t) \/ JoinGuild(c, t)
                     \/ CreateGuild(c, s) \/ CloseGuilds(s) => playing' = playing
    BY DEF Reconnect, ReconnectElsewhere, JoinGuild, CreateGuild, CloseGuilds
  <2>5. RefreshBattle => playing' = playing BY DEF RefreshBattle
  <2>6. EndTurn => playing' = FALSE BY DEF EndTurn
  <2>7. UNCHANGED vars => playing' = playing BY DEF vars
  <2> QED BY <2>1, <2>2, <2>3, <2>4, <2>5, <2>6, <2>7 DEF Next, Flags
<1>3. disturbed' \in BOOLEAN
  <2>1. \A c \in Client : Choose(c) \/ EditMoves(c) \/ Surrender(c) \/ RemoveFighter(c)
          => disturbed' \in BOOLEAN
    BY DEF Choose, EditMoves, Surrender, RemoveFighter, GivesUp, Loses, Flags
  <2>8. \A c \in Client : Enter(c) \/ Resume(c) \/ LeaveGuild(c) \/ Act(c)
          => disturbed' = disturbed
    BY DEF Enter, Resume, LeaveGuild, Act
  <2>9. ASSUME NEW c \in Client, Leave(c) \/ Disconnect(c) PROVE disturbed' \in BOOLEAN
    <3>1. Removed(c) \/ disturbed' = disturbed BY <2>9 DEF Leave, Disconnect
    <3> QED BY <3>1 DEF Removed, Flags
  <2>10. \A c \in Client : Elsewhere(c) \/ Fight(c) => disturbed' \in BOOLEAN
    BY DEF Elsewhere, Fight
  <2>2. \A c \in Client : SkipMove(c) \/ ForceSkipMove(c) \/ TurnFails(c) => disturbed' \in BOOLEAN
    BY DEF SkipMove, ForceSkipMove, TurnFails, Flags
  <2>3. \A c, s, t : UseMove(c, s, t) \/ UseItem(c, s, t) \/ Reconnect(c, t) \/ CloseGuilds(s)
                     => disturbed' = disturbed
    BY DEF UseMove, UseItem, Selects, Reconnect, CloseGuilds
  <2>7. \A c, s, t : JoinGuild(c, t) \/ CreateGuild(c, s) => disturbed' \in BOOLEAN
    BY DEF JoinGuild, CreateGuild
  <2>11. \A c, t : ReconnectElsewhere(c, t) => disturbed' \in BOOLEAN BY DEF ReconnectElsewhere
  <2>4. RefreshBattle => disturbed' = disturbed BY DEF RefreshBattle
  <2>5. EndTurn => disturbed' \in BOOLEAN BY DEF EndTurn
  <2>6. UNCHANGED vars => disturbed' = disturbed BY DEF vars
  <2> QED BY <2>1, <2>2, <2>3, <2>4, <2>5, <2>6, <2>7, <2>8, <2>9, <2>10, <2>11
    DEF Next, Flags
<1> QED BY <1>1, <1>2, <1>3 DEF Flags

\* Type correctness: fighters have battle objects, lists name clients, and a turn is played
\* by fighters only, whatever commands and moves come in whatever order.
THEOREM BattleTypes == Spec => []TypeOK
<1>1. Init => Flags /\ Places BY DEF Init, Flags, Places
<1>2. Flags /\ Places /\ [Next]_vars => Flags' /\ Places' BY FlagsStep, PlacesStep
<1>3. BodyInv /\ Flags /\ Places => TypeOK
  BY BattleAssumption DEF BodyInv, Objects, Lists, Flags, Places, TypeOK, Has
<1> QED BY <1>1, <1>2, <1>3, BodiesKept, PTL DEF Spec

=============================================================================
