------------------------------ MODULE Minigame ------------------------------
(***************************************************************************)
(* The debates of one area (/cs, /pta, /concede): Area.start_debate,       *)
(* vote_end_minigame, end_minigame and the timeout that ends a debate,     *)
(* with the mute of the area that they impose and lift (the invitations    *)
(* they give are in Room).                                                 *)
(*                                                                         *)
(* Teams are sets of characters, as in the code; players change theirs.    *)
(* Nobody is hidden or AFK.                                                *)
(***************************************************************************)
EXTENDS Naturals, FiniteSets

CONSTANTS
  Player,         \* clients
  Char,           \* characters of the hub's list
  Spectator,      \* char_id -1
  Owner,          \* players that are owners of the area
  VotesTenths,    \* votes_percentage, in tenths
  CanCrossSwords, CanScrumDebate, CanPanicTalkAction  \* preferences

ASSUME MinigameAssumption ==
  /\ Owner \subseteq Player
  /\ Spectator \notin Char
  /\ IsFiniteSet(Player)
  /\ VotesTenths \in 0 .. 10
  /\ {CanCrossSwords, CanScrumDebate, CanPanicTalkAction} \subseteq BOOLEAN

VARIABLES
  here,        \* area.clients
  char,        \* client.char_id
  minigame,    \* area.minigame; "none" is the empty string
  red_team, blue_team,
  votes_cast,  \* the clients that voted to end it
  muted, old_muted,
  pending,     \* minigame_schedule and other calls of end_minigame to come
  silenced     \* history: an owner muted the area, and has not unmuted it
               \* since but during a minigame

vars == << here, char, minigame, red_team, blue_team, votes_cast, muted,
           old_muted, pending, silenced >>

Debates == {"CrossSwords", "ScrumDebate", "PanicTalkAction"}

Faces == Char \cup {Spectator}

TypeOK ==
  /\ here \subseteq Player
  /\ char \in [Player -> Faces]
  /\ minigame \in Debates \cup {"none"}
  /\ red_team \subseteq Faces /\ blue_team \subseteq Faces
  /\ votes_cast \subseteq Player
  /\ muted \in BOOLEAN /\ old_muted \in BOOLEAN /\ silenced \in BOOLEAN
  /\ pending \in 0 .. 1

Init ==
  /\ here = {}
  /\ char = [c \in Player |-> Spectator]
  /\ minigame = "none" /\ red_team = {} /\ blue_team = {} /\ votes_cast = {}
  /\ muted = FALSE /\ old_muted = FALSE /\ silenced = FALSE
  /\ pending = 0

-----------------------------------------------------------------------------
\* Players

\* is_char_available: owners do not occupy a character, and may take any.
Available(c, ch) ==
  ch = Spectator \/ c \in Owner \/ \A d \in here \ {c} : d \in Owner \/ char[d] # ch

Enter(c, ch) ==
  /\ c \notin here
  /\ Available(c, ch)
  /\ here' = here \cup {c}
  /\ char' = [char EXCEPT ![c] = ch]
  /\ UNCHANGED << minigame, red_team, blue_team, votes_cast, muted, old_muted,
                  pending, silenced >>

\* On foot or by a lost connection; nothing of the minigame is updated.
Leave(c) ==
  /\ c \in here
  /\ here' = here \ {c}
  /\ char' = [char EXCEPT ![c] = Spectator]
  /\ UNCHANGED << minigame, red_team, blue_team, votes_cast, muted, old_muted,
                  pending, silenced >>

ChangeCharacter(c, ch) ==
  /\ c \in here
  /\ ch # char[c]
  /\ Available(c, ch)
  /\ char' = [char EXCEPT ![c] = ch]
  /\ UNCHANGED << here, minigame, red_team, blue_team, votes_cast, muted,
                  old_muted, pending, silenced >>

\* /area_mute and /area_unmute
SetMute(c, to) ==
  /\ c \in Owner \cap here
  /\ muted # to
  /\ muted' = to
  /\ silenced' = (to \/ (silenced /\ minigame # "none"))
  /\ UNCHANGED << here, char, minigame, red_team, blue_team, votes_cast,
                  old_muted, pending >>

-----------------------------------------------------------------------------
\* The end of a debate

\* Mutant: the votes of one debate are left for the next one.
VotesKept == votes_cast

VotesForgotten == {}

\* end_minigame, but for its schedule
End ==
  /\ muted' = old_muted
  /\ red_team' = {} /\ blue_team' = {}
  /\ votes_cast' = VotesForgotten
  /\ minigame' = "none"
  /\ UNCHANGED << here, char, old_muted, silenced >>

\* minigame_schedule.cancel()
Cancelled == IF pending = 0 THEN 0 ELSE pending - 1

EndNow == End /\ pending' = Cancelled

\* The callback of minigame_schedule
TimerExpires ==
  /\ pending > 0
  /\ pending' = pending - 1
  /\ End

-----------------------------------------------------------------------------
\* Debating

Ours(c) == IF char[c] \in red_team THEN red_team ELSE blue_team

\* "Target is already on the opposing team!"
Opposed(c, t) ==
  \/ char[c] \in red_team /\ char[t] \in blue_team
  \/ char[c] \in blue_team /\ char[t] \in red_team

\* start_debate while there is none: /cs, or /pta
Challenge(c, t, pta) ==
  /\ minigame = "none"
  /\ c \in here /\ t \in here /\ c # t
  /\ ~Opposed(c, t)
  /\ IF pta THEN CanPanicTalkAction ELSE CanCrossSwords
  /\ minigame' = IF pta THEN "PanicTalkAction" ELSE "CrossSwords"
  /\ red_team' = {char[c]} /\ blue_team' = {char[t]}
  /\ votes_cast' = {}
  /\ old_muted' = muted /\ muted' = TRUE
  /\ pending' = pending + 1
  /\ UNCHANGED << here, char, silenced >>

\* c joins the side against t.
JoinsAgainst(c, t) ==
  /\ IF char[t] \in red_team
       THEN /\ red_team' = red_team \ {char[c]}
            /\ blue_team' = blue_team \cup {char[c]}
       ELSE /\ char[t] \in blue_team
            /\ blue_team' = blue_team \ {char[c]}
            /\ red_team' = red_team \cup {char[c]}

\* Mutant: the timeout of Cross Swords runs on beside that of the debate.
NewTimerOnly == pending + 1

\* Mutant: the timeout of Cross Swords is cancelled, and no other one set.
NoNewTimer == Cancelled

\* The timeout of Cross Swords is replaced by that of the Scrum Debate.
Rescheduled == Cancelled + 1

\* Mutant: the mute of the minigame is taken for that of the area.
MutedByGame == muted

MutedBefore == old_muted

\* /cs, and /pta as well, of a debater by someone else
BecomesScrum(c, t) ==
  /\ minigame = "CrossSwords"
  /\ c \in here /\ t \in here /\ c # t
  /\ ~Opposed(c, t)
  /\ CanScrumDebate
  /\ JoinsAgainst(c, t)
  /\ minigame' = "ScrumDebate"
  /\ pending' = Rescheduled
  /\ old_muted' = MutedBefore
  /\ UNCHANGED << here, char, votes_cast, muted, silenced >>

\* /cs in a Scrum Debate; with oneself (/concede) one changes sides.  A team
\* that is left empty has conceded.
JoinScrum(c, t) ==
  /\ minigame = "ScrumDebate"
  /\ c \in here /\ t \in here
  /\ ~Opposed(c, t)
  /\ char[t] \in red_team \cup blue_team
  /\ IF Ours(t) = {char[c]}
       THEN /\ EndNow
       ELSE /\ JoinsAgainst(c, t)
            /\ UNCHANGED << here, char, minigame, votes_cast, muted, old_muted,
                            pending, silenced >>

\* /concede or /cs of oneself in a debate of two
ConcedeDuel(c) ==
  /\ minigame \in {"CrossSwords", "PanicTalkAction"}
  /\ c \in here
  /\ ~Opposed(c, c)
  /\ EndNow

\* /concede of an owner
ForceEnd(c) ==
  /\ minigame # "none"
  /\ c \in Owner \cap here
  /\ EndNow

-----------------------------------------------------------------------------
\* Voting to end it

\* Whose character is on neither team; spectators are not asked for one, though the
\* refusal speaks of them. (One who was challenged put -1 on a team, for all of them.)
ValidVoters == {c \in here \ Owner : char[c] \notin red_team \cup blue_team}

\* round(n * votes_percentage): a half is rounded to the even side.
Needed(n) ==
  LET tenths == n * VotesTenths
      whole == tenths \div 10
  IN  IF tenths % 10 = 5 THEN 2 * ((whole + 1) \div 2) ELSE (tenths + 5) \div 10

\* The vote of c is the last that is needed.
Decides(c) ==
  Cardinality(votes_cast \cup {c}) >= Needed(Cardinality(ValidVoters))

\* /concede of somebody on neither team
Vote(c) ==
  /\ minigame # "none"
  /\ c \in ValidVoters
  /\ ~Decides(c)
  /\ votes_cast' = votes_cast \cup {c}
  /\ UNCHANGED << here, char, minigame, red_team, blue_team, muted, old_muted,
                  pending, silenced >>

LastVote(c) ==
  /\ minigame # "none"
  /\ c \in ValidVoters
  /\ Decides(c)
  /\ EndNow

Next ==
  \/ \E c \in Player, ch \in Faces : Enter(c, ch) \/ ChangeCharacter(c, ch)
  \/ \E c \in Player : \/ Leave(c) \/ Vote(c) \/ LastVote(c)
                       \/ ConcedeDuel(c) \/ ForceEnd(c)
  \/ \E c \in Player, to \in BOOLEAN : SetMute(c, to)
  \/ \E c, t \in Player : BecomesScrum(c, t) \/ JoinScrum(c, t)
  \/ \E c, t \in Player, pta \in BOOLEAN : Challenge(c, t, pta)
  \/ TimerExpires

\* call_later: the event loop runs the callback when it is due.
Spec == Init /\ [][Next]_vars /\ WF_vars(TimerExpires)

-----------------------------------------------------------------------------
\* Properties

\* One call of end_minigame is to come while a debate is on, and none when
\* there is none, nor any vote or team: what is left of one debate neither
\* ends nor decides the next one.
NothingIsLeftOver ==
  /\ minigame # "none" <=> pending = 1
  /\ minigame = "none" => votes_cast = {} /\ red_team = {} /\ blue_team = {}

\* Without a minigame the area is muted only where an owner muted it: the mute
\* a debate imposes is lifted with it, also when it grew into a Scrum Debate.
MutedByAnOwner == minigame = "none" /\ muted => silenced

\* A debate ends, even when everybody on its teams has left.
DebatesEnd == minigame # "none" ~> minigame = "none"

\* "What percentage of valid voters needs to vote to force-end the minigame"
\* (votes_percentage): a vote ends it only with that part of those who may
\* vote now. It does not hold, as the README explains.
EndedByValidVoters ==
  [][\A c \in Player : LastVote(c) =>
       Cardinality((votes_cast \cup {c}) \cap ValidVoters)
         >= Needed(Cardinality(ValidVoters))]_vars

=============================================================================
