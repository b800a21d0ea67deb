-------------------------- MODULE Minigame_proofs --------------------------
(***************************************************************************)
(* Minigame's invariants, for any players, characters, owners, share of    *)
(* votes and preferences of the area.                                      *)
(***************************************************************************)
EXTENDS Minigame, TLAPS

(* Types and NothingIsLeftOver are inductive together: that at most one    *)
(* call of end_minigame is to come is known from the debate it belongs to. *)
DebateInv == TypeOK /\ NothingIsLeftOver

\* The end of a debate, by whatever it was decided.
LEMMA EndNowClears ==
  ASSUME DebateInv, minigame # "none", EndNow
  PROVE  DebateInv'
<1>1. pending = 1
  BY DEF DebateInv, NothingIsLeftOver
<1>2. pending' = 0
  BY <1>1 DEF EndNow, Cancelled
<1>. QED BY <1>2 DEF DebateInv, TypeOK, NothingIsLeftOver, EndNow, End, VotesForgotten

\* A debater changes, or joins, a side.
LEMMA JoinsTyped ==
  ASSUME TypeOK, NEW c \in Player, NEW t \in Player, JoinsAgainst(c, t)
  PROVE  red_team' \subseteq Faces /\ blue_team' \subseteq Faces
BY DEF TypeOK, JoinsAgainst

\* The steps of the players, but for debating.
LEMMA PlayerStep ==
  ASSUME DebateInv, NEW c \in Player,
         \/ \E ch \in Faces : Enter(c, ch) \/ ChangeCharacter(c, ch)
         \/ Leave(c)
         \/ \E to \in BOOLEAN : SetMute(c, to)
         \/ Vote(c)
  PROVE  DebateInv'
<1>. USE DEF DebateInv, TypeOK, NothingIsLeftOver
<1>1. CASE \E ch \in Faces : Enter(c, ch) \/ ChangeCharacter(c, ch)
  BY <1>1 DEF Enter, ChangeCharacter
<1>2. CASE Leave(c)
  <2>1. Spectator \in Faces
    BY DEF Faces
  <2>. QED BY <1>2, <2>1 DEF Leave
<1>3. CASE \E to \in BOOLEAN : SetMute(c, to)
  BY <1>3 DEF SetMute
<1>4. CASE Vote(c)
  BY <1>4 DEF Vote
<1>. QED BY <1>1, <1>2, <1>3, <1>4

\* A debate starts, or grows.
LEMMA DebateStep ==
  ASSUME DebateInv, NEW c \in Player, NEW t \in Player,
         \/ \E pta \in BOOLEAN : Challenge(c, t, pta)
         \/ BecomesScrum(c, t)
         \/ JoinScrum(c, t)
  PROVE  DebateInv'
<1>1. CASE \E pta \in BOOLEAN : Challenge(c, t, pta)
  <2>1. pending = 0 /\ pending' = 1
    BY <1>1 DEF DebateInv, NothingIsLeftOver, TypeOK, Challenge
  <2>2. minigame' \in Debates /\ "none" \notin Debates
    BY <1>1 DEF Challenge, Debates
  <2>3. char[c] \in Faces /\ char[t] \in Faces
    BY DEF DebateInv, TypeOK
  <2>. QED BY <1>1, <2>1, <2>2, <2>3
           DEF DebateInv, NothingIsLeftOver, TypeOK, Challenge
<1>2. CASE BecomesScrum(c, t)
  <2>1. pending = 1 /\ pending' = 1
    BY <1>2 DEF DebateInv, NothingIsLeftOver, BecomesScrum, Rescheduled, Cancelled
  <2>2. red_team' \subseteq Faces /\ blue_team' \subseteq Faces
    BY <1>2, JoinsTyped DEF DebateInv, BecomesScrum
  <2>3. minigame' = "ScrumDebate" /\ minigame' \in Debates
    BY <1>2 DEF BecomesScrum, Debates
  <2>. QED BY <1>2, <2>1, <2>2, <2>3
           DEF DebateInv, NothingIsLeftOver, TypeOK, BecomesScrum, MutedBefore
<1>3. CASE JoinScrum(c, t)
  <2>1. minigame = "ScrumDebate"
    BY <1>3 DEF JoinScrum
  <2>2. CASE EndNow
    BY <2>1, <2>2, EndNowClears
  <2>3. CASE /\ JoinsAgainst(c, t)
             /\ UNCHANGED << here, char, minigame, votes_cast, muted, old_muted,
                             pending, silenced >>
    BY <2>1, <2>3, JoinsTyped DEF DebateInv, TypeOK, NothingIsLeftOver
  <2>. QED BY <1>3, <2>2, <2>3 DEF JoinScrum
<1>. QED BY <1>1, <1>2, <1>3

\* The steps that end a debate.
LEMMA EndStep ==
  ASSUME DebateInv,
         \/ TimerExpires
         \/ \E c \in Player : LastVote(c) \/ ConcedeDuel(c) \/ ForceEnd(c)
  PROVE  DebateInv'
<1>1. CASE TimerExpires
  <2>1. pending = 1 /\ pending' = 0
    BY <1>1 DEF DebateInv, TypeOK, TimerExpires
  <2>. QED BY <1>1, <2>1
           DEF DebateInv, TypeOK, NothingIsLeftOver, TimerExpires, End, VotesForgotten
<1>2. ASSUME NEW c \in Player, LastVote(c) \/ ConcedeDuel(c) \/ ForceEnd(c)
      PROVE  DebateInv'
  <2>1. minigame # "none" /\ EndNow
    BY <1>2 DEF LastVote, ConcedeDuel, ForceEnd
  <2>. QED BY <2>1, EndNowClears
<1>. QED BY <1>1, <1>2

LEMMA DebateInit == Init => DebateInv
<1>. SUFFICES ASSUME Init PROVE DebateInv
  OBVIOUS
<1>1. char \in [Player -> Faces]
  BY DEF Init, Faces
<1>2. pending = 0 /\ pending \in 0 .. 1 /\ pending # 1
  BY DEF Init
<1>3. minigame = "none" /\ minigame \in Debates \cup {"none"}
  BY DEF Init
<1>. QED BY <1>1, <1>2, <1>3 DEF Init, DebateInv, TypeOK, NothingIsLeftOver

LEMMA DebateNext == DebateInv /\ [Next]_vars => DebateInv'
<1>. SUFFICES ASSUME DebateInv, [Next]_vars PROVE DebateInv'
  OBVIOUS
<1>1. CASE Next
  BY <1>1, PlayerStep, DebateStep, EndStep DEF Next
<1>2. CASE UNCHANGED vars
  BY <1>2 DEF DebateInv, TypeOK, NothingIsLeftOver, vars
<1>. QED BY <1>1, <1>2

\* The type invariant holds in every reachable state: no second call of
\* end_minigame ever waits.
THEOREM TypesAlways == Spec => []TypeOK
BY DebateInit, DebateNext, PTL DEF Spec, DebateInv

\* A debate has its one timeout, and nothing of it is left when it has ended.
THEOREM NothingAlwaysLeftOver == Spec => []NothingIsLeftOver
BY DebateInit, DebateNext, PTL DEF Spec, DebateInv

-----------------------------------------------------------------------------

(* The mute that a debate will restore is one that an owner meant.         *)
SavedMute == minigame # "none" /\ old_muted => silenced

MuteInv == DebateInv /\ MutedByAnOwner /\ SavedMute

\* The mute is given back as it was found.
LEMMA EndRestores ==
  ASSUME MuteInv, minigame # "none", End
  PROVE  (MutedByAnOwner /\ SavedMute)'
BY DEF MuteInv, MutedByAnOwner, SavedMute, End

LEMMA MuteNext == MuteInv /\ [Next]_vars => MuteInv'
<1>. SUFFICES ASSUME MuteInv, [Next]_vars PROVE (MutedByAnOwner /\ SavedMute)'
  BY DebateNext DEF MuteInv
<1>. USE DEF MuteInv, MutedByAnOwner, SavedMute
<1>1. ASSUME UNCHANGED << minigame, muted, old_muted, silenced >>
      PROVE  (MutedByAnOwner /\ SavedMute)'
  BY <1>1
<1>2. ASSUME NEW c \in Player, NEW to \in BOOLEAN, SetMute(c, to)
      PROVE  (MutedByAnOwner /\ SavedMute)'
  BY <1>2 DEF SetMute
<1>3. ASSUME NEW c \in Player, NEW t \in Player, NEW pta \in BOOLEAN, Challenge(c, t, pta)
      PROVE  (MutedByAnOwner /\ SavedMute)'
  BY <1>3 DEF Challenge
<1>4. ASSUME NEW c \in Player, NEW t \in Player, BecomesScrum(c, t)
      PROVE  (MutedByAnOwner /\ SavedMute)'
  BY <1>4 DEF BecomesScrum, MutedBefore
<1>5. ASSUME minigame # "none", End
      PROVE  (MutedByAnOwner /\ SavedMute)'
  BY <1>5, EndRestores
<1>6. ASSUME TimerExpires PROVE minigame # "none" /\ End
  BY <1>6 DEF TimerExpires, DebateInv, NothingIsLeftOver, TypeOK
<1>7. ASSUME NEW c \in Player, LastVote(c) \/ ConcedeDuel(c) \/ ForceEnd(c)
      PROVE  minigame # "none" /\ End
  BY <1>7 DEF LastVote, ConcedeDuel, ForceEnd, EndNow
<1>8. ASSUME NEW c \in Player, NEW t \in Player, JoinScrum(c, t)
      PROVE  \/ minigame # "none" /\ End
             \/ UNCHANGED << minigame, muted, old_muted, silenced >>
  BY <1>8 DEF JoinScrum, EndNow
<1>9. ASSUME NEW c \in Player,
             \/ \E ch \in Faces : Enter(c, ch) \/ ChangeCharacter(c, ch)
             \/ Leave(c) \/ Vote(c)
      PROVE  UNCHANGED << minigame, muted, old_muted, silenced >>
  BY <1>9 DEF Enter, ChangeCharacter, Leave, Vote
<1>10. CASE UNCHANGED vars
  BY <1>1, <1>10 DEF vars
<1>11. CASE Next
  <2>. HIDE DEF MuteInv, MutedByAnOwner, SavedMute
  <2>. QED BY <1>1, <1>2, <1>3, <1>4, <1>5, <1>6, <1>7, <1>8, <1>9, <1>11 DEF Next
<1>. QED BY <1>10, <1>11

\* Without a debate the area is muted only where an owner muted it.
THEOREM MuteAlwaysByAnOwner == Spec => []MutedByAnOwner
<1>1. Init => MuteInv
  BY DebateInit DEF Init, MuteInv, MutedByAnOwner, SavedMute
<1>. QED BY <1>1, MuteNext, PTL DEF Spec, MuteInv

=============================================================================
