------------------------------- MODULE Jukebox -------------------------------
(***************************************************************************)
(* The music of one area: who may change it, the votes of the jukebox and  *)
(* the call_later that ends a song, and what area.music says. How long a   *)
(* song is, shownames and effects are left out, and who hears it           *)
(* (autoplay); the flood guard may refuse whenever there is one.           *)
(***************************************************************************)
EXTENDS Integers, Sequences

CONSTANTS
  Client, Owners, \* the players, and the moderators, GMs and CMs among them
  Song,           \* what is played, besides
  Stop,           \* "~stop.mp3", a category, or a song that is to be played once: length 0
  Silence,        \* "": no music
  Lists,          \* the lists that may hold for the area, as sets of categories (sets of songs)
  Length,         \* Length[s] of a song in a list: "timed", "loops" (-1) or "missing"
  MaxChance       \* bound on JukeboxVote.chance

VARIABLES
  here,     \* area.clients
  jukebox,  \* area.jukebox
  votes,    \* area.jukebox_votes
  looper,   \* area.music_looper is pending
  music,    \* area.music
  mine,     \* area.music_player is the jukebox
  locked,   \* area.music_locked
  canDj,    \* area.can_dj
  dj,       \* clients with is_dj
  lapsed    \* history: why no end is scheduled of what is played, see Lapse

vars == << here, jukebox, votes, looper, music, mine, locked, canDj, dj, lapsed >>

\* The draw fell on what was playing, or on a song without a length; or what is played is
\* the song of a debate, or one that the area was loaded with.
Lapse == {"same song", "no length", "debate", "loaded"}

Vote == [client : Client, song : Song, chance : 0 .. MaxChance]

TypeOK ==
  /\ here \subseteq Client /\ dj \subseteq Client
  /\ {jukebox, looper, mine, locked, canDj} \subseteq BOOLEAN /\ lapsed \in Lapse \cup {"no"}
  /\ votes \in Seq(Vote)
  /\ music \in Song \cup {Stop, Silence}

Init ==
  /\ here = {} /\ dj = Client
  /\ jukebox \in BOOLEAN
  /\ looper = FALSE /\ mine = FALSE /\ locked = FALSE /\ canDj = TRUE /\ lapsed = "no"
  /\ votes = << >> /\ music = Silence

Settings == << locked, canDj, dj >>

-----------------------------------------------------------------------------
\* play_music and add_music_playing
Played(s, byJukebox) == music' = s /\ mine' = byJukebox

-----------------------------------------------------------------------------
\* The votes

\* remove_jukebox_vote, which does nothing while the jukebox is off, of the one vote that a
\* client has at most.
Withdrawn(vs, c) ==
  LET own == {i \in DOMAIN vs : vs[i].client = c}
      k == CHOOSE i \in own : TRUE
  IN IF ~jukebox \/ own = {} THEN vs ELSE SubSeq(vs, 1, k - 1) \o SubSeq(vs, k + 1, Len(vs))

\* Those who voted for what is played start again at 0.
Rated(vs, s) ==
  [i \in DOMAIN vs |->
     [vs[i] EXCEPT !.chance = IF vs[i].song = s THEN 0 ELSE IF @ = MaxChance THEN @ ELSE @ + 1]]

\* get_jukebox_picked: a single vote, or one of those with a chance.
Drawn(vs) == IF Len(vs) = 1 THEN {1} ELSE {i \in DOMAIN vs : vs[i].chance > 0}

\* start_jukebox over the votes vs, its timer cancelled.
StartsOnce(s, vs) ==
  \/ s # music /\ Played(s, TRUE) /\ votes' = Rated(vs, s) /\ looper' = FALSE /\ lapsed' = "no"
  \/ /\ s = music
     /\ UNCHANGED << music, mine >> /\ votes' = vs /\ looper' = FALSE /\ lapsed' = "same song"

Starts(s, vs) ==
  \/ s # music /\ Played(s, TRUE) /\ votes' = Rated(vs, s) /\ looper' = TRUE /\ lapsed' = "no"
  \/ /\ s = music
     /\ UNCHANGED << music, mine >> /\ votes' = vs /\ looper' = FALSE /\ lapsed' = "same song"

TurnedOff(vs) ==
  /\ ~jukebox
  /\ votes' = vs /\ looper' = FALSE /\ lapsed' = "no"
  /\ music' = IF mine THEN Silence ELSE music
  /\ UNCHANGED mine

\* Without votes: a song of the categories of what is playing (of all, if nothing is), but
\* one that loops, or has no length.
Eligible(list) ==
  {s \in UNION {songs \in list : music = Silence \/ music \in songs} :
     s # music /\ Length[s] # "timed"}

\* The length of a song without one raises KeyError: the timer is cancelled, nothing else done.
PlaysAny(vs) ==
  /\ jukebox /\ vs = << >>
  /\ \E list \in Lists :
       \/ \E s \in Eligible(list) : Length[s] = "loops" /\ Starts(s, vs)
       \/ /\ \E s \in Eligible(list) : Length[s] = "missing"
          /\ votes' = vs /\ looper' = FALSE /\ lapsed' = "no length" /\ UNCHANGED << music, mine >>
       \/ /\ Eligible(list) = {}
          /\ music' = Silence
          /\ votes' = vs /\ looper' = FALSE /\ lapsed' = "no" /\ UNCHANGED mine

PlaysVote(vs) ==
  /\ jukebox /\ vs # << >>
  /\ \E i \in Drawn(vs) : Starts(vs[i].song, Withdrawn(vs, vs[i].client))

StartJukebox(vs) == TurnedOff(vs) \/ PlaysAny(vs) \/ PlaysVote(vs)

Waits(vs) == UNCHANGED << music, mine >> /\ votes' = vs /\ UNCHANGED << looper, lapsed >>

Voted(vs, c, s) == Append(Withdrawn(vs, c), [client |-> c, song |-> s, chance |-> 1])

\* add_jukebox_vote
AddVote(c, s) ==
  LET vs == IF s = Stop THEN Withdrawn(votes, c) ELSE Voted(votes, c, s)
      first == IF s = Stop THEN Len(vs) <= 1 ELSE Len(vs) = 1
  IN IF first \/ ~looper THEN StartJukebox(vs) ELSE Waits(vs)

-----------------------------------------------------------------------------
\* Actions

\* change_music, of MC packets, /play, /play_once, /random_music and /radio
MusicChanged(c, s) ==
  /\ c \in dj /\ ~locked /\ (c \in Owners \/ canDj)
  /\ IF jukebox /\ c \notin Owners THEN AddVote(c, s)
     ELSE Played(s, FALSE) /\ UNCHANGED << votes, looper, lapsed >>

\* An MC packet, or one of the commands. (What names an area or a hub is a move instead.)
ChangeMusic(c, s) ==
  /\ c \in here /\ MusicChanged(c, s)
  /\ UNCHANGED << here, jukebox >> /\ UNCHANGED Settings

\* The song ends.
SongEnds ==
  /\ looper
  /\ StartJukebox(votes)
  /\ UNCHANGED << here, jukebox >> /\ UNCHANGED Settings

\* jukebox_toggle
JukeboxToggle(c) ==
  /\ c \in here \cap Owners
  /\ jukebox' = ~jukebox /\ votes' = << >>
  /\ UNCHANGED << here, looper, music, mine, lapsed >> /\ UNCHANGED Settings

\* area_pref: the votes stay.
JukeboxPref(c) ==
  /\ c \in here \cap Owners
  /\ jukebox' = ~jukebox
  /\ UNCHANGED << here, votes, looper, music, mine, lapsed >>
  /\ UNCHANGED Settings

OtherPrefs(c) ==
  /\ c \in here \cap Owners
  /\ \/ locked' = ~locked /\ UNCHANGED canDj
     \/ canDj' = ~canDj /\ UNCHANGED locked
  /\ UNCHANGED << here, jukebox, votes, looper, music, mine, dj, lapsed >>

\* blockdj and unblockdj of a moderator
BlockDj(c) ==
  /\ c \in here
  /\ \/ c \in dj /\ dj' = dj \ {c} /\ votes' = Withdrawn(votes, c)
     \/ c \notin dj /\ dj' = dj \cup {c} /\ UNCHANGED votes
  /\ UNCHANGED << here, jukebox, looper, music, mine, locked, canDj, lapsed >>

\* The song of a debate that begins or ends (start_debate, end_minigame): it counts as the
\* jukebox's, and has no timer of its own.
NotTimed(why) == lapsed' = IF looper THEN lapsed ELSE why

DebateSong(s) ==
  /\ Played(s, TRUE) /\ NotTimed("debate")
  /\ UNCHANGED << here, jukebox, votes, looper >> /\ UNCHANGED Settings

\* The area is loaded: its preferences, and its music if music_autoplay is set.
Load(s) ==
  /\ jukebox' \in BOOLEAN /\ locked' \in BOOLEAN /\ canDj' \in BOOLEAN
  /\ \/ UNCHANGED << music, lapsed >>
     \/ music' = s /\ NotTimed("loaded")
  /\ UNCHANGED << here, votes, looper, mine, dj >>

Enter(c) ==
  /\ c \notin here /\ here' = here \cup {c}
  /\ UNCHANGED << jukebox, votes, looper, music, mine, lapsed >> /\ UNCHANGED Settings

\* remove_client
Leave(c) ==
  /\ c \in here /\ here' = here \ {c}
  /\ votes' = Withdrawn(votes, c)
  /\ UNCHANGED << jukebox, looper, music, mine, lapsed >> /\ UNCHANGED Settings

Next ==
  \/ SongEnds
  \/ \E s \in Song \cup {Stop} : DebateSong(s) \/ Load(s)
  \/ \E c \in Client :
       \/ Enter(c) \/ Leave(c) \/ BlockDj(c)
       \/ JukeboxToggle(c) \/ JukeboxPref(c) \/ OtherPrefs(c)
       \/ \E s \in Song \cup {Stop} : ChangeMusic(c, s)

Spec == Init /\ [][Next]_vars

-----------------------------------------------------------------------------
\* Properties

\* While the jukebox plays, the end of its song is scheduled, and with it the next draw,
\* whoever came in, left, voted, was blocked or changed a preference, and whether it was off
\* in between. It is known which songs it stays at: one that was drawn while it was playing
\* or before a song without a length, and those of debates and saved areas, which count
\* as its own.
JukeboxPlaysOn == jukebox /\ mine /\ music # Silence => looper \/ lapsed # "no"

=============================================================================
