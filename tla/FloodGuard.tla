----------------------------- MODULE FloodGuard -----------------------------
(***************************************************************************)
(* The flood guards of a client (change_music_cd, wtce_mute, ooc_mute,     *)
(* ic_mute, cc_mute): a ring of the times of the last few requests that    *)
(* were let through, and a mute once they come too fast. The guards are    *)
(* the same but for their settings; a request asks one, and asks it again  *)
(* for the text of a refusal. Moderators and owners, and for music whoever *)
(* is alone in the area, are let through without being counted.            *)
(***************************************************************************)
EXTENDS Integers, Sequences

CONSTANTS
  Guard,           \* the guards: music, signs, OOC, IC, characters
  TimesPerInterval, IntervalLength, MuteLength,  \* [Guard -> Nat \ {0}]
  MaxTime,         \* bound: the clock stops there
  None

VARIABLES
  now,      \* time.time()
  exempt,   \* the client is a moderator or an owner, or alone
  ring,     \* mus_change_time, ...: [Guard -> [0 .. TimesPerInterval - 1 -> time]]
  counter,  \* mus_counter, ...
  muted,    \* mus_mute_time, ...: None for 0
  let       \* history: when requests were let through and counted, [Guard -> Seq(time)]

vars == << now, exempt, ring, counter, muted, let >>

Time == 0 .. MaxTime

Start == -1000   \* the rings are filled with zeros: long before the clock starts

Slots(g) == 0 .. TimesPerInterval[g] - 1

TypeOK ==
  /\ now \in Time /\ exempt \in BOOLEAN
  /\ \A g \in Guard : ring[g] \in [Slots(g) -> Time \cup {Start}]
  /\ \A g \in Guard : counter[g] \in Slots(g)
  /\ muted \in [Guard -> Time \cup {None}]
  /\ let \in [Guard -> Seq(Time)]

Init ==
  /\ now = 0 /\ exempt = FALSE
  /\ ring = [g \in Guard |-> [i \in Slots(g) |-> Start]]
  /\ counter = [g \in Guard |-> 0]
  /\ muted = [g \in Guard |-> None]
  /\ let = [g \in Guard |-> << >>]

-----------------------------------------------------------------------------

\* Still within mute_length; else mus_mute_time becomes 0 first.
StillMuted(g) == muted[g] # None /\ now - muted[g] < MuteLength[g]

\* The newest entry is at the counter, and the oldest one after it.
Oldest(g) == (counter[g] - TimesPerInterval[g] + 1) % TimesPerInterval[g]

\* The end of a mute wipes the slate.
TooFastUnmuted(g) == muted[g] = None /\ now - ring[g][Oldest(g)] < IntervalLength[g]

TooFast(g) == now - ring[g][Oldest(g)] < IntervalLength[g]

Refused(g) ==
  \/ StillMuted(g) /\ UNCHANGED muted
  \/ ~StillMuted(g) /\ TooFast(g) /\ muted' = [muted EXCEPT ![g] = now]

\* A refusal calls the guard a second time for its text, which changes nothing more.
Ask(g) ==
  /\ ~exempt
  /\ \/ Refused(g) /\ UNCHANGED << ring, counter, let >>
     \/ /\ ~StillMuted(g) /\ ~TooFast(g)
        /\ muted' = [muted EXCEPT ![g] = None]
        /\ counter' = [counter EXCEPT ![g] = (@ + 1) % TimesPerInterval[g]]
        /\ ring' = [ring EXCEPT ![g][counter'[g]] = now]
        /\ let' = [let EXCEPT ![g] = Append(@, now)]
  /\ UNCHANGED << now, exempt >>

\* The client becomes or ceases to be an owner, or others come and go.
Exempted == exempt' = ~exempt /\ UNCHANGED << now, ring, counter, muted, let >>

Tick == now < MaxTime /\ now' = now + 1 /\ UNCHANGED << exempt, ring, counter, muted, let >>

Next == (\E g \in Guard : Ask(g)) \/ Exempted \/ Tick

Spec == Init /\ [][Next]_vars

-----------------------------------------------------------------------------
\* Properties

\* In any span of interval_length, however the requests, the mutes and the times of
\* exemption fall, no more than times_per_interval requests are let through and counted: the
\* one that comes so many after another is not in the same span.
AtMostPerInterval ==
  \A g \in Guard : \A i \in 1 .. Len(let[g]) - TimesPerInterval[g] :
    let[g][i + TimesPerInterval[g]] - let[g][i] >= IntervalLength[g]

=============================================================================
