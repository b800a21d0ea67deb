----------------------------- MODULE Parts_proofs -----------------------------
(***************************************************************************)
(* The invariants of the parts, for any settings. A behaviour of Parts is  *)
(* one of every part: so each part is reasoned about by itself.            *)
(***************************************************************************)
EXTENDS Parts, SequenceTheorems, WellFoundedInduction, TLAPS

-----------------------------------------------------------------------------
\* Every step is a step or a stutter of each part.
LEMMA StepOfParts ==
  ASSUME [Next]_vars
  PROVE  /\ [T!Next]_tvars /\ [J!Next]_jvars /\ [L!Next]_lvars /\ [F!Next]_fvars
         /\ [M!Next]_mvars /\ [B!Next]_bvars /\ [R!Next]_rvars /\ [P!Next]_pvars
BY DEF Next, vars

LEMMA StartOfParts ==
  ASSUME Init
  PROVE  /\ T!Init /\ J!Init /\ L!Init /\ F!Init /\ M!Init /\ B!Init /\ R!Init /\ P!Init
BY DEF Init

-----------------------------------------------------------------------------
\* Moderators

ModsInv == /\ mod \in [Client -> Profile \cup {None}] /\ used \in [Client -> Password \cup {None}]
           /\ ModsAreCurrent

LEMMA ModsStep ==
  ASSUME ModsInv, [M!Next]_mvars
  PROVE  ModsInv'
<1> USE DEF ModsInv, ModsAreCurrent, M!ModsAreCurrent
<1>1. ASSUME NEW cs, M!Unmod(cs), \A c \in Client : mod'[c] # None => modpass'[mod[c]] = used[c]
      PROVE  ModsInv'
  <2>1. /\ mod' = [c \in Client |-> IF c \in cs THEN None ELSE mod[c]]
        /\ used' = [c \in Client |-> IF c \in cs THEN None ELSE used[c]]
    BY <1>1 DEF M!Unmod
  <2>2. ASSUME NEW c \in Client, mod'[c] # None PROVE modpass'[mod'[c]] = used'[c]
    BY <1>1, <2>1, <2>2
  <2> QED BY <2>1, <2>2
<1>2. ASSUME NEW c \in Client, M!Logout(c) PROVE ModsInv'
  BY <1>1, <1>2 DEF M!Logout, M!Unmod
<1>3. ASSUME NEW c \in Client, M!Refresh(c) PROVE ModsInv'
  <2>1. \A d \in Client : mod'[d] # None => mod[d] # None /\ modpass'[mod[d]] = modpass[mod[d]]
    BY <1>3 DEF M!Refresh, M!Unmod, M!Revoked
  <2> QED BY <1>1, <1>3, <2>1 DEF M!Refresh
<1>4. CASE M!Restart
  <2>1. \A d \in Client : mod'[d] = None BY <1>4 DEF M!Restart, M!Unmod
  <2> QED BY <1>1, <1>4, <2>1 DEF M!Restart
<1>5. ASSUME NEW c \in Client, NEW pw \in Password, M!Login(c, pw) PROVE ModsInv'
  <2>1. PICK p \in Profile : modpass[p] = pw /\ mod' = [mod EXCEPT ![c] = p]
    BY <1>5 DEF M!Login, M!Matches
  <2>2. used' = [used EXCEPT ![c] = pw] /\ modpass' = modpass BY <1>5 DEF M!Login
  <2> QED BY <2>1, <2>2
<1>6. ASSUME NEW p \in Profile, NEW pw \in Password \cup {None}, M!Edit(p, pw) PROVE ModsInv'
  BY <1>6 DEF M!Edit
<1>7. CASE UNCHANGED mvars BY <1>7 DEF mvars
<1> QED BY <1>2, <1>3, <1>4, <1>5, <1>6, <1>7 DEF M!Next

\* Who is a moderator gave the password of its profile, over logins, edits of the file,
\* /refresh and restarts (TsuServer3.refresh).
THEOREM ModsAlwaysCurrent == Spec => []ModsAreCurrent
<1>1. Init => ModsInv
  BY StartOfParts DEF M!Init, M!Nobody, M!ModsAreCurrent, ModsAreCurrent, ModsInv
<1>2. ModsInv /\ [Next]_vars => ModsInv' BY StepOfParts, ModsStep
<1>3. ModsInv => ModsAreCurrent BY DEF ModsInv
<1> QED BY <1>1, <1>2, <1>3, PTL DEF Spec

-----------------------------------------------------------------------------
\* Flood guards

\* Slots in the ring
LEMMA RingSlots ==
  ASSUME NEW k \in Nat \ {0}, NEW c \in 0 .. k - 1
  PROVE  /\ (c + 1) % k = IF c = k - 1 THEN 0 ELSE c + 1
         /\ (c - k + 1) % k = IF c = k - 1 THEN 0 ELSE c + 1
OBVIOUS

\* Where the request is that was let through j before the newest.
SlotOf(g, j) == IF counter[g] >= j THEN counter[g] - j ELSE counter[g] - j + TimesPerInterval[g]

RingTypes(g) ==
  /\ counter[g] \in 0 .. TimesPerInterval[g] - 1 /\ let[g] \in Seq(Int)
  /\ ring[g] \in [0 .. TimesPerInterval[g] - 1 -> Int]

\* The ring holds the newest requests that were let through.
Newest(g) ==
  \A j \in 0 .. TimesPerInterval[g] - 1 : j < Len(let[g]) =>
    ring[g][SlotOf(g, j)] = let[g][Len(let[g]) - j]

Spaced(g) ==
  \A i \in 1 .. Len(let[g]) - TimesPerInterval[g] :
    let[g][i + TimesPerInterval[g]] - let[g][i] >= IntervalLength[g]

FloodInv ==
  /\ now \in Int /\ DOMAIN counter = Guard /\ DOMAIN ring = Guard /\ DOMAIN let = Guard
  /\ ring = [g \in Guard |-> ring[g]]
  /\ counter = [g \in Guard |-> counter[g]] /\ let = [g \in Guard |-> let[g]]
  /\ \A g \in Guard : RingTypes(g) /\ Newest(g) /\ Spaced(g)

LEMMA LastWindow ==
  ASSUME NEW n \in Nat, NEW k \in Nat \ {0}, NEW i \in 1 .. (n + 1) - k, i = (n + 1) - k
  PROVE  n - (k - 1) = i /\ k - 1 < n /\ i \in 1 .. n /\ i + k = n + 1 /\ k - 1 \in 0 .. k - 1
<1>1. n \in Int /\ k \in Int /\ 1 <= k /\ i \in Int /\ 1 <= i OBVIOUS
<1>2. n - (k - 1) = i /\ i + k = n + 1 BY <1>1
<1>3. k - 1 < n /\ i <= n BY <1>1, <1>2
<1> QED BY <1>1, <1>2, <1>3

\* The request that is written over is as old as the interval (the guards of ClientManager).
LEMMA LetThrough ==
  ASSUME NEW g \in Guard, RingTypes(g), Newest(g), Spaced(g), now \in Int, ~F!TooFast(g),
         counter'[g] = (counter[g] + 1) % TimesPerInterval[g],
         ring'[g] = [ring[g] EXCEPT ![counter'[g]] = now],
         let'[g] = Append(let[g], now)
  PROVE  RingTypes(g)' /\ Newest(g)' /\ Spaced(g)'
<1> DEFINE k == TimesPerInterval[g]
           d == IntervalLength[g]
           n == Len(let[g])
           c == counter[g]
           b == counter'[g]
           slot(x, j) == IF x >= j THEN x - j ELSE x - j + k
<1>1. k \in Nat \ {0} /\ c \in 0 .. k - 1 /\ n \in Nat /\ d \in Nat
  BY PartsAssumption, LenProperties DEF RingTypes
<1>2. b = (c + 1) % k OBVIOUS
<1>3. /\ F!Oldest(g) = (c - k + 1) % k
      /\ \A j : SlotOf(g, j) = slot(c, j) /\ SlotOf(g, j)' = slot(b, j)
  BY DEF F!Oldest, SlotOf
<1>4. /\ \A j \in 0 .. k - 1 : j < n => ring[g][slot(c, j)] = let[g][n - j]
      /\ \A i \in 1 .. n - k : let[g][i + k] - let[g][i] >= d
  BY <1>3 DEF Newest, Spaced
<1>5. /\ let'[g] \in Seq(Int) /\ Len(let'[g]) = n + 1 /\ let'[g][n + 1] = now
      /\ \A i \in 1 .. n : let'[g][i] = let[g][i]
  BY AppendProperties DEF RingTypes
<1>6. ring[g] \in [0 .. k - 1 -> Int] /\ ~(now - ring[g][F!Oldest(g)] < d)
      /\ ring'[g] = [ring[g] EXCEPT ![b] = now]
  BY DEF RingTypes, F!TooFast
<1> HIDE DEF k, d, n, c, b
<1>7. b = IF c = k - 1 THEN 0 ELSE c + 1 BY <1>1, <1>2, RingSlots
<1>8. F!Oldest(g) = b BY <1>1, <1>3, <1>7, RingSlots
<1>9. b \in 0 .. k - 1 /\ slot(c, k - 1) = b BY <1>1, <1>7
<1>10. now - ring[g][b] >= d
  <2>1. ring[g][b] \in Int BY <1>6, <1>9
  <2> QED BY <1>1, <1>6, <1>8, <2>1
<1>11. ring'[g][b] = now /\ \A s \in 0 .. k - 1 : s # b => ring'[g][s] = ring[g][s]
  BY <1>6, <1>9
<1>12. RingTypes(g)'
  <2>1. ring'[g] \in [0 .. k - 1 -> Int] BY <1>6, <1>9
  <2> QED BY <1>5, <1>9, <2>1 DEF RingTypes, k, b
<1>13. ASSUME NEW j \in 0 .. k - 1, j < n + 1
       PROVE  ring'[g][slot(b, j)] = let'[g][(n + 1) - j]
  <2>1. CASE j = 0
    <3>1. slot(b, j) = b BY <1>9, <2>1
    <3> HIDE DEF slot
    <3> QED BY <1>1, <1>5, <1>11, <2>1, <3>1
  <2>2. CASE j # 0
    <3>1. j - 1 \in 0 .. k - 1 /\ j - 1 < n BY <1>1, <1>13, <2>2
    <3>2. slot(b, j) = slot(c, j - 1) BY <1>1, <1>7, <2>2
    <3>3. slot(b, j) \in 0 .. k - 1 /\ slot(b, j) # b BY <1>1, <1>9, <2>2
    <3>4. ring[g][slot(c, j - 1)] = let[g][n - (j - 1)] BY <1>4, <3>1
    <3>5. n - (j - 1) = (n + 1) - j /\ (n + 1) - j \in 1 .. n BY <1>1, <1>13, <2>2
    <3> HIDE DEF slot
    <3> QED BY <1>5, <1>11, <3>2, <3>3, <3>4, <3>5
  <2> QED BY <2>1, <2>2
<1>14. Newest(g)'
  <2>1. \A j \in 0 .. k - 1 : j < n + 1 => ring'[g][SlotOf(g, j)'] = let'[g][(n + 1) - j]
    BY <1>3, <1>13
  <2> DEFINE m == Len(let'[g])
  <2>2. m = n + 1 BY <1>5
  <2> SUFFICES ASSUME NEW j \in 0 .. TimesPerInterval[g] - 1, j < m
               PROVE  ring'[g][SlotOf(g, j)'] = let'[g][m - j]
    BY Zenon DEF Newest
  <2> HIDE DEF m
  <2>4. j \in 0 .. k - 1 /\ j < n + 1 BY <2>2, Zenon DEF k
  <2>5. ring'[g][SlotOf(g, j)'] = let'[g][(n + 1) - j] BY <2>1, <2>4
  <2> QED BY <2>2, <2>5, Zenon
<1>15. ASSUME NEW i \in 1 .. (n + 1) - k PROVE let'[g][i + k] - let'[g][i] >= d
  <2>1. CASE i = (n + 1) - k
    <3>1. n - (k - 1) = i /\ k - 1 < n /\ i \in 1 .. n /\ i + k = n + 1 /\ k - 1 \in 0 .. k - 1
      BY <1>1, <1>15, <2>1, LastWindow
    <3>2. ring[g][b] = let[g][i] BY <1>4, <1>9, <3>1
    <3> QED BY <1>5, <1>10, <3>1, <3>2
  <2>2. CASE i # (n + 1) - k
    <3>1. i \in 1 .. n - k /\ i \in 1 .. n /\ i + k \in 1 .. n BY <1>1, <2>2
    <3>2. let[g][i + k] - let[g][i] >= d BY <1>4, <3>1
    <3> QED BY <1>5, <3>1, <3>2
  <2> QED BY <2>1, <2>2
<1>16. Spaced(g)'
  <2> DEFINE m == Len(let'[g])
  <2>1. m = n + 1 BY <1>5
  <2> SUFFICES ASSUME NEW i \in 1 .. m - TimesPerInterval[g]
               PROVE  let'[g][i + TimesPerInterval[g]] - let'[g][i] >= IntervalLength[g]
    BY Zenon DEF Spaced
  <2> HIDE DEF m
  <2>3. i \in 1 .. (n + 1) - k BY <2>1, Zenon DEF k
  <2>4. let'[g][i + k] - let'[g][i] >= d BY <1>15, <2>3
  <2> QED BY <2>4 DEF k, d
<1> QED BY <1>12, <1>14, <1>16

LEMMA FloodStart == ASSUME Init PROVE FloodInv
<1>1. F!Init BY StartOfParts
<1>2. \A g \in Guard : TimesPerInterval[g] \in Nat \ {0} BY PartsAssumption
<1>3. << >> \in Seq(Int) /\ Len(<< >>) = 0 BY EmptySeq
<1>4. ASSUME NEW g \in Guard PROVE RingTypes(g) /\ Newest(g) /\ Spaced(g)
  <2>1. ring[g] = [i \in 0 .. TimesPerInterval[g] - 1 |-> -1000] /\ counter[g] = 0 /\ let[g] = << >>
    BY <1>1 DEF F!Init, F!Slots, F!Start
  <2> QED BY <1>2, <1>3, <2>1 DEF RingTypes, Newest, Spaced
<1> QED BY <1>1, <1>4 DEF F!Init, FloodInv

LEMMA FloodStep ==
  ASSUME FloodInv, [F!Next]_fvars
  PROVE  FloodInv'
<1>1. CASE UNCHANGED << ring, counter, let >> /\ now' \in Int
  BY <1>1 DEF FloodInv, RingTypes, Newest, Spaced, SlotOf
<1>2. ASSUME NEW g \in Guard, F!Ask(g) PROVE FloodInv'
  <2>1. CASE UNCHANGED << ring, counter, let >> BY <1>1, <1>2, <2>1 DEF F!Ask, FloodInv
  <2>2. CASE /\ ~F!TooFast(g)
             /\ counter' = [counter EXCEPT ![g] = (@ + 1) % TimesPerInterval[g]]
             /\ ring' = [ring EXCEPT ![g][counter'[g]] = now]
             /\ let' = [let EXCEPT ![g] = Append(@, now)]
    <3>1. /\ counter'[g] = (counter[g] + 1) % TimesPerInterval[g]
          /\ ring'[g] = [ring[g] EXCEPT ![counter'[g]] = now]
          /\ let'[g] = Append(let[g], now)
      BY <2>2 DEF FloodInv
    <3>2. \A h \in Guard : h # g =>
            counter'[h] = counter[h] /\ ring'[h] = ring[h] /\ let'[h] = let[h]
      BY <2>2 DEF FloodInv
    <3>3. \A h \in Guard : RingTypes(h)' /\ Newest(h)' /\ Spaced(h)'
      <4> TAKE h \in Guard
      <4>1. RingTypes(h) /\ Newest(h) /\ Spaced(h) /\ now \in Int BY DEF FloodInv
      <4>2. CASE h = g BY <2>2, <3>1, <4>1, <4>2, LetThrough
      <4>3. CASE h # g BY <3>2, <4>1, <4>3 DEF RingTypes, Newest, Spaced, SlotOf
      <4> QED BY <4>2, <4>3
    <3>4. now' = now BY <1>2 DEF F!Ask
    <3> QED BY <2>2, <3>3, <3>4 DEF FloodInv
  <2> QED BY <1>2, <2>1, <2>2 DEF F!Ask
<1>3. CASE F!Exempted \/ F!Tick BY <1>1, <1>3 DEF F!Exempted, F!Tick, FloodInv
<1>4. CASE UNCHANGED fvars BY <1>1, <1>4 DEF fvars, FloodInv
<1> QED BY <1>2, <1>3, <1>4 DEF F!Next

\* In any interval_length no more than times_per_interval requests are let through, for any
\* settings of the guards (change_music_cd, wtce_mute, ooc_mute, ic_mute, cc_mute).
THEOREM AlwaysAtMostPerInterval == Spec => []AtMostPerInterval
<1>1. FloodInv /\ [Next]_vars => FloodInv' BY StepOfParts, FloodStep
<1>2. FloodInv => AtMostPerInterval
  BY DEF FloodInv, Spaced, AtMostPerInterval, F!AtMostPerInterval
<1> QED BY <1>1, <1>2, FloodStart, PTL DEF Spec

-----------------------------------------------------------------------------
\* Bans: every dated ban is looked after by a timer of its own number, or by the next
\* schedule_unbans, whose window begins where the last one ended.

LEMMA BanSettings == Durations \subseteq Int /\ Window \in Int /\ Never \notin Int
BY PartsAssumption

\* A dated ban has a timer that is not too late, or its date is not before the next
\* schedule_unbans.
LookedAfter ==
  up => \A i \in DOMAIN bans : bans[i] # Never =>
          \/ bans[i] >= wakes
          \/ \E t \in timers : t[2] = i /\ (t[1] <= bans[i] \/ t[1] <= clock)

BanDates ==
  /\ clock \in Int /\ wakes \in Int
  /\ \A i \in DOMAIN bans : bans[i] \in Int \cup {Never}
  /\ \A t \in timers : t[1] \in Int

BansInv == BanDates /\ LookedAfter

\* A timer of _schedule_unban is not later than the date, or due at once.
LEMMA TimerInTime ==
  ASSUME NEW i, NEW until \in Int, clock \in Int
  PROVE  /\ B!Timer(i, until)[2] = i /\ B!Timer(i, until)[1] \in Int
         /\ B!Timer(i, until)[1] <= until \/ B!Timer(i, until)[1] <= clock
BY DEF B!Timer

\* schedule_unbans leaves no dated ban without a timer that is not in the next window
\* (Database.schedule_unbans).
LEMMA SchedulingLooksAfter ==
  ASSUME BanDates, NEW ts, B!Scheduled \subseteq ts
  PROVE  \A i \in DOMAIN bans : bans[i] # Never =>
           \/ bans[i] >= clock + Window
           \/ \E t \in ts : t[2] = i /\ (t[1] <= bans[i] \/ t[1] <= clock)
<1> SUFFICES ASSUME NEW i \in DOMAIN bans, bans[i] # Never, ~(bans[i] >= clock + Window)
             PROVE  \E t \in ts : t[2] = i /\ (t[1] <= bans[i] \/ t[1] <= clock)
  OBVIOUS
<1>1. bans[i] \in Int /\ clock \in Int BY DEF BanDates
<1>2. i \in B!Soon BY <1>1, BanSettings DEF B!Soon
<1>3. B!Timer(i, bans[i]) \in ts BY <1>2 DEF B!Scheduled
<1> QED BY <1>1, <1>3, TimerInTime

\* The timers schedule_unbans makes are at dates.
LEMMA ScheduledAtDates ==
  ASSUME BanDates
  PROVE  \A t \in B!Scheduled : t[1] \in Int
<1> SUFFICES ASSUME NEW i \in B!Soon PROVE B!Timer(i, bans[i])[1] \in Int BY DEF B!Scheduled
<1>1. bans[i] \in Int /\ clock \in Int BY BanSettings DEF B!Soon, BanDates
<1> QED BY <1>1, TimerInTime

\* Every step keeps the dated bans looked after (ban, unban, auto_unban, schedule_unbans,
\* a crash and a start).
LEMMA LookedAfterStep ==
  ASSUME BansInv, [B!Next]_bvars
  PROVE  BansInv'
<1> USE BanSettings DEF B!Clock, B!Tables
<1>1. CASE \E c \in Peer : B!Hi(c) \/ B!Kick({c}) \/ B!Kick(online \ {c})
  BY <1>1 DEF B!Hi, B!Kick, BansInv, BanDates, LookedAfter
<1>2. CASE \E a \in B!Address : B!Kick(B!At(a))
  BY <1>2 DEF B!Kick, BansInv, BanDates, LookedAfter
<1>3. ASSUME NEW a \in B!Address, NEW until \in B!UnbanDates, B!Ban(a, until)
      PROVE  BansInv'
  <2>1. until \in Int \cup {Never} /\ clock \in Int BY DEF BansInv, BanDates, B!UnbanDates
  <2>2. clock' = clock /\ wakes' = wakes /\ up' = up /\ up BY <1>3 DEF B!Ban, B!DoBan
  <2>3. timers \subseteq timers' BY <1>3 DEF B!Ban
  <2>4. until # Never => B!Timer(B!Fresh, until) \in timers' BY <1>3 DEF B!Ban
  <2>5. \A i \in DOMAIN bans' : bans'[i] = IF i = B!Fresh THEN until ELSE bans[i]
    BY <1>3 DEF B!Ban
  <2>6. \A i \in DOMAIN bans' : i # B!Fresh => i \in DOMAIN bans BY <1>3 DEF B!Ban
  <2>7. BanDates'
    <3>1. \A t \in timers' : t[1] \in Int
      <4>1. CASE until = Never BY <4>1, <1>3 DEF B!Ban, BansInv, BanDates
      <4>2. CASE until # Never
        <5>1. B!Timer(B!Fresh, until)[1] \in Int BY <4>2, <2>1, TimerInTime
        <5> QED BY <5>1, <4>2, <1>3 DEF B!Ban, BansInv, BanDates
      <4> QED BY <4>1, <4>2
    <3> QED BY <3>1, <2>1, <2>2, <2>5, <2>6 DEF BansInv, BanDates
  <2>8. ASSUME NEW i \in DOMAIN bans', bans'[i] # Never
        PROVE  \/ bans'[i] >= wakes'
               \/ \E t \in timers' : t[2] = i /\ (t[1] <= bans'[i] \/ t[1] <= clock')
    <3>1. CASE i = B!Fresh
      <4>1. until # Never /\ bans'[i] = until BY <3>1, <2>5, <2>8
      <4> QED BY <4>1, <3>1, <2>1, <2>2, <2>4, TimerInTime
    <3>2. CASE i # B!Fresh
      <4>1. i \in DOMAIN bans /\ bans'[i] = bans[i] BY <3>2, <2>5, <2>6
      <4> QED BY <4>1, <2>2, <2>3, <2>8 DEF BansInv, LookedAfter
    <3> QED BY <3>1, <3>2
  <2> QED BY <2>7, <2>8 DEF BansInv, LookedAfter
<1>4. ASSUME NEW a \in B!Address, NEW i \in B!Id, B!BanToo(a, i) PROVE BansInv'
  BY <1>4 DEF B!BanToo, B!DoBan, BansInv, BanDates, LookedAfter
<1>5. ASSUME NEW i \in B!Id, B!Unban(i) PROVE BansInv'
  <2>1. /\ DOMAIN bans' = DOMAIN bans \ {i}
        /\ \A j \in DOMAIN bans' : bans'[j] = bans[j]
    BY <1>5 DEF B!Unban, B!Lifted
  <2>2. UNCHANGED << timers, clock, wakes, up >> BY <1>5 DEF B!Unban
  <2> QED BY <2>1, <2>2 DEF BansInv, BanDates, LookedAfter
<1>6. ASSUME NEW t \in timers, B!AutoUnban(t) PROVE BansInv'
  <2>1. /\ DOMAIN bans' = DOMAIN bans \ {t[2]}
        /\ \A j \in DOMAIN bans' : bans'[j] = bans[j]
    BY <1>6 DEF B!AutoUnban, B!Lifted
  <2>2. timers' = timers \ {t} /\ UNCHANGED << clock, wakes, up >> BY <1>6 DEF B!AutoUnban
  <2>3. \A u \in timers : u[2] # t[2] => u \in timers' BY <2>2
  <2>4. BanDates' BY <2>1, <2>2 DEF BansInv, BanDates
  <2>5. LookedAfter' BY <2>1, <2>2, <2>3 DEF BansInv, LookedAfter
  <2> QED BY <2>4, <2>5 DEF BansInv
<1>7. CASE B!Wake
  <2>1. timers' = timers \cup B!Scheduled /\ wakes' = clock + Window /\ UNCHANGED << bans, clock, up >>
    BY <1>7 DEF B!Wake
  <2>2. \A t \in B!Scheduled : t[1] \in Int BY ScheduledAtDates DEF BansInv
  <2>3. BanDates' BY <2>1, <2>2 DEF BansInv, BanDates
  <2>4. LookedAfter' BY <2>1, SchedulingLooksAfter DEF BansInv, LookedAfter
  <2> QED BY <2>3, <2>4 DEF BansInv
<1>8. CASE B!Tick
  <2>1. clock' = clock + 1 /\ UNCHANGED << bans, timers, wakes, up >> BY <1>8 DEF B!Tick
  <2>2. BanDates' BY <2>1 DEF BansInv, BanDates
  <2>3. LookedAfter' BY <2>1 DEF BansInv, BanDates, LookedAfter
  <2> QED BY <2>2, <2>3 DEF BansInv
<1>9. CASE B!Crash
  BY <1>9 DEF B!Crash, BansInv, BanDates, LookedAfter
<1>10. CASE B!Start
  <2>1. timers' = B!Scheduled /\ wakes' = clock + Window /\ UNCHANGED << bans, clock >>
    BY <1>10 DEF B!Start
  <2>2. \A t \in B!Scheduled : t[1] \in Int BY ScheduledAtDates DEF BansInv
  <2>3. BanDates' BY <2>1, <2>2 DEF BansInv, BanDates
  <2>4. LookedAfter' BY <2>1, SchedulingLooksAfter DEF BansInv, LookedAfter
  <2> QED BY <2>3, <2>4 DEF BansInv
<1>11. CASE UNCHANGED bvars
  BY <1>11 DEF bvars, BansInv, BanDates, LookedAfter
<1> QED BY <1>1, <1>2, <1>3, <1>4, <1>5, <1>6, <1>7, <1>8, <1>9, <1>10, <1>11 DEF B!Next

\* A ban whose date has passed is about to be lifted while the server runs, over crashes and
\* restarts, for every set of durations and every window (schedule_unbans, _schedule_unban).
THEOREM DatedBansAlwaysEnd == Spec => []DatedBansEnd
<1>1. Init => BansInv
  BY StartOfParts, BanSettings DEF B!Init, BansInv, BanDates, LookedAfter
<1>2. BansInv /\ [Next]_vars => BansInv' BY StepOfParts, LookedAfterStep
<1>3. BansInv => DatedBansEnd
  <2> SUFFICES ASSUME BansInv, up, NEW i \in DOMAIN bans, bans[i] # Never, bans[i] <= clock
               PROVE  wakes <= clock \/ \E t \in timers : t[1] <= clock /\ t[2] = i
    BY DEF DatedBansEnd, B!DatedBansEnd
  <2>1. bans[i] \in Int /\ clock \in Int /\ wakes \in Int BY DEF BansInv, BanDates
  <2>2. CASE bans[i] >= wakes BY <2>1, <2>2
  <2>3. CASE \E t \in timers : t[2] = i /\ (t[1] <= bans[i] \/ t[1] <= clock)
    BY <2>1, <2>3 DEF BansInv, BanDates
  <2> QED BY <2>2, <2>3 DEF BansInv, LookedAfter
<1> QED BY <1>1, <1>2, <1>3, PTL DEF Spec

-----------------------------------------------------------------------------
\* Room

LEMMA RoomSettings == Script \notin Player /\ PlayerLimit \in Nat \ {0}
BY PartsAssumption

\* The least free id is free.
LEMMA LeastId ==
  ASSUME NEW S \in SUBSET Nat, S # {}
  PROVE  R!Min(S) \in S /\ P!Min(S) \in S
<1>1. PICK n \in S : \A m \in S : ~ (<<m, n>> \in OpToRel(<, Nat))
  BY WFMin, NatLessThanWellFounded
<1>2. ASSUME NEW m \in S PROVE n <= m
  <2>1. <<m, n>> \in Nat \X Nat /\ m \in Nat /\ n \in Nat OBVIOUS
  <2>2. ~ (<<m, n>>[1] < <<m, n>>[2]) BY <1>1, <2>1, Zenon DEF OpToRel
  <2> QED BY <2>1, <2>2
<1> QED BY <1>2 DEF R!Min, P!Min

\* The id a new client gets is a free one.
LEMMA FreshId ==
  ASSUME R!FreeIds # {}
  PROVE  R!Min(R!FreeIds) \in R!FreeIds
<1>1. R!FreeIds \subseteq Nat BY RoomSettings DEF R!FreeIds, R!Ids
<1> QED BY <1>1, LeastId

\* The executor is not a player.
LEMMA ScriptIsNoPlayer == \A c \in Player : c # Script
BY RoomSettings

\* What a departure leaves of the invitations.
LEMMA UnlocksKeeps ==
  ASSUME NEW c, NEW rest, R!Unlocks(c, rest)
  PROVE  /\ invite_list' \subseteq rest
         /\ shut' => shut /\ ~R!ResetBy(c)
         /\ shut' \in BOOLEAN /\ silent' \in BOOLEAN
BY DEF R!Unlocks

-----------------------------------------------------------------------------

\* Who is in the area, who owns it and who is invited are what they should be.
THEOREM RoomTypes == Spec => []R!TypeOK
<1>1. R!Init => R!TypeOK
  <2>1. 0 \in R!Ids
    BY RoomSettings DEF R!Ids
  <2> QED BY <2>1 DEF R!Init, R!TypeOK
<1>2. R!TypeOK /\ [R!Next]_rvars => R!TypeOK'
  <2> SUFFICES ASSUME R!TypeOK, [R!Next]_rvars PROVE R!TypeOK'
    OBVIOUS
  <2> USE DEF R!TypeOK, R!debating
  <2>1. ASSUME NEW c \in Player, R!Connect(c) PROVE R!TypeOK'
    <3>1. R!Min(R!FreeIds) \in R!Ids
      BY <2>1, FreshId DEF R!Connect, R!FreeIds
    <3> QED BY <2>1, <3>1 DEF R!Connect
  <2>2. ASSUME NEW c \in Player, R!Disconnect(c) PROVE R!TypeOK'
    <3>1. R!Unlocks(c, R!InvitesWithout(c)) /\ invite_list' \subseteq invite_list
      BY <2>2, UnlocksKeeps DEF R!Disconnect, R!InvitesWithout
    <3>2. 0 \in R!Ids
      BY RoomSettings DEF R!Ids
    <3> QED BY <2>2, <3>1, <3>2, UnlocksKeeps DEF R!Disconnect, R!Present
  <2>3. ASSUME NEW c \in Player, R!Enter(c) \/ R!JoinDebate(c) PROVE R!TypeOK'
    BY <2>3 DEF R!Enter, R!JoinDebate
  <2>4. ASSUME NEW c \in Player, R!Leave(c) PROVE R!TypeOK'
    <3>1. R!Unlocks(c, invite_list) /\ cms' \subseteq cms /\ here' \subseteq here
      BY <2>4 DEF R!Leave, R!RemoveClient, R!Present
    <3> QED BY <2>4, <3>1, UnlocksKeeps DEF R!Leave
  <2>5. ASSUME R!StartScript \/ R!EndDebate PROVE R!TypeOK'
    BY <2>5 DEF R!StartScript, R!EndDebate
  <2>6. ASSUME NEW c \in Player, NEW to \in BOOLEAN, R!SetLock(c, to) \/ R!SetMute(c, to)
        PROVE  R!TypeOK'
    BY <2>6 DEF R!SetLock, R!SetMute
  <2>7. ASSUME NEW c \in Player, NEW t \in Player \cup {Script}, R!KickInPlace(c, t)
        PROVE  R!TypeOK'
    <3>1. R!Unlocks(t, invite_list \ {id[t]}) /\ cms' \subseteq cms
      BY <2>7 DEF R!KickInPlace, R!RemoveClient
    <3> QED BY <2>7, <3>1, UnlocksKeeps DEF R!KickInPlace
  <2>8. ASSUME NEW c \in Player, NEW t \in Player \cup {Script},
               R!GrantCm(c, t) \/ R!RevokeCm(c, t)
        PROVE  R!TypeOK'
    BY <2>8 DEF R!GrantCm, R!RevokeCm
  <2>9. ASSUME NEW c \in Player, NEW t \in Player \cup {Script},
               R!Invite(c, t) \/ R!Uninvite(c, t) \/ R!StartDebate(c, t)
        PROVE  R!TypeOK'
    <3>1. id[c] \in R!Ids /\ R!IdOf(t) \in R!Ids \cup {R!ScriptId}
      BY DEF R!IdOf
    <3>2. CASE R!Invite(c, t) \/ R!Uninvite(c, t)
      BY <3>1, <3>2 DEF R!Invite, R!Uninvite
    <3>3. CASE R!StartDebate(c, t)
      BY <3>1, <3>3 DEF R!StartDebate
    <3> QED BY <2>9, <3>2, <3>3
  <2>10. CASE UNCHANGED rvars
    BY <2>10 DEF rvars
  <2> QED
    BY <2>1, <2>2, <2>3, <2>4, <2>5, <2>6, <2>7, <2>8, <2>9, <2>10 DEF R!Next
<1>3. Init => R!Init BY StartOfParts
<1>4. [Next]_vars => [R!Next]_rvars BY StepOfParts
<1> QED BY <1>1, <1>2, <1>3, <1>4, PTL DEF Spec

-----------------------------------------------------------------------------

\* An invitation never outlives the connection that it was given to.
THEOREM InvitesAlwaysOwned == Spec => []InvitesAreOwned
<1>1. R!Init => R!InvitesAreOwned
  BY DEF R!Init, R!InvitesAreOwned
<1>2. R!TypeOK /\ R!InvitesAreOwned /\ [R!Next]_rvars => R!InvitesAreOwned'
  <2> SUFFICES ASSUME R!TypeOK, R!InvitesAreOwned, [R!Next]_rvars PROVE R!InvitesAreOwned'
    OBVIOUS
  <2> USE DEF R!InvitesAreOwned
  <2>1. ASSUME connected' = connected, id' = id, invite_list' \subseteq invite_list
        PROVE  R!InvitesAreOwned'
    BY <2>1
  <2>2. ASSUME NEW c \in Player, R!Connect(c) PROVE R!InvitesAreOwned'
    <3>1. c \notin connected /\ \A d \in connected : id'[d] = id[d]
      BY <2>2 DEF R!Connect, R!TypeOK
    <3> QED BY <2>2, <3>1 DEF R!Connect
  <2>3. ASSUME NEW c \in Player, R!Disconnect(c) PROVE R!InvitesAreOwned'
    <3>1. invite_list' \subseteq invite_list \ {id[c]}
      BY <2>3, UnlocksKeeps DEF R!Disconnect, R!InvitesWithout
    <3>2. connected' = connected \ {c} /\ \A d \in connected' : id'[d] = id[d]
      BY <2>3 DEF R!Disconnect, R!TypeOK
    <3> QED BY <3>1, <3>2
  <2>4. ASSUME NEW c \in Player, R!Enter(c) PROVE R!InvitesAreOwned'
    BY <2>4, <2>1 DEF R!Enter
  <2>5. ASSUME NEW c \in Player, R!Leave(c) PROVE R!InvitesAreOwned'
    BY <2>5, <2>1, UnlocksKeeps DEF R!Leave, R!RemoveClient
  <2>6. ASSUME NEW c \in Player, R!JoinDebate(c) PROVE R!InvitesAreOwned'
    BY <2>6 DEF R!JoinDebate
  <2>7. CASE R!StartScript \/ R!EndDebate
    BY <2>7, <2>1 DEF R!StartScript, R!EndDebate
  <2>8. ASSUME NEW c \in Player, NEW to \in BOOLEAN, R!SetLock(c, to) \/ R!SetMute(c, to)
        PROVE  R!InvitesAreOwned'
    BY <2>8, <2>1 DEF R!SetLock, R!SetMute
  <2>9. ASSUME NEW c \in Player, NEW t \in Player \cup {Script}, R!KickInPlace(c, t)
        PROVE  R!InvitesAreOwned'
    BY <2>9, <2>1, UnlocksKeeps DEF R!KickInPlace, R!RemoveClient
  <2>10. ASSUME NEW c \in Player, NEW t \in Player \cup {Script},
                R!GrantCm(c, t) \/ R!RevokeCm(c, t) \/ R!Uninvite(c, t)
         PROVE  R!InvitesAreOwned'
    BY <2>10, <2>1 DEF R!GrantCm, R!RevokeCm, R!Uninvite
  <2>11. ASSUME NEW c \in Player, NEW t \in Player \cup {Script}, R!Invite(c, t)
         PROVE  R!InvitesAreOwned'
    <3>1. t = Script \/ (t \in connected /\ R!IdOf(t) = id[t])
      BY <2>11, ScriptIsNoPlayer DEF R!Invite, R!IdOf, R!TypeOK
    <3> QED BY <2>11, <3>1 DEF R!Invite, R!IdOf
  <2>12. ASSUME NEW c \in Player, NEW t \in Player \cup {Script}, R!StartDebate(c, t)
         PROVE  R!InvitesAreOwned'
    <3>1. t = Script \/ (t \in connected /\ R!IdOf(t) = id[t])
      BY <2>12, ScriptIsNoPlayer DEF R!StartDebate, R!IdOf, R!TypeOK
    <3> QED BY <2>12, <3>1 DEF R!StartDebate, R!IdOf
  <2>13. CASE UNCHANGED rvars
    BY <2>13, <2>1 DEF rvars
  <2> QED
    BY <2>2, <2>3, <2>4, <2>5, <2>6, <2>7, <2>8, <2>9, <2>10, <2>11, <2>12, <2>13
    DEF R!Next
<1>3. Init => R!Init BY StartOfParts
<1>4. [Next]_vars => [R!Next]_rvars BY StepOfParts
<1>5. R!InvitesAreOwned => InvitesAreOwned BY DEF InvitesAreOwned
<1> QED BY <1>1, <1>2, <1>3, <1>4, <1>5, RoomTypes, PTL DEF Spec

-----------------------------------------------------------------------------

\* In a single_cm hub where only CMs lock, a shut area has a CM who is a
\* player, whoever leaves and in whichever way.
THEOREM LockAlwaysHasACm == Spec => []LockHasACm
<1>1. R!Init => R!LockHasACm
  BY DEF R!Init, R!LockHasACm
<1>2. R!TypeOK /\ R!LockHasACm /\ [R!Next]_rvars => R!LockHasACm'
  <2> SUFFICES ASSUME R!TypeOK, R!LockHasACm, [R!Next]_rvars, SingleCm, ~LockingAllowed
               PROVE  R!LockHasACm'
    BY DEF R!LockHasACm
  <2> USE DEF R!LockHasACm
  <2>1. ASSUME shut' = shut, cms \subseteq cms' PROVE R!LockHasACm'
    BY <2>1
  \* However c goes, if it is the last one the area is reset.
  <2>2. ASSUME NEW c, NEW rest, R!Unlocks(c, rest), cms' \in {cms, cms \ {c}},
               cms' = cms => c \notin cms
        PROVE  R!LockHasACm'
    <3>1. SUFFICES ASSUME shut' PROVE cms' \ {Script} # {}
      OBVIOUS
    <3>2. shut /\ ~R!ResetBy(c)
      BY <2>2, <3>1, UnlocksKeeps
    <3> QED BY <2>2, <3>2 DEF R!ResetBy, R!Resets, R!RealCms
  <2>3. ASSUME NEW c \in Player, R!Disconnect(c) PROVE R!LockHasACm'
    BY <2>3, <2>2 DEF R!Disconnect
  <2>4. ASSUME NEW c \in Player, R!Leave(c) PROVE R!LockHasACm'
    BY <2>4, <2>2 DEF R!Leave, R!RemoveClient, R!LosesCm
  <2>5. ASSUME NEW c \in Player, NEW t \in Player \cup {Script}, R!KickInPlace(c, t)
        PROVE  R!LockHasACm'
    BY <2>5, <2>2 DEF R!KickInPlace, R!RemoveClient, R!LosesCm
  <2>6. ASSUME NEW c \in Player, NEW t \in Player \cup {Script}, R!RevokeCm(c, t)
        PROVE  R!LockHasACm'
    BY <2>6 DEF R!RevokeCm, R!Resets, R!RealCms
  <2>7. ASSUME NEW c \in Player, NEW to \in BOOLEAN, R!SetLock(c, to) PROVE R!LockHasACm'
    BY <2>7, ScriptIsNoPlayer DEF R!SetLock
  <2>8. ASSUME NEW c \in Player, NEW to \in BOOLEAN, R!SetMute(c, to) PROVE R!LockHasACm'
    BY <2>8, <2>1 DEF R!SetMute
  <2>9. ASSUME NEW c \in Player, R!Connect(c) \/ R!Enter(c) \/ R!JoinDebate(c)
        PROVE  R!LockHasACm'
    BY <2>9, <2>1 DEF R!Connect, R!Enter, R!JoinDebate
  <2>10. CASE R!StartScript \/ R!EndDebate
    BY <2>10, <2>1 DEF R!StartScript, R!EndDebate
  <2>11. ASSUME NEW c \in Player, NEW t \in Player \cup {Script},
                R!GrantCm(c, t) \/ R!Invite(c, t) \/ R!Uninvite(c, t) \/ R!StartDebate(c, t)
         PROVE  R!LockHasACm'
    BY <2>11, <2>1 DEF R!GrantCm, R!Invite, R!Uninvite, R!StartDebate
  <2>12. CASE UNCHANGED rvars
    BY <2>12, <2>1 DEF rvars
  <2> QED
    BY <2>3, <2>4, <2>5, <2>6, <2>7, <2>8, <2>9, <2>10, <2>11, <2>12 DEF R!Next
<1>3. Init => R!Init BY StartOfParts
<1>4. [Next]_vars => [R!Next]_rvars BY StepOfParts
<1>5. R!LockHasACm => LockHasACm BY DEF LockHasACm
<1> QED BY <1>1, <1>2, <1>3, <1>4, <1>5, RoomTypes, PTL DEF Spec

-----------------------------------------------------------------------------
\* Player lists

LEMMA ListSettings == PlayerLimit \in Nat \ {0} /\ Lobby \in World
BY PartsAssumption

\* The id a new client gets is a free one.
LEMMA FreshNumber ==
  ASSUME P!FreeIds # {}
  PROVE  P!Min(P!FreeIds) \in P!FreeIds
<1>1. P!FreeIds \subseteq Nat BY ListSettings DEF P!FreeIds, P!Ids
<1> QED BY <1>1, LeastId

\* What a visibility change may do to the announcements.
LEMMA Notified ==
  ASSUME NEW c, NEW hidden \in BOOLEAN, P!NotifyVisibilityChanged(c, hidden)
  PROVE  \/ /\ c \in listed /\ hidden /\ listed' = listed \ {c}
            /\ screen' = P!Removing(P!Receivers(hub[c]), c)
         \/ /\ c \in registered \ listed /\ ~hidden /\ listed' = listed \cup {c}
            /\ screen' = P!Adding(P!Receivers(hub[c]), c)
         \/ /\ c \in listed => ~hidden
            /\ c \in registered \ listed => hidden
            /\ listed' = listed /\ screen' = screen
BY DEF P!NotifyVisibilityChanged

-----------------------------------------------------------------------------
(***************************************************************************)
(* Types                                                                   *)
(***************************************************************************)

LEMMA ListTypesInit == P!Init => P!TypeOK
<1>1. 0 \in P!Ids
  BY ListSettings DEF P!Ids
<1> QED BY <1>1, ListSettings DEF P!Init, P!TypeOK

\* Packets carry ids.
LEMMA ScreensTyped ==
  ASSUME P!TypeOK, NEW c \in Viewer, NEW to
  PROVE  /\ P!Adding(to, c) \in [Viewer -> SUBSET P!Ids]
         /\ P!Removing(to, c) \in [Viewer -> SUBSET P!Ids]
         /\ \A h : P!Handed(c, h) \subseteq P!Ids
BY DEF P!TypeOK, P!Adding, P!Removing, P!Handed

\* A visibility change keeps the types.
LEMMA NotifiedTyped ==
  ASSUME P!TypeOK, NEW c \in Viewer, NEW hidden \in BOOLEAN,
         P!NotifyVisibilityChanged(c, hidden), registered' = registered
  PROVE  listed' \subseteq registered' /\ screen' \in [Viewer -> SUBSET P!Ids]
BY Notified, ScreensTyped DEF P!TypeOK

\* The lists of all after a change of hub
LEMMA HubScreens ==
  ASSUME P!TypeOK, NEW c \in registered, NEW h \in World, NEW revealed \in BOOLEAN,
         NEW reselect \in BOOLEAN, P!ChangeHub(c, h, revealed, reselect)
  PROVE  /\ screen' = [t \in Viewer |-> screen'[t]]
         /\ screen'[c] = P!OwnScreen(c, h, P!Known(c, revealed), P!Shown(c, revealed, reselect))
         /\ \A t \in P!OldHub(c) :
              screen'[t] = IF P!Known(c, revealed) THEN screen[t] \ {number[c]} ELSE screen[t]
         /\ \A t \in P!Receivers(h) :
              screen'[t] = IF P!Shown(c, revealed, reselect) THEN screen[t] \cup {number[c]}
                                                           ELSE screen[t]
         /\ \A t \in Viewer : t # c /\ t \notin P!OldHub(c) \cup P!Receivers(h) =>
              screen'[t] = screen[t]
<1> DEFINE known == P!Known(c, revealed)
           sees == P!Shown(c, revealed, reselect)
<1> DEFINE new(t) ==
        IF t = c THEN P!OwnScreen(c, h, known, sees)
        ELSE (screen[t] \ IF known /\ t \in P!OldHub(c) THEN {number[c]} ELSE {})
               \cup IF sees /\ t \in P!Receivers(h) THEN {number[c]} ELSE {}
<1>1. screen' = [t \in Viewer |-> new(t)]
  BY Zenon DEF P!ChangeHub
<1>2. c \in Viewer /\ P!OldHub(c) \subseteq Viewer \ {c} /\ P!Receivers(h) \subseteq Viewer
  BY DEF P!OldHub, P!Receivers, P!TypeOK
<1>3. c \notin P!Receivers(h) /\ P!OldHub(c) \cap P!Receivers(h) = {}
  BY DEF P!ChangeHub, P!OldHub, P!Receivers
<1> HIDE DEF known, sees
<1>4. new(c) = P!OwnScreen(c, h, known, sees)
  OBVIOUS
<1>5. ASSUME NEW t \in P!OldHub(c)
      PROVE  new(t) = IF known THEN screen[t] \ {number[c]} ELSE screen[t]
  BY <1>2, <1>3
<1>6. ASSUME NEW t \in P!Receivers(h)
      PROVE  new(t) = IF sees THEN screen[t] \cup {number[c]} ELSE screen[t]
  BY <1>2, <1>3
<1>7. ASSUME NEW t \in Viewer, t # c, t \notin P!OldHub(c) \cup P!Receivers(h)
      PROVE  new(t) = screen[t]
  BY <1>7
<1> HIDE DEF new
<1>8. screen' = [t \in Viewer |-> screen'[t]] /\ \A t \in Viewer : screen'[t] = new(t)
  BY <1>1
<1>9. screen'[c] = new(c)
  BY <1>2, <1>8
<1>10. \A t \in P!OldHub(c) \cup P!Receivers(h) : screen'[t] = new(t)
  BY <1>2, <1>8
<1> QED BY <1>4, <1>5, <1>6, <1>7, <1>8, <1>9, <1>10 DEF known, sees

LEMMA ListTypesStep ==
  ASSUME P!TypeOK, P!Next
  PROVE  P!TypeOK'
<1>0. 0 \in P!Ids /\ Lobby \in World
  BY ListSettings DEF P!Ids
<1>1. ASSUME NEW c \in Viewer, P!Connect(c) PROVE P!TypeOK'
  <2>1. P!Min(P!FreeIds) \in P!Ids
    BY <1>1, FreshNumber DEF P!Connect, P!FreeIds
  <2> QED BY <1>1, <2>1 DEF P!Connect, P!TypeOK
<1>2. ASSUME NEW c \in Viewer, P!Join(c) PROVE P!TypeOK'
  <2>1. P!Handed(c, hub[c]) \in SUBSET P!Ids
    BY ScreensTyped
  <2> QED BY <1>2, <2>1 DEF P!Join, P!TypeOK
<1>3. ASSUME NEW c \in Viewer, P!Disconnect(c) PROVE P!TypeOK'
  <2>1. P!Removing(P!Receivers(hub[c]), c) \in [Viewer -> SUBSET P!Ids]
    BY ScreensTyped
  <2>2. screen' \in [Viewer -> SUBSET P!Ids]
    BY <1>3, <2>1 DEF P!Disconnect, P!TypeOK
  <2> QED BY <1>0, <1>3, <2>2 DEF P!Disconnect, P!Unlisted, P!TypeOK
<1>4. ASSUME NEW c \in Viewer, P!CharSelect(c) PROVE P!TypeOK'
  BY <1>4 DEF P!CharSelect, P!TypeOK
<1>5. ASSUME NEW c \in Viewer, NEW spectate \in BOOLEAN, P!ChangeCharacter(c, spectate)
      PROVE  P!TypeOK'
  <2>1. listed' \subseteq registered' /\ screen' \in [Viewer -> SUBSET P!Ids]
    BY <1>5, NotifiedTyped DEF P!ChangeCharacter, P!TypeOK
  <2> QED BY <1>5, <2>1 DEF P!ChangeCharacter, P!TypeOK
<1>6. ASSUME NEW c \in Viewer, NEW tog \in BOOLEAN, P!Hide(c, tog) PROVE P!TypeOK'
  <2>1. listed' \subseteq registered' /\ screen' \in [Viewer -> SUBSET P!Ids]
    BY <1>6, NotifiedTyped DEF P!Hide, P!TypeOK
  <2> QED BY <1>6, <2>1 DEF P!Hide, P!TypeOK
<1>7. ASSUME NEW c \in Viewer, NEW h \in World, NEW revealed \in BOOLEAN,
             NEW reselect \in BOOLEAN, P!ChangeHub(c, h, revealed, reselect)
      PROVE  P!TypeOK'
  <2>1. P!Handed(c, h) \subseteq P!Ids /\ number[c] \in P!Ids
    BY ScreensTyped DEF P!TypeOK
  <2>2. screen' \in [Viewer -> SUBSET P!Ids]
    <3>1. CASE c \in registered
      <4>1. P!OwnScreen(c, h, P!Known(c, revealed), P!Shown(c, revealed, reselect)) \subseteq P!Ids
        BY <2>1 DEF P!OwnScreen, P!TypeOK
      <4>2. screen'[c] \subseteq P!Ids /\ screen' = [t \in Viewer |-> screen'[t]]
        BY <1>7, <3>1, <4>1, HubScreens
      <4>3. ASSUME NEW t \in Viewer, t # c PROVE screen'[t] \subseteq P!Ids
        <5>1. screen[t] \subseteq P!Ids /\ screen[t] \cup {number[c]} \subseteq P!Ids
              /\ screen[t] \ {number[c]} \subseteq P!Ids
          BY <2>1 DEF P!TypeOK
        <5>2. screen'[t] \in {screen[t], screen[t] \cup {number[c]}, screen[t] \ {number[c]}}
          <6>1. CASE t \in P!OldHub(c)
            <7>1. screen'[t] = IF P!Known(c, revealed) THEN screen[t] \ {number[c]}
                                                     ELSE screen[t]
              BY <1>7, <3>1, <6>1, HubScreens, SMTT(30)
            <7> QED BY <7>1
          <6>2. CASE t \in P!Receivers(h)
            <7>1. screen'[t] = IF P!Shown(c, revealed, reselect)
                                 THEN screen[t] \cup {number[c]} ELSE screen[t]
              BY <1>7, <3>1, <6>2, HubScreens
            <7> QED BY <7>1
          <6>3. CASE t \notin P!OldHub(c) \cup P!Receivers(h)
            BY <1>7, <3>1, <4>3, <6>3, HubScreens
          <6> QED BY <6>1, <6>2, <6>3
        <5> QED BY <5>1, <5>2
      <4>4. \A t \in Viewer : screen'[t] \in SUBSET P!Ids
        BY <4>2, <4>3
      <4> QED BY <4>2, <4>4
    <3>2. CASE c \notin registered
      BY <1>7, <3>2 DEF P!ChangeHub, P!TypeOK
    <3> QED BY <3>1, <3>2
  <2>3. listed' \subseteq registered'
    BY <1>7 DEF P!ChangeHub, P!TypeOK
  <2> QED BY <1>7, <2>2, <2>3 DEF P!ChangeHub, P!TypeOK
<1> QED BY <1>1, <1>2, <1>3, <1>4, <1>5, <1>6, <1>7 DEF P!Next

\* The lists and announcements are of the kinds they should be: nobody is announced
\* that has left, or that does not receive the announcements.
THEOREM PlayerListTypes == Spec => []P!TypeOK
<1>1. P!TypeOK /\ [P!Next]_pvars => P!TypeOK'
  <2>1. P!TypeOK /\ UNCHANGED pvars => P!TypeOK'
    BY DEF P!TypeOK, pvars
  <2> QED BY <2>1, ListTypesStep
<1>2. Init => P!Init BY StartOfParts
<1>3. [Next]_vars => [P!Next]_pvars BY StepOfParts
<1> QED BY <1>1, <1>2, <1>3, ListTypesInit, PTL DEF Spec

-----------------------------------------------------------------------------
(***************************************************************************)
(* Nobody in sight is missing                                              *)
(***************************************************************************)

LEMMA MissingStep ==
  ASSUME P!TypeOK, P!NobodyIsMissing, P!Next
  PROVE  P!NobodyIsMissing'
<1> USE DEF P!TypeOK, P!NobodyIsMissing, P!Hidden
<1>1. ASSUME NEW c \in Viewer, P!Connect(c) \/ P!CharSelect(c) PROVE P!NobodyIsMissing'
  BY <1>1 DEF P!Connect, P!CharSelect
<1>2. ASSUME NEW c \in Viewer, P!Join(c) PROVE P!NobodyIsMissing'
  BY <1>2 DEF P!Join
<1>3. ASSUME NEW c \in Viewer, P!Disconnect(c) PROVE P!NobodyIsMissing'
  BY <1>3 DEF P!Disconnect, P!Unlisted
<1>4. ASSUME NEW c \in Viewer, NEW spectate \in BOOLEAN, P!ChangeCharacter(c, spectate)
      PROVE  P!NobodyIsMissing'
  <2>1. CASE c \notin registered
    BY <1>4, <2>1 DEF P!ChangeCharacter, P!Relisted
  <2>2. CASE c \in registered
    <3>1. P!NotifyVisibilityChanged(c, spectate \/ c \in concealed)
      BY <1>4, <2>2 DEF P!ChangeCharacter, P!Relisted
    <3>2. registered' = registered /\ concealed' = concealed
          /\ playing' = IF spectate THEN playing \ {c} ELSE playing \cup {c}
      BY <1>4 DEF P!ChangeCharacter
    <3> QED BY <3>1, <3>2, Notified
  <2> QED BY <2>1, <2>2
<1>5. ASSUME NEW c \in Viewer, NEW tog \in BOOLEAN, P!Hide(c, tog) PROVE P!NobodyIsMissing'
  <2>1. P!NotifyVisibilityChanged(c, tog \/ c \notin playing)
    BY <1>5 DEF P!Hide
  <2> QED BY <1>5, <2>1, Notified DEF P!Hide
<1>6. ASSUME NEW c \in Viewer, NEW h \in World, NEW revealed \in BOOLEAN,
             NEW reselect \in BOOLEAN, P!ChangeHub(c, h, revealed, reselect)
      PROVE  P!NobodyIsMissing'
  <2>1. /\ registered' = registered
        /\ playing' = playing \ (IF reselect THEN {c} ELSE {})
        /\ concealed' = IF revealed THEN concealed \ {c} ELSE concealed
        /\ IF c \in registered
             THEN listed' = IF P!Shown(c, revealed, reselect) THEN listed \cup {c}
                                                            ELSE listed \ {c}
             ELSE listed' = listed
    BY <1>6 DEF P!ChangeHub
  <2> QED BY <2>1 DEF P!Shown
<1> QED BY <1>1, <1>2, <1>3, <1>4, <1>5, <1>6 DEF P!Next

\* However a client comes into sight, it is announced.
THEOREM NobodyEverMissing == Spec => []NobodyIsMissing
<1>1. P!Init => P!NobodyIsMissing
  BY DEF P!Init, P!NobodyIsMissing
<1>2. P!TypeOK /\ P!NobodyIsMissing /\ [P!Next]_pvars => P!NobodyIsMissing'
  <2>1. P!NobodyIsMissing /\ UNCHANGED pvars => P!NobodyIsMissing'
    BY DEF P!NobodyIsMissing, P!Hidden, pvars
  <2> QED BY <2>1, MissingStep
<1>4. Init => P!Init BY StartOfParts
<1>5. [Next]_vars => [P!Next]_pvars BY StepOfParts
<1>6. P!NobodyIsMissing => NobodyIsMissing BY DEF NobodyIsMissing
<1> QED BY <1>1, <1>2, <1>4, <1>5, <1>6, PlayerListTypes, PTL DEF Spec

-----------------------------------------------------------------------------
(***************************************************************************)
(* The lists agree                                                         *)
(***************************************************************************)

\* No two clients have one number.
Distinct == \A c, d \in present : number[c] = number[d] => c = d

\* Id i is on t's list just when another announced client of t's hub has it.
Sees(t, i) ==
  i \in screen[t] <=> \E d \in listed : d # t /\ hub[d] = hub[t] /\ number[d] = i

AllSee == \A t \in registered : \A i \in P!Ids : i # number[t] => Sees(t, i)

ListInv == P!TypeOK /\ Distinct /\ AllSee

LEMMA DistinctStep ==
  ASSUME P!TypeOK, Distinct, P!Next
  PROVE  Distinct'
<1> USE DEF P!TypeOK, Distinct
<1>1. ASSUME NEW c \in Viewer, P!Connect(c) PROVE Distinct'
  <2>1. P!Min(P!FreeIds) \in P!FreeIds /\ number'[c] = P!Min(P!FreeIds)
    BY <1>1, FreshNumber DEF P!Connect
  <2>2. \A d \in present : d # c /\ number'[d] = number[d] /\ number[d] # number'[c]
    BY <1>1, <2>1 DEF P!Connect, P!FreeIds
  <2>3. present' = present \cup {c}
    BY <1>1 DEF P!Connect
  <2> QED BY <2>2, <2>3
<1>2. ASSUME NEW c \in Viewer, P!Disconnect(c) PROVE Distinct'
  BY <1>2 DEF P!Disconnect
<1>3. CASE UNCHANGED << present, number >>
  BY <1>3
<1> QED BY <1>1, <1>2, <1>3 DEF P!Next, P!Join, P!CharSelect, P!ChangeCharacter, P!Hide, P!ChangeHub

\* An announced client is taken off the lists of its hub.
LEMMA DropAgrees ==
  ASSUME ListInv, NEW c \in listed,
         listed' = listed \ {c}, registered' \subseteq registered,
         \A t \in registered : t \in registered' \/ t # c =>
                                  number'[t] = number[t] /\ hub'[t] = hub[t],
         \A t \in registered' :
           screen'[t] = IF hub[t] = hub[c] THEN screen[t] \ {number[c]} ELSE screen[t]
  PROVE  AllSee'
<1> USE DEF ListInv, P!TypeOK
<1> SUFFICES ASSUME NEW t \in registered', NEW i \in P!Ids, i # number'[t]
              PROVE  Sees(t, i)'
  BY DEF AllSee
<1>1. t \in registered /\ number'[t] = number[t] /\ hub'[t] = hub[t] /\ Sees(t, i)
  BY DEF AllSee
<1>2. \A d \in listed' : /\ d \in listed /\ d # c /\ number[d] # number[c]
                         /\ number'[d] = number[d] /\ hub'[d] = hub[d]
  BY DEF Distinct
<1>3. \A d \in listed : d # c => d \in listed'
  OBVIOUS
<1> HIDE DEF ListInv, P!TypeOK
<1>5. CASE hub[t] = hub[c]
  BY <1>1, <1>2, <1>3, <1>5 DEF Sees
<1>6. CASE hub[t] # hub[c]
  BY <1>1, <1>2, <1>3, <1>6 DEF Sees
<1> QED BY <1>5, <1>6

\* A client is put on the lists of its hub.
LEMMA AddAgrees ==
  ASSUME ListInv, NEW c \in registered \ listed, listed' = listed \cup {c},
         UNCHANGED << registered, number, hub >>,
         screen' = P!Adding(P!Receivers(hub[c]), c)
  PROVE  AllSee'
<1> SUFFICES ASSUME NEW t \in registered, NEW i \in P!Ids, i # number[t]
              PROVE  Sees(t, i)'
  BY DEF AllSee
<1>1. Sees(t, i) /\ t \in Viewer /\ c \in Viewer
  BY DEF ListInv, AllSee, P!TypeOK
<1>2. screen'[t] = IF hub[t] = hub[c] THEN screen[t] \cup {number[c]} ELSE screen[t]
  BY <1>1 DEF P!Adding, P!Receivers
<1>3. CASE hub[t] = hub[c]
  BY <1>1, <1>2, <1>3 DEF Sees
<1>4. CASE hub[t] # hub[c]
  BY <1>1, <1>2, <1>4 DEF Sees
<1> QED BY <1>3, <1>4

LEMMA NotifiedAgrees ==
  ASSUME ListInv, NEW c \in Viewer, NEW hidden \in BOOLEAN,
         P!NotifyVisibilityChanged(c, hidden), UNCHANGED << registered, number, hub >>
  PROVE  AllSee'
<1>1. CASE c \in listed /\ listed' = listed \ {c} /\ screen' = P!Removing(P!Receivers(hub[c]), c)
  <2>1. \A t \in registered :
          screen'[t] = IF hub[t] = hub[c] THEN screen[t] \ {number[c]} ELSE screen[t]
    BY <1>1 DEF ListInv, P!TypeOK, P!Removing, P!Receivers
  <2> QED BY <1>1, <2>1, DropAgrees
<1>2. CASE /\ c \in registered \ listed /\ listed' = listed \cup {c}
           /\ screen' = P!Adding(P!Receivers(hub[c]), c)
  BY <1>2, AddAgrees
<1>3. CASE listed' = listed /\ screen' = screen
  BY <1>3 DEF ListInv, AllSee, Sees
<1> QED BY <1>1, <1>2, <1>3, Notified

\* A change of hub
LEMMA ChangeHubAgrees ==
  ASSUME ListInv, NEW c \in Viewer, NEW h \in World, NEW revealed \in BOOLEAN,
         NEW reselect \in BOOLEAN, P!ChangeHub(c, h, revealed, reselect)
  PROVE  AllSee'
<1> DEFINE known == P!Known(c, revealed)
           sees == P!Shown(c, revealed, reselect)
<1>1. /\ registered' = registered /\ number' = number /\ h # hub[c]
      /\ hub' = [hub EXCEPT ![c] = h]
  BY DEF P!ChangeHub
<1>2. P!TypeOK /\ registered \subseteq Viewer /\ listed \subseteq registered /\ c \in present
      /\ registered \subseteq present
  BY DEF ListInv, P!TypeOK, P!ChangeHub
<1>3. hub'[c] = h /\ \A t \in Viewer \ {c} : hub'[t] = hub[t]
  BY <1>1, <1>2 DEF P!TypeOK
<1>4. CASE c \notin registered
  <2>1. UNCHANGED << listed, screen >> /\ \A t \in registered : hub'[t] = hub[t] /\ t # c
    BY <1>2, <1>3, <1>4 DEF P!ChangeHub
  <2> QED BY <1>1, <1>2, <2>1 DEF ListInv, AllSee, Sees
<1>5. CASE c \in registered
  <2>1. listed' = IF sees THEN listed \cup {c} ELSE listed \ {c}
    BY <1>5 DEF P!ChangeHub
  <2>2. c \in listed => known
    BY DEF P!Known
  <2>3. \A d \in listed : d # c => number[d] # number[c]
    BY <1>2 DEF ListInv, Distinct
  <2>a. \A t \in P!OldHub(c) : screen'[t] = IF known THEN screen[t] \ {number[c]} ELSE screen[t]
    BY <1>2, <1>5, HubScreens
  <2> SUFFICES ASSUME NEW t \in registered, NEW i \in P!Ids, i # number[t]
                PROVE  Sees(t, i)'
    BY <1>1 DEF AllSee
  <2>4. Sees(t, i) /\ t \in Viewer
    BY <1>2 DEF ListInv, AllSee
  <2> HIDE DEF known, sees
  <2>5. CASE t = c
    <3>1. screen'[c] = P!OwnScreen(c, h, known, sees)
      BY <1>2, <1>5, HubScreens DEF known, sees
    <3>2. i \in screen'[c] <=> \/ i \in screen[c] /\ \A d \in P!OldHub(c) : number[d] # i
                             \/ \E d \in listed : d # c /\ hub[d] = h /\ number[d] = i
      BY <2>5, <3>1 DEF P!OwnScreen, P!Handed
    <3>3. \A d \in listed : d # c /\ hub[d] = hub[c] => d \in P!OldHub(c)
      BY <1>2 DEF P!OldHub, P!Receivers
    <3>4. i \in screen'[c] <=> \E d \in listed : d # c /\ hub[d] = h /\ number[d] = i
      BY <2>4, <2>5, <3>2, <3>3 DEF Sees
    <3>5. \A d : d # c => (d \in listed' <=> d \in listed)
      BY <2>1
    <3> QED BY <1>1, <1>2, <1>3, <2>5, <3>4, <3>5 DEF Sees
  <2>6. CASE t # c /\ hub[t] = hub[c]
    <3>1. t \in P!OldHub(c)
      BY <2>6 DEF P!OldHub, P!Receivers
    <3>2. screen'[t] = IF known THEN screen[t] \ {number[c]} ELSE screen[t]
      BY <2>a, <3>1
    <3>3. (\E d \in listed' : d # t /\ hub'[d] = hub'[t] /\ number[d] = i)
            <=> \E d \in listed : d # c /\ d # t /\ hub[d] = hub[t] /\ number[d] = i
      BY <1>1, <1>2, <1>3, <2>1, <2>4, <2>6
    <3> QED BY <1>1, <2>2, <2>3, <2>4, <3>2, <3>3 DEF Sees
  <2>7. CASE t # c /\ hub[t] = h
    <3>1. t \in P!Receivers(h)
      BY <2>7 DEF P!Receivers
    <3>2. screen'[t] = IF sees THEN screen[t] \cup {number[c]} ELSE screen[t]
      <4>1. c \in registered /\ P!TypeOK BY <1>2, <1>5
      <4>2. screen'[t] = IF P!Shown(c, revealed, reselect) THEN screen[t] \cup {number[c]}
                                                           ELSE screen[t]
        BY <3>1, <4>1, HubScreens
      <4> QED BY <4>2, Zenon DEF sees
    <3>3. (\E d \in listed' : d # t /\ hub'[d] = hub'[t] /\ number[d] = i)
            <=> \/ sees /\ number[c] = i
                \/ \E d \in listed : d # t /\ hub[d] = hub[t] /\ number[d] = i
      BY <1>1, <1>2, <1>3, <2>1, <2>4, <2>7
    <3> QED BY <1>1, <2>4, <3>2, <3>3 DEF Sees
  <2>8. CASE t # c /\ hub[t] # h /\ hub[t] # hub[c]
    <3>1. t \notin P!OldHub(c) \cup P!Receivers(h)
      BY <2>8 DEF P!OldHub, P!Receivers
    <3>2. screen'[t] = screen[t]
      BY <1>2, <1>5, <2>4, <2>8, <3>1, HubScreens
    <3>3. (\E d \in listed' : d # t /\ hub'[d] = hub'[t] /\ number[d] = i)
            <=> \E d \in listed : d # t /\ hub[d] = hub[t] /\ number[d] = i
      BY <1>1, <1>2, <1>3, <2>1, <2>4, <2>8
    <3> QED BY <1>1, <2>4, <3>2, <3>3 DEF Sees
  <2> QED BY <2>5, <2>6, <2>7, <2>8
<1> QED BY <1>4, <1>5

LEMMA AgreeStep ==
  ASSUME ListInv, P!Next
  PROVE  AllSee'
<1>1. ASSUME NEW c \in Viewer, P!Connect(c) PROVE AllSee'
  <2>1. /\ UNCHANGED << hub, registered, listed, screen >>
        /\ \A t \in registered : number'[t] = number[t]
        /\ listed \subseteq registered
    BY <1>1 DEF P!Connect, ListInv, P!TypeOK
  <2> QED BY <2>1 DEF ListInv, AllSee, Sees
<1>2. ASSUME NEW c \in Viewer, P!Join(c) PROVE AllSee'
  <2>1. /\ UNCHANGED << number, hub, listed >> /\ registered' = registered \cup {c}
        /\ screen'[c] = P!Handed(c, hub[c])
        /\ \A t \in registered : screen'[t] = screen[t]
    BY <1>2 DEF P!Join, ListInv, P!TypeOK
  <2>2. \A i : i \in screen'[c] <=> \E d \in listed : d # c /\ hub[d] = hub[c] /\ number[d] = i
    BY <2>1 DEF P!Handed
  <2> QED BY <2>1, <2>2 DEF ListInv, AllSee, Sees
<1>3. ASSUME NEW c \in Viewer, P!Disconnect(c) PROVE AllSee'
  <2>1. /\ registered' = registered \ {c} /\ listed' = listed \ {c}
        /\ \A t \in registered : t # c => number'[t] = number[t] /\ hub'[t] = hub[t]
    BY <1>3 DEF P!Disconnect, P!Unlisted, ListInv, P!TypeOK
  <2>2. CASE c \in listed
    <3>1. \A t \in registered' :
            screen'[t] = IF hub[t] = hub[c] THEN screen[t] \ {number[c]} ELSE screen[t]
      BY <1>3, <2>1, <2>2 DEF P!Disconnect, P!Removing, P!Receivers, ListInv, P!TypeOK
    <3> QED BY <2>1, <2>2, <3>1, DropAgrees
  <2>3. CASE c \notin listed
    <3>1. \A t \in registered' : screen'[t] = screen[t]
      BY <1>3, <2>1, <2>3 DEF P!Disconnect, ListInv, P!TypeOK
    <3>2. listed' = listed /\ \A d \in listed : d # c /\ d \in registered
      BY <2>1, <2>3 DEF ListInv, P!TypeOK
    <3> QED BY <2>1, <3>1, <3>2 DEF ListInv, AllSee, Sees
  <2> QED BY <2>2, <2>3
<1>4. ASSUME NEW c \in Viewer, P!CharSelect(c) PROVE AllSee'
  BY <1>4 DEF P!CharSelect, ListInv, AllSee, Sees
<1>5. ASSUME NEW c \in Viewer, NEW spectate \in BOOLEAN, P!ChangeCharacter(c, spectate)
      PROVE  AllSee'
  <2>1. CASE P!Relisted(c)
    BY <1>5, <2>1, NotifiedAgrees DEF P!ChangeCharacter
  <2>2. CASE ~P!Relisted(c)
    BY <1>5, <2>2 DEF P!ChangeCharacter, ListInv, AllSee, Sees
  <2> QED BY <2>1, <2>2
<1>6. ASSUME NEW c \in Viewer, NEW tog \in BOOLEAN, P!Hide(c, tog) PROVE AllSee'
  BY <1>6, NotifiedAgrees DEF P!Hide
<1> QED BY <1>1, <1>2, <1>3, <1>4, <1>5, <1>6, ChangeHubAgrees DEF P!Next

\* Every list shows exactly the announced clients of the own hub.
THEOREM ListsAlwaysAgree == Spec => []ListsAgree
<1>1. P!Init => ListInv
  BY ListTypesInit DEF P!Init, ListInv, Distinct, AllSee
<1>2. ListInv /\ [P!Next]_pvars => ListInv'
  <2>1. ListInv /\ UNCHANGED pvars => ListInv'
    BY DEF ListInv, P!TypeOK, Distinct, AllSee, Sees, pvars
  <2> QED BY <2>1, ListTypesStep, DistinctStep, AgreeStep DEF ListInv
<1>3. ListInv => P!ListsAgree
  <2> SUFFICES ASSUME ListInv, NEW t \in registered
                PROVE  screen[t] \ {number[t]} = P!Handed(t, hub[t])
    BY DEF P!ListsAgree
  <2>1. screen[t] \subseteq P!Ids /\ \A d \in listed : d # t => number[d] # number[t] /\ number[d] \in P!Ids
    BY DEF ListInv, P!TypeOK, Distinct
  <2>2. \A i \in P!Ids : i # number[t] => Sees(t, i)
    BY DEF ListInv, AllSee
  <2> QED BY <2>1, <2>2 DEF Sees, P!Handed
<1>4. Init => P!Init BY StartOfParts
<1>5. [Next]_vars => [P!Next]_pvars BY StepOfParts
<1>6. P!ListsAgree => ListsAgree BY DEF ListsAgree
<1> QED BY <1>1, <1>2, <1>3, <1>4, <1>5, <1>6, PTL DEF Spec

-----------------------------------------------------------------------------
\* The jukebox

\* As JukeboxPlaysOn, and also while the jukebox is off. No vote is left in it, as a vote is
\* the only one.
JukeInv == votes = << >> /\ (mine /\ music # Silence => looper \/ lapsed # "no")

\* A vote is the only one, so that it is drawn and withdrawn at once.
LEMMA OnlyVote ==
  ASSUME NEW c, NEW s
  PROVE  /\ J!Withdrawn(<< >>, c) = << >>
         /\ J!Rated(<< >>, s) = << >>
         /\ LET vs == J!Voted(<< >>, c, s)
            IN /\ Len(vs) = 1 /\ vs # << >> /\ J!Drawn(vs) = {1} /\ vs[1].client = c
               /\ jukebox => J!Withdrawn(vs, c) = << >>
<1>1. J!Withdrawn(<< >>, c) = << >>
  <2>1. {i \in DOMAIN << >> : << >>[i].client = c} = {} OBVIOUS
  <2> QED BY <2>1 DEF J!Withdrawn
<1>2. J!Rated(<< >>, s) = << >> BY DEF J!Rated
<1> DEFINE v == [client |-> c, song |-> s, chance |-> 1]
           vs == << v >>
<1>3. J!Voted(<< >>, c, s) = vs
  <2>1. J!Voted(<< >>, c, s) = Append(<< >>, v) BY <1>1, Zenon DEF J!Voted
  <2> HIDE DEF v
  <2>2. Append(<< >>, v) = << v >> OBVIOUS
  <2> QED BY <2>1, <2>2
<1>4. Len(vs) = 1 /\ vs # << >> /\ vs[1] = v /\ DOMAIN vs = {1} OBVIOUS
<1>5. J!Drawn(vs) = {1} BY <1>4 DEF J!Drawn
<1>6. ASSUME jukebox PROVE J!Withdrawn(vs, c) = << >>
  <2>1. {i \in DOMAIN vs : vs[i].client = c} = {1} BY <1>4
  <2>2. (CHOOSE i \in {1} : TRUE) = 1 OBVIOUS
  <2>3. SubSeq(vs, 1, 0) = << >> /\ SubSeq(vs, 2, 1) = << >> OBVIOUS
  <2>4. J!Withdrawn(vs, c) = SubSeq(vs, 1, 1 - 1) \o SubSeq(vs, 1 + 1, Len(vs))
    BY <1>6, <2>1, <2>2, Zenon DEF J!Withdrawn
  <2> QED BY <1>4, <2>3, <2>4
<1> QED BY <1>1, <1>2, <1>3, <1>4, <1>5, <1>6

\* A draw schedules the next one, or lapses.
LEMMA StartedJukebox ==
  ASSUME JukeInv, NEW vs, J!StartJukebox(vs),
         vs = << >> \/ \E c, s : jukebox /\ vs = J!Voted(<< >>, c, s)
  PROVE  JukeInv'
<1>1. ASSUME NEW s, J!Starts(s, << >>) PROVE JukeInv'
  BY <1>1, OnlyVote DEF J!Starts, JukeInv
<1>2. CASE vs = << >>
  <2>1. CASE J!TurnedOff(vs) BY <1>2, <2>1 DEF J!TurnedOff, JukeInv
  <2>2. CASE J!PlaysAny(vs) BY <1>1, <1>2, <2>2 DEF J!PlaysAny, JukeInv
  <2> QED BY <1>2, <2>1, <2>2 DEF J!StartJukebox, J!PlaysVote
<1>3. ASSUME NEW c, NEW s, jukebox, vs = J!Voted(<< >>, c, s) PROVE JukeInv'
  <2>1. vs # << >> /\ J!Drawn(vs) = {1} /\ J!Withdrawn(vs, vs[1].client) = << >>
    BY <1>3, OnlyVote
  <2>2. J!Starts(vs[1].song, << >>)
    BY <1>3, <2>1 DEF J!StartJukebox, J!TurnedOff, J!PlaysAny, J!PlaysVote
  <2> QED BY <1>1, <2>2
<1> QED BY <1>2, <1>3

LEMMA JukeStep ==
  ASSUME JukeInv, [J!Next]_jvars
  PROVE  JukeInv'
<1>1. CASE J!SongEnds BY <1>1, StartedJukebox DEF J!SongEnds, JukeInv
<1>2. ASSUME NEW c, NEW s, J!ChangeMusic(c, s) PROVE JukeInv'
  <2>1. CASE jukebox /\ c \notin Owners
    <3>1. J!AddVote(c, s) BY <1>2, <2>1 DEF J!ChangeMusic, J!MusicChanged
    <3> DEFINE vs == IF s = Stop THEN << >> ELSE J!Voted(<< >>, c, s)
    <3>2. J!StartJukebox(vs)
      <4>1. votes = << >> BY DEF JukeInv
      <4>2. J!Withdrawn(votes, c) = << >> BY <4>1, OnlyVote
      <4>3. J!Voted(votes, c, s) = J!Voted(<< >>, c, s) BY <4>1
      <4>4. Len(<< >>) <= 1 /\ Len(J!Voted(<< >>, c, s)) = 1 BY OnlyVote
      <4> QED BY <3>1, <4>2, <4>3, <4>4 DEF J!AddVote
    <3>3. vs = << >> \/ vs = J!Voted(<< >>, c, s) OBVIOUS
    <3> HIDE DEF vs
    <3> QED BY <2>1, <3>2, <3>3, StartedJukebox
  <2>2. CASE ~(jukebox /\ c \notin Owners)
    BY <1>2, <2>2 DEF J!ChangeMusic, J!MusicChanged, J!Played, JukeInv
  <2> QED BY <2>1, <2>2
<1>3. ASSUME NEW c, J!Enter(c) \/ J!OtherPrefs(c) \/ J!JukeboxToggle(c) \/ J!JukeboxPref(c)
      PROVE  JukeInv'
  BY <1>3 DEF J!Enter, J!OtherPrefs, J!JukeboxToggle, J!JukeboxPref, JukeInv
<1>4. ASSUME NEW c, J!Leave(c) \/ J!BlockDj(c) PROVE JukeInv'
  <2>1. J!Withdrawn(votes, c) = << >> BY OnlyVote DEF JukeInv
  <2> QED BY <1>4, <2>1 DEF J!Leave, J!BlockDj, JukeInv
<1>5. ASSUME NEW s, J!DebateSong(s) PROVE JukeInv'
  BY <1>5 DEF J!DebateSong, J!NotTimed, JukeInv
<1>6. ASSUME NEW s, J!Load(s) PROVE JukeInv'
  BY <1>6 DEF J!Load, J!NotTimed, JukeInv
<1>7. CASE UNCHANGED jvars BY <1>7 DEF jvars, JukeInv
<1> QED BY <1>1, <1>2, <1>3, <1>4, <1>5, <1>6, <1>7 DEF J!Next

\* While the jukebox plays, its next draw is scheduled, unless it is at one of the songs that
\* are known to have none, for any clients, songs, lists and preferences (Area.start_jukebox,
\* add_jukebox_vote, remove_jukebox_vote, get_jukebox_picked).
THEOREM JukeboxAlwaysPlaysOn == Spec => []JukeboxPlaysOn
<1>1. Init => JukeInv BY StartOfParts DEF J!Init, JukeInv
<1>2. JukeInv /\ [Next]_vars => JukeInv' BY StepOfParts, JukeStep
<1>3. JukeInv => JukeboxPlaysOn BY DEF JukeInv, JukeboxPlaysOn, J!JukeboxPlaysOn
<1> QED BY <1>1, <1>2, <1>3, PTL DEF Spec

-----------------------------------------------------------------------------
\* The lists of music

MusicLevel == {Hub} \cup Area \cup Listener

LEMMA MusicNames ==
  /\ Server \notin MusicLevel /\ Hub \notin Area \cup Listener /\ Area \cap Listener = {}
  /\ Used \subseteq MusicLevel /\ {} \notin ServerLists /\ None \notin Area
BY PartsAssumption DEF MusicLevel

MusicSettings ==
  /\ list \in [MusicLevel \cup {Server} -> L!List] /\ list[Server] \in ServerLists
  /\ ref \in [MusicLevel -> File \cup {Unsaved, None}]
  /\ replace \in [MusicLevel -> BOOLEAN] /\ allow \in [{Hub} \cup Area -> BOOLEAN]
  /\ at \in [Listener -> Area \cup {None}]

\* What a client holds is its list as it was shown, and that is the current one.
MusicInv ==
  /\ MusicSettings /\ untold \subseteq Listener
  /\ held \in [Listener -> SUBSET (MusicLevel \cup {Server})]
  /\ \A c \in Listener : kept[c] \subseteq L!List /\ seen[c] \subseteq L!List
  /\ \A c \in Listener \ untold : at[c] # None =>
       /\ seen[c] = L!Current(c)
       /\ kept[c] \cup L!Contents(held[c], list) = L!Current(c)

\* A list is put together from the server's, the hub's, the area's and the client's, and only
\* the server's may be empty.
LEMMA ConstructedFrom ==
  ASSUME NEW c, NEW a, NEW refs, NEW lists, NEW rep, NEW allowed
  PROVE  LET ls == L!ConstructMusicList(c, a, refs, lists, rep, allowed)
         IN ls \subseteq {Server, Hub, a, c} /\ \A l \in ls \ {Server} : lists[l] # {}
<1>1. ASSUME NEW ls, NEW l,
             ls \subseteq {Server, Hub, a, c} /\ \A k \in ls \ {Server} : lists[k] # {},
             l \in {Hub, a, c}, NEW over, over = L!Over(ls, l, refs, lists, rep)
      PROVE  over \subseteq {Server, Hub, a, c} /\ \A k \in over \ {Server} : lists[k] # {}
  BY <1>1 DEF L!Over
<1> DEFINE h == L!Over({Server}, Hub, refs, lists, rep)
           ar == IF refs[a] \in L!Names(refs, {Hub}) THEN h ELSE L!Over(h, a, refs, lists, rep)
           Good(ls) == ls \subseteq {Server, Hub, a, c} /\ \A k \in ls \ {Server} : lists[k] # {}
<1>2. Good(h) BY <1>1
<1>3. Good(ar)
  <2>1. Good(L!Over(h, a, refs, lists, rep)) BY <1>1, <1>2
  <2> QED BY <1>2, <2>1
<1>4. Good(L!Over(ar, c, refs, lists, rep))
  <2> HIDE DEF ar
  <2> QED BY <1>1, <1>3
<1> HIDE DEF Good, h
<1>5. Good(L!ConstructMusicList(c, a, refs, lists, rep, allowed))
  BY <1>3, <1>4 DEF L!ConstructMusicList, h
<1> QED BY <1>5 DEF Good

\* Only those levels count.
LEMMA SameConstructed ==
  ASSUME NEW c, NEW a, NEW refs, NEW lists, NEW rep, NEW allowed,
         NEW refs2, NEW lists2, NEW rep2, NEW allowed2,
         \A l \in {Hub, a, c} : refs[l] = refs2[l] /\ lists[l] = lists2[l] /\ rep[l] = rep2[l],
         \A l \in {Hub, a} : allowed[l] = allowed2[l]
  PROVE  L!ConstructMusicList(c, a, refs, lists, rep, allowed)
           = L!ConstructMusicList(c, a, refs2, lists2, rep2, allowed2)
<1>1. ASSUME NEW below, NEW l \in {Hub, a, c}
      PROVE  L!Over(below, l, refs, lists, rep) = L!Over(below, l, refs2, lists2, rep2)
  BY DEF L!Over
<1>2. L!Names(refs, {Hub}) = L!Names(refs2, {Hub}) /\ L!Names(refs, {Hub, a}) = L!Names(refs2, {Hub, a})
  BY DEF L!Names
<1> QED BY <1>1, <1>2 DEF L!ConstructMusicList

LEMMA SameContents ==
  ASSUME NEW ls, NEW lists, NEW lists2, \A l \in ls : lists[l] = lists2[l]
  PROVE  L!Contents(ls, lists) = L!Contents(ls, lists2)
BY DEF L!Contents

LEMMA ContentsAreLists ==
  ASSUME NEW lists \in [MusicLevel \cup {Server} -> L!List], NEW ls \in SUBSET (MusicLevel \cup {Server})
  PROVE  L!Contents(ls, lists) \subseteq L!List
BY DEF L!Contents

-----------------------------------------------------------------------------
\* What refresh_music leaves to a client

OldList(c, replaced) == kept[c] \cup {list[l] : l \in held[c] \cap replaced}

\* The list as it is made after the step
NewList(c) == L!ConstructMusicList(c, at'[c], ref', list', replace', allow')

LEMMA NewListHas ==
  ASSUME NEW c
  PROVE  /\ NewList(c) \subseteq {Server, Hub, at'[c], c}
         /\ \A k \in NewList(c) : k # Server => list'[k] # {}
<1>1. \A a, refs, lists, rep, allowed :
        /\ L!ConstructMusicList(c, a, refs, lists, rep, allowed) \subseteq {Server, Hub, a, c}
        /\ \A k \in L!ConstructMusicList(c, a, refs, lists, rep, allowed) :
             k # Server => lists[k] # {}
  BY ConstructedFrom
<1> QED BY <1>1, Zenon DEF NewList

Told(c, clients, replaced, reload) ==
  /\ c \in clients
  /\ reload \/ OldList(c, replaced) \cup L!Contents(held[c] \ replaced, list')
                 # L!Contents(NewList(c), list')

LEMMA Refreshed ==
  ASSUME NEW clients \in SUBSET Listener, NEW replaced, NEW reload,
         L!RefreshMusic(clients, replaced, reload)
  PROVE  /\ held' = [c \in Listener |-> held'[c]] /\ untold' \subseteq untold \cup Listener
         /\ \A c \in Listener : Told(c, clients, replaced, reload) =>
              /\ held'[c] = NewList(c) /\ kept'[c] = {}
              /\ seen'[c] = L!Contents(NewList(c), list')
         /\ \A c \in Listener : ~Told(c, clients, replaced, reload) =>
              /\ held'[c] = held[c] \ replaced /\ kept'[c] = OldList(c, replaced)
              /\ seen'[c] = seen[c]
         /\ \A c \in Listener \ untold' :
              /\ c \in untold => Told(c, clients, replaced, reload)
              /\ c \notin clients => held[c] \cap (L!Edited \ replaced) = {}
<1> DEFINE told == {c \in clients : Told(c, clients, replaced, reload)}
<1>1. told = {c \in clients :
                reload \/ OldList(c, replaced) \cup L!Contents(held[c] \ replaced, list')
                            # L!Contents(NewList(c), list')}
  BY DEF Told
<1>2. /\ held' = [c \in Listener |-> IF c \in told THEN NewList(c) ELSE held[c] \ replaced]
      /\ kept' = [c \in Listener |-> IF c \in told THEN {} ELSE OldList(c, replaced)]
      /\ seen' = [c \in Listener |-> IF c \in told THEN L!Contents(NewList(c), list') ELSE seen[c]]
      /\ untold' = (untold \ told)
                     \cup {c \in Listener \ clients : held[c] \cap (L!Edited \ replaced) # {}}
  BY <1>1, Zenon DEF L!RefreshMusic, L!Old, OldList, NewList
<1>3. \A c : c \in told <=> Told(c, clients, replaced, reload) BY DEF Told
<1> HIDE DEF told
<1>4. held' = [c \in Listener |-> held'[c]] BY <1>2
<1>5. ASSUME NEW c \in Listener
      PROVE  /\ held'[c] = (IF c \in told THEN NewList(c) ELSE held[c] \ replaced)
             /\ kept'[c] = (IF c \in told THEN {} ELSE OldList(c, replaced))
             /\ seen'[c] = (IF c \in told THEN L!Contents(NewList(c), list') ELSE seen[c])
  BY <1>2
<1>6. ASSUME NEW c \in Listener, c \notin untold'
      PROVE  /\ c \in untold => Told(c, clients, replaced, reload)
             /\ c \notin clients => held[c] \cap (L!Edited \ replaced) = {}
  BY <1>2, <1>3, <1>6
<1>7. untold' \subseteq untold \cup Listener BY <1>2
<1> QED BY <1>3, <1>4, <1>5, <1>6, <1>7

\* Every client that is here is told of what differs, and what it holds changes only with what
\* it was told: an edit tells all, and what was emptied differs from any list.
LEMMA RefreshKeeps ==
  ASSUME MusicInv, MusicSettings', NEW clients \in SUBSET Listener,
         NEW replaced \in SUBSET MusicLevel, NEW reload \in BOOLEAN, list'[Server] = list[Server],
         L!RefreshMusic(clients, replaced, reload),
         \A c \in clients : at'[c] # None /\ (at[c] # None \/ reload),
         \A c \in Listener \ clients : at'[c] = at[c] /\ (at[c] # None => L!Current(c)' = L!Current(c)),
         ~reload => \A l \in L!Edited \ replaced : list'[l] = {}
  PROVE  MusicInv'
<1> DEFINE IsTold(c) == Told(c, clients, replaced, reload)
<1>0. /\ \A c \in Listener : IsTold(c) =>
           /\ held'[c] = NewList(c) /\ kept'[c] = {} /\ seen'[c] = L!Contents(NewList(c), list')
      /\ \A c \in Listener : ~IsTold(c) =>
           /\ held'[c] = held[c] \ replaced /\ kept'[c] = OldList(c, replaced)
           /\ seen'[c] = seen[c]
      /\ \A c \in Listener \ untold' :
           (c \in untold => IsTold(c)) /\ (c \notin clients => held[c] \cap (L!Edited \ replaced) = {})
  <2>1. \A c \in Listener : IsTold(c) =>
           /\ held'[c] = NewList(c) /\ kept'[c] = {} /\ seen'[c] = L!Contents(NewList(c), list')
    BY Refreshed
  <2>2. \A c \in Listener : ~IsTold(c) =>
           /\ held'[c] = held[c] \ replaced /\ kept'[c] = OldList(c, replaced)
           /\ seen'[c] = seen[c]
    BY Refreshed
  <2>3. \A c \in Listener \ untold' :
           (c \in untold => IsTold(c)) /\ (c \notin clients => held[c] \cap (L!Edited \ replaced) = {})
    <3> TAKE c \in Listener \ untold'
    <3>1. c \in untold => IsTold(c) BY Refreshed
    <3>2. c \notin clients => held[c] \cap (L!Edited \ replaced) = {} BY Refreshed
    <3> QED BY <3>1, <3>2, Zenon
  <2> QED BY <2>1, <2>2, <2>3, Zenon
<1>1. \A c \in Listener : at'[c] # None => at'[c] \in Area BY DEF MusicSettings
<1>2. \A c \in clients : NewList(c) \subseteq MusicLevel \cup {Server}
  <2> TAKE c \in clients
  <2>1. c \in MusicLevel /\ at'[c] \in MusicLevel /\ Hub \in MusicLevel BY <1>1 DEF MusicLevel
  <2>2. NewList(c) \subseteq {Server, Hub, at'[c], c} BY NewListHas
  <2> QED BY <2>1, <2>2
<1>3. \A c \in Listener : IsTold(c) => c \in clients BY DEF Told
<1> HIDE DEF IsTold
<1>4. untold' \subseteq Listener BY Refreshed DEF MusicInv
<1>5. held' \in [Listener -> SUBSET (MusicLevel \cup {Server})]
  <2>1. held' = [c \in Listener |-> held'[c]] BY Refreshed
  <2>2. ASSUME NEW c \in Listener PROVE held'[c] \in SUBSET (MusicLevel \cup {Server})
    <3>1. CASE IsTold(c)
      <4>1. held'[c] = NewList(c) BY <1>0, <3>1
      <4> QED BY <1>2, <1>3, <3>1, <4>1
    <3>2. CASE ~IsTold(c)
      <4>1. held'[c] = held[c] \ replaced BY <1>0, <3>2
      <4> QED BY <4>1 DEF MusicInv
    <3> QED BY <3>1, <3>2
  <2> QED BY <2>1, <2>2
<1>6. ASSUME NEW c \in Listener PROVE kept'[c] \subseteq L!List /\ seen'[c] \subseteq L!List
  <2>1. CASE IsTold(c)
    <3>1. kept'[c] = {} /\ seen'[c] = L!Contents(NewList(c), list') BY <1>0, <2>1
    <3>2. L!Contents(NewList(c), list') \subseteq L!List
      BY <1>2, <1>3, <2>1, ContentsAreLists DEF MusicSettings
    <3> QED BY <3>1, <3>2
  <2>2. CASE ~IsTold(c)
    <3>1. kept'[c] = OldList(c, replaced) /\ seen'[c] = seen[c] BY <1>0, <2>2
    <3>2. OldList(c, replaced) \subseteq L!List
      BY DEF OldList, MusicInv, MusicSettings
    <3> QED BY <3>1, <3>2 DEF MusicInv
  <2> QED BY <2>1, <2>2
\* What c holds still says what it did, where nothing of it was edited.
<1>7. ASSUME NEW c \in Listener, held[c] \cap (L!Edited \ replaced) = {}
      PROVE  kept[c] \cup L!Contents(held[c], list)
               = OldList(c, replaced) \cup L!Contents(held[c] \ replaced, list')
  <2>1. Server \notin replaced BY MusicNames
  <2>2. \A l \in held[c] \ replaced : list[l] = list'[l]
    BY <1>7 DEF L!Edited, L!Level, MusicInv, MusicLevel
  <2>3. L!Contents(held[c] \ replaced, list) = L!Contents(held[c] \ replaced, list')
    BY <2>2, SameContents
  <2>4. L!Contents(held[c], list)
          = {list[l] : l \in held[c] \cap replaced} \cup L!Contents(held[c] \ replaced, list)
    BY <2>1 DEF L!Contents
  <2> QED BY <2>3, <2>4 DEF OldList
<1>8. ASSUME NEW c \in Listener \ untold', at'[c] # None
      PROVE  /\ seen'[c] = L!Current(c)'
             /\ kept'[c] \cup L!Contents(held'[c], list') = L!Current(c)'
  <2>1. L!Current(c)' = L!Contents(NewList(c), list') BY DEF L!Current, NewList
  <2>2. CASE IsTold(c)
    <3>1. held'[c] = NewList(c) /\ kept'[c] = {} /\ seen'[c] = L!Contents(NewList(c), list')
      BY <1>0, <2>2
    <3> QED BY <2>1, <3>1
  <2>3. CASE ~IsTold(c)
    <3>1. held'[c] = held[c] \ replaced /\ kept'[c] = OldList(c, replaced) /\ seen'[c] = seen[c]
      BY <1>0, <2>3
    <3>2. c \notin untold
      BY <1>0, <1>8, <2>3
    <3>3. at[c] # None BY <1>8, <2>3 DEF IsTold, Told
    <3>4. seen[c] = L!Current(c) /\ kept[c] \cup L!Contents(held[c], list) = L!Current(c)
      BY <3>2, <3>3 DEF MusicInv
    <3>5. CASE c \notin clients
      <4>1. held[c] \cap (L!Edited \ replaced) = {} BY <1>0, <1>8, <3>5
      <4>2. L!Current(c)' = L!Current(c) BY <3>3, <3>5
      <4> QED BY <1>7, <3>1, <3>4, <4>1, <4>2
    <3>6. CASE c \in clients
      <4>1. ~reload /\ OldList(c, replaced) \cup L!Contents(held[c] \ replaced, list')
                         = L!Contents(NewList(c), list')
        BY <2>3, <3>6 DEF IsTold, Told
      <4>2. held[c] \cap (L!Edited \ replaced) = {}
        <5> SUFFICES ASSUME NEW l \in held[c] \cap (L!Edited \ replaced) PROVE FALSE OBVIOUS
        <5>1. list'[l] = {} /\ l \in MusicLevel BY <4>1 DEF L!Edited, L!Level, MusicLevel
        <5>2. {} \in L!Contents(held[c] \ replaced, list')
          BY <5>1, MusicNames DEF L!Contents
        <5>3. {} \in L!Contents(NewList(c), list') BY <4>1, <5>2
        <5>5. list'[Server] # {}
          <6>1. list'[Server] \in ServerLists BY DEF MusicSettings
          <6> QED BY <6>1, MusicNames
        <5>4. ASSUME NEW k \in NewList(c) PROVE list'[k] # {}
          BY <5>4, <5>5, NewListHas
        <5> QED BY <5>3, <5>4, MusicNames DEF L!Contents
      <4> QED BY <1>7, <2>1, <3>1, <3>4, <4>1, <4>2
    <3> QED BY <3>5, <3>6
  <2> QED BY <2>2, <2>3
<1> QED BY <1>4, <1>5, <1>6, <1>8 DEF MusicInv

-----------------------------------------------------------------------------
\* Every step of the lists of music

\* Of whom a level is no part, the list stays.
LEMMA SameCurrent ==
  ASSUME NEW c, at'[c] = at[c], list'[Server] = list[Server],
         \A l \in {Hub, at[c], c} :
           ref'[l] = ref[l] /\ list'[l] = list[l] /\ replace'[l] = replace[l],
         \A l \in {Hub, at[c]} : allow'[l] = allow[l]
  PROVE  L!Current(c)' = L!Current(c)
<1> DEFINE ls == L!ConstructMusicList(c, at[c], ref, list, replace, allow)
<1>1. NewList(c) = ls
  <2>1. NewList(c) = L!ConstructMusicList(c, at[c], ref', list', replace', allow')
    BY Zenon DEF NewList
  <2> QED BY <2>1, SameConstructed
<1>2. ls \subseteq {Server, Hub, at[c], c} BY ConstructedFrom
<1>3. L!Current(c)' = L!Contents(ls, list') BY <1>1, Zenon DEF L!Current, NewList
<1>4. L!Current(c) = L!Contents(ls, list) BY DEF L!Current
<1> HIDE DEF ls
<1>5. \A l \in ls : list'[l] = list[l] BY <1>2
<1>6. L!Contents(ls, list') = L!Contents(ls, list) BY <1>5, SameContents
<1> QED BY <1>3, <1>4, <1>6

LEMMA HereOfLevel ==
  ASSUME MusicSettings, NEW l \in MusicLevel, L!Present(l)
  PROVE  /\ L!Here(l) \in SUBSET Listener /\ \A c \in L!Here(l) : at[c] # None
         /\ \A c \in Listener \ L!Here(l) :
              at[c] # None => l \notin {Hub, at[c], c} /\ at[c] \in Area
BY MusicNames DEF L!Here, L!Present, MusicSettings, MusicLevel

\* One level is changed, and whoever is there is sent the list if it differs.
LEMMA LevelKeeps ==
  ASSUME MusicInv, MusicSettings', NEW l \in MusicLevel, L!Present(l),
         NEW replaced \in SUBSET {l}, NEW reload \in BOOLEAN,
         L!RefreshMusic(L!Here(l), replaced, reload),
         at' = at, allow' = allow, list'[Server] = list[Server],
         \A k \in MusicLevel : k # l =>
           ref'[k] = ref[k] /\ list'[k] = list[k] /\ replace'[k] = replace[k],
         reload \/ l \in replaced \/ list'[l] \in {{}, list[l]}
  PROVE  MusicInv'
<1>1. /\ L!Here(l) \in SUBSET Listener /\ \A c \in L!Here(l) : at[c] # None
      /\ \A c \in Listener \ L!Here(l) : at[c] # None => l \notin {Hub, at[c], c} /\ at[c] \in Area
  BY HereOfLevel DEF MusicInv
<1>2. ASSUME NEW c \in Listener \ L!Here(l), at[c] # None PROVE L!Current(c)' = L!Current(c)
  <2>1. {Hub, at[c], c} \subseteq MusicLevel BY <1>1, <1>2 DEF MusicLevel
  <2>2. \A k \in {Hub, at[c], c} : k # l BY <1>1, <1>2
  <2>3. \A k \in {Hub, at[c], c} :
          ref'[k] = ref[k] /\ list'[k] = list[k] /\ replace'[k] = replace[k]
    BY <2>1, <2>2
  <2>4. at'[c] = at[c] /\ \A k \in {Hub, at[c]} : allow'[k] = allow[k] OBVIOUS
  <2> QED BY <2>3, <2>4, SameCurrent
<1>3. ~reload => \A k \in L!Edited \ replaced : list'[k] = {}
  BY DEF L!Edited, L!Level, MusicLevel
<1>4. \A c \in L!Here(l) : at'[c] # None /\ at[c] # None BY <1>1
<1>5. \A c \in Listener \ L!Here(l) : at'[c] = at[c] /\ (at[c] # None => L!Current(c)' = L!Current(c))
  BY <1>2
<1>6. replaced \in SUBSET MusicLevel OBVIOUS
<1> QED BY <1>1, <1>3, <1>4, <1>5, <1>6, RefreshKeeps

LEMMA MusicStep ==
  ASSUME MusicInv, [L!Next]_lvars
  PROVE  MusicInv'
<1> USE DEF L!Settings
<1>0. \A f \in File : Songs[f] \in L!List
  <2> DEFINE loaded == UNION {Songs[f] : f \in File}
             served == UNION ServerLists
  <2>1. \A f \in File : Songs[f] \subseteq loaded OBVIOUS
  <2>2. L!List = SUBSET (served \cup loaded \cup AddedSongs \cup {Header}) BY DEF L!List
  <2> HIDE DEF loaded, served
  <2> QED BY <2>1, <2>2
<1>1. ASSUME NEW l \in Used, NEW f \in File, L!LoadMusic(l, f) PROVE MusicInv'
  <2>1. /\ l \in MusicLevel /\ L!Present(l) /\ L!RefreshMusic(L!Here(l), {l}, FALSE)
        /\ list' = [list EXCEPT ![l] = Songs[f]] /\ ref' = [ref EXCEPT ![l] = f]
        /\ replace' = replace /\ at' = at /\ allow' = allow
    BY <1>1, MusicNames DEF L!LoadMusic
  <2>2. MusicSettings' BY <1>0, <2>1, MusicNames DEF MusicInv, MusicSettings
  <2>3. /\ \A k \in MusicLevel : k # l =>
             ref'[k] = ref[k] /\ list'[k] = list[k] /\ replace'[k] = replace[k]
        /\ list'[Server] = list[Server]
    BY <2>1, MusicNames DEF MusicInv, MusicSettings
  <2> QED BY <2>1, <2>2, <2>3, LevelKeeps
<1>2. ASSUME NEW l \in Used, L!ClearMusic(l) PROVE MusicInv'
  <2>1. /\ l \in MusicLevel /\ L!Present(l) /\ L!RefreshMusic(L!Here(l), {}, FALSE)
        /\ list' = [list EXCEPT ![l] = {}] /\ ref' = [ref EXCEPT ![l] = None]
        /\ replace' = IF l = Hub THEN [replace EXCEPT ![l] = FALSE] ELSE replace
        /\ at' = at /\ allow' = allow
    BY <1>2, MusicNames DEF L!ClearMusic, L!RefreshChanged
  <2>2. MusicSettings'
    <3>1. {} \in L!List BY DEF L!List
    <3> QED BY <2>1, <3>1, MusicNames DEF MusicInv, MusicSettings
  <2>3. /\ \A k \in MusicLevel : k # l =>
             ref'[k] = ref[k] /\ list'[k] = list[k] /\ replace'[k] = replace[k]
        /\ list'[l] = {} /\ list'[Server] = list[Server]
    BY <2>1, MusicNames DEF MusicInv, MusicSettings
  <2> QED BY <2>1, <2>2, <2>3, LevelKeeps
<1>3. ASSUME NEW l \in Used, NEW s \in AddedSongs, L!AddSong(l, s)
      PROVE  /\ l \in MusicLevel /\ L!Present(l) /\ MusicSettings' /\ at' = at /\ allow' = allow
             /\ list'[Server] = list[Server]
             /\ \A k \in MusicLevel : k # l =>
                  ref'[k] = ref[k] /\ list'[k] = list[k] /\ replace'[k] = replace[k]
  <2>1. /\ l \in MusicLevel /\ L!Present(l)
        /\ list' = [list EXCEPT ![l] = @ \cup (IF @ = {} THEN {Header, s} ELSE {s})]
        /\ ref' = IF list[l] = {} THEN [ref EXCEPT ![l] = Unsaved] ELSE ref
        /\ replace' = replace /\ at' = at /\ allow' = allow
    BY <1>3, MusicNames DEF L!AddSong
  <2>2. list[l] \cup (IF list[l] = {} THEN {Header, s} ELSE {s}) \in L!List
    <3> DEFINE files == (UNION ServerLists) \cup (UNION {Songs[f] : f \in File})
    <3>1. list[l] \in L!List BY <2>1 DEF MusicInv, MusicSettings
    <3>2. L!List = SUBSET (files \cup AddedSongs \cup {Header}) BY DEF L!List
    <3> HIDE DEF files
    <3> QED BY <3>1, <3>2
  <2> QED BY <2>1, <2>2, MusicNames DEF MusicInv, MusicSettings
<1>4. ASSUME NEW l \in Used, NEW s \in AddedSongs, L!MusiclistAdd(l, s) PROVE MusicInv'
  BY <1>3, <1>4, LevelKeeps DEF L!MusiclistAdd, L!RefreshEdited
<1>5. ASSUME NEW l \in Used, NEW s \in AddedSongs, L!MusiclistAddFails(l, s) PROVE MusicInv'
  <2>1. /\ MusicSettings' /\ at' = at
        /\ untold' = untold \cup {c \in Listener : at[c] # None}
        /\ UNCHANGED << held, kept, seen >>
    BY <1>3, <1>5 DEF L!MusiclistAddFails
  <2> QED BY <2>1 DEF MusicInv
<1>6. ASSUME NEW l \in Used, NEW s, L!MusiclistRemove(l, s) PROVE MusicInv'
  <2>1. /\ l \in MusicLevel /\ L!Present(l) /\ L!RefreshMusic(L!Here(l), {}, TRUE)
        /\ list' = [list EXCEPT ![l] = @ \ {s}]
        /\ ref' = ref /\ replace' = replace /\ at' = at /\ allow' = allow
    BY <1>6, MusicNames DEF L!MusiclistRemove, L!RefreshEdited
  <2>2. list[l] \ {s} \in L!List
    <3>1. list[l] \in L!List BY <2>1 DEF MusicInv, MusicSettings
    <3> QED BY <3>1 DEF L!List
  <2>3. MusicSettings' BY <2>1, <2>2, MusicNames DEF MusicInv, MusicSettings
  <2>4. /\ \A k \in MusicLevel : k # l =>
             ref'[k] = ref[k] /\ list'[k] = list[k] /\ replace'[k] = replace[k]
        /\ list'[Server] = list[Server]
    BY <2>1, MusicNames DEF MusicInv, MusicSettings
  <2> QED BY <2>1, <2>3, <2>4, LevelKeeps
<1>7. CASE L!ToggleReplaceMusic
  <2>1. /\ Hub \in MusicLevel /\ L!Present(Hub) /\ L!RefreshMusic(L!Here(Hub), {}, FALSE)
        /\ replace' = [replace EXCEPT ![Hub] = ~@]
        /\ list' = list /\ ref' = ref /\ at' = at /\ allow' = allow
    BY <1>7, MusicNames DEF L!ToggleReplaceMusic, L!RefreshChanged, L!Present, MusicLevel
  <2>2. MusicSettings' BY <2>1 DEF MusicInv, MusicSettings
  <2>3. \A k \in MusicLevel : k # Hub =>
          ref'[k] = ref[k] /\ list'[k] = list[k] /\ replace'[k] = replace[k]
    BY <2>1 DEF MusicInv, MusicSettings
  <2> QED BY <2>1, <2>2, <2>3, LevelKeeps
<1>8. ASSUME NEW a \in Area, L!AreaPref(a) PROVE MusicInv'
  <2>1. /\ untold' = untold \cup L!Here(a) /\ UNCHANGED << list, ref, at, held, kept, seen >>
        /\ \/ replace' = [replace EXCEPT ![a] = ~@] /\ allow' = allow
           \/ allow' = [allow EXCEPT ![a] = ~@] /\ replace' = replace
    BY <1>8 DEF L!AreaPref
  <2>2. MusicSettings' BY <2>1 DEF MusicInv, MusicSettings
  <2>3. a \in MusicLevel /\ L!Present(a) BY MusicNames DEF L!Present, MusicLevel
  <2>4. /\ L!Here(a) \in SUBSET Listener
        /\ \A c \in Listener \ L!Here(a) : at[c] # None => a \notin {Hub, at[c], c} /\ at[c] \in Area
    BY <2>3, HereOfLevel DEF MusicInv
  <2>5. ASSUME NEW c \in Listener \ L!Here(a), at[c] # None PROVE L!Current(c)' = L!Current(c)
    <3>1. \A l \in {Hub, at[c], c} : l \in MusicLevel /\ l # a BY <2>4, <2>5 DEF MusicLevel
    <3>2. \A l \in {Hub, at[c]} : l \in {Hub} \cup Area /\ l # a BY <2>4, <2>5
    <3>3. \A l \in {Hub, at[c], c} : replace'[l] = replace[l]
      BY <2>1, <3>1 DEF MusicInv, MusicSettings
    <3>4. \A l \in {Hub, at[c]} : allow'[l] = allow[l]
      BY <2>1, <3>2 DEF MusicInv, MusicSettings
    <3> QED BY <2>1, <3>3, <3>4, SameCurrent
  <2> QED BY <2>1, <2>2, <2>4, <2>5 DEF MusicInv
<1>9. ASSUME NEW c \in Listener, NEW a \in Area, L!Move(c, a) PROVE MusicInv'
  <2>1. /\ at' = [at EXCEPT ![c] = a] /\ UNCHANGED << list, ref, replace, allow >>
        /\ L!RefreshMusic({c}, {}, at[c] = None)
    BY <1>9 DEF L!Move
  <2>2. MusicSettings' BY <2>1 DEF MusicInv, MusicSettings
  <2>3. \A d \in Listener \ {c} : at'[d] = at[d] /\ L!Current(d)' = L!Current(d)
    BY <2>1, SameCurrent DEF MusicInv, MusicSettings
  <2>4. L!Edited = {} /\ list'[Server] = list[Server] BY <2>1 DEF L!Edited
  <2>5. at'[c] # None BY <2>1, MusicNames DEF MusicInv, MusicSettings
  <2> DEFINE reload == at[c] = None
  <2>6. reload \in BOOLEAN /\ (at[c] # None \/ reload) OBVIOUS
  <2>7. L!RefreshMusic({c}, {}, reload) BY <2>1
  <2> HIDE DEF reload
  <2> QED BY <2>2, <2>3, <2>4, <2>5, <2>6, <2>7, RefreshKeeps
<1>10. ASSUME NEW songs \in ServerLists, L!RefreshServer(songs) PROVE MusicInv'
  <2>1. /\ list' = [list EXCEPT ![Server] = songs] /\ UNCHANGED << ref, replace, seen, allow, at >>
        /\ held' = [c \in Listener |-> held[c] \ {Server}]
        /\ kept' = [c \in Listener |-> L!Old(c, {Server})]
        /\ untold' = untold \cup {c \in Listener : at[c] # None}
    BY <1>10 DEF L!RefreshServer
  <2>2. songs \in L!List BY DEF L!List
  <2>3. MusicSettings' BY <2>1, <2>2 DEF MusicInv, MusicSettings
  <2>4. \A c \in Listener : kept'[c] \subseteq L!List
    <3> TAKE c \in Listener
    <3>1. kept'[c] = kept[c] \cup {list[l] : l \in held[c] \cap {Server}} BY <2>1 DEF L!Old
    <3>2. {list[l] : l \in held[c] \cap {Server}} \subseteq L!List
      BY DEF MusicInv, MusicSettings
    <3> QED BY <3>1, <3>2 DEF MusicInv
  <2>5. held' \in [Listener -> SUBSET (MusicLevel \cup {Server})] BY <2>1 DEF MusicInv
  <2>6. untold' \subseteq Listener /\ \A c \in Listener \ untold' : at'[c] = None
    BY <2>1 DEF MusicInv
  <2> QED BY <2>1, <2>3, <2>4, <2>5, <2>6 DEF MusicInv
<1>11. CASE UNCHANGED lvars
  BY <1>11 DEF lvars, MusicInv, MusicSettings, L!Current
<1> QED BY <1>1, <1>2, <1>4, <1>5, <1>6, <1>7, <1>8, <1>9, <1>10, <1>11 DEF L!Next

\* Clients were shown the list that now holds for them, over loaded, emptied, edited and replaced
\* lists and moves, unless one of the steps that tell nobody came last (a preference, an edit
\* that failed, /refresh), for any areas, clients and songs (refresh_music,
\* construct_music_list).
THEOREM ShownAlwaysCurrent == Spec => []ShownIsCurrent
<1>1. Init => MusicInv
  <2> SUFFICES ASSUME Init PROVE MusicInv OBVIOUS
  <2>1. L!Init BY StartOfParts
  <2> QED BY <2>1 DEF L!Init, L!Level, L!List, MusicInv, MusicSettings, MusicLevel
<1>2. MusicInv /\ [Next]_vars => MusicInv' BY StepOfParts, MusicStep
<1>3. MusicInv => ShownIsCurrent BY DEF MusicInv, ShownIsCurrent, L!ShownIsCurrent
<1> QED BY <1>1, <1>2, <1>3, PTL DEF Spec

-----------------------------------------------------------------------------
\* Messages and testimony

MessageBounds == MaxStatements \in Nat /\ MaxMessages \in Nat

LEMMA MessageSettings == MessageBounds
BY PartsAssumption DEF MessageBounds

\* A statement that is popped leaves what is before it.
LEMMA PoppedStatements ==
  ASSUME NEW s \in Seq(T!Message), NEW k \in 1 .. Len(s)
  PROVE  /\ T!Popped(s, k) \in Seq(T!Message) /\ Len(T!Popped(s, k)) = Len(s) - 1
         /\ \A p \in 1 .. k - 1 : T!Popped(s, k)[p] = s[p]
<1> DEFINE a == SubSeq(s, 1, k - 1)
           b == SubSeq(s, k + 1, Len(s))
<1>1. Len(s) \in Nat BY LenProperties
<1>2. a \in Seq(T!Message) /\ Len(a) = k - 1 /\ \A p \in 1 .. k - 1 : a[p] = s[p]
  BY <1>1, SubSeqProperties, ElementOfSeq
<1>3. b \in Seq(T!Message) /\ Len(b) = Len(s) - k
  <2>1. \A j \in k + 1 .. Len(s) : s[j] \in T!Message BY <1>1, ElementOfSeq
  <2>2. k + 1 \in Int /\ Len(s) \in Int BY <1>1
  <2>3. b \in Seq(T!Message) /\ Len(b) = IF k + 1 <= Len(s) THEN Len(s) - (k + 1) + 1 ELSE 0
    BY <2>1, <2>2, SubSeqProperties
  <2> HIDE DEF b
  <2> QED BY <1>1, <2>3
<1> HIDE DEF a, b
<1>4. /\ a \o b \in Seq(T!Message) /\ Len(a \o b) = Len(a) + Len(b)
      /\ \A p \in 1 .. Len(a) + Len(b) : (a \o b)[p] = IF p <= Len(a) THEN a[p] ELSE b[p - Len(a)]
  BY <1>2, <1>3, ConcatProperties
<1>5. Len(a \o b) = Len(s) - 1 /\ \A p \in 1 .. k - 1 : (a \o b)[p] = s[p]
  BY <1>1, <1>2, <1>3, <1>4
<1> QED BY <1>4, <1>5 DEF T!Popped, a, b

\* So does one that is inserted, and it is where it was put.
LEMMA InsertedStatements ==
  ASSUME NEW s \in Seq(T!Message), NEW i \in Nat, NEW x \in T!Message
  PROVE  /\ T!Inserted(s, i, x) \in Seq(T!Message) /\ Len(T!Inserted(s, i, x)) = Len(s) + 1
         /\ \A p \in 1 .. Len(s) : p <= i => T!Inserted(s, i, x)[p] = s[p]
<1> DEFINE k == IF i > Len(s) THEN Len(s) ELSE i
           a == SubSeq(s, 1, k)
           b == SubSeq(s, k + 1, Len(s))
           e == << x >>
<1>1. Len(s) \in Nat /\ k \in 0 .. Len(s) /\ \A p \in 1 .. Len(s) : p <= i => p <= k
  BY LenProperties
<1> HIDE DEF k
<1>2. a \in Seq(T!Message) /\ Len(a) = k /\ \A p \in 1 .. k : a[p] = s[p]
  BY <1>1, SubSeqProperties, ElementOfSeq
<1>3. b \in Seq(T!Message) /\ Len(b) = Len(s) - k
  <2>1. \A j \in k + 1 .. Len(s) : s[j] \in T!Message BY <1>1, ElementOfSeq
  <2>2. k + 1 \in Int /\ Len(s) \in Int BY <1>1
  <2>3. b \in Seq(T!Message) /\ Len(b) = IF k + 1 <= Len(s) THEN Len(s) - (k + 1) + 1 ELSE 0
    BY <2>1, <2>2, SubSeqProperties
  <2> HIDE DEF b
  <2> QED BY <1>1, <2>3
<1>4. e \in Seq(T!Message) /\ Len(e) = 1 OBVIOUS
<1> HIDE DEF a, b, e
<1> DEFINE y == a \o e
<1>5. /\ y \in Seq(T!Message) /\ Len(y) = k + 1 /\ \A p \in 1 .. k : y[p] = s[p]
  <2>1. /\ y \in Seq(T!Message) /\ Len(y) = Len(a) + Len(e)
        /\ \A p \in 1 .. Len(a) + Len(e) : y[p] = IF p <= Len(a) THEN a[p] ELSE e[p - Len(a)]
    BY <1>2, <1>4, ConcatProperties
  <2> QED BY <1>1, <1>2, <1>4, <2>1
<1> HIDE DEF y
<1>6. /\ y \o b \in Seq(T!Message) /\ Len(y \o b) = Len(y) + Len(b)
      /\ \A p \in 1 .. Len(y) + Len(b) : (y \o b)[p] = IF p <= Len(y) THEN y[p] ELSE b[p - Len(y)]
  BY <1>3, <1>5, ConcatProperties
<1>7. Len(y \o b) = Len(s) + 1 /\ \A p \in 1 .. Len(s) : p <= i => (y \o b)[p] = s[p]
  BY <1>1, <1>3, <1>5, <1>6
<1> QED BY <1>6, <1>7 DEF T!Inserted, k, a, b, e, y

\* Texts of messages are messages.
LEMMA TextIsMessage == ASSUME NEW m \in T!Message PROVE T!Text(m) \in T!Message
<1>1. m.id \in 1 .. MaxMessages /\ m.kind \in T!Kind /\ m.secret \in BOOLEAN
      /\ m.for \in SUBSET (Client \cup Owners)
  BY DEF T!Message
<1>2. ASSUME NEW k \in T!Kind
      PROVE  [m EXCEPT !.kind = k, !.tagged = FALSE] \in T!Message
  BY DEF T!Message
<1> DEFINE k == IF m.kind = "blank" THEN "blank" ELSE "plain"
<1>3. k \in T!Kind BY DEF T!Kind
<1> HIDE DEF k
<1>4. [m EXCEPT !.kind = k, !.tagged = FALSE] \in T!Message BY <1>2, <1>3
<1> QED BY <1>4, Zenon DEF T!Text, k

\* What is heard is of a message that was sent.
LEMMA OverheardIsSent ==
  ASSUME NEW m \in T!Message, NEW ls
  PROVE  T!Overheard(ls, m) \subseteq 1 .. MaxMessages
BY DEF T!Overheard, T!Message

LEMMA AtStatement ==
  ASSUME NEW s \in Seq(T!Message), NEW i \in Int, i >= -1
  PROVE  /\ T!At(s, i) \in 0 .. Len(s)
         /\ T!At(s, i) # 0 => s[T!At(s, i)] \in T!Message
         /\ i >= 0 /\ T!At(s, i) # 0 => i < Len(s) /\ T!At(s, i) = i + 1
<1>1. Len(s) \in Nat BY LenProperties
<1>2. T!At(s, i) \in 0 .. Len(s) BY <1>1 DEF T!At
<1>3. T!At(s, i) # 0 => s[T!At(s, i)] \in T!Message BY <1>1, <1>2, ElementOfSeq
<1> QED BY <1>1, <1>2, <1>3 DEF T!At

LEMMA ShownToIsSent ==
  ASSUME NEW s \in Seq(T!Message), NEW i \in Int, i >= -1
  PROVE  T!ShownTo(s, i) \subseteq 1 .. MaxMessages
BY AtStatement, OverheardIsSent DEF T!ShownTo

MessageInv == T!TypeOK /\ IndexIsOfTheShown

\* What is shown is at the index.
LEMMA ShownIsAtIndex ==
  ASSUME MessageInv, NEW i \in Int, i >= -1, T!Shown(testimony', i),
         testimony' \in Seq(T!Message), Len(testimony') <= MaxStatements,
         IndexIsOfTheShown' \/ T!At(testimony', i) # 0
  PROVE  /\ index' \in -1 .. MaxStatements /\ shown' \in T!Message \cup {None} /\ moved' \in BOOLEAN
         /\ IndexIsOfTheShown'
<1>1. Len(testimony') \in Nat /\ MaxStatements \in Nat
  BY MessageSettings, LenProperties DEF MessageBounds
<1>2. CASE T!At(testimony', i) = 0
  BY <1>2, Zenon DEF T!Shown, MessageInv, T!TypeOK
<1>3. CASE T!At(testimony', i) # 0
  <2>1. index' = i /\ shown' = testimony'[T!At(testimony', i)] /\ moved' = FALSE
    BY <1>3, Zenon DEF T!Shown
  <2>2. testimony'[T!At(testimony', i)] \in T!Message BY <1>3, AtStatement
  <2>3. i >= 0 => i < Len(testimony') /\ T!At(testimony', i) = i + 1 BY <1>3, AtStatement
  <2>4. index' \in -1 .. MaxStatements
    <3>1. CASE i >= 0 BY <1>1, <2>1, <2>3, <3>1
    <3>2. CASE i = -1 BY <1>1, <2>1, <3>2
    <3> QED BY <3>1, <3>2
  <2>5. IndexIsOfTheShown'
    <3>1. CASE i >= 0 BY <2>1, <2>3, <3>1 DEF IndexIsOfTheShown, T!IndexIsOfTheShown
    <3>2. CASE i = -1 BY <2>1, <3>2 DEF IndexIsOfTheShown, T!IndexIsOfTheShown
    <3> QED BY <3>1, <3>2
  <2> QED BY <2>1, <2>2, <2>4, <2>5
<1> QED BY <1>2, <1>3

\* What is not about the testimony keeps it.
LEMMA TestimonyStays ==
  ASSUME MessageInv, UNCHANGED << testimony, index, title, moved, shown >>,
         recording' \in BOOLEAN, last' \in T!Message \cup {None},
         overheard' \subseteq 1 .. MaxMessages, sent' \in 0 .. MaxMessages
  PROVE  MessageInv'
BY DEF MessageInv, T!TypeOK, IndexIsOfTheShown, T!IndexIsOfTheShown

LEMMA AmendedKeeps ==
  ASSUME MessageInv, NEW m \in T!Message, T!Amended(m), last' = last, sent' \in 0 .. MaxMessages
  PROVE  MessageInv'
<1> DEFINE i == IF index = -1 THEN 0 ELSE index
           k == T!At(testimony, i)
           s == [testimony EXCEPT ![k] = T!Text(m)]
<1>1. /\ testimony \in Seq(T!Message) /\ Len(testimony) <= MaxStatements
      /\ index \in Int /\ index >= -1 /\ i \in Nat /\ last \in T!Message \cup {None}
      /\ overheard \subseteq 1 .. MaxMessages /\ recording \in BOOLEAN /\ title \in BOOLEAN
  BY DEF MessageInv, T!TypeOK
<1> HIDE DEF i
<1>2. k \in 0 .. Len(testimony) BY <1>1, AtStatement
<1>3. CASE k = 0
  <2>1. UNCHANGED T!Testimony /\ UNCHANGED overheard BY <1>3, Zenon DEF T!Amended, i
  <2> QED BY <1>1, <2>1, TestimonyStays DEF T!Testimony
<1>4. CASE k # 0
  <2>1. /\ testimony' = s /\ title' = title /\ recording' = recording
        /\ IF recording THEN moved' = TRUE /\ UNCHANGED << index, shown, overheard >>
           ELSE T!Shown(s, i) /\ overheard' = overheard \cup T!ShownTo(s, i)
    BY <1>4, Zenon DEF T!Amended, i
  <2>2. s \in Seq(T!Message) /\ Len(s) = Len(testimony) /\ T!At(s, i) = k
    <3>1. T!Text(m) \in T!Message /\ k \in 1 .. Len(testimony) BY <1>1, <1>2, <1>4, TextIsMessage, LenProperties
    <3>2. s \in Seq(T!Message) /\ Len(s) = Len(testimony)
      <4> DEFINE t == T!Text(m)
      <4>1. t \in T!Message BY <3>1
      <4> HIDE DEF t, k
      <4>2. [testimony EXCEPT ![k] = t] \in Seq(T!Message) /\ Len([testimony EXCEPT ![k] = t]) = Len(testimony)
        BY <1>1, <3>1, <4>1, ExceptSeq
      <4> QED BY <4>2 DEF t
    <3> HIDE DEF s
    <3>3. T!At(s, i) = T!At(testimony, i) BY <3>2 DEF T!At
    <3> QED BY <3>2, <3>3
  <2> HIDE DEF s, k
  <2>3. CASE recording
    <3>1. moved' = TRUE /\ UNCHANGED << index, shown, overheard >> BY <2>1, <2>3
    <3> QED BY <1>1, <2>1, <2>2, <3>1 DEF MessageInv, T!TypeOK, IndexIsOfTheShown, T!IndexIsOfTheShown
  <2>4. CASE ~recording
    <3>1. T!Shown(testimony', i) /\ overheard' = overheard \cup T!ShownTo(s, i) BY <2>1, <2>4, Zenon
    <3>2. T!ShownTo(s, i) \subseteq 1 .. MaxMessages BY <1>1, <2>2, ShownToIsSent
    <3>3. /\ index' \in -1 .. MaxStatements /\ shown' \in T!Message \cup {None} /\ moved' \in BOOLEAN
          /\ IndexIsOfTheShown'
      BY <1>1, <1>4, <2>1, <2>2, <3>1, ShownIsAtIndex
    <3> QED BY <1>1, <2>1, <2>2, <3>1, <3>2, <3>3 DEF MessageInv, T!TypeOK
  <2> QED BY <2>3, <2>4
<1> QED BY <1>3, <1>4

LEMMA AddedKeeps ==
  ASSUME MessageInv, NEW m \in T!Message, T!Added(m), ~T!Full,
         last' \in T!Message \cup {None}, sent' \in 0 .. MaxMessages
  PROVE  MessageInv'
<1> DEFINE s == T!Inserted(testimony, T!Place, T!Text(m))
<1>1. /\ testimony \in Seq(T!Message) /\ Len(testimony) < MaxStatements
      /\ index \in Int /\ index >= -1
      /\ overheard \subseteq 1 .. MaxMessages /\ recording \in BOOLEAN /\ title \in BOOLEAN
      /\ Len(testimony) \in Nat /\ MaxStatements \in Nat
  BY MessageSettings, LenProperties DEF MessageInv, T!TypeOK, T!Full, MessageBounds
<1>2. T!Place \in Nat /\ (index # -1 => T!Place = index + 1) BY <1>1 DEF T!Place
<1>3. /\ s \in Seq(T!Message) /\ Len(s) = Len(testimony) + 1
      /\ \A p \in 1 .. Len(testimony) : p <= T!Place => s[p] = testimony[p]
  BY <1>1, <1>2, TextIsMessage, InsertedStatements
<1>4. /\ testimony' = s /\ title' = title /\ recording' = recording
      /\ IF recording THEN UNCHANGED << index, shown, moved >> ELSE T!Shown(s, T!Place)
      /\ overheard' = overheard \cup T!Overheard(T!Targets(m), m)
                        \cup (IF recording THEN {} ELSE T!ShownTo(s, T!Place))
  BY Zenon DEF T!Added
<1> HIDE DEF s
<1>5. overheard' \subseteq 1 .. MaxMessages
  <2>1. T!ShownTo(s, T!Place) \subseteq 1 .. MaxMessages BY <1>2, <1>3, ShownToIsSent
  <2>2. T!Overheard(T!Targets(m), m) \subseteq 1 .. MaxMessages BY OverheardIsSent
  <2> QED BY <1>1, <1>4, <2>1, <2>2
\* Before it is shown the index is where it was, and what is there.
<1>6. ASSUME UNCHANGED << index, shown, moved >> PROVE IndexIsOfTheShown'
  <2> SUFFICES ASSUME index # -1, ~moved PROVE index < Len(s) /\ s[index + 1] = shown
    BY <1>4, <1>6 DEF IndexIsOfTheShown, T!IndexIsOfTheShown
  <2>1. index < Len(testimony) /\ testimony[index + 1] = shown
    BY DEF MessageInv, IndexIsOfTheShown, T!IndexIsOfTheShown
  <2>2. index + 1 \in 1 .. Len(testimony) /\ index + 1 <= T!Place BY <1>1, <1>2, <2>1
  <2> QED BY <1>1, <1>3, <2>1, <2>2
<1>7. CASE recording
  BY <1>1, <1>3, <1>4, <1>5, <1>6, <1>7 DEF MessageInv, T!TypeOK
<1>8. CASE ~recording
  <2>1. T!Shown(testimony', T!Place) BY <1>4, <1>8, Zenon
  <2>2. IndexIsOfTheShown' \/ T!At(testimony', T!Place) # 0
    BY <1>4, <1>6, <2>1 DEF T!Shown
  <2>3. Len(testimony') <= MaxStatements BY <1>1, <1>3, <1>4
  <2>4. /\ index' \in -1 .. MaxStatements /\ shown' \in T!Message \cup {None} /\ moved' \in BOOLEAN
        /\ IndexIsOfTheShown'
    BY <1>2, <1>3, <1>4, <2>1, <2>2, <2>3, ShownIsAtIndex
  <2> QED BY <1>1, <1>3, <1>4, <1>5, <2>3, <2>4 DEF MessageInv, T!TypeOK
<1> QED BY <1>7, <1>8

\* send_ic, of any message that is sent
LEMMA SendKeeps ==
  ASSUME MessageInv, NEW m \in T!Message, T!SendIC(m), sent' \in 0 .. MaxMessages
  PROVE  MessageInv'
<1>1. /\ last \in T!Message \cup {None} /\ overheard \subseteq 1 .. MaxMessages
      /\ recording \in BOOLEAN /\ T!Text(m) \in T!Message
      /\ T!Overheard(T!Targets(m), m) \subseteq 1 .. MaxMessages
  BY TextIsMessage, OverheardIsSent DEF MessageInv, T!TypeOK
<1>2. CASE T!Amended(m) /\ UNCHANGED last BY <1>2, AmendedKeeps
<1>3. CASE T!Dropped BY <1>1, <1>3, TestimonyStays DEF T!Dropped, T!Testimony
<1>4. CASE T!Ends(m) /\ UNCHANGED last
  BY <1>1, <1>4, TestimonyStays DEF T!Ends, T!Heard
<1>5. CASE T!Delivered(m)
  <2>1. last' = T!Text(m) BY <1>5 DEF T!Delivered
  <2>2. CASE T!IsAdded(m) /\ ~T!Full
    BY <1>1, <1>5, <2>1, <2>2, AddedKeeps DEF T!Delivered
  <2>3. CASE ~(T!IsAdded(m) /\ ~T!Full)
    <3>1. T!Heard(m) /\ UNCHANGED T!Testimony BY <1>5, <2>3, Zenon DEF T!Delivered
    <3> QED BY <1>1, <2>1, <3>1, TestimonyStays DEF T!Heard, T!Testimony
  <2> QED BY <2>2, <2>3
<1> QED BY <1>2, <1>3, <1>4, <1>5 DEF T!SendIC

\* The messages of clients, with the next number
LEMMA PublicIsMessage ==
  ASSUME MessageInv, NEW k \in T!Kind, T!Sends
  PROVE  T!Public(k) \in T!Message /\ sent' \in 0 .. MaxMessages
<1>1. sent + 1 \in 1 .. MaxMessages /\ sent' = sent + 1
  BY MessageSettings DEF T!Sends, MessageInv, T!TypeOK, MessageBounds
<1>2. sent' \in 0 .. MaxMessages BY <1>1, MessageSettings DEF MessageBounds
<1> QED BY <1>1, <1>2 DEF T!Public, T!Message

LEMMA WhisperIsMessage ==
  ASSUME MessageInv, NEW k \in T!Kind, T!Sends, NEW c \in Client, NEW to \in SUBSET Client,
         NEW t \in BOOLEAN
  PROVE  /\ [id |-> sent + 1, kind |-> k, secret |-> TRUE, tagged |-> t,
             for |-> T!ForWhom(c, to)] \in T!Message
         /\ sent' \in 0 .. MaxMessages
<1>1. sent + 1 \in 1 .. MaxMessages /\ sent' = sent + 1
  BY MessageSettings DEF T!Sends, MessageInv, T!TypeOK, MessageBounds
<1>2. sent' \in 0 .. MaxMessages BY <1>1, MessageSettings DEF MessageBounds
<1>3. T!ForWhom(c, to) \in SUBSET (Client \cup Owners) BY DEF T!ForWhom
<1> QED BY <1>1, <1>2, <1>3 DEF T!Message

\* A statement that is asked for is shown, of a testimony that stays as it is.
LEMMA AskedKeeps ==
  ASSUME MessageInv, NEW i \in Int, i >= -1, T!Shown(testimony, i),
         overheard' = overheard \cup T!ShownTo(testimony, i),
         UNCHANGED << last, testimony, title, recording, sent >>
  PROVE  MessageInv'
<1>1. /\ testimony \in Seq(T!Message) /\ Len(testimony) <= MaxStatements
      /\ overheard \subseteq 1 .. MaxMessages
  BY DEF MessageInv, T!TypeOK
<1>2. T!ShownTo(testimony, i) \subseteq 1 .. MaxMessages BY <1>1, ShownToIsSent
<1>3. IndexIsOfTheShown' \/ T!At(testimony', i) # 0
  <2>1. T!At(testimony', i) = 0 => UNCHANGED << index, shown, moved >> BY Zenon DEF T!Shown
  <2> QED BY <2>1 DEF MessageInv, IndexIsOfTheShown, T!IndexIsOfTheShown
<1>4. T!Shown(testimony', i) BY Zenon
<1>5. /\ index' \in -1 .. MaxStatements /\ shown' \in T!Message \cup {None} /\ moved' \in BOOLEAN
      /\ IndexIsOfTheShown'
  BY <1>1, <1>3, <1>4, ShownIsAtIndex
<1> QED BY <1>1, <1>2, <1>5 DEF MessageInv, T!TypeOK

\* Where something was moved, or nothing is shown, any testimony will do.
LEMMA MovedKeeps ==
  ASSUME MessageInv, testimony' \in Seq(T!Message), Len(testimony') <= MaxStatements,
         \/ /\ index' = -1 /\ shown' = None /\ moved' = FALSE
         \/ /\ UNCHANGED << index, shown >> /\ moved' = TRUE,
         title' \in BOOLEAN, recording' \in BOOLEAN, last' = last,
         overheard' \subseteq 1 .. MaxMessages, sent' \in 0 .. MaxMessages
  PROVE  MessageInv'
<1>1. index' \in -1 .. MaxStatements
  BY MessageSettings DEF MessageInv, T!TypeOK, MessageBounds
<1>2. IndexIsOfTheShown' BY DEF IndexIsOfTheShown, T!IndexIsOfTheShown
<1> QED BY <1>1, <1>2 DEF MessageInv, T!TypeOK

\* A removal before the statement that is shown moves it, one of itself leaves no index, and
\* one after it leaves it where it is.
LEMMA RemoveKeeps ==
  ASSUME MessageInv, NEW c \in Client, NEW i \in T!Number, T!TestimonyRemove(c, i)
  PROVE  MessageInv'
<1> DEFINE k == T!At(testimony, i)
           s == T!Popped(testimony, k)
<1>1. /\ testimony \in Seq(T!Message) /\ Len(testimony) <= MaxStatements
      /\ index \in -1 .. MaxStatements /\ MaxStatements \in Nat /\ moved \in BOOLEAN
      /\ Len(testimony) \in Nat /\ i \in Int /\ i >= -1
  BY MessageSettings, LenProperties DEF MessageInv, T!TypeOK, MessageBounds, T!Number
<1>2. k \in 1 .. Len(testimony) /\ (i >= 0 => k = i + 1) /\ (i = -1 => k = Len(testimony))
  <2>1. k # 0 BY DEF T!TestimonyRemove
  <2> QED BY <1>1, <2>1, AtStatement DEF T!At
<1>3. /\ testimony' = s /\ index' = T!AfterRemoval(i) /\ moved' = (moved \/ i < index)
      /\ UNCHANGED << last, title, recording, sent, overheard, shown >>
  BY DEF T!TestimonyRemove
<1> HIDE DEF k
<1>4. /\ s \in Seq(T!Message) /\ Len(s) = Len(testimony) - 1
      /\ \A p \in 1 .. k - 1 : s[p] = testimony[p]
  BY <1>1, <1>2, PoppedStatements
<1> HIDE DEF s
<1>5. index' \in -1 .. MaxStatements /\ moved' \in BOOLEAN BY <1>1, <1>3 DEF T!AfterRemoval
<1>6. IndexIsOfTheShown'
  <2> SUFFICES ASSUME index' # -1, ~moved' PROVE index' < Len(s) /\ s[index' + 1] = shown
    BY <1>3 DEF IndexIsOfTheShown, T!IndexIsOfTheShown
  <2>1. index' = index /\ index # i BY <1>3 DEF T!AfterRemoval
  <2>2. ~moved /\ ~(i < index) BY <1>3
  <2>3. index < Len(testimony) /\ testimony[index + 1] = shown
    BY <2>1, <2>2 DEF MessageInv, IndexIsOfTheShown, T!IndexIsOfTheShown
  <2>4. index \in Nat /\ i > index BY <1>1, <2>1, <2>2
  <2>5. index + 1 \in 1 .. k - 1 /\ index < Len(testimony) - 1 BY <1>1, <1>2, <2>4
  <2> QED BY <1>4, <2>1, <2>3, <2>5
<1>7. Len(s) <= MaxStatements BY <1>1, <1>4
<1> QED BY <1>3, <1>4, <1>5, <1>6, <1>7 DEF MessageInv, T!TypeOK

\* A move takes a statement out and puts it elsewhere.
LEMMA InsertKeeps ==
  ASSUME MessageInv, NEW c \in Client, NEW i \in T!Number, NEW j \in Nat, T!TestimonyInsert(c, i, j)
  PROVE  MessageInv'
<1> DEFINE k == T!At(testimony, i)
           s == T!Popped(testimony, k)
<1>1. /\ testimony \in Seq(T!Message) /\ Len(testimony) <= MaxStatements
      /\ Len(testimony) \in Nat /\ i \in Int /\ i >= -1 /\ MaxStatements \in Nat
  BY MessageSettings, LenProperties DEF MessageInv, T!TypeOK, MessageBounds, T!Number
<1>2. k \in 1 .. Len(testimony)
  <2>1. k # 0 BY DEF T!TestimonyInsert
  <2> QED BY <1>1, <2>1, AtStatement
<1>3. /\ testimony' = T!Inserted(s, j, testimony[k]) /\ moved' = TRUE
      /\ UNCHANGED << last, index, title, recording, sent, overheard, shown >>
  BY DEF T!TestimonyInsert
<1> HIDE DEF k
<1>4. s \in Seq(T!Message) /\ Len(s) = Len(testimony) - 1 /\ testimony[k] \in T!Message
  BY <1>1, <1>2, PoppedStatements, ElementOfSeq
<1> HIDE DEF s
<1>5. testimony' \in Seq(T!Message) /\ Len(testimony') = Len(testimony)
  <2> DEFINE x == testimony[k]
  <2>1. x \in T!Message BY <1>4
  <2> HIDE DEF x
  <2>2. T!Inserted(s, j, x) \in Seq(T!Message) /\ Len(T!Inserted(s, j, x)) = Len(s) + 1
    BY <1>4, <2>1, InsertedStatements
  <2>3. testimony' = T!Inserted(s, j, x) BY <1>3 DEF x
  <2> HIDE DEF s
  <2> QED BY <1>1, <1>4, <2>2, <2>3
<1>6. /\ title \in BOOLEAN /\ recording \in BOOLEAN /\ overheard \subseteq 1 .. MaxMessages
      /\ sent \in 0 .. MaxMessages
  BY DEF MessageInv, T!TypeOK
<1> QED BY <1>1, <1>3, <1>5, <1>6, MovedKeeps

\* The other commands that change statements mark them as moved.
LEMMA AmendKeeps ==
  ASSUME MessageInv, NEW c \in Client, NEW i \in T!Number, T!TestimonyAmend(c, i, T!Public("plain"))
  PROVE  MessageInv'
<1> DEFINE k == T!At(testimony, i)
           m == T!Public("plain")
<1>1. /\ testimony \in Seq(T!Message) /\ Len(testimony) <= MaxStatements
      /\ Len(testimony) \in Nat /\ i \in Int /\ i >= -1
  BY LenProperties, MessageSettings DEF MessageInv, T!TypeOK, T!Number, MessageBounds
<1>2. k \in 1 .. Len(testimony)
  <2>1. k # 0 BY DEF T!TestimonyAmend
  <2> QED BY <1>1, <2>1, AtStatement
<1>3. m \in T!Message /\ sent' \in 0 .. MaxMessages
  BY PublicIsMessage DEF T!TestimonyAmend, T!Kind
<1>4. /\ testimony' = [testimony EXCEPT ![k] = m] /\ moved' = TRUE
      /\ UNCHANGED << last, index, title, recording, overheard, shown >>
  BY DEF T!TestimonyAmend
<1> HIDE DEF k, m
<1>5. testimony' \in Seq(T!Message) /\ Len(testimony') = Len(testimony)
  BY <1>1, <1>2, <1>3, <1>4, ExceptSeq
<1>6. title \in BOOLEAN /\ recording \in BOOLEAN /\ overheard \subseteq 1 .. MaxMessages
  BY DEF MessageInv, T!TypeOK
<1> QED BY <1>1, <1>3, <1>4, <1>5, <1>6, MovedKeeps

LEMMA SwapKeeps ==
  ASSUME MessageInv, NEW c \in Client, NEW i \in T!Number, NEW j \in Nat, T!TestimonySwap(c, i, j)
  PROVE  MessageInv'
<1> DEFINE k == T!At(testimony, i)
           l == T!At(testimony, j)
           x == testimony[l]
           y == testimony[k]
           s == [testimony EXCEPT ![k] = x]
<1>1. /\ testimony \in Seq(T!Message) /\ Len(testimony) <= MaxStatements
      /\ Len(testimony) \in Nat /\ i \in Int /\ i >= -1
  BY LenProperties, MessageSettings DEF MessageInv, T!TypeOK, T!Number, MessageBounds
<1>2. k \in 1 .. Len(testimony) /\ l \in 1 .. Len(testimony)
  <2>1. k # 0 /\ l # 0 BY DEF T!TestimonySwap
  <2> QED BY <1>1, <2>1, AtStatement, SMTT(30)
<1>3. /\ testimony' = [s EXCEPT ![l] = y] /\ moved' = TRUE
      /\ UNCHANGED << last, index, title, recording, sent, overheard, shown >>
  BY Zenon DEF T!TestimonySwap
<1> HIDE DEF k, l
<1>4. x \in T!Message /\ y \in T!Message BY <1>1, <1>2, ElementOfSeq
<1> HIDE DEF x, y
<1>5. s \in Seq(T!Message) /\ Len(s) = Len(testimony) BY <1>1, <1>2, <1>4, ExceptSeq
<1> HIDE DEF s
<1>6. testimony' \in Seq(T!Message) /\ Len(testimony') = Len(testimony)
  BY <1>1, <1>2, <1>3, <1>4, <1>5, ExceptSeq
<1>7. /\ title \in BOOLEAN /\ recording \in BOOLEAN /\ overheard \subseteq 1 .. MaxMessages
      /\ sent \in 0 .. MaxMessages
  BY DEF MessageInv, T!TypeOK
<1> QED BY <1>1, <1>3, <1>6, <1>7, MovedKeeps

\* The marks that move through a testimony name the one before or after the index, over its
\* ends, or any number.
LEMMA NavigateKeeps ==
  ASSUME MessageInv, NEW c \in Client, NEW i \in T!Number, T!Navigate(c, i)
  PROVE  MessageInv'
<1>1. i \in Int /\ i >= -1 BY MessageSettings DEF T!Number, MessageBounds
<1>2. /\ T!Shown(testimony, i) /\ overheard' = overheard \cup T!ShownTo(testimony, i)
      /\ UNCHANGED << last, testimony, title, recording, sent >>
  BY Zenon DEF T!Navigate
<1> QED BY <1>1, <1>2, AskedKeeps

LEMMA MoveKeeps ==
  ASSUME MessageInv, NEW c \in Client, NEW i \in T!Number, T!TestimonyMove(c, i)
  PROVE  MessageInv'
<1>1. i \in Int /\ i >= -1 BY MessageSettings DEF T!Number, MessageBounds
<1>2. /\ T!Shown(testimony, i) /\ overheard' = overheard \cup T!ShownTo(testimony, i)
      /\ UNCHANGED << last, testimony, title, recording, sent >>
  BY Zenon DEF T!TestimonyMove
<1> QED BY <1>1, <1>2, AskedKeeps

\* Signs and commands that start, end or clear a testimony
LEMMA SignKeeps ==
  ASSUME MessageInv, NEW c \in Client,
         \/ T!WitnessTestimony(c) \/ T!CrossExamination(c) \/ T!TestimonyStart(c)
         \/ T!TestimonyContinue(c) \/ T!TestimonyClear(c)
  PROVE  MessageInv'
<1>1. /\ testimony \in Seq(T!Message) /\ Len(testimony) <= MaxStatements
      /\ title \in BOOLEAN /\ recording \in BOOLEAN /\ overheard \subseteq 1 .. MaxMessages
      /\ sent \in 0 .. MaxMessages /\ last \in T!Message \cup {None}
  BY DEF MessageInv, T!TypeOK
<1>2. << >> \in Seq(T!Message) /\ Len(<< >>) = 0 /\ 0 <= MaxStatements
  BY MessageSettings, EmptySeq DEF MessageBounds
<1>3. CASE T!WitnessTestimony(c)
  <2>1. T!StartsAnew /\ overheard' = overheard \cup T!Overheard(Client, last) /\ UNCHANGED << last, sent >>
        /\ last # None
    BY <1>3, Zenon DEF T!WitnessTestimony
  <2>2. T!Overheard(Client, last) \subseteq 1 .. MaxMessages BY <1>1, <2>1, OverheardIsSent
  <2>3. testimony' \in Seq(T!Message) /\ Len(testimony') <= MaxStatements
    BY <1>2, <2>1 DEF T!StartsAnew
  <2>4. /\ index' = -1 /\ shown' = None /\ moved' = FALSE
        /\ title' \in BOOLEAN /\ recording' \in BOOLEAN
    BY <2>1 DEF T!StartsAnew
  <2>5. last' = last /\ overheard' \subseteq 1 .. MaxMessages /\ sent' \in 0 .. MaxMessages
    BY <1>1, <2>1, <2>2
  <2> QED BY <2>3, <2>4, <2>5, MovedKeeps
<1>4. CASE T!CrossExamination(c)
  BY <1>1, <1>4, TestimonyStays DEF T!CrossExamination
<1>5. CASE T!TestimonyStart(c)
  <2>1. T!StartsAnew /\ UNCHANGED << last, sent, overheard >> BY <1>5, Zenon DEF T!TestimonyStart
  <2>2. testimony' \in Seq(T!Message) /\ Len(testimony') <= MaxStatements
    BY <1>2, <2>1 DEF T!StartsAnew
  <2>3. /\ index' = -1 /\ shown' = None /\ moved' = FALSE
        /\ title' \in BOOLEAN /\ recording' \in BOOLEAN
    BY <2>1 DEF T!StartsAnew
  <2>4. /\ last' = last /\ overheard' \subseteq 1 .. MaxMessages /\ sent' \in 0 .. MaxMessages
    BY <1>1, <2>1
  <2> QED BY <2>2, <2>3, <2>4, MovedKeeps
<1>6. CASE T!TestimonyContinue(c)
  BY <1>1, <1>6, TestimonyStays DEF T!TestimonyContinue
<1>7. CASE T!TestimonyClear(c)
  <2>1. /\ testimony' = << >> /\ title' = FALSE /\ moved' = TRUE
        /\ UNCHANGED << last, index, recording, sent, overheard, shown >>
    BY <1>7, Zenon DEF T!TestimonyClear
  <2>2. testimony' \in Seq(T!Message) /\ Len(testimony') <= MaxStatements BY <1>2, <2>1
  <2> QED BY <1>1, <2>1, <2>2, MovedKeeps
<1> QED BY <1>3, <1>4, <1>5, <1>6, <1>7

LEMMA MessageStep == ASSUME MessageInv, [T!Next]_tvars PROVE MessageInv'
<1>1. CASE UNCHANGED tvars
  <2>1. /\ last' \in T!Message \cup {None} /\ recording' \in BOOLEAN
        /\ overheard' \subseteq 1 .. MaxMessages /\ sent' \in 0 .. MaxMessages
    BY <1>1 DEF tvars, MessageInv, T!TypeOK
  <2> QED BY <1>1, <2>1, TestimonyStays DEF tvars
<1>2. ASSUME NEW c \in Client, NEW k \in T!Kind, T!Say(c, k) PROVE MessageInv'
  <2>1. T!Sends /\ T!SendIC(T!Public(k)) BY <1>2 DEF T!Say, T!Speaks
  <2> QED BY <2>1, PublicIsMessage, SendKeeps
<1>3. ASSUME NEW c \in Client, NEW k \in T!Kind, NEW to \in SUBSET Client, NEW t \in BOOLEAN,
             T!Whisper(c, k, to, t)
      PROVE  MessageInv'
  <2> DEFINE m == [id |-> sent + 1, kind |-> k, secret |-> TRUE, tagged |-> t,
                   for |-> T!ForWhom(c, to)]
  <2>1. T!Sends /\ T!SendIC(m) BY <1>3 DEF T!Whisper, T!Speaks
  <2>2. m \in T!Message /\ sent' \in 0 .. MaxMessages BY <2>1, WhisperIsMessage
  <2> HIDE DEF m
  <2> QED BY <2>1, <2>2, SendKeeps
<1>4. ASSUME NEW c \in Client, T!Broadcast(c) PROVE MessageInv'
  <2>1. T!Sends /\ T!Dropped BY <1>4 DEF T!Broadcast, T!Speaks
  <2>2. sent' \in 0 .. MaxMessages BY <2>1, PublicIsMessage DEF T!Kind
  <2>3. /\ last \in T!Message \cup {None} /\ recording \in BOOLEAN
        /\ overheard \subseteq 1 .. MaxMessages
    BY DEF MessageInv, T!TypeOK
  <2> QED BY <2>1, <2>2, <2>3, TestimonyStays DEF T!Dropped, T!Testimony
<1>5. ASSUME NEW c \in Client, NEW i \in T!Number, NEW j \in i + 1 .. MaxStatements - 1,
             T!TestimonySwap(c, i, j)
      PROVE  MessageInv'
  <2>1. j \in Nat BY <1>5, MessageSettings DEF T!Number, MessageBounds
  <2> QED BY <1>5, <2>1, SwapKeeps
<1>6. ASSUME NEW c \in Client, NEW i \in T!Number, NEW j \in T!Number \ {-1},
             T!TestimonyInsert(c, i, j)
      PROVE  MessageInv'
  <2>1. j \in Nat BY <1>6, MessageSettings DEF T!Number, MessageBounds
  <2> QED BY <1>6, <2>1, InsertKeeps
<1>7. CASE T!Next
  <2>1. PICK c \in Client :
          \/ \E k \in T!Kind : T!Say(c, k)
          \/ \E k \in T!Kind, to \in SUBSET Client, t \in BOOLEAN : T!Whisper(c, k, to, t)
          \/ T!Broadcast(c) \/ T!WitnessTestimony(c) \/ T!CrossExamination(c)
          \/ T!TestimonyStart(c) \/ T!TestimonyContinue(c) \/ T!TestimonyClear(c)
          \/ \E i \in T!Number :
               \/ T!Navigate(c, i) \/ T!TestimonyMove(c, i) \/ T!TestimonyRemove(c, i)
               \/ T!TestimonyAmend(c, i, T!Public("plain"))
               \/ \E j \in i + 1 .. MaxStatements - 1 : T!TestimonySwap(c, i, j)
               \/ \E j \in T!Number \ {-1} : T!TestimonyInsert(c, i, j)
    BY <1>7, Zenon DEF T!Next
  <2>2. CASE \E i \in T!Number :
               \/ T!Navigate(c, i) \/ T!TestimonyMove(c, i) \/ T!TestimonyRemove(c, i)
               \/ T!TestimonyAmend(c, i, T!Public("plain"))
               \/ \E j \in i + 1 .. MaxStatements - 1 : T!TestimonySwap(c, i, j)
               \/ \E j \in T!Number \ {-1} : T!TestimonyInsert(c, i, j)
    BY <1>5, <1>6, <2>2, NavigateKeeps, MoveKeeps, RemoveKeeps, AmendKeeps, Zenon
  <2> QED BY <1>2, <1>3, <1>4, <2>1, <2>2, SignKeeps, Zenon
<1> QED BY <1>1, <1>7

LEMMA MessageStart == Init => MessageInv
<1> SUFFICES ASSUME T!Init PROVE MessageInv BY StartOfParts
<1>1. << >> \in Seq(T!Message) /\ Len(<< >>) = 0 BY EmptySeq
<1>2. /\ last = None /\ testimony = << >> /\ index = -1 /\ shown = None /\ sent = 0
      /\ title = FALSE /\ recording = FALSE /\ overheard = {} /\ moved = FALSE
  BY DEF T!Init
<1>3. index \in -1 .. MaxStatements /\ sent \in 0 .. MaxMessages /\ Len(testimony) <= MaxStatements
  BY <1>1, <1>2, MessageSettings DEF MessageBounds
<1>4. IndexIsOfTheShown BY <1>2 DEF IndexIsOfTheShown, T!IndexIsOfTheShown
<1> QED BY <1>1, <1>2, <1>3, <1>4 DEF MessageInv, T!TypeOK

\* The variables of a testimony keep their types.
THEOREM MessageTypes == Spec => []T!TypeOK
<1>1. Init => MessageInv BY MessageStart
<1>2. MessageInv /\ [Next]_vars => MessageInv' BY StepOfParts, MessageStep
<1>3. MessageInv => T!TypeOK BY DEF MessageInv
<1> QED BY <1>1, <1>2, <1>3, PTL DEF Spec

\* The index of a testimony is of the statement that everybody saw last, unless statements
\* were moved since: where "++" adds and "**" amends is where everybody thinks it is.
THEOREM IndexAlwaysOfTheShown == Spec => []IndexIsOfTheShown
<1>1. Init => MessageInv BY MessageStart
<1>2. MessageInv /\ [Next]_vars => MessageInv' BY StepOfParts, MessageStep
<1>3. MessageInv => IndexIsOfTheShown BY DEF MessageInv
<1> QED BY <1>1, <1>2, <1>3, PTL DEF Spec

=============================================================================
