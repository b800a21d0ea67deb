--------------------------------- MODULE Bans ---------------------------------
(***************************************************************************)
(* The bans of the database, the timers that lift them, and the clients    *)
(* they keep out (database.py, commands/admin.py, net_cmd_hi). The tables  *)
(* outlive a crash; the timers do not, and are made again from the dates   *)
(* at the start and every 12 hours. Reasons, names and logs are left out.  *)
(***************************************************************************)
EXTENDS Integers, FiniteSets, FiniteSetsExt

CONSTANTS
  Client,
  AddressOf, \* the ipid of each
  DeviceOf,  \* the hdid of each
  Never,     \* no unban_date ("perma")
  None,
  Durations, \* of bans
  Window,    \* the 12 hours that schedule_unbans looks ahead, and sleeps
  MaxId,     \* bound on ban_id
  MaxTime    \* bound on the clock

VARIABLES
  bans,      \* the table bans: unban_date by ban_id
  ip_bans,   \* ban_id by ipid
  hdid_bans, \* ban_id by hdid
  timers,    \* call_later(auto_unban): when, and of which ban_id
  now,
  wakes,     \* when schedule_unbans wakes
  up,        \* the server runs
  online     \* its clients, from their HI on

vars == << bans, ip_bans, hdid_bans, timers, now, wakes, up, online >>

Address == {AddressOf[c] : c \in Client}
Device == {DeviceOf[c] : c \in Client}
Id == 1 .. MaxId

TypeOK ==
  /\ DOMAIN bans \subseteq Id /\ \A i \in DOMAIN bans : bans[i] \in Int \cup {Never}
  /\ ip_bans \in [Address -> DOMAIN bans \cup {None}]
  /\ hdid_bans \in [Device -> DOMAIN bans \cup {None}]
  /\ timers \subseteq Int \X Id
  /\ now \in 0 .. MaxTime /\ wakes \in 0 .. MaxTime + Window /\ up \in BOOLEAN
  /\ online \subseteq Client

Init ==
  /\ bans = << >>
  /\ ip_bans = [a \in Address |-> None] /\ hdid_bans = [d \in Device |-> None]
  /\ timers = {} /\ now = 0 /\ wakes = Window /\ up = TRUE
  /\ online = {}

Tables == << bans, ip_bans, hdid_bans >>
Clock == << now, wakes, up >>

-----------------------------------------------------------------------------
\* Clients

At(a) == {c \in online : AddressOf[c] = a}

Gone(cs) == online' = online \ cs

\* find_ban, of an address and a device
IsBanned(c) == ip_bans[AddressOf[c]] # None \/ hdid_bans[DeviceOf[c]] # None

\* HI, after which a client is told of its ban and disconnected, or let in
Hi(c) ==
  /\ up /\ c \notin online /\ ~IsBanned(c) /\ online' = online \cup {c}
  /\ UNCHANGED << Tables, timers, Clock >>

\* kick, of an address or of everybody but the moderator
Kick(cs) == cs # {} /\ Gone(cs) /\ UNCHANGED << Tables, timers, Clock >>

-----------------------------------------------------------------------------
\* Bans

\* The rowid SQLite gives: one more than the greatest there is. The id of the newest ban,
\* once it is lifted, is given again.
Fresh == Max({0} \cup DOMAIN bans) + 1

\* _schedule_unban: a date that has passed is due at once.
Timer(i, until) == << IF until < now THEN now ELSE until, i >>

\* banhdid bans the devices at the address one by one. The first one with a ban already
\* raises, and who comes after it stays; its order is that of the clients.
DevicesBanned(a, i) ==
  \E cs \in SUBSET At(a) :
    /\ \A c, e \in cs : c # e => DeviceOf[c] # DeviceOf[e]
    /\ \A c \in cs : hdid_bans[DeviceOf[c]] = None
    /\ \/ cs = At(a)
       \/ \E c \in At(a) \ cs :
            hdid_bans[DeviceOf[c]] # None \/ \E e \in cs : DeviceOf[c] = DeviceOf[e]
    /\ hdid_bans' = [d \in Device |-> IF \E c \in cs : DeviceOf[c] = d THEN i ELSE hdid_bans[d]]
    /\ Gone(cs)

\* _do_ban: an address that has a ban raises, and the new row of bans is rolled back.
DoBan(a, i) ==
  /\ up /\ ip_bans[a] = None /\ ip_bans' = [ip_bans EXCEPT ![a] = i]
  /\ \/ Gone(At(a)) /\ UNCHANGED hdid_bans
     \/ DevicesBanned(a, i)
  /\ UNCHANGED Clock

\* Six hours, those that are asked for, or "perma".
UnbanDates == {Never} \cup {now + n : n \in Durations}

\* ban and banhdid, with a reason
Ban(a, until) ==
  /\ Fresh \in Id
  /\ bans' = [i \in DOMAIN bans \cup {Fresh} |-> IF i = Fresh THEN until ELSE bans[i]]
  /\ timers' = IF until = Never THEN timers ELSE timers \cup {Timer(Fresh, until)}
  /\ DoBan(a, Fresh)

\* ban and banhdid, with the number of a ban
BanToo(a, i) == i \in DOMAIN bans /\ DoBan(a, i) /\ UNCHANGED << bans, timers >>

\* unban of the database, which deletes what refers to the ban with it
Lifted(i) ==
  LET without(f) == [x \in DOMAIN f |-> IF f[x] = i THEN None ELSE f[x]]
  IN /\ bans' = [j \in DOMAIN bans \ {i} |-> bans[j]]
     /\ ip_bans' = without(ip_bans) /\ hdid_bans' = without(hdid_bans)

\* unban, which leaves the ban's timers
Unban(i) ==
  /\ up /\ i \in DOMAIN bans /\ Lifted(i)
  /\ UNCHANGED << timers, Clock, online >>

\* auto_unban: what has the number now is lifted.
AutoUnban(t) ==
  /\ t \in timers /\ t[1] <= now /\ timers' = timers \ {t}
  /\ Lifted(t[2]) /\ UNCHANGED << Clock, online >>

-----------------------------------------------------------------------------
\* Time

SoonNotPast == {i \in DOMAIN bans : bans[i] # Never /\ bans[i] > now /\ bans[i] < now + Window}

\* unban_date < now + 12 hours
Soon == {i \in DOMAIN bans : bans[i] # Never /\ bans[i] < now + Window}

\* schedule_unbans of the database
Scheduled == {Timer(i, bans[i]) : i \in Soon}

\* schedule_unbans of the server
Wake ==
  /\ up /\ wakes <= now
  /\ timers' = timers \cup Scheduled /\ wakes' = now + Window
  /\ UNCHANGED << Tables, now, up, online >>

\* Nothing that is due is late.
Tick ==
  /\ now < MaxTime /\ now' = now + 1
  /\ up => wakes > now /\ \A t \in timers : t[1] > now
  /\ UNCHANGED << Tables, timers, wakes, up, online >>

Crash ==
  /\ up /\ up' = FALSE /\ timers' = {} /\ Gone(online)
  /\ UNCHANGED << Tables, now, wakes >>

Start ==
  /\ ~up /\ up' = TRUE
  /\ timers' = Scheduled /\ wakes' = now + Window
  /\ UNCHANGED << Tables, now, online >>

Next ==
  \/ \E c \in Client : Hi(c) \/ Kick({c}) \/ Kick(online \ {c})
  \/ \E a \in Address :
       \/ Kick(At(a))
       \/ \E until \in UnbanDates : Ban(a, until)
       \/ \E i \in Id : BanToo(a, i)
  \/ \E i \in Id : Unban(i)
  \/ \E t \in timers : AutoUnban(t)
  \/ Wake \/ Tick \/ Crash \/ Start

Spec == Init /\ [][Next]_vars

-----------------------------------------------------------------------------
\* Properties

\* A ban whose date has passed is about to be lifted, whenever it was made, also when the
\* date passed while the server was down or lies beyond the 12 hours of every
\* schedule_unbans but the last: its timer is there and due.
DatedBansEnd ==
  up => \A i \in DOMAIN bans :
          bans[i] # Never /\ bans[i] <= now =>
            wakes <= now \/ \E t \in timers : t[1] <= now /\ t[2] = i

\* "Ban durations are 6 hours by default", or those asked for, or "perma" (/ban): a ban ends
\* before its time only when a moderator lifts it. It does not hold: the timer of a ban that
\* was lifted stays, and lifts the next ban with its number.
BansLast ==
  [][\A i \in DOMAIN bans \ DOMAIN bans' :
       \/ Unban(i)
       \/ bans[i] # Never /\ bans[i] <= now]_vars

=============================================================================
