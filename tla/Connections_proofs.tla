------------------------- MODULE Connections_proofs -------------------------
(***************************************************************************)
(* Safety of Connections, for any connections, addresses and limits.       *)
(***************************************************************************)
EXTENDS Connections, FiniteSetTheorems, WellFoundedInduction, TLAPS

\* The least free id is a free id.
LEMMA LeastId ==
  ASSUME cur_id # {}, cur_id \subseteq Ids
  PROVE  Min(cur_id) \in cur_id
<1>1. cur_id \subseteq Nat
  BY ConnectionAssumption DEF Ids
<1>2. PICK n \in cur_id : \A m \in cur_id : ~ (<<m, n>> \in OpToRel(<, Nat))
  BY <1>1, WFMin, NatLessThanWellFounded
<1>3. ASSUME NEW m \in cur_id PROVE n <= m
  <2>1. <<m, n>> \in Nat \X Nat /\ m \in Nat /\ n \in Nat
    BY <1>1
  <2>2. ~ (<<m, n>>[1] < <<m, n>>[2])
    BY <1>2, <2>1, Zenon DEF OpToRel
  <2>. QED BY <2>1, <2>2
<1>. QED BY <1>3 DEF Min

-----------------------------------------------------------------------------
(***************************************************************************)
(* Which connections have a client                                         *)
(***************************************************************************)

\* TypeOK without the bounds of the counters
Places ==
  /\ open \subseteq Conn /\ closing \subseteq Conn /\ open \cap closing = {}
  /\ open \subseteq clients /\ clients \subseteq Conn
  /\ checked \subseteq greeted /\ greeted \subseteq clients
  /\ banned \subseteq greeted

LEMMA PlacesInit == Init => Places
BY DEF Init, Places

LEMMA PlacesStep == Places /\ [Next]_vars => Places'
<1>. SUFFICES ASSUME Places, [Next]_vars PROVE Places'
  OBVIOUS
<1>. USE DEF Places
<1>1. ASSUME NEW c \in Conn, Refuse(c) PROVE Places'
  BY <1>1 DEF Refuse, Connected
<1>2. ASSUME NEW c \in Conn, Connect(c) PROVE Places'
  BY <1>2 DEF Connect, Connected
<1>3. ASSUME NEW c \in Conn, Check(c) \/ Vanish(c) PROVE Places'
  BY <1>3 DEF Check, Vanish
<1>4. ASSUME NEW c \in Conn, Drop(c) \/ PingTimeout(c) PROVE Places'
  <2>. QED BY <1>4 DEF Drop, PingTimeout, Disconnect
<1>5. ASSUME NEW c \in Conn, Lost(c) \/ LostFails(c) PROVE Places'
  BY <1>5 DEF Lost, RemoveClient, LostFails
<1>6. ASSUME NEW c \in Conn, NEW ban \in BOOLEAN, Hi(c, ban) PROVE Places'
  BY <1>6 DEF Hi, Sends, Disconnect
<1>7. CASE Tick \/ \E i \in Ipid : Forget(i)
  BY <1>7 DEF Tick, Forget
<1>8. CASE UNCHANGED vars
  BY <1>8 DEF vars
<1>. QED BY <1>1, <1>2, <1>3, <1>4, <1>5, <1>6, <1>7, <1>8 DEF Next

LEMMA PlacesAlways == Spec => []Places
BY PlacesInit, PlacesStep, PTL DEF Spec

\* A connection for which a ban was found is never let through.
THEOREM BannedAlwaysStayOut == Spec => []BannedStayOut
<1>1. Init => BannedStayOut
  BY DEF Init, BannedStayOut
<1>2. Places /\ BannedStayOut /\ [Next]_vars => BannedStayOut'
  <2>. SUFFICES ASSUME Places, BannedStayOut, [Next]_vars PROVE BannedStayOut'
    OBVIOUS
  <2>1. ASSUME NEW c \in Conn, NEW ban \in BOOLEAN, Hi(c, ban) PROVE BannedStayOut'
    BY <2>1 DEF Hi, Newcomer, Places, BannedStayOut
  <2>2. ASSUME NEW c \in Conn, Lost(c) PROVE BannedStayOut'
    BY <2>2 DEF Lost, BannedStayOut
  <2>3. CASE UNCHANGED << banned, checked >>
    BY <2>3 DEF BannedStayOut
  <2>. QED BY <2>1, <2>2, <2>3
           DEF Next, vars, Refuse, Connect, Check, Drop, Vanish, PingTimeout, LostFails, Tick, Forget
<1>. QED BY <1>1, <1>2, PlacesAlways, PTL DEF Spec

-----------------------------------------------------------------------------
(***************************************************************************)
(* Ids                                                                     *)
(***************************************************************************)

IdInv == id \in [Conn -> Ids] /\ IdsAreOwned

LEMMA IdInit == Init => IdInv
<1>1. 0 \in Ids
  BY ConnectionAssumption DEF Ids
<1>. QED BY <1>1 DEF Init, IdInv, IdsAreOwned

LEMMA IdStep ==
  ASSUME Places, IdInv, [Next]_vars
  PROVE  IdInv'
<1>. USE DEF Places, IdInv, IdsAreOwned
<1>1. ASSUME NEW c \in Conn, Connect(c) PROVE IdInv'
  <2>1. c \notin clients /\ Min(cur_id) \in cur_id /\ Min(cur_id) \in Ids
    BY <1>1, LeastId DEF Connect, Connected
  <2>2. /\ clients' = clients \cup {c} /\ cur_id' = cur_id \ {Min(cur_id)}
        /\ id' = [id EXCEPT ![c] = Min(cur_id)]
    BY <1>1 DEF Connect, IdsPopped
  <2>3. id'[c] = Min(cur_id) /\ \A d \in clients : id'[d] = id[d] /\ id[d] # Min(cur_id)
    BY <2>1, <2>2
  <2>4. \A d, e \in clients' : id'[d] = id'[e] => d = e
    BY <2>2, <2>3
  <2>5. cur_id' = Ids \ {id'[d] : d \in clients'}
    BY <2>2, <2>3, SMTT(30)
  <2>6. id' \in [Conn -> Ids]
    BY <2>1, <2>2
  <2>. QED BY <2>4, <2>5, <2>6
<1>2. ASSUME NEW c \in Conn, Lost(c) PROVE IdInv'
  <2>1. CASE c \in clients
    <3>1. /\ clients' = clients \ {c} /\ cur_id' = cur_id \cup {id[c]}
          /\ id' = [id EXCEPT ![c] = 0]
      BY <1>2, <2>1 DEF Lost, RemoveClient, IdsAfter
    <3>2. \A d \in clients' : d \in clients /\ id'[d] = id[d] /\ id[d] # id[c]
      BY <2>1, <3>1
    <3>3. cur_id' = Ids \ {id'[d] : d \in clients'}
      BY <2>1, <3>1, <3>2
    <3>4. 0 \in Ids
      BY ConnectionAssumption DEF Ids
    <3>. QED BY <3>1, <3>2, <3>3, <3>4
  <2>2. CASE c \notin clients
    BY <1>2, <2>2 DEF Lost
  <2>. QED BY <2>1, <2>2
<1>3. CASE UNCHANGED << clients, id, cur_id >>
  BY <1>3
<1>. HIDE DEF Places, IdInv, IdsAreOwned
<1>. QED BY <1>1, <1>2, <1>3
         DEF Next, vars, Refuse, Check, Hi, Drop, Vanish, PingTimeout, LostFails, Tick, Forget

\* An id belongs to one client, or is free.
THEOREM IdsAlwaysOwned == Spec => []IdsAreOwned
<1>1. IdInv => IdsAreOwned
  BY DEF IdInv
<1>. QED BY <1>1, IdInit, IdStep, PlacesAlways, PTL DEF Spec

\* A step takes an id, gives one back, or leaves the pool alone.
LEMMA PoolStep ==
  ASSUME Places, IdInv, [Next]_vars
  PROVE  Pool!Next \/ UNCHANGED [c \in clients |-> id[c]]
<1> DEFINE held == [c \in clients |-> id[c]]
<1>. USE DEF Places, IdInv
<1>0. clients \subseteq Conn
  OBVIOUS
<1>1. ASSUME NEW c \in Conn, Connect(c)
      PROVE  \E i \in Ids : Pool!Take(c, i)
  <2>1. c \notin clients /\ Min(cur_id) \in cur_id /\ Min(cur_id) \in Ids
    BY <1>1, LeastId DEF Connect, IdsAreOwned
  <2>2. clients' = clients \cup {c} /\ id' = [id EXCEPT ![c] = Min(cur_id)]
    BY <1>1 DEF Connect, Connected
  <2>3. Min(cur_id) \notin {held[h] : h \in DOMAIN held}
    BY <2>1 DEF IdsAreOwned
  <2>4. held' = [g \in DOMAIN held \cup {c} |-> IF g = c THEN Min(cur_id) ELSE held[g]]
    BY <1>0, <2>1, <2>2
  <2>. QED BY <2>1, <2>3, <2>4 DEF Pool!Take, Pool!Taken
<1>2. ASSUME NEW c \in Conn, Lost(c), c \in clients
      PROVE  Pool!Give(c)
  <2>1. clients' = clients \ {c} /\ id' = [id EXCEPT ![c] = 0]
    BY <1>2 DEF Lost, RemoveClient
  <2>2. held' = [g \in DOMAIN held \ {c} |-> held[g]]
    BY <1>0, <2>1
  <2>. QED BY <1>2, <2>2 DEF Pool!Give
<1>3. ASSUME NEW c \in Conn, Lost(c), c \notin clients
      PROVE  UNCHANGED << clients, id >>
  BY <1>3 DEF Lost
<1>4. CASE UNCHANGED << clients, id >>
  BY <1>4
<1>. HIDE DEF Places, IdInv, held
<1>. QED BY <1>1, <1>2, <1>3, <1>4
         DEF Next, vars, Refuse, Check, Hi, Drop, Vanish, PingTimeout, LostFails, Tick, Forget,
             Pool!Next

\* The heap of ids implements the pool.
THEOREM IdsAlwaysPooled == Spec => IdsArePooled
<1>1. Init => Pool!Init
  BY DEF Init, Pool!Init
<1>2. Places /\ IdInv /\ [Next]_vars => [Pool!Next]_([c \in clients |-> id[c]])
  BY PoolStep
<1>. QED BY <1>1, <1>2, IdInit, IdStep, PlacesAlways, PTL DEF Spec, IdsArePooled, Pool!Spec

-----------------------------------------------------------------------------
(***************************************************************************)
(* Timeouts                                                                *)
(***************************************************************************)

TimeInv ==
  /\ quiet \in [Conn -> Int] /\ timers \in [Conn -> SUBSET Int]
  /\ TimeoutsAreExact

LEMMA TimeStep ==
  ASSUME Places, TimeInv, [Next]_vars
  PROVE  TimeInv'
<1>. USE ConnectionAssumption DEF Places, TimeInv, TimeoutsAreExact
<1>1. ASSUME NEW c \in Conn, Connect(c) PROVE TimeInv'
  <2>1. /\ quiet' = [quiet EXCEPT ![c] = 0] /\ clients' = clients \cup {c}
        /\ \/ open' = open /\ timers' = timers
           \/ open' = open \cup {c} /\ timers' = [timers EXCEPT ![c] = {Timeout}]
        /\ c \notin open
    BY <1>1 DEF Connect, Connected
  <2>. QED BY <2>1
<1>2. ASSUME NEW c \in Conn, Check(c) PROVE TimeInv'
  BY <1>2 DEF Check, ReArmed, Sends
<1>8. ASSUME NEW c \in Conn, LostFails(c) PROVE TimeInv'
  BY <1>8 DEF LostFails
<1>3. ASSUME NEW c \in Conn, Drop(c) \/ PingTimeout(c) PROVE TimeInv'
  <2>1. CASE Drop(c)
    BY <2>1 DEF Drop, Disconnect
  <2>2. CASE PingTimeout(c)
    <3>1. open' = open \ {c} /\ UNCHANGED << clients, quiet >>
      BY <2>2 DEF PingTimeout, Connected, Disconnect
    <3>2. timers' = [timers EXCEPT ![c] = @ \ {0}]
      BY <2>2 DEF PingTimeout
    <3>. QED BY <3>1, <3>2
  <2>. QED BY <1>3, <2>1, <2>2
<1>4. ASSUME NEW c \in Conn, Lost(c) PROVE TimeInv'
  <2>1. /\ open' = open \ {c} /\ timers' = [timers EXCEPT ![c] = {}]
        /\ quiet' = [quiet EXCEPT ![c] = 0] /\ clients \subseteq clients' \cup {c}
    BY <1>4 DEF Lost, TimersAfter, RemoveClient
  <2>. QED BY <2>1
<1>5. CASE Tick
  <2>1. /\ UNCHANGED << open, clients >>
        /\ timers' = [c \in Conn |-> {t - 1 : t \in timers[c]}]
        /\ quiet' = [c \in Conn |-> IF timers[c] = {} THEN quiet[c] ELSE quiet[c] + 1]
    BY <1>5 DEF Tick
  <2>2. ASSUME NEW c \in open PROVE timers'[c] = {Timeout - quiet'[c]}
    <3>1. timers[c] = {Timeout - quiet[c]} /\ c \in Conn
      OBVIOUS
    <3>2. timers'[c] = {Timeout - quiet[c] - 1}
      BY <2>1, <3>1
    <3>3. quiet'[c] = quiet[c] + 1
      BY <2>1, <3>1
    <3>. QED BY <3>1, <3>2, <3>3
  <2>3. ASSUME NEW c \in Conn \ clients PROVE timers'[c] = {}
    BY <2>1
  <2>4. quiet' \in [Conn -> Int] /\ timers' \in [Conn -> SUBSET Int]
    BY <2>1
  <2>. QED BY <2>1, <2>2, <2>3, <2>4
<1>6. ASSUME NEW c \in Conn, NEW ban \in BOOLEAN, Hi(c, ban) PROVE TimeInv'
  BY <1>6 DEF Hi, Disconnect
<1>7. CASE UNCHANGED << open, clients, timers, quiet >>
  BY <1>7
<1>. HIDE DEF Places, TimeInv, TimeoutsAreExact
<1>. QED BY <1>1, <1>2, <1>3, <1>4, <1>5, <1>6, <1>7, <1>8
         DEF Next, vars, Refuse, Vanish, Forget

\* A connection that was let in has one timeout, due exactly when it will have
\* been quiet for too long; one that was lost has none.
THEOREM TimeoutsAlwaysExact == Spec => []TimeoutsAreExact
<1>1. Init => TimeInv
  BY DEF Init, TimeInv, TimeoutsAreExact
<1>2. TimeInv => TimeoutsAreExact
  BY DEF TimeInv
<1>. QED BY <1>1, <1>2, TimeStep, PlacesAlways, PTL DEF Spec

-----------------------------------------------------------------------------
(***************************************************************************)
(* Counters                                                                *)
(***************************************************************************)

\* No counter says more than the number of clients of its address.
CountersAreLow == \A c \in clients : clientscon[c] <= Cardinality(clients \cap Same(c))

CountInv ==
  /\ clientscon \in [Conn -> Int] /\ IsFiniteSet(clients)
  /\ CountersAreLow

\* The clients of an address, as they come and go.
LEMMA SameAddress ==
  ASSUME Places, NEW c \in Conn, NEW d \in Conn
  PROVE  /\ d \in Same(c) <=> IpidOf[d] = IpidOf[c]
         /\ d \in Same(c) => (clients \cup {c}) \cap Same(d) = (clients \cap Same(d)) \cup {c}
         /\ d \notin Same(c) => (clients \cup {c}) \cap Same(d) = clients \cap Same(d)
         /\ d \in Same(c) => (clients \ {c}) \cap Same(d) = (clients \cap Same(d)) \ {c}
         /\ d \notin Same(c) => (clients \ {c}) \cap Same(d) = clients \cap Same(d)
BY DEF Same

LEMMA CountStep ==
  ASSUME Places, CountInv, [Next]_vars
  PROVE  CountInv'
<1>0. \A d : IsFiniteSet(clients \cap Same(d)) /\ Cardinality(clients \cap Same(d)) \in Nat
  BY FS_Intersection, FS_CardinalityType DEF CountInv
<1>1. ASSUME NEW c \in Conn, Connect(c) PROVE CountInv'
  <2>1. c \notin clients /\ clients' = clients \cup {c} /\ clientscon' = Counted(c)
    BY <1>1 DEF Connect, Connected, Places
  <2>2. IsFiniteSet(clients') /\ clients \subseteq Conn
    BY <2>1, FS_AddElement DEF CountInv, Places
  <2>3. clientscon' \in [Conn -> Int]
    BY <2>1 DEF CountInv, Counted
  <2>4. ASSUME NEW d \in clients', d \in Same(c)
        PROVE  clientscon'[d] <= Cardinality(clients' \cap Same(d))
    <3>1. clients' \cap Same(d) = (clients \cap Same(d)) \cup {c}
      BY <2>1, <2>2, <2>4, SameAddress
    <3>2. Cardinality(clients' \cap Same(d)) = Cardinality(clients \cap Same(d)) + 1
      BY <1>0, <2>1, <3>1, FS_AddElement
    <3>3. clientscon'[d] = (IF d = c THEN 0 ELSE clientscon[d]) + 1
      BY <2>1, <2>2, <2>4 DEF Counted
    <3>4. CASE d = c
      BY <1>0, <3>2, <3>3, <3>4
    <3>5. CASE d # c
      <4>1. clientscon[d] <= Cardinality(clients \cap Same(d)) /\ clientscon[d] \in Int
        BY <2>1, <2>2, <3>5 DEF CountInv, CountersAreLow
      <4>. QED BY <1>0, <3>2, <3>3, <3>5, <4>1
    <3>. QED BY <3>4, <3>5
  <2>5. ASSUME NEW d \in clients', d \notin Same(c)
        PROVE  clientscon'[d] <= Cardinality(clients' \cap Same(d))
    <3>1. d \in clients /\ d \in Conn
      BY <2>1, <2>2, <2>5 DEF Same
    <3>2. clients' \cap Same(d) = clients \cap Same(d) /\ clientscon'[d] = clientscon[d]
      BY <2>1, <2>5, <3>1, SameAddress DEF Counted
    <3>. QED BY <3>1, <3>2 DEF CountInv, CountersAreLow
  <2>. QED BY <2>2, <2>3, <2>4, <2>5 DEF CountInv, CountersAreLow
<1>2. ASSUME NEW c \in Conn, Lost(c), c \in clients PROVE CountInv'
  <2>1. /\ clients' = clients \ {c} /\ clients \subseteq Conn
        /\ clientscon' = [Uncounted(c) EXCEPT ![c] = 0]
    BY <1>2 DEF Lost, RemoveClient, Places
  <2>2. IsFiniteSet(clients')
    BY <2>1, FS_RemoveElement DEF CountInv
  <2>3. Uncounted(c) \in [Conn -> Int] /\ clientscon' \in [Conn -> Int]
    BY <2>1 DEF CountInv, Uncounted
  <2>4. ASSUME NEW d \in clients'
        PROVE  clientscon'[d] <= Cardinality(clients' \cap Same(d))
    <3>1. /\ d # c /\ d \in clients /\ d \in Conn /\ clientscon[d] \in Int
          /\ clientscon[d] <= Cardinality(clients \cap Same(d))
      BY <2>1 DEF CountInv, CountersAreLow
    <3>2. clientscon'[d] = IF d \in Same(c) THEN clientscon[d] - 1 ELSE clientscon[d]
      BY <2>1, <3>1 DEF Uncounted
    <3>3. CASE d \in Same(c)
      <4>1. clients' \cap Same(d) = (clients \cap Same(d)) \ {c} /\ c \in clients \cap Same(d)
        BY <1>2, <2>1, <3>1, <3>3, SameAddress DEF Same
      <4>2. Cardinality(clients' \cap Same(d)) = Cardinality(clients \cap Same(d)) - 1
        <5>1. IsFiniteSet(clients \cap Same(d))
          BY <1>0
        <5>2. Cardinality((clients \cap Same(d)) \ {c}) = Cardinality(clients \cap Same(d)) - 1
          BY <4>1, <5>1, FS_RemoveElement, Zenon
        <5>. QED BY <4>1, <5>2
      <4>3. clientscon'[d] = clientscon[d] - 1
        BY <3>2, <3>3
      <4>4. Cardinality(clients \cap Same(d)) \in Nat
        BY <1>0
      <4>. QED BY <3>1, <4>2, <4>3, <4>4
    <3>4. CASE d \notin Same(c)
      BY <2>1, <3>1, <3>2, <3>4, SameAddress
    <3>. QED BY <3>3, <3>4
  <2>. QED BY <2>2, <2>3, <2>4 DEF CountInv, CountersAreLow
<1>3. CASE UNCHANGED << clients, clientscon >>
  BY <1>3 DEF CountInv, CountersAreLow
<1>4. ASSUME NEW c \in Conn, Lost(c), c \notin clients
      PROVE  UNCHANGED << clients, clientscon >>
  BY <1>4 DEF Lost
<1>. QED BY <1>1, <1>2, <1>3, <1>4
         DEF Next, vars, Refuse, Check, Hi, Drop, Vanish, PingTimeout, LostFails, Tick, Forget

LEMMA CountAlways == Spec => [](Places /\ CountInv)
<1>1. Init => CountInv
  BY FS_EmptySet DEF Init, CountInv, CountersAreLow
<1>. QED BY <1>1, CountStep, PlacesAlways, PTL DEF Spec

\* Who is refused for a number is one of at least that many, itself included.
LEMMA RefusalStep ==
  ASSUME Places, CountInv, [Next]_vars, NEW c \in Conn, Refused(c)
  PROVE  Cardinality((clients \cup {c}) \cap Same(c)) >= MulticlientLimit
<1>1. c \notin clients /\ c \in clients' /\ c \notin open' /\ ~TooFast(IpidOf[c])
  BY DEF Refused
<1>2. Connect(c)
  <2>1. ASSUME NEW d \in Conn, Connect(d) PROVE d = c
    BY <1>1, <2>1 DEF Connect
  <2>2. ASSUME NEW d \in Conn, Lost(d) PROVE FALSE
    BY <1>1, <2>2 DEF Lost, RemoveClient
  <2>3. CASE UNCHANGED clients
    BY <1>1, <2>3
  <2>. QED BY <2>1, <2>2, <2>3
           DEF Next, vars, Refuse, Check, Hi, Drop, Vanish, PingTimeout, LostFails, Tick, Forget
<1>3. clients' = clients \cup {c} /\ clientscon' = Counted(c) /\ TooMany(c)
  BY <1>1, <1>2, Zenon DEF Connect, Disconnect
<1>4. PICK d \in clients' \cap Same(c) : clientscon'[d] >= MulticlientLimit
  BY <1>3 DEF TooMany
<1>5. CountInv' /\ Places'
  BY CountStep, PlacesStep
<1>6. clientscon'[d] <= Cardinality(clients' \cap Same(d)) /\ clientscon'[d] \in Int
  BY <1>5 DEF CountInv, CountersAreLow, Places
<1>7. Same(d) = Same(c)
  BY DEF Same
<1>8. Cardinality(clients' \cap Same(c)) \in Nat /\ MulticlientLimit \in Nat
  BY <1>5, FS_Intersection, FS_CardinalityType, ConnectionAssumption DEF CountInv
<1>. QED BY <1>3, <1>4, <1>6, <1>7, <1>8

\* A newcomer is refused for the number of its address's clients only when with it there
\* are as many as the limit, whoever came and went before.
THEOREM NeverEarlyRefusal == Spec => NoEarlyRefusal
<1>1. ASSUME Places, CountInv, [Next]_vars
      PROVE  \A c \in Conn : Refused(c) =>
               Cardinality((clients \cup {c}) \cap Same(c)) >= MulticlientLimit
  BY <1>1, RefusalStep
<1>. QED BY <1>1, CountAlways, PTL DEF Spec, NoEarlyRefusal

=============================================================================
