---------------------------- MODULE Connections ----------------------------
(***************************************************************************)
(* Connections and the Client objects made for them: AOProtocol (and its   *)
(* websocket variant), TsuServer3.new_client / remove_client, and the ids, *)
(* counters and rate limit of ClientManager.                               *)
(*                                                                         *)
(* transport.close() only asks for the end of a connection: connection_lost *)
(* comes later, and until then packets that were already received are      *)
(* still handled.  Time passes in ticks of a fraction of the timeout.      *)
(***************************************************************************)
EXTENDS Integers, FiniteSets, FiniteSetsExt

CONSTANTS
  Conn,            \* connections there may be at one time
  Ipid,            \* addresses
  IpidOf,          \* the address of each connection
  PlayerLimit,     \* playerlimit: the number of ids
  MulticlientLimit, \* multiclient_limit
  MaxConnections,  \* connection_rate_limit.max_connections, 0 for no limit
  MaxStranded,     \* bound on the clients whose removal raises
  Timeout          \* ticks without CHECK after which a connection is dropped

ASSUME ConnectionAssumption ==
  /\ IpidOf \in [Conn -> Ipid]
  /\ PlayerLimit \in Nat \ {0} /\ MulticlientLimit \in Nat
  /\ MaxConnections \in Nat /\ Timeout \in Nat \ {0}
  /\ MaxStranded \in Nat

VARIABLES
  open,        \* connections nobody has begun to close
  closing,     \* connections whose transport is being closed (one in neither has no
               \* transport any more, though it may still have a client)
  clients,     \* connections with a registered Client (client_manager.clients)
  id,          \* client.id
  cur_id,      \* the heap of free ids
  clientscon,  \* client.clientscon
  times,       \* accepted attempts of an address within the rate interval
  timers,      \* the pending timeouts of each connection, by the ticks left
  quiet,       \* ticks since a connection was made or last sent CHECK
  greeted,     \* clients with an hdid
  checked,     \* clients with is_checked
  banned,      \* clients whose HI found a ban
  gone         \* peers that have vanished without closing the connection

vars == << open, closing, clients, id, cur_id, clientscon, times, timers, quiet,
           greeted, checked, banned, gone >>

Ids == 0 .. PlayerLimit - 1

TypeOK ==
  /\ open \subseteq Conn /\ closing \subseteq Conn /\ open \cap closing = {}
  /\ open \subseteq clients /\ clients \subseteq Conn
  /\ id \in [Conn -> Ids]
  /\ cur_id \subseteq Ids
  /\ clientscon \in [Conn -> -Cardinality(Conn) .. Cardinality(Conn)]
  /\ times \in [Ipid -> 0 .. MaxConnections]
  /\ timers \in [Conn -> SUBSET (0 .. Timeout)]
  /\ quiet \in [Conn -> 0 .. Timeout]
  /\ checked \subseteq greeted /\ greeted \subseteq clients
  /\ banned \subseteq greeted
  /\ gone \subseteq open \cup closing

\* The transport is not lost yet.
Connected(c) == c \in open \cup closing

Init ==
  /\ open = {} /\ closing = {} /\ clients = {}
  /\ id = [c \in Conn |-> 0]
  /\ cur_id = Ids
  /\ clientscon = [c \in Conn |-> 0]
  /\ times = [i \in Ipid |-> 0]
  /\ timers = [c \in Conn |-> {}]
  /\ quiet = [c \in Conn |-> 0]
  /\ greeted = {} /\ checked = {} /\ banned = {} /\ gone = {}

-----------------------------------------------------------------------------
\* A connection is made

Same(c) == {d \in Conn : IpidOf[d] = IpidOf[c]}

\* Mutant: a client begins with the count 1 (Client.__init__), and is counted as well.
CountedFromOne(c) ==
  [d \in Conn |-> IF d \in (clients \cup {c}) \cap Same(c)
                    THEN (IF d = c THEN 1 ELSE clientscon[d]) + 1
                    ELSE clientscon[d]]

\* ClientManager.new_client: the client is counted with the others of its
\* address, itself included.
Counted(c) ==
  [d \in Conn |-> IF d \in (clients \cup {c}) \cap Same(c)
                    THEN (IF d = c THEN 0 ELSE clientscon[d]) + 1
                    ELSE clientscon[d]]

\* check_connection_rate
TooFast(i) == MaxConnections > 0 /\ times[i] >= MaxConnections

\* new_client_preauth, after the client has been registered and counted
TooMany(c) ==
  \E d \in (clients \cup {c}) \cap Same(c) : Counted(c)[d] >= MulticlientLimit

\* Mutant: the id is looked at, and stays on the heap.
IdsPeeked(i) == cur_id

\* heappop: the least id is taken off the heap.
IdsPopped(i) == cur_id \ {i}

Attempts(c) ==
  IF MaxConnections = 0 \/ TooFast(IpidOf[c]) THEN times
  ELSE [times EXCEPT ![IpidOf[c]] = @ + 1]

\* Refused before there is a client: the server is full, the address is in a
\* banned range, or connections arrive too fast altogether.
Refuse(c) ==
  /\ ~Connected(c) /\ c \notin clients
  /\ closing' = closing \cup {c}
  /\ UNCHANGED << open, clients, id, cur_id, clientscon, times, timers, quiet,
                  greeted, checked, banned, gone >>

\* connection_made with an id left.  A client that is refused now stays
\* registered until its connection is lost.
Connect(c) ==
  /\ ~Connected(c) /\ c \notin clients
  /\ cur_id # {}
  /\ clients' = clients \cup {c}
  /\ id' = [id EXCEPT ![c] = Min(cur_id)]
  /\ cur_id' = IdsPopped(Min(cur_id))
  /\ clientscon' = Counted(c)
  /\ times' = Attempts(c)
  /\ IF TooFast(IpidOf[c]) \/ TooMany(c)
       THEN /\ closing' = closing \cup {c}
            /\ UNCHANGED << open, timers >>
       ELSE /\ open' = open \cup {c}
            /\ timers' = [timers EXCEPT ![c] = {Timeout}]
            /\ UNCHANGED closing
  /\ quiet' = [quiet EXCEPT ![c] = 0]
  /\ UNCHANGED << greeted, checked, banned, gone >>

-----------------------------------------------------------------------------
\* Packets

\* data_received finds a packet of c.
Sends(c) == Connected(c) /\ c \in clients \ gone

Disconnect(c) ==
  /\ open' = open \ {c}
  /\ closing' = closing \cup {c}

\* Mutant: the timeout that was pending goes on.
ReArmOnly(c) == timers[c] \cup {Timeout}

\* Mutant: the timeout is cancelled, and no other one is set.
CancelOnly(c) == {}

\* The timeout that was pending is cancelled, and another is set.
ReArmed(c) == {Timeout}

\* CHECK.  A connection that was refused has no timeout to renew: the handler
\* raises, which closes it once more.
Check(c) ==
  /\ Sends(c)
  /\ timers[c] # {}
  /\ timers' = [timers EXCEPT ![c] = ReArmed(c)]
  /\ quiet' = [quiet EXCEPT ![c] = 0]
  /\ UNCHANGED << open, closing, clients, id, cur_id, clientscon, times, greeted,
                  checked, banned, gone >>

\* Mutant: a second HI is handled like the first.
NewcomerAny(c) == TRUE

\* client.hdid is still empty.
Newcomer(c) == c \notin greeted

\* HI with a hardware id, for which (or for whose address) there may be a ban.
\* A second HI is answered by closing the connection.
Hi(c, ban) ==
  /\ Sends(c)
  /\ greeted' = greeted \cup {c}
  /\ IF Newcomer(c) /\ ~ban
       THEN /\ checked' = checked \cup {c}
            /\ UNCHANGED << open, closing, banned >>
       ELSE /\ banned' = IF Newcomer(c) THEN banned \cup {c} ELSE banned
            /\ Disconnect(c)
            /\ UNCHANGED checked
  /\ UNCHANGED << clients, id, cur_id, clientscon, times, timers, quiet, gone >>

\* A kick, a flood of packets or an exception in a handler.
Drop(c) ==
  /\ c \in open
  /\ Disconnect(c)
  /\ UNCHANGED << clients, id, cur_id, clientscon, times, timers, quiet, greeted,
                  checked, banned, gone >>

-----------------------------------------------------------------------------
\* The end of a connection

\* The other side loses its network, and says nothing any more.
Vanish(c) ==
  /\ Connected(c)
  /\ gone' = gone \cup {c}
  /\ UNCHANGED << open, closing, clients, id, cur_id, clientscon, times, timers,
                  quiet, greeted, checked, banned >>

\* The callback of ping_timeout: client.disconnect, which does nothing to a transport
\* that is lost.
PingTimeout(c) ==
  /\ 0 \in timers[c]
  /\ timers' = [timers EXCEPT ![c] = @ \ {0}]
  /\ IF Connected(c) THEN Disconnect(c) ELSE UNCHANGED << open, closing >>
  /\ UNCHANGED << clients, id, cur_id, clientscon, times, quiet, greeted, checked,
                  banned, gone >>

\* Mutant: the id of a client that leaves is not given back.
IdsAfterKept(c) == cur_id

IdsAfter(c) == cur_id \cup {id[c]}

\* Every client of the address counts one less.
Uncounted(c) ==
  [d \in Conn |-> IF d \in clients \cap Same(c) THEN clientscon[d] - 1
                                                ELSE clientscon[d]]

\* ClientManager.remove_client
RemoveClient(c) ==
  /\ clients' = clients \ {c}
  /\ cur_id' = IdsAfter(c)
  /\ clientscon' = [Uncounted(c) EXCEPT ![c] = 0]
  /\ id' = [id EXCEPT ![c] = 0]

TimersAfter(c) == {}

\* connection_lost comes: the peer may have closed the connection itself.
Ends(c) == c \in closing \/ c \in open \ gone

Lost(c) ==
  /\ Ends(c)
  /\ IF c \in clients THEN RemoveClient(c)
                      ELSE UNCHANGED << clients, cur_id, clientscon, id >>
  /\ open' = open \ {c} /\ closing' = closing \ {c}
  /\ timers' = [timers EXCEPT ![c] = TimersAfter(c)]
  /\ quiet' = [quiet EXCEPT ![c] = 0]
  /\ greeted' = greeted \ {c} /\ checked' = checked \ {c}
  /\ banned' = banned \ {c} /\ gone' = gone \ {c}
  /\ UNCHANGED times

\* connection_lost, where remove_client raises in area.remove_client, before the client is
\* deregistered: it hides behind an index that is past the end of the evidence list, or
\* fights for a guild that is not in the area. Whoever does has been let in. The
\* client stays, with its id, its count and its timeout.
LostFails(c) ==
  /\ Ends(c) /\ c \in checked
  /\ Cardinality({d \in clients : ~Connected(d)}) < MaxStranded
  /\ open' = open \ {c} /\ closing' = closing \ {c} /\ gone' = gone \ {c}
  /\ UNCHANGED << clients, id, cur_id, clientscon, times, timers, quiet, greeted, checked,
                  banned >>

-----------------------------------------------------------------------------
\* Time: timeouts that are due come first.
Tick ==
  /\ \A c \in Conn : 0 \notin timers[c]
  /\ \E c \in Conn : timers[c] # {}
  /\ timers' = [c \in Conn |-> {t - 1 : t \in timers[c]}]
  /\ quiet' = [c \in Conn |-> IF timers[c] = {} THEN quiet[c] ELSE quiet[c] + 1]
  /\ UNCHANGED << open, closing, clients, id, cur_id, clientscon, times, greeted,
                  checked, banned, gone >>

\* An attempt falls out of the rate interval.
Forget(i) ==
  /\ times[i] > 0
  /\ times' = [times EXCEPT ![i] = @ - 1]
  /\ UNCHANGED << open, closing, clients, id, cur_id, clientscon, timers, quiet,
                  greeted, checked, banned, gone >>

Next ==
  \/ \E c \in Conn : \/ Refuse(c) \/ Connect(c)
                     \/ Check(c) \/ Drop(c) \/ Vanish(c) \/ PingTimeout(c)
                     \/ Lost(c) \/ LostFails(c)
  \/ \E c \in Conn, ban \in BOOLEAN : Hi(c, ban)
  \/ Tick
  \/ \E i \in Ipid : Forget(i)

\* The event loop runs its timers, and a transport that is being closed is
\* lost in the end, whatever its peer does.
Fairness ==
  /\ WF_vars(Tick)
  /\ \A c \in Conn : WF_vars(PingTimeout(c)) /\ WF_vars(c \in closing /\ (Lost(c) \/ LostFails(c)))

Spec == Init /\ [][Next]_vars /\ Fairness

-----------------------------------------------------------------------------
\* Properties

\* Two registered clients never have one id, and an id is free exactly when
\* no registered client has it: what /kick, invite lists or force_follow name
\* by an id is one client, and no id is lost (cur_id is a heap of ints).
IdsAreOwned ==
  /\ \A c, d \in clients : id[c] = id[d] => c = d
  /\ cur_id = Ids \ {id[c] : c \in clients}

\* The heap of ids implements a pool: a client's id is nobody else's, and does
\* not change while the client is registered, over refusals, repeated
\* handshakes and lost connections.
Pool == INSTANCE IdPool WITH Holder <- Conn, Id <- Ids,
                             held <- [c \in clients |-> id[c]]

IdsArePooled == Pool!Spec

\* Every connection that was let in has one timeout running, as long away as
\* it has been quiet: it is not dropped while it sends CHECK in time, and one
\* that was lost leaves no callback behind to close another.
TimeoutsAreExact ==
  /\ \A c \in open : timers[c] = {Timeout - quiet[c]}
  /\ \A c \in Conn \ clients : timers[c] = {}

\* A connection for which a ban was found is never let through the handshake,
\* not by another HI with another hardware id before it is lost.
BannedStayOut == banned \cap checked = {}

\* c was given a client, and refused for the number of those of its address.
Refused(c) == c \in (clients' \ clients) \ open' /\ ~TooFast(IpidOf[c])

\* The counters never say more than the truth, over departures and repeated attempts: a
\* newcomer is refused for their number only when its address has, with itself, as many
\* clients as the limit (new_client counts it before new_client_preauth compares).
NoEarlyRefusal ==
  [][\A c \in Conn : Refused(c) =>
       Cardinality((clients \cup {c}) \cap Same(c)) >= MulticlientLimit]_vars

\* "How many simultaneous connections an IP address can make to the server"
\* (config.yaml, multiclient_limit): so many are let in. It does not hold: the one that
\* would reach the limit is refused.
LimitIsReached ==
  [][\A c \in Conn : Refused(c) => Cardinality(clients \cap Same(c)) >= MulticlientLimit]_vars

\* And no more are: this does not hold either, as the README explains.
MulticlientLimitHolds ==
  \A i \in Ipid : Cardinality({c \in open : IpidOf[c] = i}) <= MulticlientLimit

\* A client whose removal has raised: it is registered without a transport, for good.
Stranded(c) == c \in clients /\ ~Connected(c)

\* A client whose peer has vanished is dropped: it does not keep its id, its
\* character and its rights for good, but for one whose removal raises.
VanishedAreDropped == \A c \in Conn : c \in gone ~> c \notin clients \/ Stranded(c)

=============================================================================
