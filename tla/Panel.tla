-------------------------------- MODULE Panel --------------------------------
(***************************************************************************)
(* The GM panel: browsers that act in the game through a session of a GM.  *)
(*                                                                         *)
(* A session is bound to a client.  One opened with a /gmpanel link is     *)
(* bound to the GM's own connection; one opened with a password is bound   *)
(* to a RemoteClient made for it, which counts as the GM of a hub while it *)
(* is in client_manager.clients.  A request passes get_session, awaits its *)
(* body, and only then acts: everything else may happen in between, so     *)
(* the requests between the two are counted in "reading".                  *)
(*                                                                         *)
(* A session stands for its RemoteClient too.  Areas are left out: what    *)
(* the panel decides by is the hub.                                        *)
(***************************************************************************)
EXTENDS Naturals

CONSTANTS
  Client,       \* connections of the game
  Mod,          \* those logged in as moderators
  Account,      \* the users of the gm_panel configuration with the role "gm"
  AllowedHubs,  \* the hubs an account may claim
  Session,      \* session objects, each with its cookie
  Token,        \* one-time tokens: /gmpanel links and hub choices
  Hub,          \* AreaManager objects
  DefaultHub,   \* the hub a Client is made in
  CanGm,        \* hubs whose can_gm preference is set
  RemoteGmOnly, \* hubs that only the panel may claim
  Kind,         \* "ooc" and "ic"
  MaxReading,   \* requests of one session that await their body at a time
  None

ASSUME PanelAssumption ==
  /\ Mod \subseteq Client
  /\ AllowedHubs \in [Account -> SUBSET Hub]
  /\ DefaultHub \in Hub
  /\ MaxReading \in Nat
  /\ Client \cap Account = {} /\ Client \cap Session = {}
  /\ None \notin Client \cup Account

VARIABLES
  present,   \* client_manager.clients: connections and RemoteClients
  hub,       \* client.area.area_manager
  gms,       \* real_owners() of each hub
  user,      \* whose session it is: a Client, an Account
  held,      \* sessions in _sessions or _remote_sessions
  old,       \* sessions older than session_ttl
  monitors,  \* the listeners a session has installed
  reading,   \* requests that passed get_session and await their body
  pending    \* whom the tokens of _pending_tokens and _pending_hub_auths admit

game == << present, hub, gms >>
vars == << present, hub, gms, user, held, old, monitors, reading, pending >>

TypeOK ==
  /\ present \subseteq Client \cup Session
  /\ hub \in [Client \cup Session -> Hub]
  /\ gms \in [Hub -> SUBSET Client]
  /\ user \in [Session -> Client \cup Account \cup {None}]
  /\ held \subseteq Session
  /\ \A s \in held : user[s] # None
  /\ old \subseteq held
  /\ monitors \in [Session -> SUBSET Kind]
  /\ reading \in [Session -> 0 .. MaxReading]
  /\ pending \in [Token -> Client \cup Account \cup {None}]

Init ==
  /\ present = {}
  /\ hub = [b \in Client \cup Session |-> DefaultHub]
  /\ gms = [h \in Hub |-> {}]
  /\ user = [s \in Session |-> None]
  /\ held = {} /\ old = {}
  /\ monitors = [s \in Session |-> {}]
  /\ reading = [s \in Session |-> 0]
  /\ pending = [t \in Token |-> None]

-----------------------------------------------------------------------------
\* Reading the state

Live(s) == user[s] \in Client

bound_client(s) == IF Live(s) THEN user[s] ELSE s

IsMod(b) == b \in Mod \cup Session

IsGm(b) == IsMod(b) \/ b \in gms[hub[b]]

is_valid(s) ==
  /\ bound_client(s) \in present
  /\ Live(s) => IsGm(user[s])

\* The RemoteClients that remote_gm_clients_in_hub counts, of all hubs.
RemoteGms == {s \in held : user[s] \in Account /\ is_valid(s)}

hub_has_gm(h) == gms[h] # {} \/ \E s \in RemoteGms : hub[s] = h

can_claim_in_game(h) == h \notin RemoteGmOnly /\ ~hub_has_gm(h)

\* Mutant: only the GMs of the game keep an account out.
ClaimableBesideOthers(u, h) == gms[h] = {}

\* _hub_claim_error has nothing to say.
Claimable(u, h) ==
  /\ gms[h] = {}
  /\ \A s \in RemoteGms : user[s] = u <=> hub[s] = h

\* The hubs that hub_options_for offers.
Offered(u) ==
  LET mine == {hub[s] : s \in {r \in RemoteGms : user[r] = u}}
  IN AllowedHubs[u] \cap (IF mine = {} THEN {h \in Hub : ~hub_has_gm(h)} ELSE mine)

\* A session object nothing refers to any more.
Unused(s) == s \notin held /\ s \notin present /\ reading[s] = 0

-----------------------------------------------------------------------------
\* Commands, typed in the game or run by the panel; b is the client

\* /gm
GrantGm(b, c) ==
  /\ IsMod(b) \/ hub[b] \in CanGm
  /\ IsGm(b) \/ (can_claim_in_game(hub[b]) /\ c = b)
  /\ c \in present /\ hub[c] = hub[b]
  /\ gms' = [gms EXCEPT ![hub[b]] = @ \cup {c}]
  /\ UNCHANGED << present, hub >>

\* /ungm
RevokeGm(b, c) ==
  /\ IsGm(b)
  /\ c \in gms[hub[b]]
  /\ gms' = [gms EXCEPT ![hub[b]] = @ \ {c}]
  /\ UNCHANGED << present, hub >>

\* /hub
ChangeHub(b, h) ==
  /\ h # hub[b]
  /\ hub' = [hub EXCEPT ![b] = h]
  /\ gms' = [gms EXCEPT ![hub[b]] = @ \ {b}]
  /\ UNCHANGED present

\* /kick with the address that all RemoteClients share.
KickRemotes(b) ==
  /\ IsMod(b)
  /\ present' = present \ {s \in Session : hub[s] = hub[b]}
  /\ UNCHANGED << hub, gms >>

RunsCommand(b) ==
  \/ \E c \in Client : GrantGm(b, c) \/ RevokeGm(b, c)
  \/ \E h \in Hub : ChangeHub(b, h)
  \/ KickRemotes(b)

-----------------------------------------------------------------------------
\* The game

Connect(c) ==
  /\ c \notin present
  /\ \A t \in Token : pending[t] # c
  /\ \A s \in Session : user[s] = c => Unused(s)
  /\ present' = present \cup {c}
  /\ hub' = [hub EXCEPT ![c] = DefaultHub]
  /\ UNCHANGED << gms, user, held, old, monitors, reading, pending >>

\* Mutant: invalidate_for_client stops at the first session it finds.
FirstOf(c) ==
  IF \E s \in held : user[s] = c THEN {CHOOSE s \in held : user[s] = c} ELSE {}

\* The sessions invalidate_for_client ends.
SessionsOf(c) == {s \in held : user[s] = c}

\* GMSession.expire detaches the monitors of every session that ends.
MonitorsWithout(ended) ==
  [s \in Session |-> IF s \in ended THEN {} ELSE monitors[s]]

\* TsuServer3.remove_client: the hook of the panel comes first.
Disconnect(c) ==
  /\ c \in present
  /\ held' = held \ SessionsOf(c)
  /\ old' = old \ SessionsOf(c)
  /\ monitors' = MonitorsWithout(SessionsOf(c))
  /\ gms' = [gms EXCEPT ![hub[c]] = @ \ {c}]
  /\ present' = present \ {c}
  /\ UNCHANGED << hub, user, reading, pending >>

Types(c) ==
  /\ c \in present
  /\ RunsCommand(c)
  /\ UNCHANGED << user, held, old, monitors, reading, pending >>

-----------------------------------------------------------------------------
\* Opening a session

Starts(s, u) ==
  /\ Unused(s)
  /\ user' = [user EXCEPT ![s] = u]
  /\ held' = held \cup {s}
  /\ monitors' = [monitors EXCEPT ![s] = {}]

Mint(t, u) ==
  /\ pending[t] = None
  /\ pending' = [pending EXCEPT ![t] = u]

Pop(t) == pending' = [pending EXCEPT ![t] = None]

\* /gmpanel
GmPanel(c, t) ==
  /\ c \in present /\ IsGm(c)
  /\ Mint(t, c)
  /\ UNCHANGED << game, user, held, old, monitors, reading >>

\* Mutant: the link is good for whoever was a GM when it was made.
ExchangesAnyway(t) == pending[t] \in present

\* What exchange_token looks at again.
Exchanges(t) == pending[t] \in present /\ IsGm(pending[t])

ExchangeToken(t, s) ==
  /\ pending[t] \in Client
  /\ Exchanges(t)
  /\ Pop(t)
  /\ Starts(s, pending[t])
  /\ UNCHANGED << game, old, reading >>

\* login: the hub is chosen later.
Login(u, t) ==
  /\ Offered(u) # {}
  /\ Mint(t, u)
  /\ UNCHANGED << game, user, held, old, monitors, reading >>

\* RemoteClient.join_area
JoinsGame(s, h) ==
  /\ present' = present \cup {s}
  /\ hub' = [hub EXCEPT ![s] = h]
  /\ UNCHANGED gms

CompleteHubLogin(t, h, s) ==
  /\ pending[t] \in Account
  /\ h \in AllowedHubs[pending[t]]
  /\ Claimable(pending[t], h)
  /\ Pop(t)
  /\ Starts(s, pending[t])
  /\ JoinsGame(s, h)
  /\ UNCHANGED << old, reading >>

\* The token is past its deadline, found so by the sweep or when it is
\* presented, or it is presented in time and refused.
Spent(t) ==
  /\ pending[t] # None
  /\ Pop(t)
  /\ UNCHANGED << game, user, held, old, monitors, reading >>

-----------------------------------------------------------------------------
\* Requests

\* Mutant: get_session does not look at the age.
AcceptedAtAnyAge(s) == s \in held /\ is_valid(s)

\* get_session finds the session of the cookie valid.
Accepted(s) == s \in held /\ is_valid(s) /\ s \notin old

Admit(s) ==
  /\ Accepted(s)
  /\ reading[s] < MaxReading
  /\ reading' = [reading EXCEPT ![s] = @ + 1]
  /\ UNCHANGED << game, user, held, old, monitors, pending >>

\* get_session drops the session, and leaves its RemoteClient where it is.
TurnAway(s) ==
  /\ s \in held /\ ~Accepted(s)
  /\ held' = held \ {s}
  /\ old' = old \ {s}
  /\ monitors' = MonitorsWithout({s})
  /\ UNCHANGED << game, user, reading, pending >>

BodyRead(s) ==
  /\ reading[s] > 0
  /\ reading' = [reading EXCEPT ![s] = @ - 1]

\* Mutant: execute_command trusts what get_session saw.
CommandUnchecked(s) ==
  /\ BodyRead(s)
  /\ RunsCommand(bound_client(s))
  /\ UNCHANGED << user, held, old, monitors, pending >>

\* execute_command
Command(s) ==
  /\ BodyRead(s)
  /\ is_valid(s)
  /\ RunsCommand(bound_client(s))
  /\ UNCHANGED << user, held, old, monitors, pending >>

\* SessionInvalid, a malformed body, or a command without an effect here.
Answer(s) ==
  /\ BodyRead(s)
  /\ UNCHANGED << game, user, held, old, monitors, pending >>

\* set_monitor with enabled true: only GMSession's looks at is_valid again.
StartMonitor(s, k) ==
  /\ BodyRead(s)
  /\ Live(s) => is_valid(s)
  /\ k \notin monitors[s]
  /\ monitors' = [monitors EXCEPT ![s] = @ \cup {k}]
  /\ present' = IF Live(s) THEN present ELSE present \cup {s}
  /\ UNCHANGED << hub, gms, user, held, old, pending >>

StopMonitor(s, k) ==
  /\ BodyRead(s)
  /\ Live(s) => is_valid(s)
  /\ k \in monitors[s]
  /\ monitors' = [monitors EXCEPT ![s] = @ \ {k}]
  /\ present' = IF Live(s) \/ monitors[s] # {k} THEN present ELSE present \ {s}
  /\ UNCHANGED << hub, gms, user, held, old, pending >>

\* handle_logout awaits nothing: remove_session, and the teardown of a
\* RemoteClient.
Logout(s) ==
  /\ Accepted(s)
  /\ held' = held \ {s}
  /\ present' = present \ {s}
  /\ UNCHANGED << hub, gms, user, old, monitors, reading, pending >>

-----------------------------------------------------------------------------
\* Time

\* Mutant: the sweep looks for sessions that are no longer valid only.
NotValid == {s \in held : ~is_valid(s)}

Expired == {s \in held : ~is_valid(s) \/ s \in old}

\* _sweep; the tokens it drops are Spent.
Sweep ==
  /\ Expired # {}
  /\ held' = held \ Expired
  /\ old' = old \ Expired
  /\ monitors' = MonitorsWithout(Expired)
  /\ present' = present \ Expired
  /\ UNCHANGED << hub, gms, user, reading, pending >>

PassesTtl(s) ==
  /\ s \in held \ old
  /\ old' = old \cup {s}
  /\ UNCHANGED << game, user, held, monitors, reading, pending >>

-----------------------------------------------------------------------------
Next ==
  \/ \E c \in Client : Connect(c) \/ Disconnect(c) \/ Types(c)
  \/ \E c \in Client, t \in Token : GmPanel(c, t)
  \/ \E u \in Account, t \in Token : Login(u, t)
  \/ \E t \in Token : Spent(t)
  \/ \E t \in Token, s \in Session : ExchangeToken(t, s)
  \/ \E t \in Token, s \in Session, h \in Hub : CompleteHubLogin(t, h, s)
  \/ \E s \in Session : \/ Admit(s) \/ TurnAway(s) \/ Command(s) \/ Answer(s)
                        \/ Logout(s) \/ PassesTtl(s)
  \/ \E s \in Session, k \in Kind : StartMonitor(s, k) \/ StopMonitor(s, k)
  \/ Sweep

\* The sweep calls itself again every minute, and a session grows old.
Spec ==
  /\ Init /\ [][Next]_vars
  /\ WF_vars(Sweep)
  /\ \A s \in Session : WF_vars(PassesTtl(s))

-----------------------------------------------------------------------------
\* Properties

\* Every session opened with a /gmpanel link, on whatever device, ends with
\* the connection it acts for (invalidate_for_client): none is left to act
\* for an object that has lost its id.
SessionsDieWithClient == \A s \in held : Live(s) => user[s] \in present

\* No session starts for somebody who is not a GM at that moment, whenever
\* the link was made and whatever has been revoked since (exchange_token).
StartsValid ==
  [][\A s \in Session : s \notin held /\ s \in held' => is_valid(s)']_vars

\* When its body has come, a request changes the GMs of a hub only if its
\* session is valid at that moment, and only in the hub its client is in:
\* what get_session saw before the await is not relied upon
\* ("Never cached", GMSession.is_valid).
CommandsNeedAuthority ==
  [][\A s \in Session : reading'[s] < reading[s] /\ gms' # gms =>
       /\ is_valid(s)
       /\ \A h \in Hub : gms'[h] # gms[h] => h = hub[bound_client(s)]]_vars

\* A hub that is claimed has no GM in the game and is nobody else's, and the
\* account has no other hub, at the moment the second phase of the login
\* ends, however long ago the hubs were offered (complete_hub_login).
ClaimsAreExclusive ==
  [][\A s \in Session :
       s \notin held /\ s \in held' /\ user'[s] \in Account =>
         /\ gms'[hub'[s]] = {}
         /\ \A r \in RemoteGms' : user'[r] = user'[s] <=> hub'[r] = hub'[s]]_vars

\* A browser that is closed, or that never logs out, does not keep its hub.
HubsComeFree == \A s \in Session : s \in RemoteGms ~> s \notin RemoteGms

\* "A GM account may only GM one hub at a time" (_hub_claim_error). It does not hold,
\* as the README explains.
OneHubPerAccount ==
  \A r, s \in RemoteGms : user[r] = user[s] => hub[r] = hub[s]

=============================================================================
