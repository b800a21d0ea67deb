---------------------------- MODULE Panel_proofs ----------------------------
(***************************************************************************)
(* Panel's invariants and action properties, for any clients, accounts,    *)
(* sessions, tokens, hubs and number of concurrent requests.               *)
(***************************************************************************)
EXTENDS Panel, TLAPS

\* A command leaves the hubs' GMs clients, and takes away RemoteClients only.
LEMMA CommandKeepsTypes ==
  ASSUME TypeOK, NEW b \in Client \cup Session, RunsCommand(b)
  PROVE  /\ present' \subseteq present
         /\ \A c \in Client : c \in present => c \in present'
         /\ hub' \in [Client \cup Session -> Hub]
         /\ gms' \in [Hub -> SUBSET Client]
<1>1. CASE \E c \in Client : GrantGm(b, c) \/ RevokeGm(b, c)
  BY <1>1 DEF TypeOK, GrantGm, RevokeGm
<1>2. CASE \E h \in Hub : ChangeHub(b, h)
  BY <1>2 DEF TypeOK, ChangeHub
<1>3. CASE KickRemotes(b)
  BY <1>3, PanelAssumption DEF TypeOK, KickRemotes
<1>. QED BY <1>1, <1>2, <1>3 DEF RunsCommand

\* A command changes the GMs of the hub its client is in, and of no other.
LEMMA CommandStaysInHub ==
  ASSUME TypeOK, NEW b, RunsCommand(b)
  PROVE  \A h \in Hub : gms'[h] # gms[h] => h = hub[b]
BY DEF TypeOK, RunsCommand, GrantGm, RevokeGm, ChangeHub, KickRemotes

\* The client of a session that is used is a connection or its RemoteClient.
LEMMA BoundClientType ==
  ASSUME NEW s \in Session
  PROVE  bound_client(s) \in Client \cup Session
BY DEF bound_client, Live

-----------------------------------------------------------------------------

\* The type invariant holds in every reachable state.
THEOREM TypesAlways == Spec => []TypeOK
<1>1. Init => TypeOK
  BY PanelAssumption DEF Init, TypeOK
<1>2. TypeOK /\ [Next]_vars => TypeOK'
  <2> SUFFICES ASSUME TypeOK, [Next]_vars PROVE TypeOK'
    OBVIOUS
  <2>1. ASSUME NEW c \in Client, Connect(c) PROVE TypeOK'
    BY <2>1, PanelAssumption DEF TypeOK, Connect
  <2>2. ASSUME NEW c \in Client, Disconnect(c) PROVE TypeOK'
    BY <2>2 DEF TypeOK, Disconnect, MonitorsWithout
  <2>3. ASSUME NEW c \in Client, Types(c) PROVE TypeOK'
    BY <2>3, CommandKeepsTypes DEF TypeOK, Types
  <2>4. ASSUME NEW c \in Client, NEW t \in Token, GmPanel(c, t) PROVE TypeOK'
    BY <2>4 DEF TypeOK, GmPanel, Mint, game
  <2>5. ASSUME NEW u \in Account, NEW t \in Token, Login(u, t) PROVE TypeOK'
    BY <2>5 DEF TypeOK, Login, Mint, game
  <2>6. ASSUME NEW t \in Token, Spent(t) PROVE TypeOK'
    BY <2>6 DEF TypeOK, Spent, Pop, game
  <2>7. ASSUME NEW t \in Token, NEW s \in Session, ExchangeToken(t, s) PROVE TypeOK'
    BY <2>7, PanelAssumption DEF TypeOK, ExchangeToken, Starts, Pop, game
  <2>8. ASSUME NEW t \in Token, NEW s \in Session, NEW h \in Hub, CompleteHubLogin(t, h, s)
        PROVE  TypeOK'
    BY <2>8, PanelAssumption DEF TypeOK, CompleteHubLogin, Starts, JoinsGame, Pop
  <2>9. ASSUME NEW s \in Session, Admit(s) PROVE TypeOK'
    BY <2>9, PanelAssumption DEF TypeOK, Admit, game
  <2>10. ASSUME NEW s \in Session, TurnAway(s) PROVE TypeOK'
    BY <2>10 DEF TypeOK, TurnAway, MonitorsWithout, game
  <2>11. ASSUME NEW s \in Session, Command(s) PROVE TypeOK'
    <3>1. reading' \in [Session -> 0 .. MaxReading]
      BY <2>11, PanelAssumption DEF TypeOK, Command, BodyRead
    <3>. QED BY <2>11, <3>1, CommandKeepsTypes, BoundClientType DEF TypeOK, Command
  <2>12. ASSUME NEW s \in Session, Answer(s) PROVE TypeOK'
    BY <2>12, PanelAssumption DEF TypeOK, Answer, BodyRead, game
  <2>13. ASSUME NEW s \in Session, NEW k \in Kind, StartMonitor(s, k) \/ StopMonitor(s, k)
         PROVE  TypeOK'
    <3>1. reading' \in [Session -> 0 .. MaxReading]
      BY <2>13, PanelAssumption DEF TypeOK, StartMonitor, StopMonitor, BodyRead
    <3>. QED BY <2>13, <3>1 DEF TypeOK, StartMonitor, StopMonitor
  <2>14. ASSUME NEW s \in Session, Logout(s) PROVE TypeOK'
    BY <2>14 DEF TypeOK, Logout, Accepted
  <2>15. ASSUME NEW s \in Session, PassesTtl(s) PROVE TypeOK'
    BY <2>15 DEF TypeOK, PassesTtl, game
  <2>16. CASE Sweep
    BY <2>16 DEF TypeOK, Sweep, MonitorsWithout
  <2>17. CASE UNCHANGED vars
    BY <2>17 DEF TypeOK, vars
  <2>. QED BY <2>1, <2>2, <2>3, <2>4, <2>5, <2>6, <2>7, <2>8, <2>9, <2>10, <2>11,
              <2>12, <2>13, <2>14, <2>15, <2>16, <2>17 DEF Next
<1>. QED BY <1>1, <1>2, PTL DEF Spec

-----------------------------------------------------------------------------

\* No session outlives the connection it was opened for.
THEOREM SessionsAlwaysDieWithClient == Spec => []SessionsDieWithClient
<1> DEFINE Inv == TypeOK /\ SessionsDieWithClient
<1>1. Init => SessionsDieWithClient
  BY DEF Init, SessionsDieWithClient
<1>2. Inv /\ [Next]_vars => SessionsDieWithClient'
  <2> SUFFICES ASSUME Inv, [Next]_vars PROVE SessionsDieWithClient'
    OBVIOUS
  <2> USE DEF SessionsDieWithClient, Live
  <2>1. ASSUME NEW c \in Client, Connect(c) PROVE SessionsDieWithClient'
    BY <2>1 DEF Connect
  <2>2. ASSUME NEW c \in Client, Disconnect(c) PROVE SessionsDieWithClient'
    BY <2>2 DEF Disconnect, SessionsOf
  <2>3. ASSUME NEW c \in Client, Types(c) PROVE SessionsDieWithClient'
    BY <2>3, CommandKeepsTypes DEF Types
  <2>5. ASSUME NEW t \in Token, Spent(t) \/ \E u \in Account : Login(u, t)
        PROVE  SessionsDieWithClient'
    BY <2>5 DEF Login, Spent, game
  <2>6. ASSUME NEW t \in Token, NEW c \in Client, GmPanel(c, t)
        PROVE  SessionsDieWithClient'
    BY <2>6 DEF GmPanel, game
  <2>7. ASSUME NEW t \in Token, NEW s \in Session, ExchangeToken(t, s)
        PROVE  SessionsDieWithClient'
    BY <2>7 DEF TypeOK, ExchangeToken, Exchanges, Starts, game
  <2>8. ASSUME NEW t \in Token, NEW s \in Session, NEW h \in Hub, CompleteHubLogin(t, h, s)
        PROVE  SessionsDieWithClient'
    BY <2>8, PanelAssumption DEF TypeOK, CompleteHubLogin, Starts, JoinsGame
  <2>9. ASSUME NEW s \in Session, Admit(s) \/ TurnAway(s) \/ Answer(s) \/ PassesTtl(s)
        PROVE  SessionsDieWithClient'
    BY <2>9 DEF Admit, TurnAway, Answer, PassesTtl, game
  <2>10. ASSUME NEW s \in Session, Command(s) PROVE SessionsDieWithClient'
    BY <2>10, CommandKeepsTypes, BoundClientType DEF Command
  <2>11. ASSUME NEW s \in Session, NEW k \in Kind, StartMonitor(s, k) \/ StopMonitor(s, k)
         PROVE  SessionsDieWithClient'
    BY <2>11, PanelAssumption DEF StartMonitor, StopMonitor
  <2>12. ASSUME NEW s \in Session, Logout(s) PROVE SessionsDieWithClient'
    BY <2>12, PanelAssumption DEF Logout
  <2>13. CASE Sweep
    BY <2>13, PanelAssumption DEF TypeOK, Sweep, Expired
  <2>14. CASE UNCHANGED vars
    BY <2>14 DEF vars
  <2>. QED BY <2>1, <2>2, <2>3, <2>5, <2>6, <2>7, <2>8, <2>9, <2>10, <2>11, <2>12,
              <2>13, <2>14 DEF Next
<1>. QED BY <1>1, <1>2, TypesAlways, PTL DEF Spec

-----------------------------------------------------------------------------

\* The steps that give a session a place among those held.
LEMMA OnlyLoginsStart ==
  ASSUME TypeOK, [Next]_vars, NEW s \in Session, s \notin held, s \in held'
  PROVE  \/ \E t \in Token : ExchangeToken(t, s)
         \/ \E t \in Token, h \in Hub : CompleteHubLogin(t, h, s)
<1>1. CASE UNCHANGED vars
  BY <1>1 DEF vars
<1>2. ASSUME NEW c \in Client, Connect(c) \/ Disconnect(c) \/ Types(c) PROVE FALSE
  BY <1>2 DEF Connect, Disconnect, Types
<1>3. ASSUME NEW t \in Token,
             \/ \E c \in Client : GmPanel(c, t)
             \/ \E u \in Account : Login(u, t)
             \/ Spent(t)
      PROVE  FALSE
  BY <1>3 DEF GmPanel, Login, Spent
<1>4. ASSUME NEW r \in Session,
             \/ Admit(r) \/ TurnAway(r) \/ Command(r) \/ Answer(r)
             \/ Logout(r) \/ PassesTtl(r)
             \/ \E k \in Kind : StartMonitor(r, k) \/ StopMonitor(r, k)
      PROVE  FALSE
  BY <1>4 DEF Admit, TurnAway, Command, Answer, Logout, PassesTtl, StartMonitor, StopMonitor
<1>5. CASE Sweep
  BY <1>5 DEF Sweep
<1>6. ASSUME NEW t \in Token, NEW r \in Session, ExchangeToken(t, r) PROVE r = s
  BY <1>6 DEF ExchangeToken, Starts
<1>7. ASSUME NEW t \in Token, NEW r \in Session, NEW h \in Hub, CompleteHubLogin(t, h, r)
      PROVE  r = s
  BY <1>7 DEF CompleteHubLogin, Starts
<1>. QED BY <1>1, <1>2, <1>3, <1>4, <1>5, <1>6, <1>7 DEF Next

\* A link exchanged late does not open the panel to somebody who was a GM.
THEOREM SessionsAlwaysStartValid == Spec => StartsValid
<1>1. TypeOK /\ [Next]_vars =>
        [\A s \in Session : s \notin held /\ s \in held' => is_valid(s)']_vars
  <2> SUFFICES ASSUME TypeOK, [Next]_vars, NEW s \in Session, s \notin held, s \in held'
               PROVE  is_valid(s)'
    OBVIOUS
  <2>1. ASSUME NEW t \in Token, ExchangeToken(t, s) PROVE is_valid(s)'
    <3>1. user'[s] = pending[t] /\ pending[t] \in present /\ IsGm(pending[t])
      BY <2>1 DEF TypeOK, ExchangeToken, Exchanges, Starts
    <3>2. pending[t] \in Client /\ present' = present /\ hub' = hub /\ gms' = gms
      BY <2>1 DEF ExchangeToken, game
    <3>. QED BY <3>1, <3>2 DEF is_valid, bound_client, Live, IsGm, IsMod
  <2>2. ASSUME NEW t \in Token, NEW h \in Hub, CompleteHubLogin(t, h, s)
        PROVE  is_valid(s)'
    <3>1. user'[s] \in Account /\ s \in present'
      BY <2>2 DEF TypeOK, CompleteHubLogin, Starts, JoinsGame
    <3>. QED BY <3>1, PanelAssumption DEF is_valid, bound_client, Live
  <2>. QED BY <2>1, <2>2, OnlyLoginsStart
<1>. QED BY <1>1, TypesAlways, PTL DEF Spec, StartsValid

\* A hub is claimed only while it is free of every other GM.
THEOREM ClaimsAlwaysExclusive == Spec => ClaimsAreExclusive
<1>1. TypeOK /\ [Next]_vars =>
        [\A s \in Session :
           s \notin held /\ s \in held' /\ user'[s] \in Account =>
             /\ gms'[hub'[s]] = {}
             /\ \A r \in RemoteGms' : user'[r] = user'[s] <=> hub'[r] = hub'[s]]_vars
  <2> SUFFICES ASSUME TypeOK, [Next]_vars, NEW s \in Session,
                      s \notin held, s \in held', user'[s] \in Account
               PROVE  /\ gms'[hub'[s]] = {}
                      /\ \A r \in RemoteGms' : user'[r] = user'[s] <=> hub'[r] = hub'[s]
    OBVIOUS
  <2>1. PICK t \in Token, h \in Hub : CompleteHubLogin(t, h, s)
    <3>1. ASSUME NEW t \in Token, ExchangeToken(t, s) PROVE FALSE
      BY <3>1, PanelAssumption DEF TypeOK, ExchangeToken, Starts
    <3>. QED BY <3>1, OnlyLoginsStart
  <2>2. user'[s] = pending[t] /\ hub'[s] = h /\ gms' = gms
    BY <2>1 DEF TypeOK, CompleteHubLogin, Starts, JoinsGame
  <2>3. gms[h] = {} /\ \A r \in RemoteGms : user[r] = pending[t] <=> hub[r] = h
    BY <2>1 DEF CompleteHubLogin, Claimable
  <2>4. ASSUME NEW r \in RemoteGms', r # s
        PROVE  r \in RemoteGms /\ user'[r] = user[r] /\ hub'[r] = hub[r]
    <3>1. /\ held' = held \cup {s} /\ present' = present \cup {s}
          /\ user' = [user EXCEPT ![s] = pending[t]] /\ hub' = [hub EXCEPT ![s] = h]
      BY <2>1 DEF CompleteHubLogin, Starts, JoinsGame
    <3>2. r \in held' /\ user'[r] \in Account /\ bound_client(r)' \in present'
      BY <2>4 DEF RemoteGms, is_valid
    <3>3. r \in held /\ r \in Session /\ user'[r] = user[r] /\ hub'[r] = hub[r]
      BY <2>4, <3>1, <3>2 DEF TypeOK
    <3>4. ~Live(r) /\ r \in present
      BY <2>4, <3>1, <3>2, <3>3, PanelAssumption DEF bound_client, Live
    <3>. QED BY <3>2, <3>3, <3>4 DEF RemoteGms, is_valid, bound_client
  <2>. QED BY <2>2, <2>3, <2>4
<1>. QED BY <1>1, TypesAlways, PTL DEF Spec, ClaimsAreExclusive

\* What a request does to the GMs of a hub, its client may do at that moment.
THEOREM CommandsAlwaysNeedAuthority == Spec => CommandsNeedAuthority
<1> DEFINE Authorised ==
      \A s \in Session : reading'[s] < reading[s] /\ gms' # gms =>
        /\ is_valid(s)
        /\ \A h \in Hub : gms'[h] # gms[h] => h = hub[bound_client(s)]
<1>1. TypeOK /\ [Next]_vars => [Authorised]_vars
  <2> SUFFICES ASSUME TypeOK, [Next]_vars PROVE Authorised
    OBVIOUS
  <2>1. CASE gms' = gms
    BY <2>1
  <2>2. CASE reading' = reading
    BY <2>2 DEF TypeOK
  <2>3. ASSUME NEW r \in Session, Command(r) PROVE Authorised
    <3> SUFFICES ASSUME NEW s \in Session, reading'[s] < reading[s]
                 PROVE  /\ is_valid(s)
                        /\ \A h \in Hub : gms'[h] # gms[h] => h = hub[bound_client(s)]
      OBVIOUS
    <3>1. r = s
      BY <2>3 DEF TypeOK, Command, BodyRead
    <3>2. is_valid(r) /\ RunsCommand(bound_client(r))
      BY <2>3 DEF Command
    <3>. QED BY <3>1, <3>2, CommandStaysInHub
  <2>4. ASSUME NEW c \in Client, Connect(c) \/ Disconnect(c) \/ Types(c)
        PROVE  reading' = reading
    BY <2>4 DEF Connect, Disconnect, Types
  <2>5. ASSUME NEW t \in Token,
               \/ \E c \in Client : GmPanel(c, t)
               \/ \E u \in Account : Login(u, t)
               \/ Spent(t)
               \/ \E s \in Session : ExchangeToken(t, s)
               \/ \E s \in Session, h \in Hub : CompleteHubLogin(t, h, s)
        PROVE  reading' = reading
    BY <2>5 DEF GmPanel, Login, Spent, ExchangeToken, CompleteHubLogin
  <2>6. ASSUME NEW s \in Session,
               \/ Admit(s) \/ TurnAway(s) \/ Answer(s) \/ Logout(s) \/ PassesTtl(s)
               \/ \E k \in Kind : StartMonitor(s, k) \/ StopMonitor(s, k)
        PROVE  gms' = gms
    BY <2>6 DEF Admit, TurnAway, Answer, Logout, PassesTtl, StartMonitor, StopMonitor, game
  <2>7. CASE Sweep \/ UNCHANGED vars
    BY <2>7 DEF Sweep, vars
  <2>. QED BY <2>1, <2>2, <2>3, <2>4, <2>5, <2>6, <2>7 DEF Next
<1>. QED BY <1>1, TypesAlways, PTL DEF Spec, CommandsNeedAuthority

=============================================================================
