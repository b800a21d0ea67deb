SPECIFICATION Spec
CONSTANTS
  c1 = c1  u1 = u1  u2 = u2  s1 = s1  s2 = s2  h1 = h1  h2 = h2
  Client = {c1}
  Mod = {}
  Account = {u1, u2}
  AllowedHubs <- MCAllowedHubs
  Session = {s1, s2}
  Token = {t1}
  Hub = {h1, h2}
  DefaultHub = h1
  CanGm = {h1, h2}
  RemoteGmOnly = {h2}
  Kind = {"ooc"}
  MaxReading = 1
  None = None
INVARIANTS
  SessionsDieWithClient
PROPERTIES
  CommandsNeedAuthority
  ClaimsAreExclusive
  HubsComeFree
