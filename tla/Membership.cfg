SPECIFICATION Spec
CONSTANTS
  c1 = c1  c2 = c2  c3 = c3  c4 = c4
  a1 = a1  a2 = a2  b1 = b1  b2 = b2
  h1 = h1  h2 = h2
  None = None
  Hub = {h1, h2}
  HubOf <- MCHubOf
  DefaultArea <- MCDefaultArea
  DefaultHub = h1
  SingleCm = {h1}
  AutoKick = {h2}
  Charlist <- MCCharlist
  Client = {c1, c2}
  Area = {a1, a2, b1, b2}
  Ipid = {c1, c2}
  Hdid = {c1, c2}
  IpidOf <- MCOnePerson
  HdidOf <- MCOnePerson
  Mod = {}
  RemoteGmOnly = {}
  CanGm = {h1, h2}
  CanCm = {a1, a2, b1, b2}
INVARIANTS
  Placement
  AuthorityIsLocal
  SingleCmIsPresent
  OneHubPerPerson
  FollowWithinHub
  MovesOnce
PROPERTY
  CascadeEnds
