SPECIFICATION Spec
CONSTANTS
  p1 = p1  p2 = p2  p3 = p3  p4 = p4  p5 = p5
  k1 = k1  k2 = k2  k3 = k3  k4 = k4  k5 = k5
  Player = {p1, p2, p3}
  Char = {k1, k2, k3}
  Spectator = Spectator
  Owner = {p1}
  VotesTenths = 10
  CanCrossSwords = TRUE
  CanScrumDebate = TRUE
  CanPanicTalkAction = TRUE
INVARIANTS
  NothingIsLeftOver
  MutedByAnOwner
PROPERTY
  DebatesEnd
