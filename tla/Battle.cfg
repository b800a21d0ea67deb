SPECIFICATION Spec
CONSTANTS
  c1 = c1  c2 = c2  c3 = c3  b1 = b1  b2 = b2  b3 = b3  g1 = g1
  Client = {c1, c2, c3}
  Body = {b1, b2, b3}
  Guild = {g1}
  Ailments = {}
  None = None
  MaxListed = 2
  GuildCap = 2
  MaxCount = 3
  Undercut = 1
  Written <- Changed
  Picks = {"hitAll", "itemAll"}
CONSTRAINT Bound
SYMMETRY Alike
INVARIANTS
  CountIsRight
  OneBodyEach
  BattleHasFighters
CHECK_DEADLOCK FALSE
