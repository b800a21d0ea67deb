SPECIFICATION Spec
CONSTANTS
  own = own  p = p
  Client = {own, p}
  Trusted = {own}
  None = None
  Modes = {"HiddenCM", "CM"}
  Lights = {FALSE, TRUE}
  Kinds <- Items
  Positions = {"wit", "def"}
  Ways = {1}
  Reveals = FALSE
  Limit = 2
  MaxBag = 1
  Carriers = {p}
  Blindable = {p}
INVARIANTS
  HidersAreFound
  SeenIsCurrent
PROPERTY UnseenIsUntouched
CONSTRAINT Bound
CHECK_DEADLOCK FALSE
