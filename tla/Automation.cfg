SPECIFICATION Spec
CONSTANTS
  d1 = d1  d2 = d2  d3 = d3  d4 = d4  here = here  there = there
  None = None  Stop = Stop  Summon = Summon  Fail = Fail
  Demo = {d1, d2, d3, d4}
  Desc <- Descs
  Own = here
  Others = {there}
  Triggers = {d2, Fail}
  RateLimited = TRUE
  MaxSteps = 6
  Second = 2
  Durations = {2}
  Adjustments <- Adjust
  Attached = {d1, Fail, Stop}
  Budget = 5
INVARIANTS
  
  RestoredWhenStopped
  ExpiryIsOnTarget
 
CHECK_DEADLOCK FALSE
