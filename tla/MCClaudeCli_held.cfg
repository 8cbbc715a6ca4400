SPECIFICATION AllFairSpec
CONSTANTS
  Parts = {"cli"}
  call = call
  Calls = {call}
  MaxRepairs = 1
  Sandboxed = FALSE
  Forking = {call}
  Throwing = {}
  None = None
CHECK_DEADLOCK FALSE
PROPERTY AbortEndsCall
