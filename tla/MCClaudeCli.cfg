SPECIFICATION AllFairSpec
CONSTANTS
  Parts = {"cli", "lines", "generate", "captured"}
  call = call
  Calls = {call}
  MaxRepairs = 1
  Sandboxed = TRUE
  Forking = {call}
  Throwing = {call}
  None = None
CHECK_DEADLOCK FALSE
INVARIANT CliResultIsTheStream
INVARIANT CallIsAccounted
PROPERTY CliHolds
PROPERTY AbortEndsUnlessHeld
