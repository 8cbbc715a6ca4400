SPECIFICATION AllSpec
CONSTANTS
  Parts = {"claim", "drawer"}
  a = a
  b = b
  c = c
  x = x
  Free = Free
  Owners = {a, b, c, x}
  Clearers = {x}
  Casts <- OneMeetsTheClearer
  MaxClaims <- OnlyARenews
  Punctual = TRUE
  None = None
CHECK_DEADLOCK FALSE
SYMMETRY OwnerSymmetry
INVARIANT InspectorIsTrue
PROPERTY ClaimIsAsPromised
