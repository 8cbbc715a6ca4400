SPECIFICATION AllFairSpec
CONSTANTS
  Parts = {"tail", "feed", "playback"}
  FollowLinks = {TRUE, FALSE}
  SplitChars = FALSE
  DirReportsWrites = FALSE
  MaxHalves = 4
  MaxFiles = 2
  MaxDirs = 1
  MaxTruncations = 1
  FeedModes = {"tail", "ingest"}
  FeedBuffer = 2
  FeedEvents = 3
  FeedBodies <- TheBodies
  FeedLimit = 3
  FeedRotations = 1
  FeedRestarts = 1
  FeedDrops = 1
  None = None
  PlayEvents = 4
  PlayRuns = 2
  Gaps <- TheGaps
  Ticks = {9}
  GAP_FLOOR = 2
  GAP_CAP = 3
  Second = 3
CHECK_DEADLOCK FALSE
INVARIANT TailServes
INVARIANT PageIsWhole
PROPERTY TailRests
