SPECIFICATION AllFairSpec
CONSTANTS
  Parts = {"stream", "ui", "scene", "layout"}
  HighWater = 2
  MaxEvents = 6
  UiCalls = {1, 2}
  UiSteps = 2
  UiChunks = 2
  Places = 5
  Structures <- StructuresOfPlaces
  Viewports <- TwoViewports
  Trees <- TheTrees
  Flows <- TheDrawings
CHECK_DEADLOCK FALSE
INVARIANT CountsTheMissing
INVARIANT StreamIsWellFormed
INVARIANT SceneTellsTheRun
INVARIANT CanvasHoldsTheFlow
PROPERTY IsFeed
PROPERTY StreamEnds
