SPECIFICATION AllSpec
CONSTANTS
  Parts = {"durable", "replays", "gate", "observers"}
  s1 = s1
  r1 = r1
  r2 = r2
  d1 = d1
  ga = ga
  gb = gb
  old = old
  new = new
  NoRecord = NoRecord
  NoDatum = NoDatum
  NoGate = NoGate
  Free = Free
  Starts = {s1}
  Resumes = {r1, r2}
  Deletes = {}
  Gates = {ga, gb}
  Shapes = {old, new}
  FlowOf <- GateAdded
  ShapeOf <- ResumesAreNew
  GateFor <- AllForA
  Refused = {r1}
  OnFlowChange <- OnlyR2Fails
  MayFail = {s1}
  MayDie = {r2}
  MayThrow = {r1}
  StallAt <- InTheBody
  GateHasStore = TRUE
  GateRuns = 4
  None = None
  FlowNodes <- StepsOfFlows
  FlowRoots <- FlowsOfSteps
  KindAt <- KindsOfSteps
  KidsAt <- KidsOfSteps
  MarkedAt <- MarkedSteps
  IdAt <- SuspendIds
  FailingAt <- FailingSteps
  MostPasses = 4
CHECK_DEADLOCK FALSE
INVARIANT NoLostUpdate
INVARIANT ReplaysAreForetold
INVARIANT ResumeServesTheKept
INVARIANT SinksTellTheRun
PROPERTY TakenDatumIsKept
PROPERTY DataMeetsItsFlow
