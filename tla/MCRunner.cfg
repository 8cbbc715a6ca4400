SPECIFICATION AllFairSpec
CONSTANTS
  Parts = {"runner", "flow", "composition", "rounds", "bench", "cards"}
  a = a
  b = b
  Runs = {a,b}
  MayOptOut = {b}
  Linked = {a}
  Streamed = {a}
  Straying = {a}
  Throwing = {a}
  MaxHandlers <- TwoForA
  FlowNodes <- TheNodes
  FlowRoots = {"guarded", "batch", "patient", "nested"}
  FlowKind <- KindOfNode
  FlowKids <- KidsOfNode
  FlowLimit <- OneAtATime
  FlowItems <- Twos
  FlowSettling = {"gates"}
  FlowGates = {"g"}
  FlowStubborn = {"s"}
  BenchCases = {1, 2, 3}
  BenchJudges = {1}
  BenchLimits = {2, 3}
  RoundMembers = {1, 2}
  RoundPlayers = 7
  RoundScores = 2
  RoundBound = 3
  RoundPatience = 2
  RoundLessons = 1
  CardSteps <- StepsOfATurn
  CardRawId <- TheRawId
  CardDoes <- DoesOfStep
  CardRuns = 2
  CardTurns = 2
  CardBuffer = 2
  NoPath = NoPath
  NaN = NaN
  None = None
CHECK_DEADLOCK FALSE
INVARIANT RunnerServes
INVARIANT FlowIsAsTold
INVARIANT CardsAreTrue
INVARIANT RoundsAreTold
INVARIANT ReportIsWhole
PROPERTY WaitsEnd
PROPERTY FlowSettles
