SPECIFICATION AllFairSpec
CONSTANTS
  Parts = {"session", "command", "files", "servers"}
  l1 = l1
  l2 = l2
  p1 = p1
  p2 = p2
  s1 = s1
  c1 = c1
  Loads = {l1, l2}
  Prompts = {p1, p2}
  Settings = {s1}
  Closes = {c1}
  Hangup = Hangup
  None = None
  Past = Past
  Clients = {"patient", "serial", "hasty"}
CHECK_DEADLOCK FALSE
INVARIANT SessionsHold
INVARIANT ToolsReportTruly
PROPERTY NoExchangeIsLost
PROPERTY CallsEnd
