SPECIFICATION AllFairSpec
CONSTANTS
  Parts = {"loop"}
  Tools = {"read", "write", "finish"}
  Strangers = {"ghost"}
  ReadOnly = {"read"}
  EndsTurn = {"finish"}
  Gated = {"write"}
  Judged = {"finish"}
  Options <- RepairOptions
  MaxCalls = 2
  None = None
  TurnDialects = {"anthropic", "chat", "openrouter", "ollama", "ai_sdk"}
  TurnAttempts = 2
  TurnRetryOn = {"rate_limit", "provider_5xx", "network", "timeout"}
  TurnBlocks = 2
CHECK_DEADLOCK FALSE
INVARIANT DroppedAreNamed
