CONSTANTS
  r1 = r1  r2 = r2  hot = hot
  Requests = {r1, r2}
  Params = {hot}
  ParamsOf <- AllSame
  MaxNumSeqs = 1
  MaxTokens = 2
  MaxRetries = 1
  SsdTier = TRUE
  Races = TRUE
  Faults <- PlainFaults
  MaxFaults = 1
  StreamInterval = 1
SPECIFICATION EngineSpec
INVARIANTS StreamLossless
PROPERTIES ServiceImplemented
CHECK_DEADLOCK FALSE
