CONSTANTS
  r1 = r1  r2 = r2  hot = hot
  Requests = {r1, r2}
  Params = {hot}
  ParamsOf <- AllSame
  MaxNumSeqs = 2
  MaxTokens = 2
  MaxRetries = 1
  SsdTier = TRUE
  Races = TRUE
  Faults <- GenerationFaults
  MaxFaults = 1
  StreamInterval = 2
SPECIFICATION EngineSafety
SYMMETRY SameSampler
INVARIANTS EventMeansOutput AnswerMatchesEnd NoClientForgotten
CHECK_DEADLOCK FALSE
