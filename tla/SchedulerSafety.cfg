CONSTANTS
  r1 = r1  r2 = r2  r3 = r3  hot = hot  cold = cold
  Requests = {r1, r2, r3}
  Params = {hot}
  ParamsOf <- AllSame
  MaxNumSeqs = 2
  MaxTokens = 2
  MaxRetries = 1
  SsdTier = TRUE
  Races = TRUE
  Faults <- AnyFault
  MaxFaults = 1
SPECIFICATION OneAbort
SYMMETRY SameSampler
INVARIANTS SchedulerTypeOK UidMapsExact QueueExclusive Capacity AbortTakesEffect
PROPERTIES FinishedIsFinal FinishReported
CHECK_DEADLOCK FALSE
