CONSTANTS
  r1 = r1  r2 = r2  r3 = r3  hot = hot  cold = cold
  Requests = {r1, r2}
  Params = {hot, cold}
  ParamsOf <- OneDiffers
  MaxNumSeqs = 1
  MaxTokens = 2
  MaxRetries = 1
  SsdTier = TRUE
  Races = FALSE
  Faults <- RecoverableFaults
  MaxFaults = 2
SPECIFICATION SchedulerSpec
INVARIANTS NoRequestLost
PROPERTIES Served
CHECK_DEADLOCK FALSE
