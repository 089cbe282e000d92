CONSTANTS
  MaxRequests = 3
  Prompts <- MCPrompts
  Outputs = {1}
  Trimmable = {TRUE, FALSE}
  MaxMemory = 6
  MaxEntries = 2
  MinPrefix = 2
  RefreshTokens = 1
  SpillQueueSize = 1
  SsdMaxEntries = 1
  DiskFaults = TRUE
  MaxEvents = 2
SPECIFICATION Spec
INVARIANTS MemoryAccounted DrainBarrier IndexCapacity FetchFindsLongest CacheHonest
PROPERTIES StopReturns
CHECK_DEADLOCK FALSE
