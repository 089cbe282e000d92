CONSTANTS
  MaxRequests = 3
  Prompts <- MCPrompts
  Outputs = {2}
  BlockSize = 2
  NumBlocks = 4
  MaxClears = 2
SPECIFICATION Spec
INVARIANTS PoolPartitioned RefsExact MapsTrue HitCovers
CHECK_DEADLOCK FALSE
