CONSTANTS
  MaxRequests = 3
  Prompts <- MCPrompts
  Outputs = {2}
  BlockSize = 2
  NumBlocks = 4
  MaxClears = 2
SPECIFICATION Spec
INVARIANTS SameContext
CHECK_DEADLOCK FALSE
