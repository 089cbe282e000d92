CONSTANTS
  text = text
  essay = essay
  photo = photo
  speech = speech
  Requests = {text, essay, photo}
  Kind <- MCKind
  Modes = {TRUE}
  MaxNumSeqs = 2
  CompletionBatchSize = 2
  MaxTokens = 3
  Chunks = 4
SPECIFICATION Spec
PROPERTIES OneTokenPerStep
CHECK_DEADLOCK FALSE
