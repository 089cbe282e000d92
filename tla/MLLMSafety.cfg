CONSTANTS
  text = text
  essay = essay
  photo = photo
  speech = speech
  Requests = {speech, essay, photo}
  Kind <- MCKindMedia
  Modes = {TRUE, FALSE}
  MaxNumSeqs = 2
  CompletionBatchSize = 2
  MaxTokens = 2
  Chunks = 3
SPECIFICATION Spec
INVARIANTS GeneratorAgrees AnswerHonest
PROPERTIES MLLMServed
CHECK_DEADLOCK FALSE
