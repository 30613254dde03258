\* The server answers the active attempt with a code.
SPECIFICATION SafeSpec
CONSTANTS
  Requests = {r1}
  MaxAttempts = 1
  None = None
  MaxSize = 500
  MaxRetries = 1
  MaxChunk = 1
  MaxGen = 1
  Reentrant = FALSE
  Payloads <- PairPayloads
PROPERTIES
  AnsweredCodeIsSaved
