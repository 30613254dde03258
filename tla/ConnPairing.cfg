\* Two pairing calls, retries and all pairing nodes.
SPECIFICATION SafeSpec
CONSTANTS
  Requests = {r1, r2}
  MaxAttempts = 2
  None = None
  MaxSize = 500
  MaxRetries = 1
  MaxChunk = 1
  MaxGen = 2
  Reentrant = FALSE
  Payloads <- PairPayloads
INVARIANTS
  NoPairingOnceRegistered
  OpenMeansLoggedIn
  StopIsFinal
