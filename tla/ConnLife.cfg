\* Drops, reconnects, logouts, listeners that call back into the socket.
SPECIFICATION Spec
CONSTANTS
  Requests = {r1}
  MaxAttempts = 1
  None = None
  MaxSize = 500
  MaxRetries = 2
  MaxChunk = 2
  MaxGen = 5
  Reentrant = TRUE
  Payloads <- LifePayloads
INVARIANTS
  SessionOfThisSocket
  EventsReachListeners
  NoForgottenWaiter
PROPERTIES
  NoConnectAfterStop
  EveryCallEnds
  DropIsRetried
  ImplementsLink
