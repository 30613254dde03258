\* Three requests compete for the lock; three attempts each (the default).
SPECIFICATION PairingSpec
CONSTANTS
  Requests = {r1, r2, r3}
  MaxAttempts = 3
  None = None
INVARIANTS
  LockHeldWhilePending
  MapMatchesActiveFlow
  CodeAnswersOwnIq
PROPERTIES
  NewestAttemptResolves
  KeepsPromise
  EveryRequestSettles
