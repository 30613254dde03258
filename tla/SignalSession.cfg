\* Two key agreements, gaps longer than the keys that may be skipped.
SPECIFICATION Spec
CONSTANTS
  MaxSkip = 1
  MaxSessions = 2
  MaxCounter = 5
INVARIANTS
  DecryptedOnce
  KeysOfMissing
  SkippedBounded
CHECK_DEADLOCK FALSE
