\* Three frames each way after the handshake, cut into pieces of any size.
SPECIFICATION Spec
CONSTANTS
  MaxFrames = 3
  Strict = TRUE
INVARIANTS
  NonceUsedOnce
  RejectedForCause
  SessionsAgree
  NoGapToServer
  NothingLeftBehind
CHECK_DEADLOCK FALSE
