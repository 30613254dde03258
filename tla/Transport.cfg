\* One query over four socket ids (each connect and each close takes one).
SPECIFICATION Spec
CONSTANTS
  Queries = {q1}
  None = None
  MaxSocketId = 4
  PongBeforePing = TRUE
INVARIANTS
  SingleSocket
PROPERTIES
  DropIsNotIntentional
  SilentSocketIsDropped
  EveryQueryEnds
CHECK_DEADLOCK FALSE
