\* A reaction sent and one received, two sockets, a window smaller than the two messages.
SPECIFICATION Spec
CONSTANTS
  Outgoing = {m1}
  Incoming = {i1}
  Effective = {m1, i1}
  Reactions = {m1}
  None = None
  MaxAttempts = 3
  WindowSize = 1
  MaxGen = 2
  MaxEffects = 2
INVARIANTS
  AnnouncedOnce
  OutcomeMatchesWire
  EffectsAfterSend
PROPERTIES
  EverySendEnds
CHECK_DEADLOCK FALSE
