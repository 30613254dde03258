\* Every node of the instance, whole and cut off anywhere.
SPECIFICATION Spec
CONSTANTS
  Half = 2
  Nodes <- SomeNodes
  Foreign <- SomeForeign
INVARIANTS
  RoundTrip
  CutOffIsRefused
CHECK_DEADLOCK FALSE
