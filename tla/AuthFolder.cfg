\* Three processes, two overlapping saves and two overlapping takes in each.
SPECIFICATION Spec
CONSTANTS
  Callers = {c1, c2}
  MinCount = 1
  Batch = 2
  MaxBoots = 3
  MaxUpdates = 2
  MaxTakes = 2
INVARIANTS
  AccountKept
  AcknowledgedCredsKept
  PublishedKeysKept
PROPERTIES
  OneTimeKey
CHECK_DEADLOCK FALSE
