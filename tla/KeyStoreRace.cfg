\* A call is made while the recovery of the last crash is still running.
SPECIFICATION Spec
CONSTANTS
  Keys = {k1, k2}
  Absent = Absent
  JournalFile = JournalFile
  MaxCalls = 3
  MaxCrashes = 2
  MaxFailures = 0
INVARIANTS
  AcknowledgedSurvives
CHECK_DEADLOCK FALSE
