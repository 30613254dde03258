\* Two keys, three calls, one failing write, two crashes (the second one may hit the
\* recovery of the first).  Calls are made at any time, also while a recovery runs.
SPECIFICATION Spec
CONSTANTS
  Keys = {k1, k2}
  Absent = Absent
  JournalFile = JournalFile
  MaxCalls = 3
  MaxCrashes = 2
  MaxFailures = 1
SYMMETRY Symmetry
INVARIANTS
  UncontestedSurvives
PROPERTIES
  IsAtomic
CHECK_DEADLOCK FALSE
