SPECIFICATION Spec
CONSTANTS
  States = {s1, s2}
  NoState = NoState
  DiskFaults = TRUE
SYMMETRY Symmetry
INVARIANTS TypeOK AtMostOnce OnlyByItsCode GrantLeftByRestart
PROPERTIES RefusedNeverRuns
