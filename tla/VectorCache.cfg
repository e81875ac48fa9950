CONSTANTS
  p = p
  q = q
  f = f
  Absent = Absent
  Deleted = Deleted
  Torn = Torn
  None = None
  Procs = {p, q}
  Writers = {p, q}
  Rows = {f}
  MaxVersion = 2
SYMMETRY Processes
VIEW Viewed
SPECIFICATION Spec
INVARIANT FoundUnlessLost
INVARIANT TornOnlyByOverlap
CHECK_DEADLOCK FALSE
