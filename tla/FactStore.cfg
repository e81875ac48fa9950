SPECIFICATION Spec
CONSTANTS
  i1 = i1
  i2 = i2
  None = None
  Ingests = {i1, i2}
  Existing = 0
  FactsIn <- TwoAndOne
  Confidences = {"low", "high"}
  MergeOnDedup = TRUE
  MaxRows = 4
  MaxEdits = 1
INVARIANT ChainsKept
INVARIANT GuardRespected
INVARIANT NewerUnlessMerged
PROPERTY RetirementFinal
CHECK_DEADLOCK FALSE
