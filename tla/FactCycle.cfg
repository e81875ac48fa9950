SPECIFICATION Spec
CONSTANTS
  i1 = i1
  i2 = i2
  None = None
  Ingests = {i1, i2}
  Existing = 1
  FactsIn <- OneEach
  Confidences = {"low", "high"}
  MergeOnDedup = TRUE
  MaxRows = 4
  MaxEdits = 0
INVARIANT KnowledgeKept
CHECK_DEADLOCK FALSE
