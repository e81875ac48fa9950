CONSTANTS
  c1 = c1
  c2 = c2
  d1 = d1
  d2 = d2
  Go = Go
  go = go
  sql = sql
  Nothing = Nothing
  Calls = {c1, c2}
  Names = {Go, go, sql}
  Folded <- MCFolded
  Extractions <- MCExtractions
  Dedupers = {d1, d2}
  Depths = {1}
  MaxPath = 10
  MaxIngests = 2
  MaxRequests = 2
  MaxErrors = 1
SYMMETRY Callers
SPECIFICATION GraphSpec
INVARIANT GraphTypeOK
INVARIANT OneEntityPerName
INVARIANT AnswersConnected
PROPERTY KnowledgeStays
CHECK_DEADLOCK FALSE
