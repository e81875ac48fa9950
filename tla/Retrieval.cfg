SPECIFICATION RetrievalSpec
CONSTANTS
  a = a
  b = b
  c = c
  m = m
  k = k
  r1 = r1
  r2 = r2
  NoFact = NoFact
  Facts = {a, b, c}
  Messages = {m}
  Chunks = {k}
  Old = {a, b}
  Preferences = {b}
  VectorOrder <- MCVectorOrder
  TextOrder <- MCTextOrder
  LimitOf <- MCLimitOf
  Words <- MCWords
  Ends <- MCEnds
  Seeded <- MCSeeded
  Strategies = {"rrf", "set-union"}
  TopNs = {0, 2}
  MaxClock = 1
  MaxWrites = 2
  MaxLayers = 2
INVARIANT RetrievalTypeOK
INVARIANT FindsReachPrompt
INVARIANT MergeRespectsLayers
CHECK_DEADLOCK FALSE
