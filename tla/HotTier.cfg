SPECIFICATION FairSpec
CONSTANTS
  m1 = m1
  m2 = m2
  m3 = m3
  Missing = Missing
  Messages = {m1, m2}
  Long = {m1}
  TTL = 0
  BatchSize = 1
  MaxClock = 2
  MaxStops = 1
  MaxQueries = 1
INVARIANT TiersAgree
INVARIANT IndexComplete
INVARIANT QueryComplete
PROPERTY ImplementsStore
PROPERTY ExpiredMoves
CHECK_DEADLOCK FALSE
