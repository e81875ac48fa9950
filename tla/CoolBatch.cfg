SPECIFICATION FairSpec
CONSTANTS
  m1 = m1
  m2 = m2
  m3 = m3
  m4 = m4
  sA = sA
  sB = sB
  NoSession = NoSession
  None = None
  SessionOf <- MCSessionOf
  Stamp <- MCStamp
  Messages = {m1, m2, m4}
  Sessions = {sA}
  Transcribed = {sA}
  Workers = {w1}
  TreeK = 1
  MaxClusterSize = 2
  SilenceHours = 1
  MaxClock = 2
  MaxCrashes = 1
INVARIANT UnlinkedProcessedWasExtracted
PROPERTY ReadyClusterHandled
PROPERTY RowEventuallyClustered
CHECK_DEADLOCK FALSE
