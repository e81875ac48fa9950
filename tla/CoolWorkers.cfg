SPECIFICATION Spec
CONSTANTS
  m1 = m1
  m2 = m2
  m3 = m3
  m4 = m4
  sA = sA
  sB = sB
  NoSession = NoSession
  None = None
  SessionOf <- MCSessionOf
  Stamp <- MCStamp
  Messages = {m1, m2, m3}
  Sessions = {sA, sB}
  Transcribed = {}
  Workers = {w1, w2}
  TreeK = 1
  MaxClusterSize = 1
  SilenceHours = 0
  MaxClock = 2
  MaxCrashes = 1
INVARIANT ClusterWithinSession
INVARIANT ClaimExclusive
INVARIANT ExtractedAtMostOnce
PROPERTY ClusterMembershipFixed
PROPERTY ImplementsQueue
CHECK_DEADLOCK FALSE
