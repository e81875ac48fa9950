CONSTANTS
  c1 = c1
  c2 = c2
  c3 = c3
  p1 = p1
  t1 = t1
  big = big
  bigNew = bigNew
  Callers = {c1, c2, c3}
  Embedders = {c3}
  Names = {p1}
  Tasks = {t1}
  Models = {big, bigNew}
  Configured <- MCConfigured
  Affinity <- MCAffinity
  Listers <- MCListers
  None = None
  MaxRetries = 2
  MaxHours = 2
  MaxCalls = 4
  MaxChecks = 1
SYMMETRY Senders
SPECIFICATION Spec
INVARIANT FailuresEarned
INVARIANT HealthSettled
PROPERTY TerminalIsFinal
CHECK_DEADLOCK FALSE
