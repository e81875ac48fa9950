SPECIFICATION FairSpec
CONSTANTS
  s1 = s1
  c1 = c1
  c2 = c2
  x = x
  y = y
  None = None
  Unknown = Unknown
  Schedulers = {s1}
  Others = {c1, c2}
  Starts <- MCStarts
  MaxFacts = 2
  Subject <- MCSubject
  Topic <- MCTopic
  Expiring = {2}
  MinFacts = 2
  MaxGroup = 2
  Evals <- MCEvals
  Scores = {1, 2}
  MaxKept = 2
  Torn = Torn
  MaxErrors = 1
INVARIANT ConsolidatedOnce
INVARIANT BaselineIsBest
 
PROPERTY BacklogConsolidated
CHECK_DEADLOCK FALSE
