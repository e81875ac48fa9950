\* A collection and two reviews beside two facts that come and go.
CONSTANTS
  Facts <- MCFacts
  TypeOf <- MCTypeOf
  Unsure <- MCUnsure
  Base <- MCBase
  Answers <- MCAnswers
  None = None
  MaxAnswer = 1
  MaxCollections = 1
  MaxReviews = 2
  MaxClock = 1
  Limit = 3
  AppliedLimit = 2
  MinFactsForRemove = 1
SPECIFICATION Spec
INVARIANT ValidatedOnEvidence
INVARIANT TypesFollowProposals
PROPERTY DecisionsStay
CHECK_DEADLOCK FALSE
