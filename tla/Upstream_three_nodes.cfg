CONSTANTS
  NodeCount = 3
  Weight <- MCWeight
  Threshold = 2
  MaxFlips = 3
SPECIFICATION FairSpec
INVARIANTS
  NullOnlyIfNoneStayedUp
  PickedWasUp
  SmoothShares
  DisplacementBounded
PROPERTIES
  HealthyNodeServes
  FailingNodeLeaves
