CONSTANTS
  MaxSize = 12
  Page = 2
  Slots = 2
SPECIFICATION FairSpec
INVARIANTS
  InOrder
  SentCounted
  HolesBounded
  WholeIfFast
PROPERTIES
  ServingEnds
CHECK_DEADLOCK FALSE
