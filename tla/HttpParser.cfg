CONSTANTS
  Streams <- MCStreams
  LineMax = 2
  HeaderMax = 2
  BodyLen = 2
SPECIFICATION FairSpec
INVARIANTS
  SplitsDoNotMatter
PROPERTIES
  Recognised
CHECK_DEADLOCK FALSE
