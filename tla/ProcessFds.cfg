CONSTANTS
  Fds = {5, 6, 7, 8}
  PoolSize = 2
  Threshold = 2
  MaxConns = 3
  MaxRefusals = 2
SPECIFICATION FairSpec
INVARIANTS
  Separate
  LeaksOnlyFromFullPool
  DownHasCause
PROPERTIES
  ComesBack
CHECK_DEADLOCK FALSE
