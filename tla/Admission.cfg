CONSTANTS
  a1 = a1
  a2 = a2
  a3 = a3
  bad = bad
  worse = worse
  Addrs = {a1, a2, a3, bad, worse}
  Nobody = nobody
  Blacklist <- Listed
  ListSize = 3
  TableSize = 2
  Rate = 2
  Second = 3
  MaxTime = 4
  MaxPasses = 4
SPECIFICATION Spec
INVARIANTS
  WithinLimit
  RefusedOverLimit
  BlockedAside
CHECK_DEADLOCK FALSE
