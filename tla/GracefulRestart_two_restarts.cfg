CONSTANTS
  N = 1
  Pids = {p1, p2, p3}
  Clients = {c1, c2}
  Configs = {new}
  BadConfigs = {}
  BootCfg = boot
  NoCfg = nocfg
  NoPid = nopid
  ForkErr = forkerr
  PoolSize = 1
  DrainDeadline = 2
  MaxSighups = 2
  MaxCrashes = 1
  MaxForkFailures = 0
SPECIFICATION FairSpec
INVARIANTS
  UnreapedChildrenBounded
  TableStaysFull
  NoClientAborted
PROPERTIES
  KillOnlyStragglers
  LivesKeepContract
  RestartCompletes
  QueuedClientsSettle
