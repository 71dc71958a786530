CONSTANTS
  N = 2
  Pids = {p1, p2, p3, p4}
  Clients = {}
  Configs = {new, bad}
  BadConfigs = {bad}
  BootCfg = boot
  NoCfg = nocfg
  NoPid = nopid
  ForkErr = forkerr
  PoolSize = 1
  DrainDeadline = 1
  MaxSighups = 1
  MaxCrashes = 1
  MaxForkFailures = 1
SPECIFICATION FairSpec
INVARIANTS
  NewWorkersKeepServing
  OneSlotPerWorker
  RestartReplacesWorkers
  WorkersAccounted
PROPERTIES
  SlotsServe
