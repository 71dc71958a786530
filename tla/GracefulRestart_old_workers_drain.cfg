CONSTANTS
  N = 1
  Pids = {p1, p2, p3}
  Clients = {c1}
  Configs = {new}
  BadConfigs = {}
  BootCfg = boot
  NoCfg = nocfg
  NoPid = nopid
  ForkErr = forkerr
  PoolSize = 1
  DrainDeadline = 1
  MaxSighups = 2
  MaxCrashes = 0
  MaxForkFailures = 0
SYMMETRY Symmetry
SPECIFICATION Spec
INVARIANT OldWorkersToldToDrain
