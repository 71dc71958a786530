CONSTANTS
  Clients = {c1, c2}
  NoClient = noclient
  Fds = {5, 6, 7}
  ListenFd = 4
  PoolSize = 2
  Pieces = 1
  MaxResets = 0
SPECIFICATION Spec
PROPERTIES
  FreshConnectionKept
CHECK_DEADLOCK FALSE
