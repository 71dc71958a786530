CONSTANTS
  Clients = {c1, c2, c3}
  NoClient = noclient
  Fds = {5, 6, 7}
  ListenFd = 4
  PoolSize = 2
  Pieces = 1
  MaxResets = 1
SYMMETRY Symmetry
VIEW View
SPECIFICATION Spec
INVARIANTS
  SocketsOwned
  NoCrossTalk
PROPERTIES
  ImplementsConns
CHECK_DEADLOCK FALSE
