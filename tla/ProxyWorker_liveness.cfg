CONSTANTS
  Clients = {c1, c2}
  NoClient = noclient
  Fds = {5, 6, 7}
  ListenFd = 4
  PoolSize = 2
  Pieces = 1
  MaxResets = 1
SPECIFICATION AnsweringSpec
PROPERTIES
  RequestsSettle
  DrainedWorkerExits
CHECK_DEADLOCK FALSE
