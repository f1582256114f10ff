SPECIFICATION MCSpec
CHECK_DEADLOCK FALSE
CONSTANTS
  Request = {r1, r2, r3}
  STOPPING = 3
  MaxCommit = 2
  MaxArchive = 2
  MaxLosses = 1
  Keep = 1
  n1 = n1
  n2 = n2
  n3 = n3
  Localhost = Localhost
  replica_factor = 1
  host_timeout = 2
  min_healthy_nodes = 1
  MaxFaults = 2
  MaxChanges = 3
INVARIANTS
  ShutdownSafe
  MovesSafe
PROPERTIES
  BackupsSafe
  AtomicRestore
  OperationsEnd
