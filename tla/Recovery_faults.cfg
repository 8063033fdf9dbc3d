\* Every fault but SIGKILL, on a host whose probe runs commands (verify acts as lock).
CONSTANTS
  NoOp = NoOp
  OperationIds = {o1, o2}
  Kinds = {"install", "lock", "rollback"}
  Faults = {"powerLoss", "signal", "append", "appendUncertain"}
  ProbeQueries = TRUE
SPECIFICATION FairSpec
INVARIANTS IInv
PROPERTIES LockIsReleased
CHECK_DEADLOCK FALSE
