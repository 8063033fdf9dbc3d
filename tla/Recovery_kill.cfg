\* SIGKILL of the process while a mutating command goes on.
CONSTANTS
  NoOp = NoOp
  OperationIds = {o1, o2, o3}
  Kinds = {"snapshot", "install", "rollback"}
  Faults = {"kill", "powerLoss"}
  ProbeQueries = FALSE
SPECIFICATION Spec
SYMMETRY Symmetry
INVARIANTS OneAuthority
CHECK_DEADLOCK FALSE
