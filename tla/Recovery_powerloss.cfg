\* Power loss at any step, on a host whose probe runs no command.
CONSTANTS
  NoOp = NoOp
  OperationIds = {o1, o2, o3}
  Kinds = {"snapshot", "install", "verify", "rollback"}
  Faults = {"powerLoss"}
  ProbeQueries = FALSE
SPECIFICATION Spec
SYMMETRY Symmetry
INVARIANTS TypeOK NoForgottenMutation OneAuthority AuthorityRetained MaskedWhilePartial AuthorityReadable QuarantineIsClaimed
PROPERTIES ReleaseAuthorization ExactRepair JustifiedRecovery EvidenceResolves
CHECK_DEADLOCK FALSE
