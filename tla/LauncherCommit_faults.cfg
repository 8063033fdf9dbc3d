\* Every fault of the program and every move of the world around it, five snapshots.
CONSTANTS
  Targets <- FewTargets
  Requires = {TRUE}
  AllowActiveWorkloads = FALSE
  Faults = {"failure", "exception", "powerLoss"}
  Environment = {"client", "restart", "exit", "workload"}
SPECIFICATION FairSpec
INVARIANTS TypeOK EnabledAfterProof DockerBehindNvidia
PROPERTIES CommitEnds GatedDaemon ImplementsRelease
CHECK_DEADLOCK FALSE
