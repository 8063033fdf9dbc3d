\* Nothing fails and nothing interferes; every snapshot of Docker and one service.
CONSTANTS
  Targets <- AllTargets
  Requires = {TRUE, FALSE}
  AllowActiveWorkloads = FALSE
  Faults = {}
  Environment = {}
SPECIFICATION Spec
INVARIANTS CleanCommitSucceeds
CHECK_DEADLOCK FALSE
