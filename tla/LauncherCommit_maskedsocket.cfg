\* A snapshot with a running daemon and a masked socket; nothing fails.
CONSTANTS
  Targets <- MaskedSocket
  Requires = {TRUE, FALSE}
  AllowActiveWorkloads = FALSE
  Faults = {}
  Environment = {}
SPECIFICATION Spec
INVARIANTS MaskedSocketTargetCommits
CHECK_DEADLOCK FALSE
