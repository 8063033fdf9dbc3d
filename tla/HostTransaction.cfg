\* Installs, compensations, verifications, locks and rollbacks of one machine; two faults.
CONSTANTS
  StopOrder <- MCStopOrder
  Machines <- MCMachines
  Desires <- MCDesires
  Commands = {"install", "verify", "lock"}
  BootModules = {"nvidia", "nvidia_uvm"}
  MaxFaults = 2
SPECIFICATION Spec
INVARIANTS TypeOK RestoredIsBaseline ConvergedIsDesired FailureQuarantined SettledKeepsBaseline
PROPERTIES ModulesMoveBehindMasks FailsForAReason SecondPlanIsEmpty
CHECK_DEADLOCK FALSE
