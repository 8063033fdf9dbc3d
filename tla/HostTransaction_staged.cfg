\* A rollback ends with nothing but a staged MIG mode in its way.
CONSTANTS
  StopOrder <- MCStopOrder
  Machines <- MCMachines
  Desires <- MCDesires
  Commands = {"install", "verify", "lock"}
  BootModules = {"nvidia", "nvidia_uvm"}
  MaxFaults = 1
SPECIFICATION Spec
PROPERTY StagedIsSaid
CHECK_DEADLOCK FALSE
