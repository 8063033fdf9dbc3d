\* From every failure the exact rollback is repeated until the baseline is back.
CONSTANTS
  StopOrder <- MCStopOrder
  Machines <- MCFewMachines
  Desires <- MCFewDesires
  Commands = {"install", "verify", "lock"}
  BootModules = {"nvidia", "nvidia_uvm"}
  MaxFaults = 2
SPECIFICATION FairSpec
PROPERTIES RollbackCompletes
CHECK_DEADLOCK FALSE
