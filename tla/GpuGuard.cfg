\* One gate and checkpoint beside two process ids, which are reused.
CONSTANTS
  N = 2
  Order <- MCOrder
  Guarded <- MCGuarded
  Machines <- MCMachines
  Allowed = FALSE
  MaxMoves = 5
SPECIFICATION Spec
INVARIANTS IdleBehindMasks OneProcessIsBound
PROPERTIES StopsTheBound
CHECK_DEADLOCK FALSE
