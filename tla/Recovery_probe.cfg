\* No fault at all: the probe's own commands break the journal.
CONSTANTS
  NoOp = NoOp
  OperationIds = {o1, o2}
  Kinds = {"install"}
  Faults = {}
  ProbeQueries = TRUE
SPECIFICATION Spec
SYMMETRY Symmetry
INVARIANTS AuthorityReadable
CHECK_DEADLOCK FALSE
