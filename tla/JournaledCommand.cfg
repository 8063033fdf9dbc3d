SPECIFICATION FairSpec
CONSTANTS
  OperationIds = {o1, o2}
  NoOp = noop
  Legacy = {o1}
  MaxCommands = 1
  Faults <- EveryFault
  Descendants = {d1}
  MaxSignals = 1
INVARIANTS TypeOK WriteAhead NeverForgotten CompletedHasReport NoSurvivors
PROPERTIES ImplementsPromise ProgramEnds
CHECK_DEADLOCK FALSE
