SPECIFICATION Spec
CONSTANTS
  RejoinIntervalMax = 2
  Places = {3}
  MaxCallbacks = 2
  MaxSignals = 2
INVARIANTS
  NeverStuck
CHECK_DEADLOCK FALSE
