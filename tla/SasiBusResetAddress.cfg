\* The host programs the next command while the worker finishes the aborted one.
CONSTANTS
  CdbLen = 2
  ParamLen = 1
  MaxBlocks = 1
  DmaRetries = 1
  QueueSize = 40
  Targets = {1}
  MaxCommands = 2
  MaxResets = 1
  Settle = FALSE
SPECIFICATION Spec
CHECK_DEADLOCK FALSE
INVARIANT
  AddressSurvivesReset
