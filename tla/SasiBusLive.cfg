\* A smaller instance for liveness and refinement: two commands of up to two blocks and
\* one reset, on one target.
CONSTANTS
  CdbLen = 2
  ParamLen = 2
  MaxBlocks = 2
  DmaRetries = 2
  QueueSize = 11
  Targets = {1}
  MaxCommands = 2
  MaxResets = 1
  Settle = TRUE
SPECIFICATION FairSpec
CHECK_DEADLOCK FALSE
PROPERTIES
  HostFinishes
  ServesCommands
