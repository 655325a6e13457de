\* One target switch, commands of up to two blocks, one board reset.  The queue is
\* as small as the protocol allows; the host stops after its last command.
CONSTANTS
  CdbLen = 2
  ParamLen = 2
  MaxBlocks = 2
  DmaRetries = 2
  QueueSize = 11
  Targets = {1, 2}
  MaxCommands = 2
  MaxResets = 1
  Settle = TRUE
SPECIFICATION Spec
CHECK_DEADLOCK FALSE
INVARIANTS
  IInv
  StatusIsForThisCommand
  GoodMeansDone
  TransferAddress
  CoherentWhenQuiet
  IrqNotLost
  ResetFlagBacked
PROPERTIES
  AbortsOnReset
  PhaseOrder
