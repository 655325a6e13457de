\* READY hangs on a read, which is then tried again.
CONSTANTS
  Length = 2
  BatchSize = 2
  Depth = 4
  HangOn = {"read"}
  MaxTransfers = 2
  MaxHangs = 1
SPECIFICATION Spec
CHECK_DEADLOCK FALSE
INVARIANT
  ReadIsFaithful
