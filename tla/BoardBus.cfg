\* Three bytes in two batches over FIFOs of two words; READY may hang on a write; two registers, one of them decoded.
CONSTANTS
  Length = 3
  BatchSize = 2
  Depth = 2
  HangOn = {"write"}
  MaxTransfers = 2
  MaxHangs = 2
  Regs = {r1, r2}
  Valid = {r1}
  Values = {v1}
  Ones = Ones
  Zero = Zero
  None = None
SPECIFICATION BoardFairSpec
CHECK_DEADLOCK FALSE
INVARIANTS
  BoardTypeOK
  OneDriver
  ServesLastWrite
  PrefetchBalance
  PortQuietUnderDma
PROPERTIES
  CopiesOrFails
  NobodyWaits
