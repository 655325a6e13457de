\* A ring of two records, batches of two, both cores writing, one failed write.
CONSTANTS
  Size = 2
  Batch = 2
  Wrap = 4
  AutoFlush = TRUE
  MaxCommands = 2
  MaxFaults = 1
SPECIFICATION FairSpec
CHECK_DEADLOCK FALSE
INVARIANTS
  LogIsFaithful
  OneInFatFs
PROPERTIES
  LogReachesCard
  StallIsReported
