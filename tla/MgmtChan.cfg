\* Rings of three slots, two typed bytes, two sessions of the host program.
CONSTANTS
  CmdSize = 3
  RespSize = 2
  LineCap = 1
  PartLen = 1
  MaxReply = 2
  MaxKeys = 2
  MaxSessions = 2
  Impatient = FALSE
SPECIFICATION FairSpec
CHECK_DEADLOCK FALSE
INVARIANTS
  TypeOK
  InOrder
  AckIsDue
  CleanSession
  BlobDelivered
PROPERTIES
  HostGetsOn
