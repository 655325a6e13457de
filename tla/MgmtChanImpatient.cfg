\* As MgmtChan.cfg, but core 0 is busy for longer than session_settle() waits.
CONSTANTS
  CmdSize = 3
  RespSize = 2
  LineCap = 1
  PartLen = 1
  MaxReply = 2
  MaxKeys = 2
  MaxSessions = 2
  Impatient = TRUE
SPECIFICATION Spec
CHECK_DEADLOCK FALSE
INVARIANTS
  AckIsDue
