\* Two targets; a directory and two images on the host, one entry more than a listing
\* looks at; tags modulo seven, two attempts.
CONSTANTS
  Targets = {0, 1}
  LastEntry = 3
  Images = {1, 3}
  WalkCap = 2
  None = None
  TagWrap = 7
  Retries = 2
  QueueCap = 2
  MaxWait = 1
  MaxCalls = 3
  MaxFaults = 1
SPECIFICATION Spec
CHECK_DEADLOCK FALSE
INVARIANTS
  TypeOK
  NothingOutstanding
  ReadsLatest
  ServesSelected
  ListIsFaithful
