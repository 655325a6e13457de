\* Two targets, three images, thresholds of two and three failures.
CONSTANTS
  Targets = {0, 1}
  Images = {1, 2, 3}
  None = None
  Ops = {"read"}
  RemountAt = 2
  DisableAt = 3
  MaxOps = 2
  MaxFaults = 2
SPECIFICATION Spec
CHECK_DEADLOCK FALSE
INVARIANTS
  TypeOK
  OwnAnswer
  
PROPERTIES
  NoPartialImage
  MountRecovers
