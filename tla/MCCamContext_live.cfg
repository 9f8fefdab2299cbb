SPECIFICATION FairSpec
CONSTANTS
  Reqs = {r1}
  Fences = {f1, f2}
  MaxFences = 2
  KeepsFences = TRUE
  FullPackets = FALSE
  HwAccepts = FALSE
  None = None
PROPERTIES FlushedFreed IoctlReturns
CHECK_DEADLOCK FALSE
