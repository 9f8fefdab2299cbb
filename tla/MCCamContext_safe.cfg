SPECIFICATION Spec
CONSTANTS
  Reqs = {r1, r2}
  Fences = {f1, f2}
  MaxFences = 2
  KeepsFences = TRUE
  FullPackets = TRUE
  HwAccepts = FALSE
  None = None
SYMMETRY Symm
INVARIANTS TypeOK OnOneList NoRequestLost AppliedAfterFences RefExact OutFencesSettled
CHECK_DEADLOCK FALSE
