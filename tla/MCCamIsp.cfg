\* Frames, bubbles, flushes and applies in any order.
SPECIFICATION Spec
CONSTANTS
  Ports = {a, b}
  MaxReq = 3
  MaxErrs = 1
  HwErrs = "quiet"
  Prompt = TRUE
  Swift = TRUE
  QuietCancel = TRUE
  SameRecovery = TRUE
SYMMETRY Symm
INVARIANTS TypeOK ListsExact AskedIsHead SuccessIsFilled
CHECK_DEADLOCK FALSE
