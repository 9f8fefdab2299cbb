\* A hardware error at any time: the order in which requests go back to pending.
SPECIFICATION Spec
CONSTANTS
  Ports = {a, b}
  MaxReq = 3
  MaxErrs = 1
  HwErrs = "any"
  Prompt = TRUE
  Swift = TRUE
  QuietCancel = TRUE
  SameRecovery = TRUE
SYMMETRY Symm
INVARIANT PendingInOrder
CHECK_DEADLOCK FALSE
