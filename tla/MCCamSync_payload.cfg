\* A payload for a group of which one child is still active.
SPECIFICATION Spec
CONSTANTS
  Objs = {o1, o2, o3}
  None = None
  Threads = {t1, t2}
  t1 = t1
  t2 = t2
  t3 = t3
  Calls <- PayloadCalls
  Cbs = {}
  Payloads = {pl}
  Contract = TRUE
  AllocFails = FALSE
  Wrap = 3
  MaxRef = 1
  MaxCbs = 1
  MaxEvents = 2
SYMMETRY Symm
PROPERTY PayloadKeptUntilSignal
CHECK_DEADLOCK FALSE
