\* The device is opened again before the last close has returned.
SPECIFICATION Spec
CONSTANTS
  Objs = {o1}
  None = None
  Threads = {t1, t2}
  t1 = t1
  t2 = t2
  t3 = t3
  Calls <- ReopenCalls
  Cbs = {}
  Payloads = {pl}
  Contract = FALSE
  AllocFails = FALSE
  Wrap = 3
  MaxRef = 1
  MaxCbs = 1
  MaxEvents = 2
SYMMETRY Symm
INVARIANT PayloadsDispatched
CHECK_DEADLOCK FALSE
