\* cam_sync_close and a fence nobody holds a reference to.
SPECIFICATION Spec
CONSTANTS
  Objs = {o1, o2}
  None = None
  Threads = {t1}
  t1 = t1
  t2 = t2
  t3 = t3
  Calls <- SweepCalls
  Cbs = {}
  Payloads = {}
  Contract = FALSE
  AllocFails = FALSE
  Wrap = 3
  MaxRef = 1
  MaxCbs = 1
  MaxEvents = 2
SYMMETRY Symm
INVARIANT CloseSignalsAllActive
CHECK_DEADLOCK FALSE
