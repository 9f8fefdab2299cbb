\* A process that opens and closes the device, and a kernel client.
SPECIFICATION FairSpec
CONSTANTS
  Objs = {o1, o2}
  None = None
  Threads = {t1, t2, t3}
  t1 = t1
  t2 = t2
  t3 = t3
  Calls <- DeviceCalls
  Cbs = {cb}
  Payloads = {pl}
  Contract = TRUE
  AllocFails = FALSE
  Wrap = 4
  MaxRef = 2
  MaxCbs = 1
  MaxEvents = 2
INVARIANTS NoCallbackStranded
CHECK_DEADLOCK FALSE
PROPERTY CloseReturns
