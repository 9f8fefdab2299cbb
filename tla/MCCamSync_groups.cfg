\* Liveness.
SPECIFICATION FairSpec
CONSTANTS
  Objs = {o1, o2, o3}
  None = None
  Threads = {t1, t2, t3}
  t1 = t1
  t2 = t2
  t3 = t3
  Calls <- GroupCalls
  Cbs = {}
  Payloads = {}
  Contract = TRUE
  AllocFails = FALSE
  Wrap = 8
  MaxRef = 1
  MaxCbs = 1
  MaxEvents = 1

INVARIANTS RemainingExact
PROPERTIES GroupsSettle

