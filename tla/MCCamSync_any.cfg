\* Arbitrary clients, allocation failures, open and close: the table stays consistent.
SPECIFICATION Spec
CONSTANTS
  Objs = {o1, o2, o3}
  None = None
  Threads = {t1, t2}
  t1 = t1
  t2 = t2
  t3 = t3
  Calls <- AnyCalls
  Cbs = {}
  Payloads = {}
  Contract = FALSE
  AllocFails = TRUE
  Wrap = 3
  MaxRef = 1
  MaxCbs = 1
  MaxEvents = 1
SYMMETRY Symm
INVARIANTS TypeOK OwnersExclude BitmapExact ParentLinksLive NoFenceOutlivesClose
CHECK_DEADLOCK FALSE
