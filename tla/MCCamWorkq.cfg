\* Three tasks and three callers that use priority 0, as in the code, or an invalid one.
SPECIFICATION FairSpec
CONSTANTS
  Tasks = {k1, k2, k3}
  Callers = {c1, c2, c3}
  AskPrios = {0, 7}
  None = None
INVARIANTS TypeOK PoolConserved NoTaskStranded DrainedBeforeFree
PROPERTIES DestroyReturns TasksServed
CHECK_DEADLOCK FALSE
