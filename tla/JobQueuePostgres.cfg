SPECIFICATION FairSpec
CONSTANTS
  MaxRows = 1
  Workers = {w1}
  Concurrency = 2
  Stoppable = {w1}
  Callers = {c1}
  AppKeys = {}
  Priorities = {0}
  Delays = {0}
  Budgets = {2}
  Nobody = Nobody
  NoKey = NoKey
  Lease = 0
  RetryDelay = 1
  Timeout = 0
  KeepFor = 0
  Every = 9
  MaxJobs = 2
  Serializable = FALSE
  Horizon = 2
  MaxUpsets = 1
  TirelessOperator = FALSE
CHECK_DEADLOCK FALSE
INVARIANTS BoundedOvershoot
PROPERTIES StopDrains
