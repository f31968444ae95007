SPECIFICATION Spec
CONSTANTS
  MaxRows = 2
  Workers = {w1}
  Concurrency = 1
  Stoppable = {}
  Callers = {c1}
  AppKeys = {}
  Priorities = {0}
  Delays = {0}
  Budgets = {2}
  Nobody = Nobody
  NoKey = NoKey
  Lease = 0
  RetryDelay = 1
  Timeout = 9
  KeepFor = 0
  Every = 9
  MaxJobs = 0
  Serializable = TRUE
  Horizon = 2
  MaxUpsets = 0
  TirelessOperator = FALSE
CHECK_DEADLOCK FALSE
INVARIANTS SlotRunsOnce
