SPECIFICATION Spec
CONSTANTS
  MaxRows = 2
  Workers = {w1}
  Concurrency = 1
  Stoppable = {w1}
  Callers = {c1}
  AppKeys = {sitemap}
  Priorities = {0}
  Delays = {0}
  Budgets = {1}
  Nobody = Nobody
  NoKey = NoKey
  Lease = 0
  RetryDelay = 0
  Timeout = 9
  KeepFor = 0
  Every = 9
  MaxJobs = 0
  Serializable = TRUE
  Horizon = 1
  MaxUpsets = 1
  TirelessOperator = FALSE
CHECK_DEADLOCK FALSE
INVARIANTS KeysPendingOnce
