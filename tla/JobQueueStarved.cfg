SPECIFICATION FairSpec
CONSTANTS
  MaxRows = 2
  Workers = {w1}
  Concurrency = 1
  Stoppable = {w1}
  Callers = {c1}
  AppKeys = {}
  Priorities = {0}
  Delays = {0}
  Budgets = {1}
  Nobody = Nobody
  NoKey = NoKey
  Lease = 0
  RetryDelay = 0
  Timeout = 0
  KeepFor = 0
  Every = 9
  MaxJobs = 0
  Serializable = FALSE
  Horizon = 1
  MaxUpsets = 1
  TirelessOperator = TRUE
CHECK_DEADLOCK FALSE
PROPERTIES ExpiredJobsTaken
