SPECIFICATION Spec
CONSTANTS
  MaxRows = 2
  Workers = {w1, w2}
  Concurrency = 1
  Stoppable = {}
  Callers = {c1}
  AppKeys = {}
  Priorities = {0}
  Delays = {0}
  Budgets = {2}
  Nobody = Nobody
  NoKey = NoKey
  Lease = 0
  RetryDelay = 1
  Timeout = 9
  KeepFor = 0
  Every = 9
  MaxJobs = 0
  Serializable = TRUE
  Horizon = 2
  MaxUpsets = 1
  TirelessOperator = FALSE
SYMMETRY Symmetry
CHECK_DEADLOCK FALSE
INVARIANTS RowsConsistent ExclusiveRuns AttemptsLeft LiveKeysUnique
PROPERTIES DeliveryPromise
