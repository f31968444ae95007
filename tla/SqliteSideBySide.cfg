SPECIFICATION Spec
CONSTANTS
  Blocks = {b1, b2, b3}
  Queries = {q1}
  Nobody = Nobody
  Parallel = TRUE
  MaxFaults = 0
CHECK_DEADLOCK FALSE
INVARIANTS ThrownLeavesNothing
