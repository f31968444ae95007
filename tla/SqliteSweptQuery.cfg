SPECIFICATION Spec
CONSTANTS
  Blocks = {b1, b2, b3}
  Queries = {q1}
  Nobody = Nobody
  Parallel = FALSE
  MaxFaults = 1
CHECK_DEADLOCK FALSE
INVARIANTS OutsideWritesSurvive
