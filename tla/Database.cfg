CONSTANTS
  Blocks = {b1, b2, b3}
  Queries = {q1}
  Nobody = Nobody
  Parallel = FALSE
  MaxFaults = 1
  Null = Null
  Bad = Bad
  Undefined = Undefined
  LowerOf <- MCLowerOf
  Ascii = {"A"}
  Wide = {"w"}
  Verdict <- Build
  Vacuous <- IsEmpty
  Relevance <- SearchRank
  Tables <- MCTables
  Dialects <- MCDialects
  Conditions <- MCConditions
  Orderings <- MCOrderings
  Selections <- MCSelections
  Ordering <- MCOrdering
  Requests <- MCRequests
  FilterFields = {"id", "title", "parent"}
  OrderingFields = {"id", "range"}
  NewRows <- MCNewRows
  Least <- MCLeast
  Greatest = 9
  PageSize = 1
  MaxChain = 2
SPECIFICATION MCSpec
CHECK_DEADLOCK FALSE
INVARIANTS StackMatchesCalls GateHolds FiltersMeanWhatTheySay TerminalsAgree PagesCover
PROPERTIES WaitersGetOn Atomicity PagesByCursor
