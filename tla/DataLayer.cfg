SPECIFICATION Spec
CONSTANTS
  Calls = {c1, c2}
  Keys = {a, b}
  Databases = {"sqlite", "postgres"}
  Limits = {9}
  None = None
  MaxId = 5
SYMMETRY Symmetry
CHECK_DEADLOCK FALSE
INVARIANTS DeletesReported OneRowPerKey ViewFresh
PROPERTY SetLeavesWanted
