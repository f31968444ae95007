SPECIFICATION MCSpec
CONSTANTS
  Slots = {c1, c2}
  ann = ann
  bob = bob
  root = root
  r1 = r1
  r2 = r2
  r3 = r3
  None = None
  Users = {ann, bob, root}
  Superusers = {root}
  Rows = {r1, r2, r3}
  Owned <- MCOwned
  Asked <- MCAsked
  Calls <- MCCalls
  Policies <- MCPolicies
  Limit = 2
  Window = 2
  SweepEvery = 3
  DrainFor = 1
  MaxClock = 4
  MaxAny = 2
  MaxRequests = 5
  e1 = e1
  e2 = e2
  Sites <- MCSites
  Editors = {e1, e2}
  Staff = {e1}
  Pks = {1, 2}
  FirstRows <- MCFirstRows
  Targets = {"1", "2"}
  ChoiceLimit = 1
  Typed <- MCTyped
  Carried <- MCCarried
  Null = Null
  Gone = Gone
  Unborn = Unborn
  MaxForms = 1
CHECK_DEADLOCK FALSE
SYMMETRY Symmetry
INVARIANT ShowsCurrentValues
