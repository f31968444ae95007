SPECIFICATION Spec
CONSTANTS
  k1 = k1
  k2 = k2
  c1 = c1
  c2 = c2
  c3 = c3
  d1 = d1
  d2 = d2
  m1 = m1
  m2 = m2
  m3 = m3
  orders = orders
  stock = stock
  prices = prices
  Keys = {k1, k2}
  Callers = {c1, c2, c3}
  Writers = {w1}
  ModelTag = ModelTag
  OtherTag = OtherTag
  Tags = {ModelTag, OtherTag}
  TagSets <- ModelAndMore
  Nothing = Nothing
  MaxEntries = 1
  Ttl = 1
  SweepEvery = 1
  MaxWrites = 1
  MaxClock = 1
  MaxClears = 1
  Connections = {d1, d2}
  Channels = {orders, stock, prices}
  Messages = {m1, m2, m3}
  Streams = {e1}
  MaxSubscriptions = 2
  None = None
SYMMETRY Symmetry
CHECK_DEADLOCK FALSE
INVARIANTS IndexesAgree BoundedStampede FreshUnlessRaced NoPoisonedKey
  NoLeakedHandler SlotsMatchMessages SubscriptionsBounded LiveHear
