SPECIFICATION RealtimeSpec
CONSTANTS
  Connections = {c1, c2}
  Channels = {orders, stock}
  Messages = {m1, m2, m3}
  Streams = {s1, s2}
  MaxSubscriptions = 1
  None = None
SYMMETRY Symmetry
CHECK_DEADLOCK FALSE
INVARIANTS OthersKeepHearing
