SPECIFICATION AccountsSpec
CONSTANTS
  Emails = {ann}
  g1 = g1
  g2 = g2
  h1 = h1
  Identities = {g1, g2, h1}
  providerOf <- TwoAndOne
  Sessions = {s1}
  Tokens = {t1}
  Requests = {r1, r2}
  Nobody = Nobody
  LinkPolicy = "verified-email"
  SignUp = TRUE
  SessionTtl = 1
  TokenTtl = 1
  Serializable = TRUE
  Horizon = 1
  MaxChanges = 2
SYMMETRY Symmetry
CHECK_DEADLOCK FALSE
INVARIANTS SessionsFollowPassword TokensUsedOnce KeepsAWayIn
