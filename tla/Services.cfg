SPECIFICATION Spec
CONSTANTS
  n1 = n1
  x1 = x1
  a = a
  b = b
  p1 = p1
  p2 = p2
  c1 = c1
  c2 = c2
  None = None
  Half = Half
  Names = {n1}
  Drawable = {x1}
  Bytes = {a, b}
  MaxBytes = 2
  Accept = {"image/png"}
  Slots = {c1, c2}
  People = {p1, p2}
  Somewhere = Somewhere
  Batches <- Some
  MaxCalls = 2
  b1 = b1
  b2 = b2
  f1 = f1
  f2 = f2
  s1 = s1
  s2 = s2
  k1 = k1
  k2 = k2
  Nobody = Nobody
  Browsers = {b1, b2}
  Served = {c1, c2}
  Flows = {f1, f2}
  Subjects = {s1, s2}
  Providers = {"oidc", "oauth"}
  CheckPkce = {"oidc"}
  SigningKeys = {k1, k2}
  FirstKey = k1
  FlowTtl = 0
  Tolerance = 1
  JwksTtl = 1
  TokenTtl = 0
  MaxClock = 2
SYMMETRY Alike
INVARIANTS SessionMatchesFlow BytesStay MailHonest
CHECK_DEADLOCK FALSE
