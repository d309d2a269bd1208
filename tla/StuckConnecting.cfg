SPECIFICATION Spec
CONSTANTS
  None = None
  Clients = {c1, c2}
  Sessions = {s1, s2, s3}
  Profiles = {p1}
  MaxAttempts = 2
  Env = {"helper_down"}
INVARIANTS
  NeverLeftConnecting
