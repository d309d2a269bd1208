SPECIFICATION FairSpec
CONSTANTS
  None = None
  Clients = {c1}
  Sessions = {s1, s2}
  Profiles = {p1}
  MaxAttempts = 2
  Env = {"helper_down"}
INVARIANT
  ReconnectingHasMonitor
PROPERTIES
  NetworkEventuallyReleased
  ReconnectSettles
  CommandAnswered
