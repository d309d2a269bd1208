SPECIFICATION Spec
CONSTANTS
  Mrus <- MCMrus
  DefaultMru = 2
  Options = {ip, dns}
  Values = {a, b}
  Unspecified = Unspecified
  None = None
  MaxRefusals = 2
  MaxExtras = 1
CHECK_DEADLOCK FALSE
INVARIANTS
  EndsWithTheAgreed
  MtuFitsBoth
  IpcpAfterLcp
PROPERTY NegotiationEnds
