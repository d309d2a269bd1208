SPECIFICATION Spec
CONSTANTS
  Conns = {"client"}
  Capacity = 2
  MaxQueue = 1
  None = "none"
INVARIANT ShowsWhatItWasTold
PROPERTY SettlesOnTold
CHECK_DEADLOCK FALSE
