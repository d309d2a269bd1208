SPECIFICATION Spec
CONSTANTS
  Capacity = 1
  BatchLimit = 1
  MaxMissed = 2
  InboxLimit = 1
CHECK_DEADLOCK FALSE
INVARIANTS
  NoQuietEnd
PROPERTIES
  ExpiresOnlyWhenSilent
  SilenceNoticed
  CloseNoticed
  StopEndsAllTasks
