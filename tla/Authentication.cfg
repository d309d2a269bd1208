SPECIFICATION Spec
CONSTANTS
  Names <- MCNames
  Values <- MCValues
  Document <- MCDocument
  Bodies <- MCBodies
  Addresses <- MCAddresses
  Partial = "ns"
  Certs = {"good", "other"}
  Rooted = {"good"}
  Pin = "good"
  Cookie = "cookie"
  None = "none"
  Pushed <- MCPushed
CHECK_DEADLOCK FALSE
INVARIANTS
  NothingInvented
  WholeAnswerTaken
  TunnelModeFirst
  ErrorNamesCause
PROPERTY AuthenticationEnds
