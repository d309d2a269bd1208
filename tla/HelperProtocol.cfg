SPECIFICATION Spec
CONSTANTS
  Devices <- MCDevices
  None = None
  MaxBehind = 4
INVARIANTS
  OwnAnswers
  OneDevice
PROPERTIES
  DescriptorKept
  CommandEnds
