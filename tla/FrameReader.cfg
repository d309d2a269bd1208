SPECIFICATION ReaderSpec
CONSTANTS
  HeaderSize = 3
  NumFrames = 4
  Size <- MCSize
  Start <- MCStart
  Bad = {3}
  None = None
CHECK_DEADLOCK FALSE
PROPERTIES
  ImplementsFrameSource
  FramesComeOut
