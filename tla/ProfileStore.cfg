SPECIFICATION Spec
CONSTANTS
  Ids <- MCIds
  Names <- MCNames
  Alike <- MCAlike
  Within <- MCWithin
  None = None
INVARIANT PasswordMeetsItsProfile
PROPERTIES
  RestartKeeps
  SaveTouchesTheShown
