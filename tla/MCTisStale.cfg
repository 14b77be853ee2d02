SPECIFICATION Spec
CONSTANTS
  Speeds = {TRUE}
  MaxCmds = 3
  Lens <- MCLens
INVARIANT OwnResponse
CHECK_DEADLOCK FALSE
