SPECIFICATION Spec
CONSTANTS
  Aps = {1, 2, 3}
  Word = 16
  Worlds <- NotApart
INVARIANT TssFree
CHECK_DEADLOCK FALSE
