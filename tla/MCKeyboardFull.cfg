SPECIFICATION Spec
CONSTANTS
  Columns = 4
  Sessions <- WholeAuthdata
INVARIANT StoresInBuffer
CHECK_DEADLOCK FALSE
