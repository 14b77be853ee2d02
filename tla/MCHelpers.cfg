SPECIFICATION HelpersSpec
CONSTANTS
  HeapSize = 96
  Requests <- MCRequests
  Block = 5
  MinPad = 3
  DigestSize = 2
  MaxBlocks = 7
  U32Size = 400
  Jobs <- MCJobs
  U32 = 65536
  BufferSize = 1024
  HeapBlocks = 1022
  Commands <- MCCommands
  Lengths <- MCLengths
  WordSize = 4
  ULONG_MAX = 175
  IntSize = 20000
  MemorySize = 20
  Lines <- MCLines
  Arguments <- MCArguments
  Numbers <- MCNumbers
INVARIANTS Tiling Exclusive FirstFit HashRight UnpackInside RequestSound CopyExact TextRead
PROPERTY BumpSpec
CHECK_DEADLOCK FALSE
