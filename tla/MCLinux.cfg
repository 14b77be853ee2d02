SPECIFICATION StartSpec
CONSTANTS
  Top = 10
  FourGB = 8
  OneMB = 1
  MaxEntries = 6
  Types = {1, 2}
  MaxRegions = 2
  MaxChanges = 0
  MdrLengths = {1, 6}
  AtFirst = FALSE
  TwoMB = 2
  TxtRegions <- MCTxtRegions
  TbootRegion <- MCTboot
  Page = 2
  CmdlineSize = 4
  WordSize = 4
  ULONG_MAX = 175
  IntSize = 20000
  Kernels <- MCKernels
  Cells32 = 16
  TRAMPOLINE_ADDRESS = 1
  MbhSearch = 1
  Modules <- MCModules
INVARIANTS InitrdPlaced KernelWhole
CHECK_DEADLOCK FALSE
