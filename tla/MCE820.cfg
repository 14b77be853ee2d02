SPECIFICATION MapSpec
CONSTANTS
  Top = 6
  FourGB = 4
  OneMB = 1
  MaxEntries = 5
  Types = {1, 2}
  MaxRegions = 3
  MaxChanges = 2
  MdrLengths = {1, 2}
  AtFirst = FALSE
  TwoMB = 2
  TxtRegions <- MCTxtRegions
  TbootRegion <- MCTboot
INVARIANTS TableAgrees QueriesExact VtdProtected
CHECK_DEADLOCK FALSE
