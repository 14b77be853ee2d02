SPECIFICATION FairSpec
CONSTANTS
  Aps = {1, 2, 3}
  Word = 16
  Worlds <- AllWorlds
INVARIANTS ApsBeforeMtrrs HostVmcsIntact  
PROPERTIES SexitAlone ShutdownEnds
CHECK_DEADLOCK FALSE
