SPECIFICATION LaunchSpec
CONSTANTS
  PhysBits = 3
  SinitBits = 3
  Vcnt = 3
  MAX_VARIABLE_MTRRS = 3
  Pages4G = 8
  Aps = {"ap"}
  MmioRegions <- MCMmio
  Ioapic <- MCIoapic
  Mcfg <- MCMcfg
  Machines <- MCMachines
  U32Size = 32768
  AcmPage = 4096
  AcmUnit = 64
  HeapCells = 60
  NR_CPUS = 2
  Addr4G = 1000
  DEF_ACM_MAX_SIZE = 32768
  PtEntries = 4
  MiscWord = 4
  Platform <- MCPlatform
  PlatformNames <- MCPlatformNames
CHECK_DEADLOCK FALSE
INVARIANTS AcmodTyped NeverHalfSet RestoredSound SinitSuits LaunchReady HeapAgrees
