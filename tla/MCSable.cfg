SPECIFICATION FairSpec
CONSTANTS
  Configs <- MCConfigs
  Passphrases = {"p1", "p2"}
  AuthStrings <- MCAuthStrings
  SrkAuth = "srk"
  NvAuth = "zero_authdata"
  Debug = TRUE
INVARIANTS    KernelConfirmed StartedMeasured SessionsHeld
PROPERTIES WrittenByOwner ShownWhenRight TrustedBootSpec BootEnds
