SPECIFICATION AmdSpec
CONSTANTS
  Speeds = {TRUE, FALSE}
  MaxCmds = 3
  Lens <- MCLens
  APs = {ap1, ap2}
  Machines <- MCMachines
INVARIANTS OwnResponseInTime OneResponse HoldsLocality ApsStopped SkinitReverted
PROPERTIES TransmitReturns
CHECK_DEADLOCK FALSE
