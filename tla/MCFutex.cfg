SPECIFICATION Spec
CONSTANTS
  Thread = {t1, t2, t3}
  Addr = {a1}
  Value = {0, 1}
  Mask <- MCOneMask
  Count = {1, 3}
  Timed = {TRUE}
  Chan = {1, 2, 3}
  BitChan = {11, 12, 13}
  NoAddr = NoAddr
  NoChan = NoChan
SYMMETRY ThreadSymmetry
INVARIANTS IndInv RegistryExact CleanUntilClose CloseReachesAll
PROPERTIES NoSleeperLeftBehind
CHECK_DEADLOCK FALSE
