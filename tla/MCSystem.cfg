CONSTANTS
  Thread = {t1, t2}
  Addr = {a1}
  Value = {0, 1}
  Mask <- MCMasks
  Count = {1}
  Timed = {TRUE}
  Chan = {1, 2}
  BitChan = {11, 12}
  NoAddr = NoAddr
  NoChan = NoChan
  Sig = {s1}
  Action = {x1, x2}
  NoAction = NoAction
  NoCaller = NoCaller
SPECIFICATION SysSpec
SYMMETRY SystemSymmetry
PROPERTY ImplementsKernel
CHECK_DEADLOCK FALSE
