CONSTANTS
  Thread = {t1, t2}
  Addr = {a1}
  Value = {0}
  Mask <- MCMasks
  Count = {1}
  Timed = {FALSE}
  Chan = {1, 2}
  BitChan = {11, 12}
  NoAddr = NoAddr
  NoChan = NoChan
  Sig = {s1}
  Action = {x1, x2}
  NoAction = NoAction
  NoCaller = NoCaller
SPECIFICATION SysFairSpec
PROPERTY CloseDrains
CHECK_DEADLOCK FALSE
