SPECIFICATION FairSpec
CONSTANTS
  Thread = {t1, t2}
  Addr = {a1, a2}
  Value = {0}
  Mask <- MCTwoMasks
  Count = {1, 2}
  Timed = {TRUE, FALSE}
  Chan = {1, 2, 3}
  BitChan = {11, 12, 13}
  NoAddr = NoAddr
  NoChan = NoChan
INVARIANTS WakeStaysOnAddress BitSendOpen
PROPERTIES CloseReleasesAll TimedWaitReturns WakeReturns
CHECK_DEADLOCK FALSE
