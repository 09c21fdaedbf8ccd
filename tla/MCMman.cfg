CONSTANTS
  Caller = {t1, t2}
  NoCaller = NoCaller
  Pages = 3
  Arena = 2
  Blocks = 2
  MaxLen = 2
SPECIFICATION MmanSpec
SYMMETRY MmanSymmetry
INVARIANTS MmanInv HeldMapped ContentExact NothingLeaks
CHECK_DEADLOCK FALSE
