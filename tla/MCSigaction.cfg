CONSTANTS
  Caller = {t1, t2, t3}
  Sig = {s1, s2}
  Action = {a1, a2, a3}
  NoAction = NoAction
  NoCaller = NoCaller
SPECIFICATION ActFairSpec
INVARIANTS SwapExact StuckOnlyAfterDtor
PROPERTY CallEnds
CHECK_DEADLOCK FALSE
