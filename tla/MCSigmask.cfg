CONSTANTS
  Caller = {t1, t2}
  NoCaller = NoCaller
  Sig = {s1, s2}
SPECIFICATION MaskSpec
SYMMETRY SigmaskSymmetry
INVARIANT MaskExact
