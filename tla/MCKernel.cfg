CONSTANTS
  Thread = {t1, t2}
SPECIFICATION Spec
SYMMETRY KernelSymmetry
INVARIANTS IndInv ErrnoTells NilMapOnlyInClose
CHECK_DEADLOCK FALSE
