CONSTANTS
  Thread = {t1, t2}
  FD = {fd1, fd2}
  File = {f1, f2, f3, f4}
  c = c
  Bit = {c}
  O_CLOEXEC = c
  Arg <- MCArg
  NoFile = NoFile
  NoFD = NoFD
SPECIFICATION Spec
SYMMETRY FcntlSymmetry
INVARIANTS IndInv FlagsExact DescriptorUsable FilesReleased LockHeldOnlyAfterDtor
CHECK_DEADLOCK FALSE
