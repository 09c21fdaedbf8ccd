------------------------------ MODULE MCKernel -----------------------------
(* Model values for TLC.                                                    *)
EXTENDS Kernel, TLC

KernelSymmetry == Permutations(Thread)
=============================================================================
