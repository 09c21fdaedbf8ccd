------------------------------- MODULE MCMman ------------------------------
(* Model values for TLC.                                                    *)
EXTENDS Mman, TLC

MmanSymmetry == Permutations(Caller)
=============================================================================
