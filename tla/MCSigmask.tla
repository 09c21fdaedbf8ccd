------------------------------ MODULE MCSigmask ----------------------------
(* Model values for TLC.                                                    *)
EXTENDS Sigmask, TLC

SigmaskSymmetry == Permutations(Caller) \cup Permutations(Sig)
=============================================================================
