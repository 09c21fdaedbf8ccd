------------------------------ MODULE MCSystem -----------------------------
(* Model values for TLC.                                                    *)
EXTENDS System, TLC

MCMasks == {{1}}
SystemSymmetry == Permutations(Thread) \cup Permutations(Action)
=============================================================================
