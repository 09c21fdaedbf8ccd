------------------------------ MODULE MCFcntl ------------------------------
(* Model values for TLC.                                                    *)
EXTENDS Fcntl, TLC

CONSTANTS c

MCArg == {{}, {c}}

FcntlSymmetry == Permutations(Thread) \cup Permutations(FD) \cup Permutations(File)
=============================================================================
