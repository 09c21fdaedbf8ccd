------------------------------ MODULE MCFutex ------------------------------
(***************************************************************************)
(* Small instances of Futex for TLC.                                       *)
(***************************************************************************)
EXTENDS Futex, TLC

MCOneMask == {{1}}

\* A wake with the first meets both.
MCTwoMasks == {{1}, {1, 2}}

ThreadSymmetry == Permutations(Thread)
=============================================================================
