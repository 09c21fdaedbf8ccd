------------------------------ MODULE MCVaList -----------------------------
(* The argument lists of the four architectures on a stack of a few words. *)
EXTENDS VaList
=============================================================================
