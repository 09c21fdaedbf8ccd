------------------------------- MODULE Signal ------------------------------
(***************************************************************************)
(* kernel/signal.go: what its handlers are about. The table of actions and *)
(* the mask have nothing to do with each other: Sigaction and Sigmask.     *)
(***************************************************************************)
EXTENDS Callers

CONSTANT Sig  \* signal numbers
=============================================================================
