------------------------------ MODULE MCSched ------------------------------
(* Three tasks and two numbers; the constants are in the configuration.     *)
EXTENDS Sched
=============================================================================
