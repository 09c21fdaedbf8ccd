----------------------------- MODULE MCSigaction ---------------------------
(* Three callers; the constants are in the configuration.                   *)
EXTENDS Sigaction
=============================================================================
