------------------------------ MODULE Callers ------------------------------
(***************************************************************************)
(* Guest threads in the handlers of one component: each handler runs in    *)
(* the goroutine of the thread that called it, a step at a time.           *)
(***************************************************************************)
CONSTANTS
  Caller,     \* guest threads
  NoCaller    \* none of them

ASSUME CallersAssumption == NoCaller \notin Caller

VARIABLE step \* per caller: where its handler is

GoTo(t, s) == step' = [step EXCEPT ![t] = s]
=============================================================================
