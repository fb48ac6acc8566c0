-------------------------------- MODULE MCMiEq --------------------------------
(***************************************************************************)
(* MiEq for TLC: callers that hold the lock, as mieq.c asks of them.       *)
(***************************************************************************)
EXTENDS MiEq, TLC

AllButBarrier == {"move", "switch", "remove"}
=============================================================================
