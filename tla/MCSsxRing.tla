------------------------------ MODULE MCSsxRing ------------------------------
(***************************************************************************)
(* Instances of the ssX command ring for TLC: a ring of two slots, counters*)
(* that wrap at four, and the clients: none both waits and drains, which   *)
(* would leave a drain waiting for what a wait has consumed.               *)
(***************************************************************************)
EXTENDS SsxRing

\* ssx_accel.c submits, links and drains; batches and waits are the rest of
\* the interface.
Accel   == {"submit", "more", "drain"}
Batcher == {"submit", "batch", "drain"}
Waiter  == {"submit", "more", "wait"}
Sound   == {Accel, Batcher, Waiter}

=============================================================================
