------------------------------ MODULE MCTimers ------------------------------
(***************************************************************************)
(* Instances of the timers for TLC: two timers, a clock that wraps at 18   *)
(* and starts just before it does, delays that are shorter and longer than *)
(* the slack by which a clock that was set back is recognised.             *)
(***************************************************************************)
EXTENDS Timers

=============================================================================
