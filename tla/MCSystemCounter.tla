--------------------------- MODULE MCSystemCounter ---------------------------
(***************************************************************************)
(* An alarm and an await on a system counter.                              *)
(***************************************************************************)
EXTENDS SystemCounter

Idle   == [counter |-> "IDLETIME", types |-> Types, slow |-> TRUE, requests |-> {"change"}]
\* A positive transition on SERVERTIME has no bracket: SyncComputeBracketValues
\* takes it for one on a counter that may only decrease.
Server == [counter |-> "SERVERTIME", types |-> Types \ {"PositiveTransition"}, slow |-> TRUE,
           requests |-> {"change"}]

PassSetups == {Idle, Server}

\* An alarm with a delta that is true when it is created.
RepeatSetups == {[Server EXCEPT !.types = {"PositiveComparison"}, !.requests = {"repeat"}]}

SmallDeltas == {-1, 0, 2}
=============================================================================
