---------------------------- MODULE MCSelections ----------------------------
(***************************************************************************)
(* An instance of the selection for TLC: two clients that may watch the    *)
(* selection, with a window each, of which the one is below the other, and *)
(* times that wrap at 8.                                                   *)
(***************************************************************************)
EXTENDS Selections, TLC

CONSTANTS a, b, wa, wb

Creators == wa :> a @@ wb :> b
Below    == wa :> {wa, wb} @@ wb :> {wb}
AllMasks == {{}, AllEvents}
=============================================================================
