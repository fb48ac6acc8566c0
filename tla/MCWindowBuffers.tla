--------------------------- MODULE MCWindowBuffers ---------------------------
(***************************************************************************)
(* An instance of the buffers of a window for TLC.                         *)
(***************************************************************************)
EXTENDS WindowBuffers, TLC

Symmetry == Permutations(Pixmaps) \cup Permutations(ClientPixmaps) \cup Permutations(Tiles)
=============================================================================
