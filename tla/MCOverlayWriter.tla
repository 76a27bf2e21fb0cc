--------------------------- MODULE MCOverlayWriter ---------------------------
(* OverlayWriter on a root and one child. *)
EXTENDS OverlayWriter

MCPositions == {<<>>, <<0>>}
=============================================================================
