----------------------------- MODULE MCKeyGraph -----------------------------
(* KeyGraph on a small instance: three layers, up to MaxId - 1 nodes ever. *)
EXTENDS KeyGraph

MCCoords == {0, 1}
=============================================================================
