---------------------------- MODULE MCOverlayKeys -----------------------------
(* A small graph with coordinates on both sides of the hardened bit. *)
EXTENDS OverlayKeys

MCSeedLength(s) == IF s = <<0, 3>> THEN 8 ELSE 32    \* an imported third seed too short
MCAeadKeys == {<<1, 1>>, <<2, 1>>, <<1>>}
==============================================================================
