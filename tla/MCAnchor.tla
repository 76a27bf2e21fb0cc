------------------------------- MODULE MCAnchor -------------------------------
(* A few log entries, two blocks of up to three transactions. *)
EXTENDS Anchor

A == 1
MCSep == 0
MCStrings == {<<A>>, <<A, MCSep, A>>}
==============================================================================
