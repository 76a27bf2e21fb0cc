-------------------------- MODULE MCBroadcastGraph --------------------------
(* BroadcastGraph on two and four founders with one or two more users.     *)
EXTENDS BroadcastGraph

CONSTANTS u1, u2, u3, u4, u5

Two  == <<u1, u2>>
Four == <<u1, u2, u3, u4>>
=============================================================================
