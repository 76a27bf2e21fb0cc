------------------------------ MODULE MCSession ------------------------------
(* Two sub-sessions; the second member takes part in both. *)
EXTENDS Session

CONSTANTS m1, m2

MCSessions == {1, 2}
MCMembersOf == <<<<m1, m2>>, <<m2>>>>
MCContributions == {[m \in {m1, m2} |-> IF m = m1 THEN 3 ELSE k] : k \in {3, 4}}
==============================================================================
