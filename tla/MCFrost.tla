------------------------------- MODULE MCFrost -------------------------------
(* Two signing sessions over three parties, any two of which sign. *)
EXTENDS Frost

MCChallenge(r, p, m) == (2 * r + p + m) % Q
MCSigningSets == {{1, 2}, {2, 3}, {1, 2, 3}, {1}}
==============================================================================
