------------------------------ MODULE MCServer ------------------------------
(* Server with one registered caller.  Several connections may carry the   *)
(* same request: a retry, or a duplicate.                                  *)
EXTENDS Server

CONSTANTS alice, mallory

MCOperations == {"overlay.write", "custody.keygen", "health"}

Req(c, op, n, e, s) == [caller |-> c, operation |-> op, nonce |-> n, expiry |-> e,
                        signed |-> s, oversize |-> FALSE]

Write == Req(alice, "overlay.write", 1, MaxTime, TRUE)
MCRequests ==
  {Write, Req(alice, "custody.keygen", 2, 0, TRUE),
   [Write EXCEPT !.oversize = TRUE], Req(mallory, "health", 1, 0, FALSE)}

Post(body) == [path |-> "/v1/operation", body |-> body]
Get(path) == [path |-> path, body |-> Malformed]

MCMessages ==
  {Post(r) : r \in MCRequests} \cup {Post(Malformed)}
  \cup {Get(p) : p \in Paths \ {"/v1/operation"}}
=============================================================================
