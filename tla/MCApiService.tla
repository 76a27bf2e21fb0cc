---------------------------- MODULE MCApiService ----------------------------
(* ApiService with one registered and one unknown caller.  The requests    *)
(* are every combination that reaches a different exit of handle.          *)
EXTENDS ApiService

CONSTANTS alice, mallory

MCOperations == {"overlay.write", "health"}

Req(c, op, n, e, s, big) ==
  [caller |-> c, operation |-> op, nonce |-> n, expiry |-> e,
   signed |-> s, oversize |-> big]

MCRequests ==
  {Req(alice, "overlay.write", n, MaxTime, s, FALSE) : n \in Nonces, s \in BOOLEAN}
  \cup {Req(alice, "overlay.write", 1, 1, TRUE, FALSE),
        Req(alice, "overlay.write", 1, MaxTime, TRUE, TRUE),
        Req(mallory, "overlay.write", 1, MaxTime, FALSE, FALSE),
        Req(mallory, "health", 1, 0, FALSE, FALSE)}
=============================================================================
