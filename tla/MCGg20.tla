-------------------------------- MODULE MCGg20 --------------------------------
(* Quorums of one to three parties, with small primes. *)
EXTENDS Gg20

MCSetups == {[t |-> 2, quorum |-> <<1>>], [t |-> 2, quorum |-> <<3, 1>>],
             [t |-> 3, quorum |-> <<1, 2>>], [t |-> 3, quorum |-> <<1, 2, 3>>]}
MCPrimes == <<<<5, 7>>, <<3, 11>>, <<3, 17>>>>
MCBases == <<<<2, 3>>, <<4, 5>>, <<7, 2>>>>
MCModuli == <<33, 35, 55>>
MCDraws == {
  [r |-> 2, alpha |-> 7, rho |-> 4, rho2 |-> 9, sigma |-> 6, tau |-> 11, gamma |-> 13, beta |-> 4],
  [r |-> 8, alpha |-> 124, rho |-> 3, rho2 |-> 1, sigma |-> 2, tau |-> 5, gamma |-> 30, beta |-> 2]}
MCHash(t) == FoldLeft(LAMBDA acc, v : (3 * acc + v) % 1009, 7, t)
MCChallengeElement(n, i) == (5 * i + 3) % n
MCXCoord(p) == IF p <= Q \div 2 THEN p ELSE Q - p
==============================================================================
