------------------------------ MODULE Paillier -------------------------------
(***************************************************************************)
(* The arithmetic of GG20 signing in crates/custody: Paillier encryption   *)
(* (paillier.rs), the proof that a modulus is well formed (modulusproof.rs)*)
(* and the two proofs that go with every multiplicative-to-additive        *)
(* exchange (rangeproof.rs).                                               *)
(*                                                                         *)
(* The numbers are the code's, only small.  What the code draws from OsRng *)
(* is a parameter, and so are the three hashes: a proof is checked for any *)
(* of them.                                                                *)
(***************************************************************************)
EXTENDS Naturals, Sequences

CONSTANTS
  Q,                       \* the order of the curve, q
  CHALLENGES,              \* repetitions of the modulus proof
  ChallengeElement(_, _),  \* challenge_element: of n and an index, in 1 .. n - 1
  Hash(_)                  \* the SHA-256 of a tuple of numbers

PowMod(b, e, m) ==
  LET p[i \in 0 .. e] ==
        IF i = 0 THEN 1 % m
        ELSE LET h == p[i \div 2] IN (((h * h) % m) * (IF i % 2 = 1 THEN b % m ELSE 1)) % m
  IN p[e]

Divides(d, a) == a % d = 0
Coprime(a, b) == \A d \in 2 .. a : ~(Divides(d, a) /\ Divides(d, b))
InverseMod(a, m) == CHOOSE b \in 0 .. m - 1 : (a * b) % m = 1 % m

(* generate: the keypair of two different primes. *)
Lambda(p, q) == CHOOSE l \in 1 .. (p - 1) * (q - 1) :
  /\ Divides(p - 1, l) /\ Divides(q - 1, l)
  /\ \A k \in 1 .. l - 1 : ~(Divides(p - 1, k) /\ Divides(q - 1, k))
Generate(p, q) ==
  [n |-> p * q, nn |-> p * q * p * q, lambda |-> Lambda(p, q), mu |-> InverseMod(Lambda(p, q), p * q)]

(* (1 + m n) mod n^2, Paillier's generator to the power m. *)
Gamma(k, m) == (1 + m * k.n) % k.nn
EncryptWith(k, m, r) == (Gamma(k, m) * PowMod(r, k.n, k.nn)) % k.nn
AddCipher(k, c1, c2) == (c1 * c2) % k.nn
MulConst(k, c, m) == PowMod(c, m, k.nn)
Decrypt(k, c) == (((PowMod(c, k.lambda, k.nn) - 1) \div k.n) * k.mu) % k.n

-------------------------------------------------------------------------------
(* modulusproof.rs *)
ProveModulus(k) ==
  LET d == InverseMod(k.n % k.lambda, k.lambda)
  IN [i \in 1 .. CHALLENGES |-> PowMod(ChallengeElement(k.n, i), d, k.n)]
VerifyModulus(n, responses) ==
  /\ n > 1 /\ n % 2 = 1 /\ Len(responses) = CHALLENGES
  /\ \A i \in 1 .. CHALLENGES : PowMod(responses[i], n, n) = ChallengeElement(n, i)

-------------------------------------------------------------------------------
(* rangeproof.rs.  A ring-Pedersen record has the modulus nt, h1 and h2.   *)
RingPedersen(nt, base, lambda) ==
  [nt |-> nt, h1 |-> PowMod(base, 2, nt), h2 |-> PowMod(PowMod(base, 2, nt), lambda, nt)]
Commit(rp, a, b) == (PowMod(rp.h1, a, rp.nt) * PowMod(rp.h2, b, rp.nt)) % rp.nt
Q3 == Q * Q * Q
Challenge(tuple) == Hash(tuple) % Q

(* How both proofs answer for the nonce of the ciphertext.                 *)
Mask(k, r, e, beta) == (PowMod(r, e, k.n) * beta) % k.n

(* One attempt of prove, with the draw d; it counts only if s1 <= q^3.     *)
Prove(k, rp, c, a, r, d) ==
  LET z == Commit(rp, a, d.rho)
      u == (Gamma(k, d.alpha) * PowMod(d.beta, k.n, k.nn)) % k.nn
      w == Commit(rp, d.alpha, d.gamma)
      e == Challenge(<<c, z, u, w, k.n, rp.nt>>)
  IN [z |-> z, u |-> u, w |-> w, s |-> Mask(k, r, e, d.beta),
      s1 |-> e * a + d.alpha, s2 |-> e * d.rho + d.gamma]

VerifyRange(k, rp, c, pf) ==
  LET e == Challenge(<<c, pf.z, pf.u, pf.w, k.n, rp.nt>>)
  IN /\ pf.s1 <= Q3
     /\ (Gamma(k, pf.s1) * PowMod(pf.s, k.n, k.nn)) % k.nn = (pf.u * PowMod(c, e, k.nn)) % k.nn
     /\ Commit(rp, pf.s1, pf.s2) = (pf.w * PowMod(pf.z, e, rp.nt)) % rp.nt

(* One attempt of prove_responder. *)
ProveResponder(k, rp, ca, cb, x, y, s, d) ==
  LET z == Commit(rp, x, d.rho)
      zp == Commit(rp, d.alpha, d.rho2)
      t == Commit(rp, y, d.sigma)
      v == Commit(rp, d.gamma, d.tau)
      u == (((PowMod(ca, d.alpha, k.nn) * Gamma(k, d.gamma)) % k.nn) * PowMod(d.beta, k.n, k.nn)) % k.nn
      e == Challenge(<<ca, cb, z, zp, t, v, u, k.n, rp.nt>>)
  IN [z |-> z, zp |-> zp, t |-> t, v |-> v, u |-> u, s1 |-> e * x + d.alpha,
      s2 |-> e * d.rho + d.rho2, t1 |-> e * y + d.gamma, t2 |-> e * d.sigma + d.tau,
      sr |-> Mask(k, s, e, d.beta)]

VerifyResponder(k, rp, ca, cb, pf) ==
  LET e == Challenge(<<ca, cb, pf.z, pf.zp, pf.t, pf.v, pf.u, k.n, rp.nt>>)
  IN /\ pf.s1 <= Q3
     /\ (((PowMod(ca, pf.s1, k.nn) * Gamma(k, pf.t1)) % k.nn) * PowMod(pf.sr, k.n, k.nn)) % k.nn
          = (pf.u * PowMod(cb, e, k.nn)) % k.nn
     /\ Commit(rp, pf.s1, pf.s2) = (pf.zp * PowMod(pf.z, e, rp.nt)) % rp.nt
     /\ Commit(rp, pf.t1, pf.t2) = (pf.v * PowMod(pf.t, e, rp.nt)) % rp.nt
==============================================================================
