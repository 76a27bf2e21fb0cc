------------------------------- MODULE Shamir --------------------------------
(***************************************************************************)
(* Shamir secret sharing over a finite field, as crates/custody shamir.rs  *)
(* (the scalars of secp256k1) and crates/kst shamir256.rs (bytes, GF(2^8)) *)
(* both do it: Horner evaluation of a random polynomial, and Lagrange      *)
(* interpolation at zero.  The field is a parameter; 0 and 1 are its zero  *)
(* and one, and Inv(0) = 0: a denominator that cannot be inverted adds     *)
(* nothing to the sum, in both files.                                      *)
(***************************************************************************)
EXTENDS Naturals, Sequences

CONSTANTS Add(_, _), Sub(_, _), Mul(_, _), Inv(_)

(* A for loop over 1 .. n, with its accumulator. *)
Loop(step(_, _), start, n) ==
  LET acc[m \in 0 .. n] == IF m = 0 THEN start ELSE step(acc[m - 1], m)
  IN acc[n]

(* eval / gf_eval: coefficients from the constant term up, read from the   *)
(* last one down.                                                          *)
Eval(coeffs, x) ==
  Loop(LAMBDA acc, k : Add(Mul(acc, x), coeffs[Len(coeffs) + 1 - k]), 0, Len(coeffs))

(* split: the shares of the polynomial, at 1 .. n. *)
SplitParams(threshold, n) == threshold # 0 /\ threshold <= n
SplitFlat(coeffs, n) == [i \in 1 .. n |-> [x |-> i, y |-> coeffs[1]]]   \* mutant
Split(coeffs, n) == [i \in 1 .. n |-> [x |-> i, y |-> Eval(coeffs, i)]]

(* The Lagrange coefficient at zero of the j-th of a sequence of points;   *)
(* positions are compared, so two equal points give no inverse.            *)
Numerator(xs, j) ==
  Loop(LAMBDA acc, m : IF m = j THEN acc ELSE Mul(acc, xs[m]), 1, Len(xs))
Denominator(xs, j) ==
  Loop(LAMBDA acc, m : IF m = j THEN acc ELSE Mul(acc, Sub(xs[m], xs[j])), 1, Len(xs))
AtZero(xs, j) == Mul(Numerator(xs, j), Inv(Denominator(xs, j)))

(* reconstruct / interpolate_byte. *)
Reconstruct(shares) ==
  LET xs == [i \in DOMAIN shares |-> shares[i].x]
  IN Loop(LAMBDA acc, j : Add(acc, Mul(shares[j].y, AtZero(xs, j))), 0, Len(shares))
==============================================================================
