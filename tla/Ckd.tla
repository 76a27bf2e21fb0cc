--------------------------------- MODULE Ckd ----------------------------------
(***************************************************************************)
(* Child key derivation (crates/ckd ckd.rs) in a free algebra.  A private  *)
(* key is a formal sum, the set of its addends; its public key is the same *)
(* sum times the generator.  What HMAC-SHA512 gives is named by what goes  *)
(* into it: a chain code is the sequence of a seed and, for each level,    *)
(* the index and whether the parent's private (1) or public (0) key was    *)
(* hashed, and the addend made with it has the same name.  Sums that       *)
(* vanish and outputs beyond the group order do not occur.                 *)
(***************************************************************************)
EXTENDS Integers, Sequences

CONSTANTS
  Hardened,       \* 2^31
  DepthMax,       \* u8::MAX
  SeedLength(_)   \* the bytes of a seed

XPriv(sum, cc, depth, number) ==
  [private |-> TRUE, sum |-> sum, cc |-> cc, depth |-> depth, number |-> number]
NoKey == XPriv({}, <<>>, 0, 0)     \* an error

(* XPriv::from_seed *)
FromSeed(seed) ==
  IF SeedLength(seed) \in 16 .. 64 THEN XPriv({<<seed>>}, <<seed>>, 0, 0) ELSE NoKey

(* XPriv::derive_child and XPub::derive_child share this: the hashed key   *)
(* is the private one exactly for a hardened index.                        *)
HmacSha512(cc, hashed, index) == Append(cc, <<hashed, index>>)
ChildWith(x, hashed, index) ==
  [private |-> x.private, sum |-> x.sum \cup {HmacSha512(x.cc, hashed, index)},
   cc |-> HmacSha512(x.cc, hashed, index), depth |-> x.depth + 1, number |-> index]
DeriveChild(x, index) ==
  IF x = NoKey \/ x.depth = DepthMax THEN NoKey
  ELSE ChildWith(x, IF index >= Hardened THEN 1 ELSE 0, index)
XPubDeriveChild(x, index) ==
  IF index >= Hardened \/ x.depth = DepthMax THEN NoKey ELSE ChildWith(x, 0, index)

(* derive_path *)
DerivePath(x, path) ==
  LET f[i \in 0 .. Len(path)] == IF i = 0 THEN x ELSE DeriveChild(f[i - 1], path[i])
  IN f[Len(path)]

ToXPub(x) == [x EXCEPT !.private = FALSE]

(* seeds.rs: Position::hardened_path and path, c | HARDENED and            *)
(* c & !HARDENED; derive_seed.                                             *)
PathUnhardened(coords) == [i \in DOMAIN coords |-> coords[i] % Hardened]    \* mutant
HardenedPath(coords) == [i \in DOMAIN coords |-> (coords[i] % Hardened) + Hardened]
PlainPath(coords) == [i \in DOMAIN coords |-> coords[i] % Hardened]
DeriveSeed(master, domain) == <<master, domain>>
-------------------------------------------------------------------------------
(* What can be computed from a set of extended keys with the operations of *)
(* ckd.rs and with subtraction: the private key of a child and the parent's*)
(* public key and chain code give the addend, hence the parent's key.      *)
Indices(coords) == {c % Hardened : c \in coords} \cup {(c % Hardened) + Hardened : c \in coords}
Descend(K, indices, maxDepth) ==
  {DeriveChild(x, i) : x \in {y \in K : y.private /\ y.depth < maxDepth}, i \in indices}
  \cup {XPubDeriveChild(x, i) : x \in {y \in K : y.depth < maxDepth}, i \in indices}
Climb(K) ==
  {[p EXCEPT !.private = TRUE] :
     p \in {q \in K : \E c \in K : c.private /\ \E i \in 0 .. 2 * Hardened - 1 :
                        c.sum = q.sum \cup {HmacSha512(q.cc, 0, i)}}}
Closure(K, indices, maxDepth) ==
  LET f[n \in 0 .. 2 * maxDepth + 1] ==
        IF n = 0 THEN K
        ELSE LET L == f[n - 1]
             IN L \cup (Descend(L, indices, maxDepth) \ {NoKey}) \cup Climb(L)
  IN f[2 * maxDepth + 1]
===============================================================================
