------------------------------ MODULE Shamir256 -------------------------------
(***************************************************************************)
(* Byte-wise Shamir sharing of a seed (crates/kst shamir256.rs): the       *)
(* arithmetic of GF(2^W), and split and reconstruct applied to every byte  *)
(* of a seed.  In the code W is 8 and Reduction 0x1b.                      *)
(***************************************************************************)
EXTENDS Naturals, Sequences, FiniteSets, SequencesExt

CONSTANTS W, Reduction

ASSUME FieldAssumption == W \in Nat \ {0} /\ 2^W \in Nat /\ Reduction \in 1 .. 2^W - 1

Byte == 0 .. 2^W - 1

Bits == [i \in 1 .. W |-> i - 1]
Bit(a, i) == (a \div 2^i) % 2
XorBytes(a, b) ==
  FoldLeft(LAMBDA acc, i : IF Bit(a, i) = Bit(b, i) THEN acc ELSE acc + 2^i, 0, Bits)

(* gf_mul: shift and add, once per bit. *)
GfMul(a, b) ==
  LET step(s, i) ==
        [a |-> IF s.a >= 2^(W - 1) THEN XorBytes((2 * s.a) % 2^W, Reduction) ELSE 2 * s.a,
         b |-> s.b \div 2,
         product |-> IF s.b % 2 = 1 THEN XorBytes(s.product, s.a) ELSE s.product]
  IN FoldLeft(step, [a |-> a, b |-> b, product |-> 0], Bits).product

(* Evaluated once. *)
XorTable == [a \in Byte |-> [b \in Byte |-> XorBytes(a, b)]]
MulTable == [a \in Byte |-> [b \in Byte |-> GfMul(a, b)]]
XorOf(a, b) == XorTable[a][b]
MulOf(a, b) == MulTable[a][b]

(* gf_pow: square and multiply over the bits of the exponent. *)
GfPow(a, exponent) ==
  LET step(s, i) ==
        [result |-> IF Bit(exponent, i) = 1 THEN MulOf(s.result, s.base) ELSE s.result,
         base |-> MulOf(s.base, s.base)]
  IN FoldLeft(step, [result |-> 1, base |-> a], Bits).result
GfInv(a) == GfPow(a, 2^W - 2)
InvTable == [a \in Byte |-> GfInv(a)]
InvOf(a) == InvTable[a]

(* The laws of a field, given by its tables, with the zero and one of      *)
(* Shamir.                                                                 *)
Field(B, add, sub, mul, inv) ==
  /\ 0 \in B /\ 1 \in B /\ inv[0] = 0
  /\ add \in [B -> [B -> B]] /\ sub \in [B -> [B -> B]] /\ mul \in [B -> [B -> B]]
  /\ inv \in [B -> B]
  /\ \A a, b \in B : add[a][b] = add[b][a] /\ mul[a][b] = mul[b][a]
  /\ \A a, b, c \in B : add[add[a][b]][c] = add[a][add[b][c]]
  /\ \A a, b, c \in B : mul[mul[a][b]][c] = mul[a][mul[b][c]]
  /\ \A a, b, c \in B : mul[a][add[b][c]] = add[mul[a][b]][mul[a][c]]
  /\ \A a \in B : add[a][0] = a /\ mul[a][1] = a
  /\ \A a, b \in B : add[sub[a][b]][b] = a
  /\ \A a \in B \ {0} : mul[a][inv[a]] = 1

(* In the code W is 8 and Reduction 0x1b: x^8 + x^4 + x^3 + x + 1 has no   *)
(* divisor, so the bytes are a field.                                      *)
ASSUME ByteFieldAssumption == Field(Byte, XorTable, XorTable, MulTable, InvTable)

S == INSTANCE Shamir WITH Add <- XorOf, Sub <- XorOf, Mul <- MulOf, Inv <- InvOf

(* split: tail[b][d] is the random coefficient of degree d for byte b.     *)
SplitSeed(seed, threshold, n, tail) ==
  [i \in 1 .. n |->
    [index |-> i,
     body |-> [b \in DOMAIN seed |-> S!Split(<<seed[b]>> \o tail[b], n)[i].y]]]

(* reconstruct: ragged bodies and repeated indices are BadParams.  An      *)
(* index is compared only where a byte is interpolated, so empty bodies    *)
(* are never refused for theirs.                                           *)
Ragged(parts) == \E i \in DOMAIN parts : Len(parts[i].body) # Len(parts[1].body)
CollideNever(parts) == FALSE   \* mutant: indices are not compared
Collide(parts) ==
  parts[1].body # <<>>
  /\ \E i, j \in DOMAIN parts : i # j /\ parts[i].index = parts[j].index
ReconstructSeed(parts) ==
  [b \in DOMAIN parts[1].body |->
    S!Reconstruct([i \in DOMAIN parts |-> [x |-> parts[i].index, y |-> parts[i].body[b]]])]
==============================================================================
