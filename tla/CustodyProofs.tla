---------------------------- MODULE CustodyProofs -----------------------------
(***************************************************************************)
(* Theorems about KeyStore and Frost, the two holders of shared secrets.   *)
(*                                                                         *)
(* KeyStore: for every passphrase, salt, seed and sharing parameter, an id *)
(* answers for the seed last stored under it, the store leaves no page     *)
(* locked for good, and a backup restores exactly or is refused.           *)
(*                                                                         *)
(* Frost: for every prime, threshold and interleaving of sessions, a       *)
(* quorum's signature is valid exactly if its nonces survived, and one     *)
(* party less does not sign.                                               *)
(*                                                                         *)
(* Both rest on Lagrange interpolation in a field, proved first.           *)
(***************************************************************************)
EXTENDS KeyStore, Frost, FiniteSetTheorems, NaturalsInduction, WellFoundedInduction, TLAPS

-------------------------------------------------------------------------------
(* Numbers.                                                                *)

(* Division with remainder. *)
LEMMA DivMod ==
  ASSUME NEW a \in Int, NEW n \in Nat \ {0}
  PROVE  (a \div n) \in Int /\ (a % n) \in 0 .. n - 1 /\ a = (a \div n) * n + (a % n)
OBVIOUS

(* A set of naturals that is not empty has a least element. *)
LEMMA LeastOf ==
  ASSUME NEW Ks, Ks \subseteq Nat, Ks # {}
  PROVE  \E x \in Ks : \A y \in Ks : x <= y
<1> DEFINE R == {p \in Nat \X Nat : p[1] < p[2]}
<1>1. IsWellFoundedOn(R, Nat)
  BY NatLessThanWellFounded DEF OpToRel
<1>2. PICK x \in Ks : \A y \in Ks : <<y, x>> \notin R
  <2> HIDE DEF R
  <2> QED
    BY <1>1, WFMin
<1>3. ASSUME NEW y \in Ks PROVE x <= y
  <2>1. x \in Nat /\ y \in Nat /\ <<y, x>> \notin R
    BY <1>2
  <2>2. ~(y < x)
    BY <2>1
  <2> QED
    BY <2>1, <2>2
<1> QED
  BY <1>3

(* Induction, stated of a set: a least number outside Ks would have its    *)
(* predecessor in Ks.                                                      *)
LEMMA InductionOn ==
  ASSUME NEW Ks, 0 \in Ks, \A n \in Nat : n \in Ks => n + 1 \in Ks
  PROVE  Nat \subseteq Ks
<1> SUFFICES ASSUME Nat \ Ks # {} PROVE FALSE
  OBVIOUS
<1>1. PICK x \in Nat \ Ks : \A y \in Nat \ Ks : x <= y
  BY LeastOf
<1>2. x \in Nat /\ x # 0 /\ x \notin Ks
  BY <1>1
<1>3. x - 1 \in Nat /\ x - 1 + 1 = x /\ ~(x <= x - 1)
  BY <1>2
<1> QED
  BY <1>1, <1>2, <1>3
-------------------------------------------------------------------------------
(* Sums and products of the values f[1] .. f[n], by their partial totals.  *)
Monoid(B, op, e) ==
  /\ e \in B /\ op \in [B -> [B -> B]]
  /\ \A a, b \in B : op[a][b] = op[b][a]
  /\ \A a, b, c \in B : op[op[a][b]][c] = op[a][op[b][c]]
  /\ \A a \in B : op[a][e] = a
Totals(op, e, f, n, g) == g[0] = e /\ \A m \in 1 .. n : g[m] = op[g[m - 1]][f[m]]
Total(op, e, f, n) == (CHOOSE g : Totals(op, e, f, n, g))[n]
Partials(B, op, e, f, n, g) ==
  /\ g[0] = e /\ \A m \in 1 .. n : g[m] = op[g[m - 1]][f[m]]
  /\ \A m \in 0 .. n : g[m] \in B
  /\ g[n] = Total(op, e, f, n)

LEMMA TotalsExist ==
  ASSUME NEW B, NEW op \in [B -> [B -> B]], NEW e \in B, NEW n \in Nat, NEW f \in [1 .. n -> B]
  PROVE  \E g : Totals(op, e, f, n, g)
<1> DEFINE Filled(k) == \E g \in [0 .. k -> B] : Totals(op, e, f, k, g)
           Ks == {k \in Nat : k <= n => Filled(k)}
<1>1. 0 \in Ks
  <2> DEFINE h == [k \in 0 .. 0 |-> e]
  <2>1. h \in [0 .. 0 -> B] /\ Totals(op, e, f, 0, h)
    BY DEF Totals
  <2> HIDE DEF h
  <2> QED
    BY <2>1
<1>2. ASSUME NEW k \in Nat, k \in Ks PROVE k + 1 \in Ks
  <2> SUFFICES ASSUME k + 1 <= n PROVE Filled(k + 1)
    OBVIOUS
  <2>1. PICK g \in [0 .. k -> B] : Totals(op, e, f, k, g)
    BY <1>2
  <2> DEFINE h == [m \in 0 .. k + 1 |-> IF m = k + 1 THEN op[g[k]][f[k + 1]] ELSE g[m]]
  <2>2. h \in [0 .. k + 1 -> B] /\ h[0] = e
    BY <2>1 DEF Totals
  <2>3. \A m \in 1 .. k + 1 : h[m] = op[h[m - 1]][f[m]]
    BY <2>1 DEF Totals
  <2> HIDE DEF h
  <2> QED
    BY <2>2, <2>3 DEF Totals
<1>3. Nat \subseteq Ks
  <2> HIDE DEF Ks
  <2> QED
    BY <1>1, <1>2, InductionOn
<1> QED
  BY <1>3

(* The totals are in the set, and determined. *)
LEMMA TotalsAgree ==
  ASSUME NEW B, NEW op \in [B -> [B -> B]], NEW e \in B, NEW n \in Nat, NEW f \in [1 .. n -> B],
         NEW g, Totals(op, e, f, n, g)
  PROVE  /\ \A m \in 0 .. n : g[m] \in B
         /\ g[n] = Total(op, e, f, n)
         /\ Total(op, e, f, n) \in B
<1> DEFINE h == CHOOSE x : Totals(op, e, f, n, x)
<1>1. Totals(op, e, f, n, h)
  OBVIOUS
<1>2. Total(op, e, f, n) = h[n]
  BY DEF Total
<1> HIDE DEF h
<1> DEFINE Ks == {m \in Nat : m <= n => g[m] \in B /\ g[m] = h[m]}
<1>3. 0 \in Ks
  BY <1>1 DEF Totals
<1>4. ASSUME NEW m \in Nat, m \in Ks PROVE m + 1 \in Ks
  <2> SUFFICES ASSUME m + 1 <= n PROVE g[m + 1] \in B /\ g[m + 1] = h[m + 1]
    OBVIOUS
  <2>1. m + 1 \in 1 .. n /\ m + 1 - 1 = m /\ f[m + 1] \in B /\ g[m] \in B /\ g[m] = h[m]
    BY <1>4
  <2>2. g[m + 1] = op[g[m]][f[m + 1]] /\ h[m + 1] = op[h[m]][f[m + 1]]
    BY <1>1, <2>1 DEF Totals
  <2>3. op[g[m]] \in [B -> B]
    BY <2>1
  <2> QED
    BY <2>1, <2>2, <2>3
<1>5. Nat \subseteq Ks
  <2> HIDE DEF Ks
  <2> QED
    BY <1>3, <1>4, InductionOn
<1>6. \A m \in 0 .. n : g[m] \in B /\ g[m] = h[m]
  BY <1>5
<1>7. n \in 0 .. n
  OBVIOUS
<1> QED
  BY <1>2, <1>6, <1>7

(* A total can be taken with its partial totals. *)
LEMMA TotalIs ==
  ASSUME NEW B, NEW op \in [B -> [B -> B]], NEW e \in B, NEW n \in Nat, NEW f \in [1 .. n -> B]
  PROVE  /\ Total(op, e, f, n) \in B
         /\ \E g : Partials(B, op, e, f, n, g)
<1>1. PICK g : Totals(op, e, f, n, g)
  BY TotalsExist
<1>2. /\ \A m \in 0 .. n : g[m] \in B
      /\ g[n] = Total(op, e, f, n)
      /\ Total(op, e, f, n) \in B
  BY <1>1, TotalsAgree
<1> QED
  BY <1>1, <1>2 DEF Totals, Partials

(* A total of nothing but units. *)
LEMMA TotalUnit ==
  ASSUME NEW B, NEW op, NEW e, Monoid(B, op, e), NEW n \in Nat, NEW f \in [1 .. n -> B],
         \A m \in 1 .. n : f[m] = e
  PROVE  Total(op, e, f, n) = e
<1>0. op \in [B -> [B -> B]] /\ e \in B /\ op[e][e] = e
  BY DEF Monoid
<1>1. PICK g : Partials(B, op, e, f, n, g)
  BY <1>0, TotalIs
<1> USE DEF Partials
<1> DEFINE Ks == {m \in Nat : m <= n => g[m] = e}
<1>2. 0 \in Ks
  BY <1>1
<1>3. ASSUME NEW m \in Nat, m \in Ks PROVE m + 1 \in Ks
  <2> SUFFICES ASSUME m + 1 <= n PROVE g[m + 1] = e
    OBVIOUS
  <2>1. m + 1 \in 1 .. n /\ m + 1 - 1 = m /\ g[m] = e
    BY <1>3
  <2> QED
    BY <1>0, <1>1, <2>1
<1>4. Nat \subseteq Ks
  <2> HIDE DEF Ks
  <2> QED
    BY <1>2, <1>3, InductionOn
<1> QED
  BY <1>1, <1>4

(* One term taken out of a total. *)
Splits(op, e, f, i, r, n) == Total(op, e, f, n) = op[f[i]][Total(op, e, r, n)]
LEMMA TotalSplit ==
  ASSUME NEW B, NEW op, NEW e, Monoid(B, op, e), NEW n \in Nat,
         NEW f \in [1 .. n -> B], NEW r \in [1 .. n -> B], NEW i \in 1 .. n,
         r[i] = e, \A m \in 1 .. n : m # i => r[m] = f[m]
  PROVE  Splits(op, e, f, i, r, n)
<1>0. op \in [B -> [B -> B]] /\ e \in B /\ f[i] \in B
  BY DEF Monoid
<1>1. PICK g : Partials(B, op, e, f, n, g)
  BY <1>0, TotalIs
<1>2. PICK h : Partials(B, op, e, r, n, h)
  BY <1>0, TotalIs
<1> USE DEF Partials
<1> DEFINE Ks == {m \in Nat : m <= n => IF m < i THEN g[m] = h[m] ELSE g[m] = op[f[i]][h[m]]}
<1>3. 0 \in Ks
  BY <1>1, <1>2
<1>4. ASSUME NEW m \in Nat, m \in Ks PROVE m + 1 \in Ks
  <2> SUFFICES ASSUME m + 1 <= n
               PROVE  IF m + 1 < i THEN g[m + 1] = h[m + 1] ELSE g[m + 1] = op[f[i]][h[m + 1]]
    OBVIOUS
  <2>1. /\ m + 1 \in 1 .. n /\ m + 1 - 1 = m /\ m \in 0 .. n
        /\ IF m < i THEN g[m] = h[m] ELSE g[m] = op[f[i]][h[m]]
    BY <1>4
  <2>2. g[m] \in B /\ h[m] \in B /\ f[m + 1] \in B
    BY <1>1, <1>2, <2>1
  <2>3. g[m + 1] = op[g[m]][f[m + 1]] /\ h[m + 1] = op[h[m]][r[m + 1]]
    BY <1>1, <1>2, <2>1
  <2>4. CASE m + 1 < i
    BY <2>1, <2>3, <2>4
  <2>5. CASE m + 1 = i
    <3>1. g[m] = h[m] /\ h[m + 1] = op[h[m]][e]
      BY <2>1, <2>3, <2>5
    <3>2. op[h[m]][e] = h[m] /\ op[h[m]][f[i]] = op[f[i]][h[m]]
      BY <1>0, <2>2 DEF Monoid
    <3> QED
      BY <2>3, <2>5, <3>1, <3>2
  <2>6. CASE m + 1 > i
    <3>1. g[m] = op[f[i]][h[m]] /\ r[m + 1] = f[m + 1]
      BY <2>1, <2>6
    <3>2. op[op[f[i]][h[m]]][f[m + 1]] = op[f[i]][op[h[m]][f[m + 1]]]
      <4>1. \A a, b, c \in B : op[op[a][b]][c] = op[a][op[b][c]]
        BY DEF Monoid
      <4> QED
        BY <1>0, <2>2, <4>1
    <3> QED
      BY <2>3, <2>6, <3>1, <3>2
  <2> QED
    BY <2>4, <2>5, <2>6
<1>5. Nat \subseteq Ks
  <2> HIDE DEF Ks
  <2> QED
    BY <1>3, <1>4, InductionOn
<1>6. n \in Ks /\ ~(n < i)
  BY <1>5
<1> QED
  BY <1>1, <1>2, <1>6 DEF Splits

-------------------------------------------------------------------------------
(* A field.                                                                *)
LEMMA FieldMonoids ==
  ASSUME NEW B, NEW add, NEW sub, NEW mul, NEW inv, Field(B, add, sub, mul, inv)
  PROVE  Monoid(B, add, 0) /\ Monoid(B, mul, 1)
<1>1. /\ \A a, b \in B : add[a][b] = add[b][a]
      /\ \A a, b \in B : mul[a][b] = mul[b][a]
      /\ \A a \in B : add[a][0] = a
      /\ \A a \in B : mul[a][1] = a
  BY Zenon DEF Field
<1>2. /\ 0 \in B /\ 1 \in B /\ add \in [B -> [B -> B]] /\ mul \in [B -> [B -> B]]
      /\ \A a, b, c \in B : add[add[a][b]][c] = add[a][add[b][c]]
      /\ \A a, b, c \in B : mul[mul[a][b]][c] = mul[a][mul[b][c]]
  BY Zenon DEF Field
<1> QED
  BY <1>1, <1>2, Zenon DEF Monoid

LEMMA FieldTypes ==
  ASSUME NEW B, NEW add, NEW sub, NEW mul, NEW inv, Field(B, add, sub, mul, inv)
  PROVE  /\ 0 \in B /\ 1 \in B /\ inv[0] = 0
         /\ add \in [B -> [B -> B]] /\ sub \in [B -> [B -> B]] /\ mul \in [B -> [B -> B]]
         /\ \A a, b \in B : add[a][b] \in B
         /\ \A a, b \in B : sub[a][b] \in B
         /\ \A a, b \in B : mul[a][b] \in B
         /\ \A a \in B : inv[a] \in B
<1>1. /\ 0 \in B /\ 1 \in B /\ inv[0] = 0
      /\ add \in [B -> [B -> B]] /\ sub \in [B -> [B -> B]] /\ mul \in [B -> [B -> B]]
      /\ inv \in [B -> B]
  BY DEF Field
<1>2. ASSUME NEW op \in [B -> [B -> B]] PROVE \A a, b \in B : op[a][b] \in B
  OBVIOUS
<1> QED
  BY <1>1, <1>2

(* The laws, one by one. *)
LEMMA AddAssoc ==
  ASSUME NEW B, NEW add, NEW sub, NEW mul, NEW inv, Field(B, add, sub, mul, inv)
  PROVE  \A a, b, c \in B : add[add[a][b]][c] = add[a][add[b][c]]
BY Zenon DEF Field

LEMMA MulAssoc ==
  ASSUME NEW B, NEW add, NEW sub, NEW mul, NEW inv, Field(B, add, sub, mul, inv)
  PROVE  \A a, b, c \in B : mul[mul[a][b]][c] = mul[a][mul[b][c]]
BY Zenon DEF Field

LEMMA Distributes ==
  ASSUME NEW B, NEW add, NEW sub, NEW mul, NEW inv, Field(B, add, sub, mul, inv)
  PROVE  \A a, b, c \in B : mul[a][add[b][c]] = add[mul[a][b]][mul[a][c]]
BY Zenon DEF Field

LEMMA Commutes ==
  ASSUME NEW B, NEW add, NEW sub, NEW mul, NEW inv, Field(B, add, sub, mul, inv)
  PROVE  \A a, b \in B : add[a][b] = add[b][a] /\ mul[a][b] = mul[b][a]
BY Zenon DEF Field

LEMMA Units ==
  ASSUME NEW B, NEW add, NEW sub, NEW mul, NEW inv, Field(B, add, sub, mul, inv)
  PROVE  \A a \in B : add[a][0] = a /\ mul[a][1] = a
BY Zenon DEF Field

LEMMA Inverses ==
  ASSUME NEW B, NEW add, NEW sub, NEW mul, NEW inv, Field(B, add, sub, mul, inv)
  PROVE  /\ \A a, b \in B : add[sub[a][b]][b] = a
         /\ \A a \in B : a # 0 => mul[a][inv[a]] = 1
BY Zenon DEF Field

(* What the laws give: sums cancel, nothing times zero is something, and   *)
(* no product of others is zero.                                           *)
LEMMA FieldCancels ==
  ASSUME NEW B, NEW add, NEW sub, NEW mul, NEW inv, Field(B, add, sub, mul, inv),
         NEW a \in B, NEW b \in B, NEW c \in B, add[a][c] = add[b][c]
  PROVE  a = b
<1>0. sub[0][c] \in B /\ 0 \in B
  BY FieldTypes
<1>1. add[c][sub[0][c]] = 0
  BY <1>0 DEF Field
<1>2. ASSUME NEW d \in B PROVE add[add[d][c]][sub[0][c]] = d
  <2>1. add[add[d][c]][sub[0][c]] = add[d][add[c][sub[0][c]]]
    <3>1. \A x, y, z \in B : add[add[x][y]][z] = add[x][add[y][z]]
      BY DEF Field
    <3> QED
      BY <3>1, <1>0
  <2>2. add[d][0] = d
    BY DEF Field
  <2> QED
    BY <1>1, <2>1, <2>2
<1> QED
  BY <1>2

LEMMA FieldZero ==
  ASSUME NEW B, NEW add, NEW sub, NEW mul, NEW inv, Field(B, add, sub, mul, inv), NEW a \in B
  PROVE  mul[a][0] = 0 /\ mul[0][a] = 0 /\ add[0][a] = a /\ mul[1][a] = a
<1>0. 0 \in B /\ 1 \in B /\ mul[a][0] \in B
  BY FieldTypes
<1>1. add[0][0] = 0 /\ mul[a][add[0][0]] = add[mul[a][0]][mul[a][0]]
  <2>1. \A x, y, z \in B : mul[x][add[y][z]] = add[mul[x][y]][mul[x][z]]
    BY Distributes
  <2>2. add[0][0] = 0
    BY <1>0, Units
  <2> QED
    BY <1>0, <2>1, <2>2
<1>5. add[0][mul[a][0]] = mul[a][0]
  <2>1. add[mul[a][0]][0] = mul[a][0]
    BY <1>0, Units
  <2> QED
    BY <1>0, <2>1, Commutes
<1>2. add[mul[a][0]][mul[a][0]] = add[0][mul[a][0]]
  BY <1>1, <1>5
<1>3. mul[a][0] = 0
  BY <1>0, <1>2, FieldCancels
<1>4. mul[0][a] = mul[a][0] /\ add[0][a] = add[a][0] /\ add[a][0] = a /\ mul[1][a] = mul[a][1] /\ mul[a][1] = a
  BY <1>0 DEF Field
<1> QED
  BY <1>3, <1>4

(* A factor that is not zero cancels. *)
LEMMA FieldDivides ==
  ASSUME NEW B, NEW add, NEW sub, NEW mul, NEW inv, Field(B, add, sub, mul, inv),
         NEW a \in B, NEW b \in B, NEW c \in B, c # 0, mul[c][a] = mul[c][b]
  PROVE  a = b
<1>0. inv[c] \in B /\ mul[c][inv[c]] = 1
  BY FieldTypes DEF Field
<1>1. ASSUME NEW d \in B PROVE mul[inv[c]][mul[c][d]] = d
  <2>1. mul[mul[inv[c]][c]][d] = mul[inv[c]][mul[c][d]]
    <3>1. \A x, y, z \in B : mul[mul[x][y]][z] = mul[x][mul[y][z]]
      BY DEF Field
    <3> QED
      BY <3>1, <1>0
  <2>2. mul[inv[c]][c] = 1
    BY <1>0 DEF Field
  <2>3. mul[1][d] = d
    BY FieldZero
  <2> QED
    BY <2>1, <2>2, <2>3
<1> QED
  BY <1>1

LEMMA FieldNonzero ==
  ASSUME NEW B, NEW add, NEW sub, NEW mul, NEW inv, Field(B, add, sub, mul, inv),
         NEW a \in B \ {0}, NEW b \in B \ {0}
  PROVE  mul[a][b] # 0
<1>1. mul[a][0] = 0 /\ 0 \in B
  BY FieldZero, FieldTypes
<1> QED
  BY <1>1, FieldDivides

(* The difference of two elements is zero if they are one. *)
LEMMA FieldDiffers ==
  ASSUME NEW B, NEW add, NEW sub, NEW mul, NEW inv, Field(B, add, sub, mul, inv),
         NEW a \in B, NEW b \in B
  PROVE  sub[a][b] = 0 <=> a = b
<1>1. add[sub[a][b]][b] = a /\ sub[a][b] \in B
  BY FieldTypes, Inverses
<1>2. add[0][b] = b /\ 0 \in B
  BY FieldZero, FieldTypes
<1> QED
  BY <1>1, <1>2, FieldCancels

(* Sums of four, regrouped. *)
LEMMA FieldRegroups ==
  ASSUME NEW B, NEW add, NEW sub, NEW mul, NEW inv, Field(B, add, sub, mul, inv),
         NEW a \in B, NEW b \in B, NEW c \in B, NEW d \in B
  PROVE  add[add[a][b]][add[c][d]] = add[add[a][c]][add[b][d]]
<1>0. add[c][d] \in B /\ add[b][d] \in B
  BY FieldTypes
<1>1. add[b][c] = add[c][b]
  BY Commutes
<1>2. \A x, y, z \in B : add[add[x][y]][z] = add[x][add[y][z]]
  BY AddAssoc
<1>3. add[add[a][b]][add[c][d]] = add[a][add[b][add[c][d]]]
  BY <1>0, <1>2
<1>4. add[add[b][c]][d] = add[b][add[c][d]] /\ add[add[c][b]][d] = add[c][add[b][d]]
  BY <1>2
<1>5. add[b][add[c][d]] = add[c][add[b][d]]
  BY <1>1, <1>4
<1>6. add[add[a][c]][add[b][d]] = add[a][add[c][add[b][d]]]
  BY <1>0, <1>2
<1> QED
  BY <1>3, <1>5, <1>6

(* Sums are linear. *)
Linear(add, mul, a, f, b, g, h, n) ==
  Total(add, 0, h, n) = add[mul[a][Total(add, 0, f, n)]][mul[b][Total(add, 0, g, n)]]
LEMMA SumLinear ==
  ASSUME NEW B, NEW add, NEW sub, NEW mul, NEW inv, Field(B, add, sub, mul, inv), NEW n \in Nat,
         NEW f \in [1 .. n -> B], NEW g \in [1 .. n -> B], NEW h \in [1 .. n -> B],
         NEW a \in B, NEW b \in B,
         \A m \in 1 .. n : h[m] = add[mul[a][f[m]]][mul[b][g[m]]]
  PROVE  Linear(add, mul, a, f, b, g, h, n)
<1>0. add \in [B -> [B -> B]] /\ 0 \in B
  BY FieldTypes
<1>1. PICK p : Partials(B, add, 0, f, n, p)
  BY <1>0, TotalIs
<1>2. PICK q : Partials(B, add, 0, g, n, q)
  BY <1>0, TotalIs
<1>3. PICK r : Partials(B, add, 0, h, n, r)
  BY <1>0, TotalIs
<1> USE DEF Partials
<1> DEFINE Ks == {m \in Nat : m <= n => r[m] = add[mul[a][p[m]]][mul[b][q[m]]]}
<1>4. 0 \in Ks
  <2>1. mul[a][0] = 0 /\ mul[b][0] = 0 /\ add[0][0] = 0
    BY <1>0, FieldZero
  <2> QED
    BY <1>1, <1>2, <1>3, <2>1
<1>5. ASSUME NEW m \in Nat, m \in Ks PROVE m + 1 \in Ks
  <2> SUFFICES ASSUME m + 1 <= n
               PROVE  r[m + 1] = add[mul[a][p[m + 1]]][mul[b][q[m + 1]]]
    OBVIOUS
  <2>1. m + 1 \in 1 .. n /\ m + 1 - 1 = m /\ m \in 0 .. n
    OBVIOUS
  <2> DEFINE k == m + 1
  <2>2. /\ p[m] \in B /\ q[m] \in B /\ f[k] \in B /\ g[k] \in B
        /\ p[k] = add[p[m]][f[k]] /\ q[k] = add[q[m]][g[k]] /\ r[k] = add[r[m]][h[k]]
        /\ r[m] = add[mul[a][p[m]]][mul[b][q[m]]] /\ h[k] = add[mul[a][f[k]]][mul[b][g[k]]]
    BY <1>1, <1>2, <1>3, <1>5, <2>1
  <2> HIDE DEF k
  <2>3. mul[a][p[k]] = add[mul[a][p[m]]][mul[a][f[k]]] /\ mul[b][q[k]] = add[mul[b][q[m]]][mul[b][g[k]]]
    <3>1. \A x, y, z \in B : mul[x][add[y][z]] = add[mul[x][y]][mul[x][z]]
      BY Distributes
    <3>2. p[m] \in B /\ q[m] \in B /\ f[k] \in B /\ g[k] \in B
      BY <2>2
    <3>3. mul[a][add[p[m]][f[k]]] = add[mul[a][p[m]]][mul[a][f[k]]]
      BY <3>1, <3>2, Zenon
    <3>4. mul[b][add[q[m]][g[k]]] = add[mul[b][q[m]]][mul[b][g[k]]]
      BY <3>1, <3>2, Zenon
    <3> QED
      BY <3>3, <3>4, <2>2
  <2>4. mul[a][p[m]] \in B /\ mul[a][f[k]] \in B /\ mul[b][q[m]] \in B /\ mul[b][g[k]] \in B
    BY <2>2, FieldTypes
  <2>5. add[add[mul[a][p[m]]][mul[b][q[m]]]][add[mul[a][f[k]]][mul[b][g[k]]]]
          = add[add[mul[a][p[m]]][mul[a][f[k]]]][add[mul[b][q[m]]][mul[b][g[k]]]]
    <3>1. \A u, v, w, z \in B : add[add[u][v]][add[w][z]] = add[add[u][w]][add[v][z]]
      BY FieldRegroups
    <3> DEFINE u == mul[a][p[m]]
               v == mul[b][q[m]]
               w == mul[a][f[k]]
               z == mul[b][g[k]]
    <3>2. u \in B /\ v \in B /\ w \in B /\ z \in B
      BY <2>4
    <3>3. add[add[u][v]][add[w][z]] = add[add[u][w]][add[v][z]]
      <4> HIDE DEF u, v, w, z
      <4> QED
        BY <3>1, <3>2
    <3> QED
      BY <3>3
  <2>6. r[k] = add[mul[a][p[k]]][mul[b][q[k]]]
    BY <2>2, <2>3, <2>5
  <2> QED
    BY <2>6 DEF k
<1>6. Nat \subseteq Ks
  <2> HIDE DEF Ks
  <2> QED
    BY <1>4, <1>5, InductionOn
<1> QED
  BY <1>1, <1>2, <1>3, <1>6 DEF Linear

(* A product without a zero is not zero, and one with a zero is. *)
LEMMA ProductNonzero ==
  ASSUME NEW B, NEW add, NEW sub, NEW mul, NEW inv, Field(B, add, sub, mul, inv), NEW n \in Nat,
         NEW f \in [1 .. n -> B]
  PROVE  Total(mul, 1, f, n) = 0 <=> \E m \in 1 .. n : f[m] = 0
<1>0. mul \in [B -> [B -> B]] /\ 1 \in B /\ 0 \in B
  BY FieldTypes
<1>1. PICK p : Partials(B, mul, 1, f, n, p)
  BY <1>0, TotalIs
<1> USE DEF Partials
<1> DEFINE Ks == {k \in Nat : k <= n => (p[k] = 0 <=> \E m \in 1 .. k : f[m] = 0)}
<1>2. 0 \in Ks
  BY <1>1
<1>3. ASSUME NEW k \in Nat, k \in Ks PROVE k + 1 \in Ks
  <2> SUFFICES ASSUME k + 1 <= n PROVE p[k + 1] = 0 <=> \E m \in 1 .. k + 1 : f[m] = 0
    OBVIOUS
  <2>1. k + 1 \in 1 .. n /\ k + 1 - 1 = k /\ k \in 0 .. n
    OBVIOUS
  <2>2. p[k] \in B /\ f[k + 1] \in B /\ p[k + 1] = mul[p[k]][f[k + 1]]
    BY <1>1, <2>1
  <2>3. p[k + 1] = 0 <=> p[k] = 0 \/ f[k + 1] = 0
    <3>1. p[k] = 0 => p[k + 1] = 0
      BY <2>2, FieldZero
    <3>2. f[k + 1] = 0 => p[k + 1] = 0
      BY <2>2, FieldZero
    <3>3. p[k] # 0 /\ f[k + 1] # 0 => p[k + 1] # 0
      BY <2>2, FieldNonzero
    <3> QED
      BY <3>1, <3>2, <3>3
  <2>4. (\E m \in 1 .. k + 1 : f[m] = 0) <=> (\E m \in 1 .. k : f[m] = 0) \/ f[k + 1] = 0
    <3>1. 1 .. k + 1 = (1 .. k) \cup {k + 1}
      OBVIOUS
    <3> QED
      BY <3>1
  <2> QED
    BY <1>3, <2>3, <2>4
<1>4. Nat \subseteq Ks
  <2> HIDE DEF Ks
  <2> QED
    BY <1>2, <1>3, InductionOn
<1> QED
  BY <1>1, <1>4

-------------------------------------------------------------------------------
(* Lagrange interpolation at zero, of the points x[j] for j in a set K of  *)
(* positions: the weight of j, which is zero for positions outside K.      *)
Factors(K, j, f, n) == [m \in 1 .. n |-> IF m \in K \ {j} THEN f[m] ELSE 1]
Diffs(sub, x, j, n) == [m \in 1 .. n |-> sub[x[m]][x[j]]]
Above(mul, x, K, j, n) == Total(mul, 1, Factors(K, j, x, n), n)
Below(sub, mul, x, K, j, n) == Total(mul, 1, Factors(K, j, Diffs(sub, x, j, n), n), n)
Weights(sub, mul, inv, x, K, n) ==
  [j \in 1 .. n |-> IF j \in K THEN mul[Above(mul, x, K, j, n)][inv[Below(sub, mul, x, K, j, n)]]
                    ELSE 0]
Weighted(mul, w, f, n) == [m \in 1 .. n |-> mul[w[m]][f[m]]]

(* A factor of the product over K, taken out. *)
SplitOff(mul, K, j, i, f, n) ==
  Total(mul, 1, Factors(K, j, f, n), n) = mul[f[i]][Total(mul, 1, Factors(K \ {i}, j, f, n), n)]
LEMMA FactorsSplit ==
  ASSUME NEW B, NEW add, NEW sub, NEW mul, NEW inv, Field(B, add, sub, mul, inv), NEW n \in Nat,
         NEW f \in [1 .. n -> B], NEW K, NEW j \in 1 .. n, NEW i \in 1 .. n, i \in K, i # j
  PROVE  SplitOff(mul, K, j, i, f, n)
<1> DEFINE F1 == Factors(K, j, f, n)
           F2 == Factors(K \ {i}, j, f, n)
<1>0. Monoid(B, mul, 1) /\ 1 \in B
  BY FieldMonoids, FieldTypes
<1>1. F1 \in [1 .. n -> B] /\ F2 \in [1 .. n -> B]
  BY <1>0 DEF Factors
<1>2. F1[i] = f[i] /\ F2[i] = 1 /\ \A m \in 1 .. n : m # i => F2[m] = F1[m]
  BY DEF Factors
<1> HIDE DEF F1, F2
<1>3. Splits(mul, 1, F1, i, F2, n)
  BY <1>0, <1>1, <1>2, TotalSplit
<1> QED
  BY <1>1, <1>2, <1>3 DEF F1, F2, SplitOff, Splits

(* The products exist, and the one below is zero only where points meet. *)
LEMMA WeightTypes ==
  ASSUME NEW B, NEW add, NEW sub, NEW mul, NEW inv, Field(B, add, sub, mul, inv), NEW n \in Nat,
         NEW x \in [1 .. n -> B], NEW K, NEW j \in 1 .. n
  PROVE  /\ Above(mul, x, K, j, n) \in B /\ Below(sub, mul, x, K, j, n) \in B
         /\ Weights(sub, mul, inv, x, K, n) \in [1 .. n -> B]
         /\ Diffs(sub, x, j, n) \in [1 .. n -> B]
         /\ Below(sub, mul, x, K, j, n) = 0 <=> \E m \in 1 .. n : m \in K /\ m # j /\ x[m] = x[j]
<1>0. 1 \in B /\ 0 \in B /\ mul \in [B -> [B -> B]]
  BY FieldTypes
<1>1. ASSUME NEW k \in 1 .. n PROVE Diffs(sub, x, k, n) \in [1 .. n -> B]
  <2>1. \A m \in 1 .. n : sub[x[m]][x[k]] \in B
    BY FieldTypes
  <2> QED
    BY <2>1 DEF Diffs
<1>2. ASSUME NEW f \in [1 .. n -> B], NEW k \in 1 .. n
      PROVE  Factors(K, k, f, n) \in [1 .. n -> B] /\ Total(mul, 1, Factors(K, k, f, n), n) \in B
  <2>1. Factors(K, k, f, n) \in [1 .. n -> B]
    BY <1>0 DEF Factors
  <2> QED
    BY <1>0, <2>1, TotalIs
<1>3. ASSUME NEW k \in 1 .. n PROVE Above(mul, x, K, k, n) \in B /\ Below(sub, mul, x, K, k, n) \in B
  BY <1>1, <1>2 DEF Above, Below
<1>4. ASSUME NEW k \in 1 .. n
      PROVE  mul[Above(mul, x, K, k, n)][inv[Below(sub, mul, x, K, k, n)]] \in B
  <2>1. \A a, b \in B : mul[a][inv[b]] \in B
    BY FieldTypes
  <2> QED
    BY <1>3, <2>1
<1>5. Weights(sub, mul, inv, x, K, n) \in [1 .. n -> B]
  BY <1>0, <1>4 DEF Weights
<1>6. Below(sub, mul, x, K, j, n) = 0 <=> \E m \in 1 .. n : m \in K /\ m # j /\ x[m] = x[j]
  <2> DEFINE f == Factors(K, j, Diffs(sub, x, j, n), n)
  <2>1. f \in [1 .. n -> B]
    BY <1>1, <1>2
  <2>2. \A m \in 1 .. n : f[m] = 0 <=> m \in K /\ m # j /\ sub[x[m]][x[j]] = 0
    BY DEF Factors, Diffs
  <2>3. \A m \in 1 .. n : sub[x[m]][x[j]] = 0 <=> x[m] = x[j]
    BY FieldDiffers
  <2> HIDE DEF f
  <2>4. Total(mul, 1, f, n) = 0 <=> \E m \in 1 .. n : f[m] = 0
    BY <2>1, ProductNonzero
  <2> QED
    BY <2>2, <2>3, <2>4 DEF Below, f
<1> QED
  BY <1>1, <1>3, <1>5, <1>6

(* Without the point i, the other weights change by x[i] / (x[i] - x[m]).  *)
Rescaled(sub, mul, inv, x, K, i, m, n) ==
  mul[Weights(sub, mul, inv, x, K, n)[m]][sub[x[i]][x[m]]]
    = mul[x[i]][Weights(sub, mul, inv, x, K \ {i}, n)[m]]
Apart(x, K) == \A p, q \in K : x[p] = x[q] => p = q
LEMMA WeightsWithout ==
  ASSUME NEW B, NEW add, NEW sub, NEW mul, NEW inv, Field(B, add, sub, mul, inv), NEW n \in Nat,
         NEW x \in [1 .. n -> B], NEW K \in SUBSET (1 .. n), NEW i \in K, NEW m \in 1 .. n,
         Apart(x, K)
  PROVE  Rescaled(sub, mul, inv, x, K, i, m, n)
<1> DEFINE d == sub[x[i]][x[m]]
           A == Above(mul, x, K, m, n)
           A2 == Above(mul, x, K \ {i}, m, n)
           D == Below(sub, mul, x, K, m, n)
           D2 == Below(sub, mul, x, K \ {i}, m, n)
           w == inv[D]
           w2 == inv[D2]
<1>0. x[i] \in B /\ x[m] \in B /\ 0 \in B /\ i \in 1 .. n
  BY FieldTypes
<1>1. d \in B
  BY <1>0, FieldTypes
<1>2. A \in B /\ D \in B /\ A2 \in B /\ D2 \in B
  BY WeightTypes
<1>3. w \in B /\ w2 \in B
  BY <1>2, FieldTypes
<1>4. CASE m \notin K
  <2>1. Weights(sub, mul, inv, x, K, n)[m] = 0 /\ Weights(sub, mul, inv, x, K \ {i}, n)[m] = 0
    BY <1>4 DEF Weights
  <2> QED
    BY <1>0, <1>1, <2>1, FieldZero DEF Rescaled
<1>5. CASE m = i
  <2>1. Weights(sub, mul, inv, x, K \ {i}, n)[m] = 0 /\ Weights(sub, mul, inv, x, K, n)[m] \in B
    BY <1>5, WeightTypes DEF Weights
  <2>2. d = 0
    BY <1>0, <1>5, FieldDiffers
  <2> QED
    BY <1>0, <2>1, <2>2, FieldZero DEF Rescaled
<1>6. CASE m \in K /\ m # i
  <2>1. /\ Weights(sub, mul, inv, x, K, n)[m] = mul[A][w]
        /\ Weights(sub, mul, inv, x, K \ {i}, n)[m] = mul[A2][w2]
    BY <1>6 DEF Weights
  <2>2. A = mul[x[i]][A2]
    <3>1. i \in 1 .. n /\ i \in K /\ i # m
      BY <1>0, <1>6
    <3> QED
      <4>1. SplitOff(mul, K, m, i, x, n)
        BY <3>1, FactorsSplit
      <4> QED
        BY <4>1 DEF Above, SplitOff
  <2>3. D = mul[d][D2]
    <3> DEFINE f == Diffs(sub, x, m, n)
    <3>1. f \in [1 .. n -> B]
      BY WeightTypes
    <3>3. f[i] = d
      BY <1>0 DEF Diffs
    <3> HIDE DEF f
    <3>2. Total(mul, 1, Factors(K, m, f, n), n) = mul[f[i]][Total(mul, 1, Factors(K \ {i}, m, f, n), n)]
      <4>1. i \in 1 .. n /\ i \in K /\ i # m
        BY <1>0, <1>6
      <4> QED
        <5>1. SplitOff(mul, K, m, i, f, n)
          BY <3>1, <4>1, FactorsSplit
        <5> QED
          BY <5>1 DEF SplitOff
    <3> QED
      BY <3>3, <3>2 DEF Below, f
  <2>4. D # 0 /\ D2 # 0
    <3>1. D = 0 <=> \E q \in 1 .. n : q \in K /\ q # m /\ x[q] = x[m]
      BY WeightTypes
    <3>2. D2 = 0 <=> \E q \in 1 .. n : q \in K \ {i} /\ q # m /\ x[q] = x[m]
      BY WeightTypes
    <3> QED
      BY <1>6, <3>1, <3>2 DEF Apart
  <2>5. mul[D][w] = 1 /\ mul[D2][w2] = 1
    BY <1>2, <2>4, Inverses
  <2> HIDE DEF d, A, A2, D, D2, w, w2
  <2>a. \A a, b, c \in B : mul[mul[a][b]][c] = mul[a][mul[b][c]]
    BY MulAssoc
  <2>b. \A a, b \in B : mul[a][b] = mul[b][a]
    BY Commutes
  <2>c. mul[w][d] \in B /\ mul[A2][w2] \in B
    BY <1>1, <1>2, <1>3, FieldTypes
  <2>6. mul[w][d] = w2
    <3>1. mul[mul[w][d]][D2] = mul[w][D]
      BY <1>1, <1>2, <1>3, <2>3, <2>a
    <3>2. mul[w][D] = 1
      BY <1>2, <1>3, <2>5, <2>b
    <3>3. mul[D2][mul[w][d]] = mul[D2][w2]
      BY <1>2, <2>5, <2>c, <2>b, <3>1, <3>2
    <3> QED
      BY <1>2, <1>3, <2>4, <2>c, <3>3, FieldDivides
  <2>7. mul[mul[A][w]][d] = mul[A][w2]
    BY <1>1, <1>2, <1>3, <2>6, <2>a
  <2>8. mul[A][w2] = mul[x[i]][mul[A2][w2]]
    <3>1. mul[mul[x[i]][A2]][w2] = mul[x[i]][mul[A2][w2]]
      <4> DEFINE xi == x[i]
      <4>1. xi \in B
        BY <1>0
      <4>2. mul[mul[xi][A2]][w2] = mul[xi][mul[A2][w2]]
        <5> HIDE DEF xi
        <5> QED
          BY <1>2, <1>3, <4>1, <2>a
      <4> QED
        BY <4>2
    <3> QED
      BY <2>2, <3>1
  <2> QED
    BY <2>1, <2>7, <2>8 DEF d, Rescaled
<1> QED
  BY <1>4, <1>5, <1>6

Scales(add, mul, a, f, h, n) == Total(add, 0, h, n) = mul[a][Total(add, 0, f, n)]
LEMMA SumScaled ==
  ASSUME NEW B, NEW add, NEW sub, NEW mul, NEW inv, Field(B, add, sub, mul, inv), NEW n \in Nat,
         NEW f \in [1 .. n -> B], NEW h \in [1 .. n -> B], NEW a \in B,
         \A m \in 1 .. n : h[m] = mul[a][f[m]]
  PROVE  Scales(add, mul, a, f, h, n)
<1>0. 0 \in B /\ add \in [B -> [B -> B]]
  BY FieldTypes
<1>1. \A u \in B : mul[0][u] = 0 /\ add[mul[a][u]][0] = mul[a][u]
  <2> TAKE u \in B
  <2>1. mul[a][u] \in B
    BY FieldTypes
  <2> QED
    BY <2>1, FieldZero, Units
<1>2. \A m \in 1 .. n : h[m] = add[mul[a][f[m]]][mul[0][f[m]]]
  BY <1>1
<1>3. Total(add, 0, f, n) \in B
  BY <1>0, TotalIs
<1>4. Linear(add, mul, a, f, 0, f, h, n)
  BY <1>0, <1>2, SumLinear
<1> QED
  BY <1>1, <1>3, <1>4 DEF Linear, Scales

LEMMA Differences ==
  ASSUME NEW B, NEW add, NEW sub, NEW mul, NEW inv, Field(B, add, sub, mul, inv),
         NEW a \in B, NEW b \in B, NEW c \in B
  PROVE  sub[a][c] = add[sub[a][b]][sub[b][c]]
<1> DEFINE u == sub[a][b]
           v == sub[b][c]
           w == sub[a][c]
<1>1. u \in B /\ v \in B /\ w \in B
  BY FieldTypes
<1>2. add[u][b] = a /\ add[v][c] = b /\ add[w][c] = a
  BY Inverses
<1> HIDE DEF u, v, w
<1>3. \A y, z, t \in B : add[add[y][z]][t] = add[y][add[z][t]]
  BY AddAssoc
<1>4. add[add[u][v]][c] = add[w][c]
  BY <1>1, <1>2, <1>3
<1>5. add[u][v] \in B
  BY <1>1, FieldTypes
<1>6. add[u][v] = w
  BY <1>1, <1>4, <1>5, FieldCancels
<1> QED
  BY <1>6 DEF u, v, w

(* A single point has weight one. *)
LEMMA WeightOfOne ==
  ASSUME NEW B, NEW add, NEW sub, NEW mul, NEW inv, Field(B, add, sub, mul, inv), NEW n \in Nat,
         NEW x \in [1 .. n -> B], NEW j \in 1 .. n
  PROVE  Total(add, 0, Weights(sub, mul, inv, x, {j}, n), n) = 1
<1> DEFINE Wt == Weights(sub, mul, inv, x, {j}, n)
           z == [m \in 1 .. n |-> 0]
<1>0. /\ 0 \in B /\ 1 \in B /\ inv[1] \in B /\ Monoid(B, mul, 1) /\ Monoid(B, add, 0)
      /\ Wt \in [1 .. n -> B] /\ Diffs(sub, x, j, n) \in [1 .. n -> B]
  BY FieldTypes, FieldMonoids, WeightTypes
<1>1. ASSUME NEW f \in [1 .. n -> B] PROVE Total(mul, 1, Factors({j}, j, f, n), n) = 1
  <2>1. /\ Factors({j}, j, f, n) \in [1 .. n -> B]
        /\ \A m \in 1 .. n : Factors({j}, j, f, n)[m] = 1
    BY <1>0 DEF Factors
  <2> QED
    BY <1>0, <2>1, TotalUnit
<1>2. Above(mul, x, {j}, j, n) = 1 /\ Below(sub, mul, x, {j}, j, n) = 1
  BY <1>0, <1>1 DEF Above, Below
<1>3. inv[1] = 1 /\ mul[1][1] = 1
  <2>1. mul[1][inv[1]] = 1
    BY <1>0, Inverses
  <2> QED
    BY <1>0, <2>1, FieldZero
<1>4. Wt[j] = 1 /\ \A m \in 1 .. n : m # j => Wt[m] = 0
  BY <1>2, <1>3 DEF Weights
<1>5. z \in [1 .. n -> B] /\ z[j] = 0 /\ (\A m \in 1 .. n : z[m] = 0)
      /\ \A m \in 1 .. n : m # j => z[m] = Wt[m]
  BY <1>0, <1>4
<1> HIDE DEF Wt, z
<1>6. Total(add, 0, z, n) = 0
  BY <1>0, <1>5, TotalUnit
<1>7. Splits(add, 0, Wt, j, z, n)
  BY <1>0, <1>5, TotalSplit
<1>8. add[1][0] = 1
  BY <1>0, Units
<1> QED
  BY <1>4, <1>6, <1>7, <1>8 DEF Wt, Splits

(* Interpolating a constant: with one point taken out or another. *)
LEMMA WeightsStep ==
  ASSUME NEW B, NEW add, NEW sub, NEW mul, NEW inv, Field(B, add, sub, mul, inv), NEW n \in Nat,
         NEW x \in [1 .. n -> B], NEW K \in SUBSET (1 .. n), NEW i \in K, NEW q \in K, i # q,
         Apart(x, K),
         Total(add, 0, Weights(sub, mul, inv, x, K \ {i}, n), n) = 1,
         Total(add, 0, Weights(sub, mul, inv, x, K \ {q}, n), n) = 1
  PROVE  Total(add, 0, Weights(sub, mul, inv, x, K, n), n) = 1
<1> DEFINE Wt == Weights(sub, mul, inv, x, K, n)
           s == Total(add, 0, Wt, n)
           d == sub[x[i]][x[q]]
           Fn(k) == [m \in 1 .. n |-> mul[Wt[m]][sub[x[k]][x[m]]]]
<1>0. 0 \in B /\ 1 \in B /\ x[i] \in B /\ x[q] \in B /\ d \in B /\ add \in [B -> [B -> B]]
  BY FieldTypes
<1>1. Wt \in [1 .. n -> B]
  <2>1. n \in 1 .. n \/ n = 0
    OBVIOUS
  <2> QED
    BY WeightTypes
<1>2. s \in B
  BY <1>0, <1>1, TotalIs
<1>3. ASSUME NEW k \in K, Total(add, 0, Weights(sub, mul, inv, x, K \ {k}, n), n) = 1
      PROVE  Fn(k) \in [1 .. n -> B] /\ Total(add, 0, Fn(k), n) = x[k]
  <2> DEFINE V == Weights(sub, mul, inv, x, K \ {k}, n)
  <2>0. x[k] \in B /\ V \in [1 .. n -> B]
    BY WeightTypes
  <2>1. \A m \in 1 .. n : sub[x[k]][x[m]] \in B
    BY <2>0, FieldTypes
  <2>2. \A m \in 1 .. n : mul[Wt[m]][sub[x[k]][x[m]]] \in B
    <3> HIDE DEF Wt
    <3>1. \A u, v \in B : mul[u][v] \in B
      BY FieldTypes
    <3> QED
      BY <1>1, <2>1, <3>1
  <2>3. Fn(k) \in [1 .. n -> B]
    BY <2>2
  <2>4. \A m \in 1 .. n : Fn(k)[m] = mul[x[k]][V[m]]
    <3>1. \A m \in 1 .. n : Rescaled(sub, mul, inv, x, K, k, m, n)
      BY WeightsWithout
    <3> QED
      BY <3>1 DEF Rescaled
  <2> DEFINE Fk == Fn(k)
             xk == x[k]
  <2>5. Fk \in [1 .. n -> B] /\ xk \in B /\ \A m \in 1 .. n : Fk[m] = mul[xk][V[m]]
    BY <2>0, <2>3, <2>4
  <2>6. Total(add, 0, V, n) = 1
    BY <1>3
  <2> HIDE DEF V, Fk, xk
  <2>7. Scales(add, mul, xk, V, Fk, n)
    BY <2>0, <2>5, SumScaled
  <2>8. mul[xk][1] = xk
    BY <2>5, Units
  <2>9. Total(add, 0, Fk, n) = xk
    BY <2>6, <2>7, <2>8 DEF Scales
  <2> QED
    BY <2>3, <2>9 DEF Fk, xk
<1> DEFINE f1 == Fn(i)
           f2 == Fn(q)
<1>4. /\ f1 \in [1 .. n -> B] /\ Total(add, 0, f1, n) = x[i]
      /\ f2 \in [1 .. n -> B] /\ Total(add, 0, f2, n) = x[q]
  BY <1>3
<1>5. ASSUME NEW m \in 1 .. n PROVE f1[m] = add[mul[d][Wt[m]]][mul[1][f2[m]]]
  <2> DEFINE e1 == sub[x[i]][x[m]]
             e2 == sub[x[q]][x[m]]
             w == Wt[m]
  <2>1. e1 = add[d][e2]
    <3>1. \A a, b, c \in B : sub[a][c] = add[sub[a][b]][sub[b][c]]
      BY Differences
    <3>2. x[m] \in B
      OBVIOUS
    <3> QED
      BY <1>0, <3>1, <3>2, Zenon
  <2>2. e2 \in B /\ w \in B /\ x[m] \in B
    BY <1>0, <1>1, FieldTypes
  <2>3. f1[m] = mul[w][e1] /\ f2[m] = mul[w][e2] /\ mul[w][e2] \in B
    <3>1. f1[m] = mul[w][e1] /\ f2[m] = mul[w][e2]
      OBVIOUS
    <3> HIDE DEF w, e2
    <3>2. mul[w][e2] \in B
      BY <2>2, FieldTypes
    <3> QED
      BY <3>1, <3>2
  <2> HIDE DEF e1, e2, w, d, f1, f2, Fn
  <2>4. \A u, v, t \in B : mul[u][add[v][t]] = add[mul[u][v]][mul[u][t]]
    BY Distributes
  <2>5. mul[w][e1] = add[mul[w][d]][mul[w][e2]]
    BY <1>0, <2>1, <2>2, <2>4
  <2>6. mul[w][d] = mul[d][w]
    BY <1>0, <2>2, Commutes
  <2>7. mul[1][mul[w][e2]] = mul[w][e2]
    BY <2>3, FieldZero
  <2> QED
    BY <2>3, <2>5, <2>6, <2>7 DEF w
<1> HIDE DEF f1, f2, Wt, Fn
<1>6. Linear(add, mul, d, Wt, 1, f2, f1, n)
  <2> HIDE DEF d
  <2> QED
    BY <1>0, <1>1, <1>4, <1>5, SumLinear
<1>7. add[mul[d][s]][x[q]] = x[i]
  <2>1. mul[1][x[q]] = x[q]
    BY <1>0, FieldZero
  <2> QED
    BY <1>4, <1>6, <2>1 DEF Linear
<1>8. add[mul[d][1]][x[q]] = x[i]
  <2>1. mul[d][1] = d
    BY <1>0, Units
  <2>2. add[d][x[q]] = x[i]
    BY <1>0, Inverses
  <2> QED
    BY <2>1, <2>2
<1>9. d # 0
  BY <1>0, FieldDiffers DEF Apart
<1> HIDE DEF d, s
<1>10. mul[d][s] = mul[d][1]
  <2>1. mul[d][s] \in B /\ mul[d][1] \in B
    BY <1>0, <1>2, FieldTypes
  <2>2. add[mul[d][s]][x[q]] = add[mul[d][1]][x[q]]
    BY <1>7, <1>8
  <2> QED
    BY <1>0, <2>1, <2>2, FieldCancels
<1>11. s = 1
  BY <1>0, <1>2, <1>9, <1>10, FieldDivides
<1> QED
  BY <1>11 DEF s, Wt

(* Subsets of an interval. *)
LEMMA SubsetCards ==
  ASSUME NEW n \in Nat, NEW K \in SUBSET (1 .. n)
  PROVE  /\ IsFiniteSet(K) /\ Cardinality(K) \in Nat
         /\ Cardinality(K) = 0 <=> K = {}
         /\ \A i \in K : Cardinality(K \ {i}) = Cardinality(K) - 1
<1>1. IsFiniteSet(1 .. n)
  BY FS_Interval
<1>2. IsFiniteSet(K)
  BY <1>1, FS_Subset
<1> QED
  BY <1>2, FS_CardinalityType, FS_EmptySet, FS_RemoveElement

(* Interpolating a constant gives it. *)
LEMMA WeightsSumToOne ==
  ASSUME NEW B, NEW add, NEW sub, NEW mul, NEW inv, Field(B, add, sub, mul, inv), NEW n \in Nat,
         NEW x \in [1 .. n -> B], NEW K \in SUBSET (1 .. n), K # {}, Apart(x, K)
  PROVE  Total(add, 0, Weights(sub, mul, inv, x, K, n), n) = 1
<1> DEFINE One(J) == Total(add, 0, Weights(sub, mul, inv, x, J, n), n) = 1
           Ks == {k \in Nat : \A J \in SUBSET (1 .. n) :
                               Cardinality(J) = k + 1 /\ Apart(x, J) => One(J)}
<1>1. 0 \in Ks
  <2> SUFFICES ASSUME NEW J \in SUBSET (1 .. n), Cardinality(J) = 0 + 1, Apart(x, J)
               PROVE  One(J)
    OBVIOUS
  <2>0. /\ Cardinality(J) \in Nat /\ (Cardinality(J) = 0 <=> J = {})
        /\ \A i \in J : Cardinality(J \ {i}) = Cardinality(J) - 1
    BY SubsetCards
  <2>1. J # {} /\ Cardinality(J) = 1
    BY <2>0
  <2>2. PICK j \in J : TRUE
    BY <2>1
  <2>3. Cardinality(J \ {j}) = 0 /\ J \ {j} \in SUBSET (1 .. n)
    BY <2>0, <2>1
  <2>4. J \ {j} = {}
    BY <2>3, SubsetCards
  <2>5. J = {j} /\ j \in 1 .. n
    BY <2>4
  <2>6. One({j})
    BY <2>5, WeightOfOne
  <2> HIDE DEF One
  <2> QED
    BY <2>5, <2>6
<1>2. ASSUME NEW k \in Nat, k \in Ks PROVE k + 1 \in Ks
  <2> SUFFICES ASSUME NEW J \in SUBSET (1 .. n), Cardinality(J) = k + 1 + 1, Apart(x, J)
               PROVE  One(J)
    OBVIOUS
  <2>0. /\ Cardinality(J) \in Nat /\ (Cardinality(J) = 0 <=> J = {})
        /\ \A i \in J : Cardinality(J \ {i}) = Cardinality(J) - 1
    BY SubsetCards
  <2>1. J # {} /\ \A i \in J : Cardinality(J \ {i}) = k + 1
    BY <2>0
  <2>2. PICK i \in J : TRUE
    BY <2>1
  <2>3. J \ {i} # {}
    <3>1. Cardinality(J \ {i}) # 0 /\ J \ {i} \in SUBSET (1 .. n)
      BY <2>1
    <3> QED
      BY <3>1, SubsetCards
  <2>4. PICK q \in J : q # i
    BY <2>3
  <2>5. One(J \ {i}) /\ One(J \ {q})
    <3>1. Apart(x, J \ {i}) /\ Apart(x, J \ {q}) /\ J \ {i} \in SUBSET (1 .. n) /\ J \ {q} \in SUBSET (1 .. n)
      BY DEF Apart
    <3> HIDE DEF One
    <3> QED
      BY <1>2, <2>1, <3>1
  <2> QED
    BY <2>4, <2>5, WeightsStep
<1>3. Nat \subseteq Ks
  <2> HIDE DEF Ks
  <2> QED
    BY <1>1, <1>2, InductionOn
<1>4. Cardinality(K) - 1 \in Nat /\ Cardinality(K) - 1 + 1 = Cardinality(K)
  <2>1. Cardinality(K) \in Nat /\ Cardinality(K) # 0
    BY SubsetCards
  <2> QED
    BY <2>1
<1>5. One(K)
  <2> HIDE DEF One
  <2> QED
    BY <1>3, <1>4
<1> QED
  BY <1>5

(* One round of Horner's rule, at one point. *)
RoundAtPoint(add, mul, w, v, h, xm, xi, c) ==
  add[mul[w][add[mul[h][xm]][c]]][mul[xi][mul[v][h]]] = add[mul[c][w]][mul[xi][mul[w][h]]]
LEMMA HornerPoint ==
  ASSUME NEW B, NEW add, NEW sub, NEW mul, NEW inv, Field(B, add, sub, mul, inv),
         NEW w \in B, NEW v \in B, NEW h \in B, NEW xm \in B, NEW xi \in B, NEW c \in B,
         mul[w][sub[xi][xm]] = mul[xi][v]
  PROVE  RoundAtPoint(add, mul, w, v, h, xm, xi, c)
<1> DEFINE e == sub[xi][xm]
           u == mul[w][h]
           P == mul[u][xm]
           R == mul[u][e]
           C == mul[w][c]
<1>A. \A a, b, d \in B : add[add[a][b]][d] = add[a][add[b][d]]
  BY AddAssoc
<1>M. \A a, b, d \in B : mul[mul[a][b]][d] = mul[a][mul[b][d]]
  BY MulAssoc
<1>D. \A a, b, d \in B : mul[a][add[b][d]] = add[mul[a][b]][mul[a][d]]
  BY Distributes
<1>0. e \in B /\ u \in B /\ mul[h][xm] \in B /\ mul[v][h] \in B /\ C \in B /\ add[e][xm] = xi
  BY FieldTypes, Inverses
<1>1. P \in B /\ R \in B
  <2> HIDE DEF e, u
  <2> QED
    BY <1>0, FieldTypes
<1>2. mul[w][add[mul[h][xm]][c]] = add[P][C]
  <2>1. mul[w][add[mul[h][xm]][c]] = add[mul[w][mul[h][xm]]][C]
    <3> DEFINE s == mul[h][xm]
    <3>1. s \in B
      BY <1>0
    <3> HIDE DEF s
    <3>2. mul[w][add[s][c]] = add[mul[w][s]][mul[w][c]]
      BY <3>1, <1>D
    <3> QED
      BY <3>2 DEF s
  <2>2. P = mul[w][mul[h][xm]]
    BY <1>M
  <2> QED
    BY <2>1, <2>2
<1>3. mul[xi][mul[v][h]] = R
  <2>1. mul[xi][mul[v][h]] = mul[mul[xi][v]][h]
    BY <1>M
  <2> HIDE DEF e
  <2>2. mul[mul[w][e]][h] = mul[w][mul[e][h]] /\ mul[u][e] = mul[w][mul[h][e]]
    BY <1>0, <1>M
  <2>3. mul[e][h] = mul[h][e]
    BY <1>0, Commutes
  <2>4. mul[w][e] = mul[xi][v]
    BY DEF e
  <2> QED
    BY <2>1, <2>2, <2>3, <2>4
<1>4. add[R][P] = mul[xi][u]
  <2> HIDE DEF e, u
  <2>1. mul[u][add[e][xm]] = add[R][P]
    <3>1. e \in B /\ u \in B
      BY <1>0
    <3> QED
      BY <3>1, <1>D
  <2>2. mul[u][xi] = mul[xi][u]
    BY <1>0, Commutes
  <2> QED
    BY <1>0, <2>1, <2>2
<1>5. C = mul[c][w]
  BY Commutes
<1> HIDE DEF u, P, R, C, e
<1>6. add[add[P][C]][R] = add[C][add[R][P]]
  <2>1. add[P][C] = add[C][P] /\ add[P][R] = add[R][P]
    BY <1>0, <1>1, Commutes
  <2>2. add[add[C][P]][R] = add[C][add[P][R]]
    BY <1>0, <1>1, <1>A
  <2> QED
    BY <2>1, <2>2
<1> QED
  BY <1>2, <1>3, <1>4, <1>5, <1>6 DEF u, RoundAtPoint

(* Interpolation at zero of the values f at the points of K. *)
Interpolate(add, sub, mul, inv, x, K, f, n) ==
  Total(add, 0, Weighted(mul, Weights(sub, mul, inv, x, K, n), f, n), n)

LEMMA WeightedType ==
  ASSUME NEW B, NEW add, NEW sub, NEW mul, NEW inv, Field(B, add, sub, mul, inv), NEW n \in Nat,
         NEW x \in [1 .. n -> B], NEW K, NEW f \in [1 .. n -> B]
  PROVE  /\ Weights(sub, mul, inv, x, K, n) \in [1 .. n -> B]
         /\ Weighted(mul, Weights(sub, mul, inv, x, K, n), f, n) \in [1 .. n -> B]
         /\ Interpolate(add, sub, mul, inv, x, K, f, n) \in B
<1> DEFINE Wt == Weights(sub, mul, inv, x, K, n)
<1>0. 0 \in B /\ add \in [B -> [B -> B]] /\ \A a, b \in B : mul[a][b] \in B
  BY FieldTypes
<1>1. Wt \in [1 .. n -> B]
  <2>1. CASE n = 0
    BY <2>1 DEF Weights
  <2>2. CASE n # 0
    <3>1. 1 \in 1 .. n
      BY <2>2
    <3> QED
      BY <3>1, WeightTypes
  <2> QED
    BY <2>1, <2>2
<1> HIDE DEF Wt
<1>2. Weighted(mul, Wt, f, n) \in [1 .. n -> B]
  BY <1>0, <1>1 DEF Weighted
<1>3. Total(add, 0, Weighted(mul, Wt, f, n), n) \in B
  BY <1>0, <1>2, TotalIs
<1> QED
  BY <1>1, <1>2, <1>3 DEF Wt, Interpolate

(* One round of Horner's rule, interpolated. *)
Stepped(add, sub, mul, inv, x, K, i, g, c, h, n) ==
  add[Interpolate(add, sub, mul, inv, x, K, h, n)]
     [mul[x[i]][Interpolate(add, sub, mul, inv, x, K \ {i}, g, n)]]
    = add[c][mul[x[i]][Interpolate(add, sub, mul, inv, x, K, g, n)]]
LEMMA HornerStep ==
  ASSUME NEW B, NEW add, NEW sub, NEW mul, NEW inv, Field(B, add, sub, mul, inv), NEW n \in Nat,
         NEW x \in [1 .. n -> B], NEW K \in SUBSET (1 .. n), NEW i \in K, Apart(x, K),
         NEW g \in [1 .. n -> B], NEW h \in [1 .. n -> B], NEW c \in B,
         \A m \in 1 .. n : h[m] = add[mul[g[m]][x[m]]][c]
  PROVE  Stepped(add, sub, mul, inv, x, K, i, g, c, h, n)
<1> DEFINE Wt == Weights(sub, mul, inv, x, K, n)
           V == Weights(sub, mul, inv, x, K \ {i}, n)
           Wh == Weighted(mul, Wt, h, n)
           Wg == Weighted(mul, Wt, g, n)
           Vg == Weighted(mul, V, g, n)
           xi == x[i]
           z == [m \in 1 .. n |-> add[mul[1][Wh[m]]][mul[xi][Vg[m]]]]
<1>0. 0 \in B /\ 1 \in B /\ xi \in B /\ add \in [B -> [B -> B]]
  BY FieldTypes
<1>1. Wt \in [1 .. n -> B] /\ V \in [1 .. n -> B]
  BY WeightedType
<1>2. Wh \in [1 .. n -> B] /\ Wg \in [1 .. n -> B] /\ Vg \in [1 .. n -> B]
  BY WeightedType
<1>3. \A m \in 1 .. n : Wh[m] = mul[Wt[m]][h[m]] /\ Wg[m] = mul[Wt[m]][g[m]] /\ Vg[m] = mul[V[m]][g[m]]
  BY DEF Weighted
<1>4. \A m \in 1 .. n : mul[Wt[m]][sub[xi][x[m]]] = mul[xi][V[m]]
  <2>1. \A m \in 1 .. n : Rescaled(sub, mul, inv, x, K, i, m, n)
    BY WeightsWithout
  <2> QED
    BY <2>1 DEF Rescaled
<1>5. Total(add, 0, Wt, n) = 1
  BY WeightsSumToOne
<1> HIDE DEF Wt, V, Wh, Wg, Vg, xi
<1>6. ASSUME NEW m \in 1 .. n
      PROVE  /\ z[m] \in B /\ z[m] = add[mul[1][Wh[m]]][mul[xi][Vg[m]]]
             /\ z[m] = add[mul[c][Wt[m]]][mul[xi][Wg[m]]]
  <2> DEFINE a == Wh[m]
             b == Vg[m]
             w == Wt[m]
             v == V[m]
             gm == g[m]
             xm == x[m]
  <2>1. a \in B /\ b \in B /\ w \in B /\ v \in B /\ gm \in B /\ xm \in B
    BY <1>1, <1>2
  <2>2. a = mul[w][add[mul[gm][xm]][c]] /\ b = mul[v][gm] /\ Wg[m] = mul[w][gm]
    BY <1>3
  <2>3. mul[w][sub[xi][xm]] = mul[xi][v]
    BY <1>4
  <2>4. z[m] = add[mul[1][a]][mul[xi][b]]
    OBVIOUS
  <2> HIDE DEF a, b, w, v, gm, xm, z
  <2>5. mul[1][a] = a
    BY <2>1, FieldZero
  <2>6. RoundAtPoint(add, mul, w, v, gm, xm, xi, c)
    BY <1>0, <2>1, <2>3, HornerPoint
  <2>7. mul[xi][b] \in B /\ mul[1][a] \in B
    BY <1>0, <2>1, FieldTypes
  <2>8. z[m] \in B
    <3>1. \A s, t \in B : add[s][t] \in B
      BY FieldTypes
    <3> QED
      BY <2>4, <2>7, <3>1
  <2>9. z[m] = add[mul[c][w]][mul[xi][Wg[m]]]
    BY <2>2, <2>4, <2>5, <2>6 DEF RoundAtPoint
  <2> QED
    BY <2>4, <2>8, <2>9 DEF a, b, w
<1>7. z \in [1 .. n -> B]
  BY <1>6
<1> HIDE DEF z
<1>8. Linear(add, mul, 1, Wh, xi, Vg, z, n)
  BY <1>0, <1>2, <1>6, <1>7, SumLinear
<1>9. Linear(add, mul, c, Wt, xi, Wg, z, n)
  BY <1>0, <1>1, <1>2, <1>6, <1>7, SumLinear
<1>10. mul[1][Total(add, 0, Wh, n)] = Total(add, 0, Wh, n) /\ mul[c][1] = c
  <2>1. Total(add, 0, Wh, n) \in B
    BY <1>0, <1>2, TotalIs
  <2> QED
    BY <2>1, FieldZero, Units
<1>11. add[Total(add, 0, Wh, n)][mul[xi][Total(add, 0, Vg, n)]] = add[c][mul[xi][Total(add, 0, Wg, n)]]
  BY <1>5, <1>8, <1>9, <1>10 DEF Linear
<1> QED
  BY <1>11 DEF Stepped, Interpolate, Wt, V, Wh, Wg, Vg, xi

(* The rounds of Horner's rule at the points x, for the coefficients c     *)
(* from the highest down.                                                  *)
Horner(B, add, mul, x, c, t, H, n) ==
  /\ c \in [0 .. t -> B] /\ c[0] = 0
  /\ \A k \in 0 .. t : H[k] \in [1 .. n -> B]
  /\ \A m \in 1 .. n : H[0][m] = 0
  /\ \A k \in 1 .. t : \A m \in 1 .. n : H[k][m] = add[mul[H[k - 1][m]][x[m]]][c[k]]

LEMMA InterpolateZero ==
  ASSUME NEW B, NEW add, NEW sub, NEW mul, NEW inv, Field(B, add, sub, mul, inv), NEW n \in Nat,
         NEW x \in [1 .. n -> B], NEW K, NEW f \in [1 .. n -> B],
         (\A m \in 1 .. n : f[m] = 0) \/ K = {}
  PROVE  Interpolate(add, sub, mul, inv, x, K, f, n) = 0
<1> DEFINE Wt == Weights(sub, mul, inv, x, K, n)
           Wf == Weighted(mul, Wt, f, n)
<1>1. Wt \in [1 .. n -> B] /\ Wf \in [1 .. n -> B]
  BY WeightedType
<1>2. \A m \in 1 .. n : K = {} => Wt[m] = 0
  BY DEF Weights
<1>3. \A m \in 1 .. n : Wf[m] = mul[Wt[m]][f[m]]
  BY DEF Weighted
<1> HIDE DEF Wt, Wf
<1>4. \A a \in B : mul[a][0] = 0 /\ mul[0][a] = 0
  BY FieldZero
<1>5. \A m \in 1 .. n : Wf[m] = 0
  BY <1>1, <1>2, <1>3, <1>4
<1>6. Monoid(B, add, 0)
  BY FieldMonoids
<1>7. Total(add, 0, Wf, n) = 0
  BY <1>1, <1>5, <1>6, TotalUnit
<1> QED
  BY <1>7 DEF Wf, Wt, Interpolate

(* Enough points: interpolation gives the last coefficient, that is the    *)
(* constant term.                                                          *)
LEMMA Interpolates ==
  ASSUME NEW B, NEW add, NEW sub, NEW mul, NEW inv, Field(B, add, sub, mul, inv), NEW n \in Nat,
         NEW x \in [1 .. n -> B], NEW t \in Nat, NEW c, NEW H, Horner(B, add, mul, x, c, t, H, n),
         NEW k \in 0 .. t, NEW K \in SUBSET (1 .. n), Apart(x, K), Cardinality(K) >= k
  PROVE  Interpolate(add, sub, mul, inv, x, K, H[k], n) = c[k]
<1> DEFINE I(J, j) == Interpolate(add, sub, mul, inv, x, J, H[j], n)
           Ks == {j \in Nat : j <= t => \A J \in SUBSET (1 .. n) :
                               Apart(x, J) /\ Cardinality(J) >= j => I(J, j) = c[j]}
<1>0. /\ c \in [0 .. t -> B] /\ c[0] = 0
      /\ \A j \in 0 .. t : H[j] \in [1 .. n -> B]
      /\ \A m \in 1 .. n : H[0][m] = 0
      /\ \A j \in 1 .. t : \A m \in 1 .. n : H[j][m] = add[mul[H[j - 1][m]][x[m]]][c[j]]
  BY DEF Horner
<1>1. 0 \in Ks
  <2>1. H[0] \in [1 .. n -> B]
    BY <1>0
  <2>2. \A J \in SUBSET (1 .. n) : I(J, 0) = 0
    BY <1>0, <2>1, InterpolateZero
  <2> HIDE DEF I
  <2> QED
    BY <1>0, <2>2
<1>2. ASSUME NEW j \in Nat, j \in Ks PROVE j + 1 \in Ks
  <2> SUFFICES ASSUME j + 1 <= t, NEW J \in SUBSET (1 .. n), Apart(x, J), Cardinality(J) >= j + 1
               PROVE  I(J, j + 1) = c[j + 1]
    OBVIOUS
  <2>0. /\ Cardinality(J) \in Nat /\ (Cardinality(J) = 0 <=> J = {})
        /\ \A i \in J : Cardinality(J \ {i}) = Cardinality(J) - 1
    BY SubsetCards
  <2>1. PICK i \in J : TRUE
    BY <2>0
  <2>2. Cardinality(J \ {i}) >= j /\ Cardinality(J) >= j /\ J \ {i} \in SUBSET (1 .. n)
    BY <2>0
  <2>3. Apart(x, J \ {i})
    BY DEF Apart
  <2>4. I(J, j) = c[j] /\ I(J \ {i}, j) = c[j]
    <3> HIDE DEF I
    <3>1. j <= t
      OBVIOUS
    <3> QED
      BY <1>2, <2>2, <2>3, <3>1
  <2> DEFINE g == H[j]
             h == H[j + 1]
             d == c[j + 1]
             xi == x[i]
             v == Interpolate(add, sub, mul, inv, x, J, h, n)
  <2>5. j \in 0 .. t /\ j + 1 \in 0 .. t /\ j + 1 \in 1 .. t /\ j + 1 - 1 = j
    OBVIOUS
  <2>6. g \in [1 .. n -> B] /\ h \in [1 .. n -> B] /\ d \in B /\ c[j] \in B /\ xi \in B
    BY <1>0, <2>5
  <2>7. \A m \in 1 .. n : h[m] = add[mul[g[m]][x[m]]][d]
    BY <1>0, <2>5
  <2> HIDE DEF g, h, d
  <2>8. Stepped(add, sub, mul, inv, x, J, i, g, d, h, n)
    BY <2>6, <2>7, HornerStep
  <2>9. v \in B
    BY <2>6, WeightedType
  <2>10. add[v][mul[xi][c[j]]] = add[d][mul[xi][c[j]]]
    BY <2>4, <2>8 DEF Stepped, g
  <2> HIDE DEF v, xi
  <2>11. mul[xi][c[j]] \in B
    BY <2>6, FieldTypes
  <2>12. v = d
    BY <2>6, <2>9, <2>10, <2>11, FieldCancels
  <2> QED
    BY <2>12 DEF v, d, h
<1>3. Nat \subseteq Ks
  <2> HIDE DEF Ks
  <2> QED
    BY <1>1, <1>2, InductionOn
<1>4. k \in Ks /\ k <= t
  BY <1>3
<1> QED
  BY <1>4

(* One point too few: it never does. *)
LEMMA InterpolatesNot ==
  ASSUME NEW B, NEW add, NEW sub, NEW mul, NEW inv, Field(B, add, sub, mul, inv), NEW n \in Nat,
         NEW x \in [1 .. n -> B], NEW t \in Nat, NEW c, NEW H, Horner(B, add, mul, x, c, t, H, n),
         NEW k \in 1 .. t, NEW K \in SUBSET (1 .. n), Apart(x, K), Cardinality(K) = k - 1,
         c[1] # 0, \A m \in 1 .. n : x[m] # 0
  PROVE  Interpolate(add, sub, mul, inv, x, K, H[k], n) # c[k]
<1> DEFINE I(J, j) == Interpolate(add, sub, mul, inv, x, J, H[j], n)
           Ks == {j \in Nat : j + 1 <= t => \A J \in SUBSET (1 .. n) :
                               Apart(x, J) /\ Cardinality(J) = j => I(J, j + 1) # c[j + 1]}
<1>0. /\ c \in [0 .. t -> B]
      /\ \A j \in 0 .. t : H[j] \in [1 .. n -> B]
      /\ \A j \in 1 .. t : \A m \in 1 .. n : H[j][m] = add[mul[H[j - 1][m]][x[m]]][c[j]]
  BY DEF Horner
<1>1. 0 \in Ks
  <2> SUFFICES ASSUME 0 + 1 <= t, NEW J \in SUBSET (1 .. n), Cardinality(J) = 0
               PROVE  I(J, 0 + 1) # c[0 + 1]
    OBVIOUS
  <2>1. J = {}
    BY SubsetCards
  <2>2. 0 + 1 = 1 /\ 1 \in 0 .. t
    OBVIOUS
  <2>3. H[1] \in [1 .. n -> B]
    BY <1>0, <2>2
  <2>4. I(J, 1) = 0
    BY <2>1, <2>3, InterpolateZero
  <2> HIDE DEF I
  <2> QED
    BY <2>2, <2>4
<1>2. ASSUME NEW j \in Nat, j \in Ks PROVE j + 1 \in Ks
  <2> SUFFICES ASSUME j + 1 + 1 <= t, NEW J \in SUBSET (1 .. n), Apart(x, J), Cardinality(J) = j + 1,
                      I(J, j + 1 + 1) = c[j + 1 + 1]
               PROVE  FALSE
    OBVIOUS
  <2>0. /\ Cardinality(J) \in Nat /\ (Cardinality(J) = 0 <=> J = {})
        /\ \A i \in J : Cardinality(J \ {i}) = Cardinality(J) - 1
    BY SubsetCards
  <2>1. PICK i \in J : TRUE
    BY <2>0
  <2>2. Cardinality(J \ {i}) = j /\ Cardinality(J) >= j + 1 /\ J \ {i} \in SUBSET (1 .. n) /\ i \in 1 .. n
    BY <2>0
  <2>3. Apart(x, J \ {i})
    BY DEF Apart
  <2> DEFINE l == j + 1
  <2>5. j + 1 <= t /\ l \in 0 .. t /\ l + 1 \in 0 .. t /\ l + 1 \in 1 .. t /\ l + 1 - 1 = l
    OBVIOUS
  <2>4. I(J \ {i}, l) # c[l]
    <3> HIDE DEF I
    <3> QED
      BY <1>2, <2>2, <2>3, <2>5
  <2>a. I(J, l) = c[l]
    <3> HIDE DEF l
    <3> QED
      BY <2>2, <2>5, Interpolates DEF l
  <2> DEFINE g == H[l]
             h == H[l + 1]
             d == c[l + 1]
             xi == x[i]
             v == Interpolate(add, sub, mul, inv, x, J, h, n)
             u == Interpolate(add, sub, mul, inv, x, J \ {i}, g, n)
             b == c[l]
  <2>6. g \in [1 .. n -> B] /\ h \in [1 .. n -> B] /\ d \in B /\ b \in B /\ xi \in B /\ xi # 0
    BY <1>0, <2>2, <2>5
  <2>7. \A m \in 1 .. n : h[m] = add[mul[g[m]][x[m]]][d]
    BY <1>0, <2>5
  <2>8. v = d /\ u # b
    BY <2>4
  <2> HIDE DEF g, h, d, b, l
  <2>9. Stepped(add, sub, mul, inv, x, J, i, g, d, h, n)
    BY <2>6, <2>7, HornerStep
  <2>10. u \in B
    BY <2>6, WeightedType
  <2>11. add[v][mul[xi][u]] = add[d][mul[xi][b]]
    BY <2>a, <2>9 DEF Stepped, g, b
  <2> HIDE DEF v, xi, u
  <2>12. mul[xi][u] \in B /\ mul[xi][b] \in B
    BY <2>6, <2>10, FieldTypes
  <2>13. mul[xi][u] = mul[xi][b]
    <3>1. add[mul[xi][u]][d] = add[mul[xi][b]][d]
      BY <2>6, <2>8, <2>11, <2>12, Commutes
    <3> QED
      BY <2>6, <2>12, <3>1, FieldCancels
  <2> QED
    BY <2>6, <2>8, <2>10, <2>13, FieldDivides
<1>3. Nat \subseteq Ks
  <2> HIDE DEF Ks
  <2> QED
    BY <1>1, <1>2, InductionOn
<1>4. k - 1 \in Ks /\ k - 1 + 1 = k
  BY <1>3
<1> QED
  BY <1>4

-------------------------------------------------------------------------------
(* The scalars: the integers modulo the prime Q are a field.               *)
Scalars == 0 .. Q - 1
AddTable == [a \in Scalars |-> [b \in Scalars |-> AddQ(a, b)]]
SubTable == [a \in Scalars |-> [b \in Scalars |-> SubQ(a, b)]]
TimesTable == [a \in Scalars |-> [b \in Scalars |-> MulQ(a, b)]]
InverseTable == [a \in Scalars |-> InvQ(a)]

LEMMA QFacts == Q \in Nat \ {0} /\ Q > 1 /\ 0 \in Scalars /\ 1 \in Scalars
BY FrostAssumption DEF Scalars

LEMMA Remainder ==
  ASSUME NEW a \in Int, NEW n \in Nat \ {0}
  PROVE  \E q \in Int : \E r \in 0 .. n - 1 : a = q * n + r /\ r = a % n
<1>1. (a \div n) \in Int /\ (a % n) \in 0 .. n - 1 /\ a = (a \div n) * n + (a % n)
  BY DivMod
<1> QED
  BY <1>1

(* Multiples of Q do not count. *)
LEMMA ModShift ==
  ASSUME NEW k \in Int, NEW s \in Int
  PROVE  (k * Q + s) % Q = s % Q /\ s % Q \in Scalars
<1>0. Q \in Nat \ {0}
  BY QFacts
<1>a. PICK q \in Int : \E r \in 0 .. Q - 1 : s = q * Q + r /\ r = s % Q
  BY <1>0, Remainder
<1>1. PICK r \in 0 .. Q - 1 : s = q * Q + r /\ r = s % Q
  BY <1>a
<1>2. (k + q) * Q + r = k * Q + s /\ k + q \in Int
  BY <1>0, <1>1
<1>3. ((k + q) * Q + r) % Q = r
  <2> DEFINE z == k + q
  <2>1. z \in Int
    OBVIOUS
  <2> HIDE DEF z
  <2> QED
    BY <1>0, <2>1 DEF z
<1> QED
  BY <1>1, <1>2, <1>3 DEF Scalars

LEMMA ModOfScalar ==
  ASSUME NEW a \in Scalars
  PROVE  a % Q = a /\ a \in Int
BY QFacts DEF Scalars

(* Remainders may be taken early. *)
LEMMA ModEarly ==
  ASSUME NEW a \in Int, NEW b \in Int
  PROVE  /\ ((a % Q) + b) % Q = (a + b) % Q
         /\ (b + (a % Q)) % Q = (b + a) % Q
         /\ ((a % Q) * b) % Q = (a * b) % Q
         /\ (b * (a % Q)) % Q = (b * a) % Q
<1>0. Q \in Nat \ {0}
  BY QFacts
<1>a. PICK q \in Int : \E r \in 0 .. Q - 1 : a = q * Q + r /\ r = a % Q
  BY <1>0, Remainder
<1>1. PICK r \in Int : a = q * Q + r /\ r = a % Q
  BY <1>a
<1>2. a + b = q * Q + (r + b) /\ r + b \in Int
  BY <1>0, <1>1
<1>3. a * b = (q * b) * Q + r * b /\ q * b \in Int /\ r * b \in Int
  <2>1. \A p \in Int : (q * p + r) * b = (q * b) * p + r * b
    OBVIOUS
  <2>2. (q * Q + r) * b = (q * b) * Q + r * b
    BY <1>0, <2>1
  <2> QED
    BY <1>1, <2>2
<1>4. (a + b) % Q = (r + b) % Q
  BY <1>2, ModShift
<1>5. (a * b) % Q = (r * b) % Q
  BY <1>3, ModShift
<1>6. b + a = a + b /\ b * a = a * b /\ b + r = r + b /\ b * r = r * b
  BY <1>1
<1>7. (r + b) % Q = (a + b) % Q /\ (b + r) % Q = (b + a) % Q
  BY <1>4, <1>6
<1>8. (r * b) % Q = (a * b) % Q /\ (b * r) % Q = (b * a) % Q
  BY <1>5, <1>6
<1>9. a % Q = r
  BY <1>1
<1>10. \A z : z = r => /\ (z + b) % Q = (a + b) % Q /\ (b + z) % Q = (b + a) % Q
                      /\ (z * b) % Q = (a * b) % Q /\ (b * z) % Q = (b * a) % Q
  BY <1>7, <1>8
<1> QED
  BY ONLY <1>9, <1>10, Zenon

(* What Q divides is zero. *)
LEMMA ModZero ==
  ASSUME NEW a \in Int, NEW b \in Int, a % Q = b % Q
  PROVE  \E k \in Int : a = b + k * Q
<1>0. Q \in Nat \ {0}
  BY QFacts
<1>a. PICK q \in Int : \E r \in 0 .. Q - 1 : a = q * Q + r /\ r = a % Q
  BY <1>0, Remainder
<1>1. PICK r \in Int : a = q * Q + r /\ r = a % Q
  BY <1>a
<1>b. PICK p \in Int : \E s \in 0 .. Q - 1 : b = p * Q + s /\ s = b % Q
  BY <1>0, Remainder
<1>2. PICK s \in Int : b = p * Q + s /\ s = b % Q
  BY <1>b
<1>3. a = b + (q - p) * Q /\ q - p \in Int
  BY <1>0, <1>1, <1>2
<1> QED
  BY <1>3

(* Every scalar but zero has an inverse: the least number above zero that  *)
(* is a multiple of a modulo Q divides Q, so it is one.                    *)
LEMMA InverseExists ==
  ASSUME NEW a \in Scalars, a # 0
  PROVE  \E b \in 1 .. Q - 1 : (a * b) % Q = 1
<1> DEFINE Ks == {s \in 1 .. Q - 1 : \E u \in Int : (a * u) % Q = s}
<1>0. Q \in Nat /\ Q \in Nat \ {0} /\ Q > 1 /\ a \in 1 .. Q - 1 /\ a \in Int
  BY QFacts DEF Scalars
<1>1. a \in Ks
  <2>1. (a * 1) % Q = a
    BY <1>0, ModOfScalar
  <2> QED
    BY <1>0, <2>1
<1>2. PICK s \in Ks : \A y \in Ks : s <= y
  <2>1. Ks \subseteq Nat
    BY <1>0
  <2> HIDE DEF Ks
  <2> QED
    BY <1>1, <2>1, LeastOf
<1>3. PICK u \in Int : (a * u) % Q = s
  BY <1>2
<1>4. s \in 1 .. Q - 1 /\ s \in Nat \ {0}
  BY <1>0, <1>2
<1>a. PICK q \in Int : \E r \in 0 .. s - 1 : Q = q * s + r /\ r = Q % s
  <2>1. Q \in Int /\ s \in Nat \ {0}
    BY <1>0, <1>4
  <2> HIDE DEF Ks
  <2> QED
    BY ONLY <2>1, Remainder
<1>5. PICK r \in 0 .. s - 1 : Q = q * s + r /\ r = Q % s
  BY <1>a
<1>6. r = 0
  <2> SUFFICES ASSUME r # 0 PROVE FALSE
    OBVIOUS
  <2>1. PICK k \in Int : a * u = s + k * Q
    <3>1. s % Q = s /\ s \in Int /\ a * u \in Int
      BY <1>0, <1>3, <1>4
    <3> QED
      BY <1>3, <3>1, ModZero
  <2>2. ASSUME NEW v \in Int, v = 0 - q * u PROVE a * v = (0 - q * k - 1) * Q + r
    <3>1. a * v = 0 - q * (a * u)
      BY <1>0, <2>2
    <3>2. a * v = 0 - q * (s + k * Q)
      BY <2>1, <3>1
    <3>3. a * v = 0 - q * s - (q * k) * Q
      BY <1>0, <1>4, <3>2
    <3>4. q * s = Q - r
      BY <1>0, <1>4, <1>5
    <3> QED
      BY <1>0, <1>5, <3>3, <3>4
  <2>3. (a * (0 - q * u)) % Q = r
    <3>1. 0 - q * u \in Int /\ 0 - q * k - 1 \in Int /\ r \in Int
      BY <1>5
    <3>2. a * (0 - q * u) = (0 - q * k - 1) * Q + r
      BY <2>2, <3>1
    <3>3. ((0 - q * k - 1) * Q + r) % Q = r % Q
      BY <3>1, ModShift
    <3>4. r % Q = r
      BY <1>0, <1>4, <1>5
    <3> QED
      BY <3>2, <3>3, <3>4
  <2>4. r \in Ks
    <3>1. r \in 1 .. Q - 1 /\ 0 - q * u \in Int
      BY <1>0, <1>4, <1>5
    <3> QED
      BY <2>3, <3>1
  <2> QED
    BY <1>2, <1>4, <1>5, <2>4
<1>7. s = 1
  <2>1. s \notin 2 .. Q - 1
    BY <1>5, <1>6, FrostAssumption
  <2> QED
    BY <1>0, <1>4, <2>1
<1>8. u % Q \in 0 .. Q - 1 /\ (a * (u % Q)) % Q = 1
  <2>1. (a * (u % Q)) % Q = (a * u) % Q
    BY <1>0, ModEarly
  <2>2. u % Q \in 0 .. Q - 1
    BY <1>0, DivMod
  <2> QED
    BY <1>3, <1>7, <2>1, <2>2
<1>9. u % Q # 0
  <2>1. (a * 0) % Q = 0
    BY <1>0
  <2> QED
    BY <1>8, <2>1
<1>10. u % Q \in 1 .. Q - 1
  BY <1>0, <1>8, <1>9
<1> QED
  BY <1>8, <1>10

LEMMA TableEntries ==
  ASSUME NEW a \in Scalars, NEW b \in Scalars
  PROVE  /\ AddTable[a][b] = (a + b) % Q /\ AddTable[a][b] \in Scalars
         /\ SubTable[a][b] = (a + Q - b) % Q /\ SubTable[a][b] \in Scalars
         /\ TimesTable[a][b] = (a * b) % Q /\ TimesTable[a][b] \in Scalars
         /\ AddTable[a][b] = AddQ(a, b) /\ SubTable[a][b] = SubQ(a, b)
         /\ TimesTable[a][b] = MulQ(a, b) /\ InverseTable[a] = InvQ(a)
<1>1. a \in Int /\ b \in Int /\ Q \in Int /\ Q \in Nat \ {0}
  BY QFacts DEF Scalars
<1>2. a + b \in Int /\ a + Q - b \in Int /\ a * b \in Int
  BY <1>1
<1>3. \A z \in Int : z % Q \in Scalars
  BY <1>1, DivMod DEF Scalars
<1>4. (a + b) % Q \in Scalars /\ (a + Q - b) % Q \in Scalars /\ (a * b) % Q \in Scalars
  BY <1>2, <1>3
<1>5. AddTable[a][b] = (a + b) % Q /\ AddTable[a][b] = AddQ(a, b)
  BY DEF AddTable, AddQ
<1>6. SubTable[a][b] = (a + Q - b) % Q /\ SubTable[a][b] = SubQ(a, b)
  BY DEF SubTable, SubQ
<1>7. TimesTable[a][b] = (a * b) % Q /\ TimesTable[a][b] = MulQ(a, b)
  BY DEF TimesTable, MulQ
<1>8. InverseTable[a] = InvQ(a)
  BY DEF InverseTable
<1> QED
  BY <1>4, <1>5, <1>6, <1>7, <1>8

LEMMA ScalarLaws ==
  ASSUME NEW a \in Scalars, NEW b \in Scalars, NEW c \in Scalars
  PROVE  /\ AddTable[a][b] = AddTable[b][a] /\ TimesTable[a][b] = TimesTable[b][a]
         /\ AddTable[AddTable[a][b]][c] = AddTable[a][AddTable[b][c]]
         /\ TimesTable[TimesTable[a][b]][c] = TimesTable[a][TimesTable[b][c]]
         /\ TimesTable[a][AddTable[b][c]] = AddTable[TimesTable[a][b]][TimesTable[a][c]]
         /\ AddTable[SubTable[a][b]][b] = a
<1>1. a \in Int /\ b \in Int /\ c \in Int /\ Q \in Int
  BY QFacts DEF Scalars
<1>2. a + b \in Int /\ b + c \in Int /\ a * b \in Int /\ b * c \in Int /\ a * c \in Int /\ a + Q - b \in Int
  BY <1>1
<1>3. AddTable[a][b] = AddTable[b][a] /\ TimesTable[a][b] = TimesTable[b][a]
  <2>1. a + b = b + a /\ a * b = b * a
    BY <1>1
  <2>2. AddTable[a][b] = (a + b) % Q /\ AddTable[b][a] = (b + a) % Q
    BY TableEntries
  <2>3. TimesTable[a][b] = (a * b) % Q /\ TimesTable[b][a] = (b * a) % Q
    BY TableEntries
  <2> QED
    BY <2>1, <2>2, <2>3
<1>4. AddTable[AddTable[a][b]][c] = AddTable[a][AddTable[b][c]]
  <2>1. AddTable[AddTable[a][b]][c] = (((a + b) % Q) + c) % Q
    BY TableEntries
  <2>2. AddTable[a][AddTable[b][c]] = (a + ((b + c) % Q)) % Q
    BY TableEntries
  <2>3. (((a + b) % Q) + c) % Q = ((a + b) + c) % Q
    BY <1>1, <1>2, ModEarly
  <2>4. (a + ((b + c) % Q)) % Q = (a + (b + c)) % Q
    BY <1>1, <1>2, ModEarly
  <2>5. (a + b) + c = a + (b + c)
    BY <1>1
  <2> QED
    BY <2>1, <2>2, <2>3, <2>4, <2>5
<1>5. TimesTable[TimesTable[a][b]][c] = TimesTable[a][TimesTable[b][c]]
  <2>1. TimesTable[TimesTable[a][b]][c] = (((a * b) % Q) * c) % Q
    BY TableEntries
  <2>2. TimesTable[a][TimesTable[b][c]] = (a * ((b * c) % Q)) % Q
    BY TableEntries
  <2>3. (((a * b) % Q) * c) % Q = ((a * b) * c) % Q
    BY <1>1, <1>2, ModEarly
  <2>4. (a * ((b * c) % Q)) % Q = (a * (b * c)) % Q
    BY <1>1, <1>2, ModEarly
  <2>5. (a * b) * c = a * (b * c)
    BY <1>1
  <2> QED
    BY <2>1, <2>2, <2>3, <2>4, <2>5
<1>6. TimesTable[a][AddTable[b][c]] = AddTable[TimesTable[a][b]][TimesTable[a][c]]
  <2>1. TimesTable[a][AddTable[b][c]] = (a * ((b + c) % Q)) % Q
    BY TableEntries
  <2>2. AddTable[TimesTable[a][b]][TimesTable[a][c]] = (((a * b) % Q) + ((a * c) % Q)) % Q
    BY TableEntries
  <2>3. (a * ((b + c) % Q)) % Q = (a * (b + c)) % Q
    BY <1>1, <1>2, ModEarly
  <2>4. (a * c) % Q \in Int
    BY <1>2, ModShift DEF Scalars
  <2>5. (((a * b) % Q) + ((a * c) % Q)) % Q = (a * b + ((a * c) % Q)) % Q
    BY <1>2, <2>4, ModEarly
  <2>6. (a * b + ((a * c) % Q)) % Q = (a * b + a * c) % Q
    BY <1>2, ModEarly
  <2>7. a * (b + c) = a * b + a * c
    BY <1>1
  <2> QED
    BY <2>1, <2>2, <2>3, <2>5, <2>6, <2>7
<1>7. AddTable[SubTable[a][b]][b] = a
  <2>1. AddTable[SubTable[a][b]][b] = (((a + Q - b) % Q) + b) % Q
    BY TableEntries
  <2>2. (((a + Q - b) % Q) + b) % Q = ((a + Q - b) + b) % Q
    BY <1>1, <1>2, ModEarly
  <2>3. (a + Q - b) + b = 1 * Q + a
    BY <1>1
  <2>4. (1 * Q + a) % Q = a % Q
    <3>1. \A k \in Int : (k * Q + a) % Q = a % Q
      BY <1>1, ModShift
    <3> DEFINE one == 1
    <3>2. one \in Int
      OBVIOUS
    <3> HIDE DEF one
    <3>3. (one * Q + a) % Q = a % Q
      BY <3>1, <3>2
    <3> QED
      BY <3>3 DEF one
  <2>5. a % Q = a
    BY ModOfScalar
  <2> QED
    BY <2>1, <2>2, <2>3, <2>4, <2>5
<1> QED
  BY <1>3, <1>4, <1>5, <1>6, <1>7

LEMMA ScalarInverse ==
  ASSUME NEW a \in Scalars
  PROVE  /\ InverseTable[a] \in Scalars
         /\ a = 0 => InverseTable[a] = 0
         /\ a # 0 => TimesTable[a][InverseTable[a]] = 1
<1>0. InverseTable[a] = InvQ(a) /\ 0 \in Scalars
  BY QFacts, TableEntries
<1>1. CASE a = 0
  BY <1>0, <1>1 DEF InvQ
<1>2. CASE a # 0
  <2>1. \E b \in 1 .. Q - 1 : (a * b) % Q = 1
    BY <1>2, InverseExists
  <2>2. InvQ(a) = CHOOSE b \in 1 .. Q - 1 : (a * b) % Q = 1
    BY <1>2 DEF InvQ
  <2>3. InvQ(a) \in 1 .. Q - 1 /\ (a * InvQ(a)) % Q = 1
    BY <2>1, <2>2
  <2>4. InvQ(a) \in Scalars
    BY <2>3, QFacts DEF Scalars
  <2>5. TimesTable[a][InverseTable[a]] = (a * InverseTable[a]) % Q
    BY <1>0, <2>4, TableEntries
  <2> QED
    BY <1>0, <1>2, <2>3, <2>4, <2>5
<1> QED
  BY <1>1, <1>2

(* The scalars of secp256k1, or of any group of prime order, are a field.  *)
LEMMA ScalarField == Field(Scalars, AddTable, SubTable, TimesTable, InverseTable)
<1>1. 0 \in Scalars /\ 1 \in Scalars /\ InverseTable[0] = 0
  BY QFacts, ScalarInverse
<1>2. AddTable \in [Scalars -> [Scalars -> Scalars]]
  <2>1. \A a, b \in Scalars : AddQ(a, b) \in Scalars
    BY TableEntries
  <2> QED
    BY <2>1 DEF AddTable
<1>3. SubTable \in [Scalars -> [Scalars -> Scalars]]
  <2>1. \A a, b \in Scalars : SubQ(a, b) \in Scalars
    BY TableEntries
  <2> QED
    BY <2>1 DEF SubTable
<1>4. TimesTable \in [Scalars -> [Scalars -> Scalars]]
  <2>1. \A a, b \in Scalars : MulQ(a, b) \in Scalars
    BY TableEntries
  <2> QED
    BY <2>1 DEF TimesTable
<1>5. InverseTable \in [Scalars -> Scalars]
  <2>1. \A a \in Scalars : InvQ(a) \in Scalars
    BY ScalarInverse, TableEntries
  <2> QED
    BY <2>1 DEF InverseTable
<1>6. \A a, b \in Scalars : AddTable[a][b] = AddTable[b][a] /\ TimesTable[a][b] = TimesTable[b][a]
  BY <1>1, ScalarLaws
<1>7. \A a, b, c \in Scalars : AddTable[AddTable[a][b]][c] = AddTable[a][AddTable[b][c]]
  BY ScalarLaws
<1>8. \A a, b, c \in Scalars : TimesTable[TimesTable[a][b]][c] = TimesTable[a][TimesTable[b][c]]
  BY ScalarLaws
<1>9. \A a, b, c \in Scalars : TimesTable[a][AddTable[b][c]] = AddTable[TimesTable[a][b]][TimesTable[a][c]]
  BY ScalarLaws
<1>10. \A a, b \in Scalars : AddTable[SubTable[a][b]][b] = a
  BY <1>1, ScalarLaws
<1>11. \A a \in Scalars : AddTable[a][0] = a /\ TimesTable[a][1] = a
  <2> SUFFICES ASSUME NEW a \in Scalars PROVE AddTable[a][0] = a /\ TimesTable[a][1] = a
    OBVIOUS
  <2>1. a % Q = a /\ a \in Int
    BY ModOfScalar
  <2>2. a + 0 = a /\ a * 1 = a
    BY <2>1
  <2> QED
    BY <1>1, <2>1, <2>2, TableEntries
<1>12. \A a \in Scalars \ {0} : TimesTable[a][InverseTable[a]] = 1
  BY ScalarInverse
<1> QED
  BY <1>1, <1>2, <1>3, <1>4, <1>5, <1>6, <1>7, <1>8, <1>9, <1>10, <1>11, <1>12 DEF Field

-------------------------------------------------------------------------------
(* The loops of the model are totals.                                      *)
Fills(B, op, e, f, n, g) ==
  g \in [0 .. n -> B] /\ g[0] = e /\ \A m \in 1 .. n : g[m] = op[g[m - 1]][f[m]]
LEMMA TotalsFunction ==
  ASSUME NEW B, NEW op \in [B -> [B -> B]], NEW e \in B, NEW n \in Nat, NEW f \in [1 .. n -> B]
  PROVE  \E g : Fills(B, op, e, f, n, g)
<1>1. PICK g : Partials(B, op, e, f, n, g)
  BY TotalIs
<1> DEFINE h == [m \in 0 .. n |-> g[m]]
<1>2. h \in [0 .. n -> B] /\ h[0] = e
  BY <1>1 DEF Partials
<1>3. \A m \in 1 .. n : h[m] = op[h[m - 1]][f[m]]
  BY <1>1 DEF Partials
<1> HIDE DEF h
<1> QED
  BY <1>2, <1>3 DEF Fills

Looped(B, op, e, f, n, acc) ==
  acc[0] = e /\ \A m \in 1 .. n : acc[m - 1] \in B => acc[m] = op[acc[m - 1]][f[m]]
LEMMA LoopTotal ==
  ASSUME NEW B, NEW op \in [B -> [B -> B]], NEW e \in B, NEW n \in Nat, NEW f \in [1 .. n -> B],
         NEW acc, Looped(B, op, e, f, n, acc)
  PROVE  acc[n] = Total(op, e, f, n) /\ (\A m \in 0 .. n : acc[m] \in B) /\ Totals(op, e, f, n, acc)
<1> USE DEF Looped
<1> DEFINE Ks == {m \in Nat : m <= n => acc[m] \in B}
<1>1. 0 \in Ks
  OBVIOUS
<1>2. ASSUME NEW m \in Nat, m \in Ks PROVE m + 1 \in Ks
  <2> SUFFICES ASSUME m + 1 <= n PROVE acc[m + 1] \in B
    OBVIOUS
  <2>1. m + 1 \in 1 .. n /\ m + 1 - 1 = m /\ acc[m] \in B
    BY <1>2
  <2>2. acc[m + 1] = op[acc[m]][f[m + 1]] /\ f[m + 1] \in B
    BY <2>1
  <2> QED
    BY <2>1, <2>2
<1>3. Nat \subseteq Ks
  <2> HIDE DEF Ks
  <2> QED
    BY <1>1, <1>2, InductionOn
<1>4. \A m \in 0 .. n : acc[m] \in B
  BY <1>3
<1>5. \A m \in 1 .. n : acc[m - 1] \in B
  BY <1>4
<1>6. Totals(op, e, f, n, acc)
  BY <1>5 DEF Totals
<1> HIDE DEF Looped
<1>7. /\ \A m \in 0 .. n : acc[m] \in B
      /\ acc[n] = Total(op, e, f, n)
      /\ Total(op, e, f, n) \in B
  BY <1>6, TotalsAgree
<1> QED
  BY <1>4, <1>6, <1>7

(* aggregated_nonce and aggregate. *)
Given(f, M, e, n) == [p \in 1 .. n |-> IF p \in M THEN f[p] ELSE e]
LEMMA SumIs ==
  ASSUME NEW f, NEW M \in SUBSET Party, \A p \in M : f[p] \in Scalars
  PROVE  /\ Given(f, M, 0, Parties) \in [1 .. Parties -> Scalars]
         /\ SumQ(f, M) = Total(AddTable, 0, Given(f, M, 0, Parties), Parties)
         /\ SumQ(f, M) \in Scalars
<1> DEFINE n == Parties
           r == Given(f, M, 0, n)
           step(v, m) == IF m \in M THEN AddQ(v, f[m]) ELSE v
           acc == CHOOSE g : g = [m \in 0 .. n |-> IF m = 0 THEN 0 ELSE step(g[m - 1], m)]
<1>0. 0 \in Scalars /\ AddTable \in [Scalars -> [Scalars -> Scalars]] /\ n \in Nat
  BY ScalarField, FieldTypes, QFacts, FrostAssumption
<1>1. r \in [1 .. n -> Scalars]
  BY <1>0 DEF Given, Party
<1>2. ASSUME NEW v \in Scalars, NEW m \in 1 .. n PROVE step(v, m) = AddTable[v][r[m]]
  <2>1. CASE m \in M
    BY <2>1, TableEntries DEF Given
  <2>2. CASE m \notin M
    BY <2>2, <1>0, ScalarField, Units DEF Given
  <2> QED
    BY <2>1, <2>2
<1>3. SumQ(f, M) = acc[n]
  BY DEF SumQ, F!Loop
<1> HIDE DEF step, r, n
<1>4. PICK g : Fills(Scalars, AddTable, 0, r, n, g)
  BY <1>0, <1>1, TotalsFunction
<1>5. g = [m \in 0 .. n |-> IF m = 0 THEN 0 ELSE step(g[m - 1], m)]
  <2>1. g \in [0 .. n -> Scalars] /\ g[0] = 0
    BY <1>4 DEF Fills
  <2>2. \A m \in 1 .. n : g[m - 1] \in Scalars /\ g[m] = AddTable[g[m - 1]][r[m]]
    BY <1>0, <1>4 DEF Fills
  <2>3. \A m \in 1 .. n : g[m] = step(g[m - 1], m)
    BY <1>2, <2>2
  <2> QED
    BY <1>0, <2>1, <2>3
<1>6. acc = [m \in 0 .. n |-> IF m = 0 THEN 0 ELSE step(acc[m - 1], m)]
  BY <1>5
<1> HIDE DEF acc
<1>7. acc[0] = 0 /\ \A m \in 1 .. n : acc[m] = step(acc[m - 1], m)
  BY <1>0, <1>6
<1>8. Looped(Scalars, AddTable, 0, r, n, acc)
  BY <1>2, <1>7 DEF Looped
<1>9. acc[n] = Total(AddTable, 0, r, n) /\ Total(AddTable, 0, r, n) \in Scalars
  BY <1>0, <1>1, <1>8, LoopTotal, TotalIs
<1> QED
  BY <1>1, <1>3, <1>9 DEF r, n

-------------------------------------------------------------------------------
(* The loops of Shamir: products, weights, sums and Horner's rule.         *)
LEMMA SeqLength ==
  ASSUME NEW n \in Nat, NEW B, NEW s \in [1 .. n -> B]
  PROVE  Len(s) = n /\ DOMAIN s = 1 .. n
OBVIOUS

Shared(xs, ys, n) == [i \in 1 .. n |-> [x |-> xs[i], y |-> ys[i]]]
Downward(coeffs, t) == [k \in 0 .. t |-> IF k = 0 THEN 0 ELSE coeffs[t + 1 - k]]
Rounds(B, add, mul, x, c, t, a) ==
  a \in [0 .. t -> B] /\ a[0] = 0 /\ \A k \in 1 .. t : a[k] = add[mul[a[k - 1]][x]][c[k]]
Evaluated(B, add, mul, x, c, t, v, n) ==
  \A m \in 1 .. n : \E a : Rounds(B, add, mul, x[m], c, t, a) /\ a[t] = v[m]
EndsIn(B, add, mul, x, c, t, v, H, n) ==
  Horner(B, add, mul, x, c, t, H, n) /\ \A m \in 1 .. n : H[t][m] = v[m]

LEMMA HornerRounds ==
  ASSUME NEW B, NEW add, NEW sub, NEW mul, NEW inv, Field(B, add, sub, mul, inv), NEW n \in Nat,
         NEW x \in [1 .. n -> B], NEW t \in Nat, NEW c \in [0 .. t -> B], c[0] = 0, NEW v,
         Evaluated(B, add, mul, x, c, t, v, n)
  PROVE  \E H : EndsIn(B, add, mul, x, c, t, v, H, n)
<1> DEFINE R(m) == CHOOSE a : Rounds(B, add, mul, x[m], c, t, a) /\ a[t] = v[m]
           H == [k \in 0 .. t |-> [m \in 1 .. n |-> R(m)[k]]]
<1>1. \A m \in 1 .. n : Rounds(B, add, mul, x[m], c, t, R(m)) /\ R(m)[t] = v[m]
  BY DEF Evaluated
<1> HIDE DEF R
<1>2. \A k \in 0 .. t : H[k] \in [1 .. n -> B]
  BY <1>1 DEF Rounds
<1>3. \A m \in 1 .. n : H[0][m] = 0 /\ H[t][m] = v[m]
  BY <1>1 DEF Rounds
<1>4. \A k \in 1 .. t : \A m \in 1 .. n : H[k][m] = add[mul[H[k - 1][m]][x[m]]][c[k]]
  <2> SUFFICES ASSUME NEW k \in 1 .. t, NEW m \in 1 .. n
               PROVE  H[k][m] = add[mul[H[k - 1][m]][x[m]]][c[k]]
    OBVIOUS
  <2>1. k - 1 \in 0 .. t /\ k \in 0 .. t
    OBVIOUS
  <2>2. H[k][m] = R(m)[k] /\ H[k - 1][m] = R(m)[k - 1]
    BY <2>1
  <2> QED
    BY <1>1, <2>2 DEF Rounds
<1> HIDE DEF H
<1> QED
  BY <1>2, <1>3, <1>4 DEF Horner, EndsIn

LEMMA ByteEntries ==
  ASSUME NEW a \in Byte, NEW b \in Byte
  PROVE  /\ XorOf(a, b) = XorTable[a][b] /\ MulOf(a, b) = MulTable[a][b]
         /\ InvOf(a) = InvTable[a]
BY DEF XorOf, MulOf, InvOf

LEMMA ScalarNumerator ==
  ASSUME NEW n \in Nat, NEW xs \in [1 .. n -> Scalars], NEW j \in 1 .. n
  PROVE  F!Numerator(xs, j) = Above(TimesTable, xs, 1 .. n, j, n)
<1> DEFINE t == n
           r == Factors(1 .. n, j, xs, n)
           step(v, m) == IF m = j THEN v ELSE MulQ(v, xs[m])
           acc == CHOOSE g : g = [m \in 0 .. t |-> IF m = 0 THEN 1 ELSE step(g[m - 1], m)]
<1>0. 1 \in Scalars /\ TimesTable \in [Scalars -> [Scalars -> Scalars]] /\ t \in Nat /\ \A m \in 1 .. n : xs[m] \in Scalars
  BY ScalarField, FieldTypes
<1>1. r \in [1 .. t -> Scalars]
  BY <1>0 DEF Factors
<1>2. ASSUME NEW v \in Scalars, NEW m \in 1 .. t PROVE step(v, m) = TimesTable[v][r[m]]
  <2>1. CASE m # j
    BY <1>0, <2>1, TableEntries DEF Factors
  <2>2. CASE m = j
    BY <2>2, <1>0, ScalarField, Units DEF Factors
  <2> QED
    BY <2>1, <2>2
<1>3. F!Numerator(xs, j) = acc[t]
  <2>1. Len(xs) = n
    BY SeqLength
  <2> QED
    BY <2>1 DEF F!Numerator, F!Loop
<1> HIDE DEF step, r, t
<1>4. PICK g : Fills(Scalars, TimesTable, 1, r, t, g)
  BY <1>0, <1>1, TotalsFunction
<1>5. g = [m \in 0 .. t |-> IF m = 0 THEN 1 ELSE step(g[m - 1], m)]
  <2>1. g \in [0 .. t -> Scalars] /\ g[0] = 1
    BY <1>4 DEF Fills
  <2>2. \A m \in 1 .. t : g[m - 1] \in Scalars /\ g[m] = TimesTable[g[m - 1]][r[m]]
    BY <1>0, <1>4 DEF Fills
  <2>3. \A m \in 1 .. t : g[m] = step(g[m - 1], m)
    BY <1>2, <2>2
  <2> QED
    BY <1>0, <2>1, <2>3
<1>6. acc = [m \in 0 .. t |-> IF m = 0 THEN 1 ELSE step(acc[m - 1], m)]
  BY <1>5
<1> HIDE DEF acc
<1>7. acc[0] = 1 /\ \A m \in 1 .. t : acc[m] = step(acc[m - 1], m)
  BY <1>0, <1>6
<1>8. Looped(Scalars, TimesTable, 1, r, t, acc)
  BY <1>2, <1>7 DEF Looped
<1>9. acc[t] = Total(TimesTable, 1, r, t)
  <2> DEFINE e == 1
  <2>1. e \in Scalars /\ Looped(Scalars, TimesTable, e, r, t, acc)
    BY <1>0, <1>8
  <2> HIDE DEF e
  <2>2. acc[t] = Total(TimesTable, e, r, t)
    BY <1>0, <1>1, <2>1, LoopTotal
  <2> QED
    BY <2>2 DEF e
<1> QED
  BY <1>3, <1>9 DEF r, t, Above

LEMMA ScalarDenominator ==
  ASSUME NEW n \in Nat, NEW xs \in [1 .. n -> Scalars], NEW j \in 1 .. n
  PROVE  F!Denominator(xs, j) = Below(SubTable, TimesTable, xs, 1 .. n, j, n)
<1> DEFINE t == n
           r == Factors(1 .. n, j, Diffs(SubTable, xs, j, n), n)
           step(v, m) == IF m = j THEN v ELSE MulQ(v, SubQ(xs[m], xs[j]))
           acc == CHOOSE g : g = [m \in 0 .. t |-> IF m = 0 THEN 1 ELSE step(g[m - 1], m)]
<1>0. 1 \in Scalars /\ TimesTable \in [Scalars -> [Scalars -> Scalars]] /\ t \in Nat /\ \A m \in 1 .. n : xs[m] \in Scalars
  BY ScalarField, FieldTypes
<1>1. r \in [1 .. t -> Scalars]
  <2>1. Diffs(SubTable, xs, j, n) \in [1 .. n -> Scalars]
    BY ScalarField, WeightTypes
  <2> QED
    BY <1>0, <2>1 DEF Factors
<1>2. ASSUME NEW v \in Scalars, NEW m \in 1 .. t PROVE step(v, m) = TimesTable[v][r[m]]
  <2>1. CASE m # j
    <3>1. SubQ(xs[m], xs[j]) = SubTable[xs[m]][xs[j]] /\ SubTable[xs[m]][xs[j]] \in Scalars
      BY <1>0, ScalarField, FieldTypes, TableEntries
    <3>2. r[m] = SubTable[xs[m]][xs[j]]
      BY <2>1 DEF Factors, Diffs
    <3>3. \A d \in Scalars : MulQ(v, d) = TimesTable[v][d]
      BY TableEntries
    <3> QED
      BY <2>1, <3>1, <3>2, <3>3
  <2>2. CASE m = j
    BY <2>2, <1>0, ScalarField, Units DEF Factors
  <2> QED
    BY <2>1, <2>2
<1>3. F!Denominator(xs, j) = acc[t]
  <2>1. Len(xs) = n
    BY SeqLength
  <2> QED
    BY <2>1 DEF F!Denominator, F!Loop
<1> HIDE DEF step, r, t
<1>4. PICK g : Fills(Scalars, TimesTable, 1, r, t, g)
  BY <1>0, <1>1, TotalsFunction
<1>5. g = [m \in 0 .. t |-> IF m = 0 THEN 1 ELSE step(g[m - 1], m)]
  <2>1. g \in [0 .. t -> Scalars] /\ g[0] = 1
    BY <1>4 DEF Fills
  <2>2. \A m \in 1 .. t : g[m - 1] \in Scalars /\ g[m] = TimesTable[g[m - 1]][r[m]]
    BY <1>0, <1>4 DEF Fills
  <2>3. \A m \in 1 .. t : g[m] = step(g[m - 1], m)
    BY <1>2, <2>2
  <2> QED
    BY <1>0, <2>1, <2>3
<1>6. acc = [m \in 0 .. t |-> IF m = 0 THEN 1 ELSE step(acc[m - 1], m)]
  BY <1>5
<1> HIDE DEF acc
<1>7. acc[0] = 1 /\ \A m \in 1 .. t : acc[m] = step(acc[m - 1], m)
  BY <1>0, <1>6
<1>8. Looped(Scalars, TimesTable, 1, r, t, acc)
  BY <1>2, <1>7 DEF Looped
<1>9. acc[t] = Total(TimesTable, 1, r, t)
  <2> DEFINE e == 1
  <2>1. e \in Scalars /\ Looped(Scalars, TimesTable, e, r, t, acc)
    BY <1>0, <1>8
  <2> HIDE DEF e
  <2>2. acc[t] = Total(TimesTable, e, r, t)
    BY <1>0, <1>1, <2>1, LoopTotal
  <2> QED
    BY <2>2 DEF e
<1> QED
  BY <1>3, <1>9 DEF r, t, Below

LEMMA ScalarAtZero ==
  ASSUME NEW n \in Nat, NEW xs \in [1 .. n -> Scalars], NEW j \in 1 .. n
  PROVE  F!AtZero(xs, j) = Weights(SubTable, TimesTable, InverseTable, xs, 1 .. n, n)[j]
<1>1. Above(TimesTable, xs, 1 .. n, j, n) \in Scalars /\ Below(SubTable, TimesTable, xs, 1 .. n, j, n) \in Scalars
  BY ScalarField, WeightTypes
<1>2. \A b \in Scalars : InvQ(b) = InverseTable[b] /\ InverseTable[b] \in Scalars
  BY ScalarField, FieldTypes, TableEntries
<1>3. \A a, b \in Scalars : MulQ(a, b) = TimesTable[a][b]
  BY TableEntries
<1>4. F!AtZero(xs, j)
        = TimesTable[Above(TimesTable, xs, 1 .. n, j, n)][InverseTable[Below(SubTable, TimesTable, xs, 1 .. n, j, n)]]
  BY <1>1, <1>2, <1>3, ScalarNumerator, ScalarDenominator DEF F!AtZero
<1> QED
  BY <1>4 DEF Weights

LEMMA ScalarReconstruct ==
  ASSUME NEW n \in Nat, NEW xs \in [1 .. n -> Scalars], NEW ys \in [1 .. n -> Scalars]
  PROVE  F!Reconstruct(Shared(xs, ys, n))
           = Interpolate(AddTable, SubTable, TimesTable, InverseTable, xs, 1 .. n, ys, n)
<1> DEFINE t == n
           Wt == Weights(SubTable, TimesTable, InverseTable, xs, 1 .. n, n)
           r == Weighted(TimesTable, Wt, ys, n)
           sh == [i \in 1 .. n |-> [x |-> xs[i], y |-> ys[i]]]
           step(v, m) == AddQ(v, MulQ(ys[m], F!AtZero(xs, m)))
           acc == CHOOSE g : g = [m \in 0 .. t |-> IF m = 0 THEN 0 ELSE step(g[m - 1], m)]
<1>0. 0 \in Scalars /\ AddTable \in [Scalars -> [Scalars -> Scalars]] /\ t \in Nat
  BY ScalarField, FieldTypes
<1>a. Wt \in [1 .. n -> Scalars] /\ r \in [1 .. n -> Scalars]
  BY ScalarField, WeightedType
<1>1. r \in [1 .. t -> Scalars]
  BY <1>a
<1>2. ASSUME NEW v \in Scalars, NEW m \in 1 .. t PROVE step(v, m) = AddTable[v][r[m]]
  <2>1. F!AtZero(xs, m) = Wt[m] /\ Wt[m] \in Scalars /\ ys[m] \in Scalars
    BY <1>a, ScalarAtZero
  <2>2. r[m] = TimesTable[Wt[m]][ys[m]]
    BY DEF Weighted
  <2> HIDE DEF Wt, r
  <2>3. MulQ(ys[m], Wt[m]) = TimesTable[ys[m]][Wt[m]]
    BY <2>1, TableEntries
  <2>4. TimesTable[ys[m]][Wt[m]] = TimesTable[Wt[m]][ys[m]]
    BY <2>1, ScalarField, Commutes
  <2>5. r[m] \in Scalars
    BY <1>1
  <2> QED
    BY <2>1, <2>2, <2>3, <2>4, <2>5, TableEntries
<1>d. Shared(xs, ys, n) = sh
  BY DEF Shared
<1>3. F!Reconstruct(sh) = acc[t]
  <2>1. Len(sh) = n /\ DOMAIN sh = 1 .. n
    <3>1. sh \in [1 .. n -> [x : Scalars, y : Scalars]]
      OBVIOUS
    <3> HIDE DEF sh
    <3> QED
      BY <3>1, SeqLength
  <2>2. [i \in DOMAIN sh |-> sh[i].x] = xs
    BY <2>1
  <2>3. \A m \in 1 .. n : sh[m].y = ys[m]
    OBVIOUS
  <2> DEFINE body(g) == [m \in 0 .. n |-> IF m = 0 THEN 0
                           ELSE AddQ(g[m - 1], MulQ(sh[m].y, F!AtZero([i \in DOMAIN sh |-> sh[i].x], m)))]
  <2>4. F!Reconstruct(sh) = (CHOOSE g : g = body(g))[n]
    BY <2>1 DEF F!Reconstruct, F!Loop
  <2>5. \A g : body(g) = [m \in 0 .. n |-> IF m = 0 THEN 0 ELSE step(g[m - 1], m)]
    BY <2>2, <2>3
  <2>6. (CHOOSE g : g = body(g)) = acc
    <3> HIDE DEF body, step
    <3> QED
      BY <2>5
  <2> QED
    BY <2>4, <2>6
<1> HIDE DEF step, r, t
<1>4. PICK g : Fills(Scalars, AddTable, 0, r, t, g)
  BY <1>0, <1>1, TotalsFunction
<1>5. g = [m \in 0 .. t |-> IF m = 0 THEN 0 ELSE step(g[m - 1], m)]
  <2>1. g \in [0 .. t -> Scalars] /\ g[0] = 0
    BY <1>4 DEF Fills
  <2>2. \A m \in 1 .. t : g[m - 1] \in Scalars /\ g[m] = AddTable[g[m - 1]][r[m]]
    BY <1>0, <1>4 DEF Fills
  <2>3. \A m \in 1 .. t : g[m] = step(g[m - 1], m)
    BY <1>2, <2>2
  <2> QED
    BY <1>0, <2>1, <2>3
<1>6. acc = [m \in 0 .. t |-> IF m = 0 THEN 0 ELSE step(acc[m - 1], m)]
  BY <1>5
<1> HIDE DEF acc
<1>7. acc[0] = 0 /\ \A m \in 1 .. t : acc[m] = step(acc[m - 1], m)
  BY <1>0, <1>6
<1>8. Looped(Scalars, AddTable, 0, r, t, acc)
  BY <1>2, <1>7 DEF Looped
<1>9. acc[t] = Total(AddTable, 0, r, t)
  <2> DEFINE e == 0
  <2>1. e \in Scalars /\ Looped(Scalars, AddTable, e, r, t, acc)
    BY <1>0, <1>8
  <2> HIDE DEF e
  <2>2. acc[t] = Total(AddTable, e, r, t)
    BY <1>0, <1>1, <2>1, LoopTotal
  <2> QED
    BY <2>2 DEF e
<1> QED
  BY <1>3, <1>9, <1>d DEF r, t, Wt, Interpolate

LEMMA ScalarEval ==
  ASSUME NEW t \in Nat, NEW coeffs \in [1 .. t -> Scalars], NEW x \in Scalars
  PROVE  \E a : Rounds(Scalars, AddTable, TimesTable, x, Downward(coeffs, t), t, a) /\ a[t] = F!Eval(coeffs, x)
<1> DEFINE r == [k \in 1 .. t |-> coeffs[t + 1 - k]]
           op == [v \in Scalars |-> [u \in Scalars |-> AddTable[TimesTable[v][x]][u]]]
           step(v, m) == AddQ(MulQ(v, x), coeffs[t + 1 - m])
           acc == CHOOSE g : g = [m \in 0 .. t |-> IF m = 0 THEN 0 ELSE step(g[m - 1], m)]
<1>a. /\ 0 \in Scalars /\ t \in Nat
      /\ \A u, v \in Scalars : AddTable[u][v] \in Scalars
      /\ \A u, v \in Scalars : TimesTable[u][v] \in Scalars
  BY ScalarField, FieldTypes
<1>b. op \in [Scalars -> [Scalars -> Scalars]] /\ \A u, v \in Scalars : op[v][u] = AddTable[TimesTable[v][x]][u]
  BY <1>a
<1>0. 0 \in Scalars /\ op \in [Scalars -> [Scalars -> Scalars]] /\ t \in Nat
  BY <1>a, <1>b
<1>1. r \in [1 .. t -> Scalars]
  BY <1>0
<1>2. ASSUME NEW v \in Scalars, NEW m \in 1 .. t PROVE step(v, m) = op[v][r[m]]
  <2>1. MulQ(v, x) = TimesTable[v][x] /\ TimesTable[v][x] \in Scalars
    BY <1>a, TableEntries
  <2>2. r[m] = coeffs[t + 1 - m] /\ r[m] \in Scalars
    BY <1>1
  <2>3. AddQ(TimesTable[v][x], r[m]) = AddTable[TimesTable[v][x]][r[m]]
    BY <2>1, <2>2, TableEntries
  <2> HIDE DEF op, r
  <2> QED
    BY <1>b, <2>1, <2>2, <2>3
<1>3. F!Eval(coeffs, x) = acc[t]
  <2>1. Len(coeffs) = t
    BY SeqLength
  <2> QED
    BY <2>1 DEF F!Eval, F!Loop
<1>c. \A k \in 1 .. t : r[k] = Downward(coeffs, t)[k]
  BY DEF Downward
<1> HIDE DEF op
<1> HIDE DEF step, r
<1>4. PICK g : Fills(Scalars, op, 0, r, t, g)
  BY <1>0, <1>1, TotalsFunction
<1>5. g = [m \in 0 .. t |-> IF m = 0 THEN 0 ELSE step(g[m - 1], m)]
  <2>1. g \in [0 .. t -> Scalars] /\ g[0] = 0
    BY <1>4 DEF Fills
  <2>2. \A m \in 1 .. t : g[m - 1] \in Scalars /\ g[m] = op[g[m - 1]][r[m]]
    BY <1>0, <1>4 DEF Fills
  <2>3. \A m \in 1 .. t : g[m] = step(g[m - 1], m)
    BY <1>2, <2>2
  <2> QED
    BY <1>0, <2>1, <2>3
<1>6. acc = [m \in 0 .. t |-> IF m = 0 THEN 0 ELSE step(acc[m - 1], m)]
  BY <1>5
<1> HIDE DEF acc
<1>7. acc[0] = 0 /\ \A m \in 1 .. t : acc[m] = step(acc[m - 1], m)
  BY <1>0, <1>6
<1>8. Looped(Scalars, op, 0, r, t, acc)
  BY <1>2, <1>7 DEF Looped
<1>9. acc[t] = Total(op, 0, r, t)
  <2> DEFINE e == 0
  <2>1. e \in Scalars /\ Looped(Scalars, op, e, r, t, acc)
    BY <1>0, <1>8
  <2> HIDE DEF e
  <2>2. acc[t] = Total(op, e, r, t)
    BY <1>0, <1>1, <2>1, LoopTotal
  <2> QED
    BY <2>2 DEF e
<1>10. acc \in [0 .. t -> Scalars]
  <2>1. \A m \in 0 .. t : acc[m] \in Scalars
    BY <1>0, <1>1, <1>8, LoopTotal
  <2>2. acc = [m \in 0 .. t |-> acc[m]]
    BY <1>6
  <2> QED
    BY <2>1, <2>2
<1>11. \A k \in 1 .. t : acc[k] = AddTable[TimesTable[acc[k - 1]][x]][Downward(coeffs, t)[k]]
  <2> SUFFICES ASSUME NEW k \in 1 .. t
               PROVE  acc[k] = AddTable[TimesTable[acc[k - 1]][x]][Downward(coeffs, t)[k]]
    OBVIOUS
  <2>1. k - 1 \in 0 .. t /\ acc[k - 1] \in Scalars /\ r[k] \in Scalars
    BY <1>1, <1>10
  <2>2. acc[k] = op[acc[k - 1]][r[k]]
    BY <1>2, <1>7, <2>1
  <2> QED
    BY <1>b, <1>c, <2>1, <2>2
<1> QED
  BY <1>3, <1>7, <1>10, <1>11 DEF Rounds

(* Threshold-many shares, or more, give the constant term. *)
LEMMA ScalarRecovers ==
  ASSUME NEW t \in Nat \ {0}, NEW coeffs \in [1 .. t -> Scalars], NEW n \in Nat, n >= t,
         NEW xs \in [1 .. n -> Scalars], Apart(xs, 1 .. n), NEW ys,
         ys = [i \in 1 .. n |-> F!Eval(coeffs, xs[i])]
  PROVE  /\ ys \in [1 .. n -> Scalars]
         /\ F!Reconstruct(Shared(xs, ys, n)) = coeffs[1]
<1> DEFINE c == Downward(coeffs, t)
<1>1. Evaluated(Scalars, AddTable, TimesTable, xs, c, t, ys, n)
  <2>1. \A m \in 1 .. n : \E a : Rounds(Scalars, AddTable, TimesTable, xs[m], c, t, a) /\ a[t] = ys[m]
    BY ScalarEval
  <2> QED
    BY <2>1 DEF Evaluated
<1>2. c \in [0 .. t -> Scalars] /\ c[0] = 0 /\ c[t] = coeffs[1]
  <2>1. 0 \in Scalars
    BY ScalarField, FieldTypes
  <2> QED
    BY <2>1 DEF Downward
<1> HIDE DEF c
<1>a. PICK H : EndsIn(Scalars, AddTable, TimesTable, xs, c, t, ys, H, n)
  BY <1>1, <1>2, ScalarField, HornerRounds
<1>3. Horner(Scalars, AddTable, TimesTable, xs, c, t, H, n) /\ \A m \in 1 .. n : H[t][m] = ys[m]
  BY <1>a DEF EndsIn
<1>4. t \in 0 .. t /\ 1 .. n \in SUBSET (1 .. n) /\ Cardinality(1 .. n) = n
  BY FS_Interval
<1>5. H[t] \in [1 .. n -> Scalars]
  BY <1>3, <1>4 DEF Horner
<1>6. H[t] = ys
  BY <1>3, <1>5
<1>7. Interpolate(AddTable, SubTable, TimesTable, InverseTable, xs, 1 .. n, H[t], n) = c[t]
  <2> DEFINE K == 1 .. n
  <2>1. Cardinality(K) >= t /\ K \in SUBSET (1 .. n) /\ Apart(xs, K)
    BY <1>4
  <2> HIDE DEF K
  <2>2. Interpolate(AddTable, SubTable, TimesTable, InverseTable, xs, K, H[t], n) = c[t]
    BY <1>3, <1>4, <2>1, ScalarField, Interpolates
  <2> QED
    BY <2>2 DEF K
<1>8. ys \in [1 .. n -> Scalars]
  BY <1>5, <1>6
<1> QED
  BY <1>2, <1>6, <1>7, <1>8, ScalarReconstruct

LEMMA ByteNumerator ==
  ASSUME NEW n \in Nat, NEW xs \in [1 .. n -> Byte], NEW j \in 1 .. n
  PROVE  S!Numerator(xs, j) = Above(MulTable, xs, 1 .. n, j, n)
<1> DEFINE t == n
           r == Factors(1 .. n, j, xs, n)
           step(v, m) == IF m = j THEN v ELSE MulOf(v, xs[m])
           acc == CHOOSE g : g = [m \in 0 .. t |-> IF m = 0 THEN 1 ELSE step(g[m - 1], m)]
<1>0. 1 \in Byte /\ MulTable \in [Byte -> [Byte -> Byte]] /\ t \in Nat /\ \A m \in 1 .. n : xs[m] \in Byte
  BY ByteFieldAssumption, FieldTypes
<1>1. r \in [1 .. t -> Byte]
  BY <1>0 DEF Factors
<1>2. ASSUME NEW v \in Byte, NEW m \in 1 .. t PROVE step(v, m) = MulTable[v][r[m]]
  <2>1. CASE m # j
    BY <1>0, <2>1, ByteEntries DEF Factors
  <2>2. CASE m = j
    BY <2>2, <1>0, ByteFieldAssumption, Units DEF Factors
  <2> QED
    BY <2>1, <2>2
<1>3. S!Numerator(xs, j) = acc[t]
  <2>1. Len(xs) = n
    BY SeqLength
  <2> QED
    BY <2>1 DEF S!Numerator, S!Loop
<1> HIDE DEF step, r, t
<1>4. PICK g : Fills(Byte, MulTable, 1, r, t, g)
  BY <1>0, <1>1, TotalsFunction
<1>5. g = [m \in 0 .. t |-> IF m = 0 THEN 1 ELSE step(g[m - 1], m)]
  <2>1. g \in [0 .. t -> Byte] /\ g[0] = 1
    BY <1>4 DEF Fills
  <2>2. \A m \in 1 .. t : g[m - 1] \in Byte /\ g[m] = MulTable[g[m - 1]][r[m]]
    BY <1>0, <1>4 DEF Fills
  <2>3. \A m \in 1 .. t : g[m] = step(g[m - 1], m)
    BY <1>2, <2>2
  <2> QED
    BY <1>0, <2>1, <2>3
<1>6. acc = [m \in 0 .. t |-> IF m = 0 THEN 1 ELSE step(acc[m - 1], m)]
  BY <1>5
<1> HIDE DEF acc
<1>7. acc[0] = 1 /\ \A m \in 1 .. t : acc[m] = step(acc[m - 1], m)
  BY <1>0, <1>6
<1>8. Looped(Byte, MulTable, 1, r, t, acc)
  BY <1>2, <1>7 DEF Looped
<1>9. acc[t] = Total(MulTable, 1, r, t)
  <2> DEFINE e == 1
  <2>1. e \in Byte /\ Looped(Byte, MulTable, e, r, t, acc)
    BY <1>0, <1>8
  <2> HIDE DEF e
  <2>2. acc[t] = Total(MulTable, e, r, t)
    BY <1>0, <1>1, <2>1, LoopTotal
  <2> QED
    BY <2>2 DEF e
<1> QED
  BY <1>3, <1>9 DEF r, t, Above

LEMMA ByteDenominator ==
  ASSUME NEW n \in Nat, NEW xs \in [1 .. n -> Byte], NEW j \in 1 .. n
  PROVE  S!Denominator(xs, j) = Below(XorTable, MulTable, xs, 1 .. n, j, n)
<1> DEFINE t == n
           r == Factors(1 .. n, j, Diffs(XorTable, xs, j, n), n)
           step(v, m) == IF m = j THEN v ELSE MulOf(v, XorOf(xs[m], xs[j]))
           acc == CHOOSE g : g = [m \in 0 .. t |-> IF m = 0 THEN 1 ELSE step(g[m - 1], m)]
<1>0. 1 \in Byte /\ MulTable \in [Byte -> [Byte -> Byte]] /\ t \in Nat /\ \A m \in 1 .. n : xs[m] \in Byte
  BY ByteFieldAssumption, FieldTypes
<1>1. r \in [1 .. t -> Byte]
  <2>1. Diffs(XorTable, xs, j, n) \in [1 .. n -> Byte]
    BY ByteFieldAssumption, WeightTypes
  <2> QED
    BY <1>0, <2>1 DEF Factors
<1>2. ASSUME NEW v \in Byte, NEW m \in 1 .. t PROVE step(v, m) = MulTable[v][r[m]]
  <2>1. CASE m # j
    <3>1. XorOf(xs[m], xs[j]) = XorTable[xs[m]][xs[j]] /\ XorTable[xs[m]][xs[j]] \in Byte
      BY <1>0, ByteFieldAssumption, FieldTypes, ByteEntries
    <3>2. r[m] = XorTable[xs[m]][xs[j]]
      BY <2>1 DEF Factors, Diffs
    <3>3. \A d \in Byte : MulOf(v, d) = MulTable[v][d]
      BY ByteEntries
    <3> QED
      BY <2>1, <3>1, <3>2, <3>3
  <2>2. CASE m = j
    BY <2>2, <1>0, ByteFieldAssumption, Units DEF Factors
  <2> QED
    BY <2>1, <2>2
<1>3. S!Denominator(xs, j) = acc[t]
  <2>1. Len(xs) = n
    BY SeqLength
  <2> QED
    BY <2>1 DEF S!Denominator, S!Loop
<1> HIDE DEF step, r, t
<1>4. PICK g : Fills(Byte, MulTable, 1, r, t, g)
  BY <1>0, <1>1, TotalsFunction
<1>5. g = [m \in 0 .. t |-> IF m = 0 THEN 1 ELSE step(g[m - 1], m)]
  <2>1. g \in [0 .. t -> Byte] /\ g[0] = 1
    BY <1>4 DEF Fills
  <2>2. \A m \in 1 .. t : g[m - 1] \in Byte /\ g[m] = MulTable[g[m - 1]][r[m]]
    BY <1>0, <1>4 DEF Fills
  <2>3. \A m \in 1 .. t : g[m] = step(g[m - 1], m)
    BY <1>2, <2>2
  <2> QED
    BY <1>0, <2>1, <2>3
<1>6. acc = [m \in 0 .. t |-> IF m = 0 THEN 1 ELSE step(acc[m - 1], m)]
  BY <1>5
<1> HIDE DEF acc
<1>7. acc[0] = 1 /\ \A m \in 1 .. t : acc[m] = step(acc[m - 1], m)
  BY <1>0, <1>6
<1>8. Looped(Byte, MulTable, 1, r, t, acc)
  BY <1>2, <1>7 DEF Looped
<1>9. acc[t] = Total(MulTable, 1, r, t)
  <2> DEFINE e == 1
  <2>1. e \in Byte /\ Looped(Byte, MulTable, e, r, t, acc)
    BY <1>0, <1>8
  <2> HIDE DEF e
  <2>2. acc[t] = Total(MulTable, e, r, t)
    BY <1>0, <1>1, <2>1, LoopTotal
  <2> QED
    BY <2>2 DEF e
<1> QED
  BY <1>3, <1>9 DEF r, t, Below

LEMMA ByteAtZero ==
  ASSUME NEW n \in Nat, NEW xs \in [1 .. n -> Byte], NEW j \in 1 .. n
  PROVE  S!AtZero(xs, j) = Weights(XorTable, MulTable, InvTable, xs, 1 .. n, n)[j]
<1>1. Above(MulTable, xs, 1 .. n, j, n) \in Byte /\ Below(XorTable, MulTable, xs, 1 .. n, j, n) \in Byte
  BY ByteFieldAssumption, WeightTypes
<1>2. \A b \in Byte : InvOf(b) = InvTable[b] /\ InvTable[b] \in Byte
  BY ByteFieldAssumption, FieldTypes, ByteEntries
<1>3. \A a, b \in Byte : MulOf(a, b) = MulTable[a][b]
  BY ByteEntries
<1>4. S!AtZero(xs, j)
        = MulTable[Above(MulTable, xs, 1 .. n, j, n)][InvTable[Below(XorTable, MulTable, xs, 1 .. n, j, n)]]
  BY <1>1, <1>2, <1>3, ByteNumerator, ByteDenominator DEF S!AtZero
<1> QED
  BY <1>4 DEF Weights

LEMMA ByteReconstruct ==
  ASSUME NEW n \in Nat, NEW xs \in [1 .. n -> Byte], NEW ys \in [1 .. n -> Byte]
  PROVE  S!Reconstruct(Shared(xs, ys, n))
           = Interpolate(XorTable, XorTable, MulTable, InvTable, xs, 1 .. n, ys, n)
<1> DEFINE t == n
           Wt == Weights(XorTable, MulTable, InvTable, xs, 1 .. n, n)
           r == Weighted(MulTable, Wt, ys, n)
           sh == [i \in 1 .. n |-> [x |-> xs[i], y |-> ys[i]]]
           step(v, m) == XorOf(v, MulOf(ys[m], S!AtZero(xs, m)))
           acc == CHOOSE g : g = [m \in 0 .. t |-> IF m = 0 THEN 0 ELSE step(g[m - 1], m)]
<1>0. 0 \in Byte /\ XorTable \in [Byte -> [Byte -> Byte]] /\ t \in Nat
  BY ByteFieldAssumption, FieldTypes
<1>a. Wt \in [1 .. n -> Byte] /\ r \in [1 .. n -> Byte]
  BY ByteFieldAssumption, WeightedType
<1>1. r \in [1 .. t -> Byte]
  BY <1>a
<1>2. ASSUME NEW v \in Byte, NEW m \in 1 .. t PROVE step(v, m) = XorTable[v][r[m]]
  <2>1. S!AtZero(xs, m) = Wt[m] /\ Wt[m] \in Byte /\ ys[m] \in Byte
    BY <1>a, ByteAtZero
  <2>2. r[m] = MulTable[Wt[m]][ys[m]]
    BY DEF Weighted
  <2> HIDE DEF Wt, r
  <2>3. MulOf(ys[m], Wt[m]) = MulTable[ys[m]][Wt[m]]
    BY <2>1, ByteEntries
  <2>4. MulTable[ys[m]][Wt[m]] = MulTable[Wt[m]][ys[m]]
    BY <2>1, ByteFieldAssumption, Commutes
  <2>5. r[m] \in Byte
    BY <1>1
  <2> QED
    BY <2>1, <2>2, <2>3, <2>4, <2>5, ByteEntries
<1>d. Shared(xs, ys, n) = sh
  BY DEF Shared
<1>3. S!Reconstruct(sh) = acc[t]
  <2>1. Len(sh) = n /\ DOMAIN sh = 1 .. n
    <3>1. sh \in [1 .. n -> [x : Byte, y : Byte]]
      OBVIOUS
    <3> HIDE DEF sh
    <3> QED
      BY <3>1, SeqLength
  <2>2. [i \in DOMAIN sh |-> sh[i].x] = xs
    BY <2>1
  <2>3. \A m \in 1 .. n : sh[m].y = ys[m]
    OBVIOUS
  <2> DEFINE body(g) == [m \in 0 .. n |-> IF m = 0 THEN 0
                           ELSE XorOf(g[m - 1], MulOf(sh[m].y, S!AtZero([i \in DOMAIN sh |-> sh[i].x], m)))]
  <2>4. S!Reconstruct(sh) = (CHOOSE g : g = body(g))[n]
    BY <2>1 DEF S!Reconstruct, S!Loop
  <2>5. \A g : body(g) = [m \in 0 .. n |-> IF m = 0 THEN 0 ELSE step(g[m - 1], m)]
    BY <2>2, <2>3
  <2>6. (CHOOSE g : g = body(g)) = acc
    <3> HIDE DEF body, step
    <3> QED
      BY <2>5
  <2> QED
    BY <2>4, <2>6
<1> HIDE DEF step, r, t
<1>4. PICK g : Fills(Byte, XorTable, 0, r, t, g)
  BY <1>0, <1>1, TotalsFunction
<1>5. g = [m \in 0 .. t |-> IF m = 0 THEN 0 ELSE step(g[m - 1], m)]
  <2>1. g \in [0 .. t -> Byte] /\ g[0] = 0
    BY <1>4 DEF Fills
  <2>2. \A m \in 1 .. t : g[m - 1] \in Byte /\ g[m] = XorTable[g[m - 1]][r[m]]
    BY <1>0, <1>4 DEF Fills
  <2>3. \A m \in 1 .. t : g[m] = step(g[m - 1], m)
    BY <1>2, <2>2
  <2> QED
    BY <1>0, <2>1, <2>3
<1>6. acc = [m \in 0 .. t |-> IF m = 0 THEN 0 ELSE step(acc[m - 1], m)]
  BY <1>5
<1> HIDE DEF acc
<1>7. acc[0] = 0 /\ \A m \in 1 .. t : acc[m] = step(acc[m - 1], m)
  BY <1>0, <1>6
<1>8. Looped(Byte, XorTable, 0, r, t, acc)
  BY <1>2, <1>7 DEF Looped
<1>9. acc[t] = Total(XorTable, 0, r, t)
  <2> DEFINE e == 0
  <2>1. e \in Byte /\ Looped(Byte, XorTable, e, r, t, acc)
    BY <1>0, <1>8
  <2> HIDE DEF e
  <2>2. acc[t] = Total(XorTable, e, r, t)
    BY <1>0, <1>1, <2>1, LoopTotal
  <2> QED
    BY <2>2 DEF e
<1> QED
  BY <1>3, <1>9, <1>d DEF r, t, Wt, Interpolate

LEMMA ByteEval ==
  ASSUME NEW t \in Nat, NEW coeffs \in [1 .. t -> Byte], NEW x \in Byte
  PROVE  \E a : Rounds(Byte, XorTable, MulTable, x, Downward(coeffs, t), t, a) /\ a[t] = S!Eval(coeffs, x)
<1> DEFINE r == [k \in 1 .. t |-> coeffs[t + 1 - k]]
           op == [v \in Byte |-> [u \in Byte |-> XorTable[MulTable[v][x]][u]]]
           step(v, m) == XorOf(MulOf(v, x), coeffs[t + 1 - m])
           acc == CHOOSE g : g = [m \in 0 .. t |-> IF m = 0 THEN 0 ELSE step(g[m - 1], m)]
<1>a. /\ 0 \in Byte /\ t \in Nat
      /\ \A u, v \in Byte : XorTable[u][v] \in Byte
      /\ \A u, v \in Byte : MulTable[u][v] \in Byte
  BY ByteFieldAssumption, FieldTypes
<1>b. op \in [Byte -> [Byte -> Byte]] /\ \A u, v \in Byte : op[v][u] = XorTable[MulTable[v][x]][u]
  BY <1>a
<1>0. 0 \in Byte /\ op \in [Byte -> [Byte -> Byte]] /\ t \in Nat
  BY <1>a, <1>b
<1>1. r \in [1 .. t -> Byte]
  BY <1>0
<1>2. ASSUME NEW v \in Byte, NEW m \in 1 .. t PROVE step(v, m) = op[v][r[m]]
  <2>1. MulOf(v, x) = MulTable[v][x] /\ MulTable[v][x] \in Byte
    BY <1>a, ByteEntries
  <2>2. r[m] = coeffs[t + 1 - m] /\ r[m] \in Byte
    BY <1>1
  <2>3. XorOf(MulTable[v][x], r[m]) = XorTable[MulTable[v][x]][r[m]]
    BY <2>1, <2>2, ByteEntries
  <2> HIDE DEF op, r
  <2> QED
    BY <1>b, <2>1, <2>2, <2>3
<1>3. S!Eval(coeffs, x) = acc[t]
  <2>1. Len(coeffs) = t
    BY SeqLength
  <2> QED
    BY <2>1 DEF S!Eval, S!Loop
<1>c. \A k \in 1 .. t : r[k] = Downward(coeffs, t)[k]
  BY DEF Downward
<1> HIDE DEF op
<1> HIDE DEF step, r
<1>4. PICK g : Fills(Byte, op, 0, r, t, g)
  BY <1>0, <1>1, TotalsFunction
<1>5. g = [m \in 0 .. t |-> IF m = 0 THEN 0 ELSE step(g[m - 1], m)]
  <2>1. g \in [0 .. t -> Byte] /\ g[0] = 0
    BY <1>4 DEF Fills
  <2>2. \A m \in 1 .. t : g[m - 1] \in Byte /\ g[m] = op[g[m - 1]][r[m]]
    BY <1>0, <1>4 DEF Fills
  <2>3. \A m \in 1 .. t : g[m] = step(g[m - 1], m)
    BY <1>2, <2>2
  <2> QED
    BY <1>0, <2>1, <2>3
<1>6. acc = [m \in 0 .. t |-> IF m = 0 THEN 0 ELSE step(acc[m - 1], m)]
  BY <1>5
<1> HIDE DEF acc
<1>7. acc[0] = 0 /\ \A m \in 1 .. t : acc[m] = step(acc[m - 1], m)
  BY <1>0, <1>6
<1>8. Looped(Byte, op, 0, r, t, acc)
  BY <1>2, <1>7 DEF Looped
<1>9. acc[t] = Total(op, 0, r, t)
  <2> DEFINE e == 0
  <2>1. e \in Byte /\ Looped(Byte, op, e, r, t, acc)
    BY <1>0, <1>8
  <2> HIDE DEF e
  <2>2. acc[t] = Total(op, e, r, t)
    BY <1>0, <1>1, <2>1, LoopTotal
  <2> QED
    BY <2>2 DEF e
<1>10. acc \in [0 .. t -> Byte]
  <2>1. \A m \in 0 .. t : acc[m] \in Byte
    BY <1>0, <1>1, <1>8, LoopTotal
  <2>2. acc = [m \in 0 .. t |-> acc[m]]
    BY <1>6
  <2> QED
    BY <2>1, <2>2
<1>11. \A k \in 1 .. t : acc[k] = XorTable[MulTable[acc[k - 1]][x]][Downward(coeffs, t)[k]]
  <2> SUFFICES ASSUME NEW k \in 1 .. t
               PROVE  acc[k] = XorTable[MulTable[acc[k - 1]][x]][Downward(coeffs, t)[k]]
    OBVIOUS
  <2>1. k - 1 \in 0 .. t /\ acc[k - 1] \in Byte /\ r[k] \in Byte
    BY <1>1, <1>10
  <2>2. acc[k] = op[acc[k - 1]][r[k]]
    BY <1>2, <1>7, <2>1
  <2> QED
    BY <1>b, <1>c, <2>1, <2>2
<1> QED
  BY <1>3, <1>7, <1>10, <1>11 DEF Rounds

(* Threshold-many shares, or more, give the constant term. *)
LEMMA ByteRecovers ==
  ASSUME NEW t \in Nat \ {0}, NEW coeffs \in [1 .. t -> Byte], NEW n \in Nat, n >= t,
         NEW xs \in [1 .. n -> Byte], Apart(xs, 1 .. n), NEW ys,
         ys = [i \in 1 .. n |-> S!Eval(coeffs, xs[i])]
  PROVE  /\ ys \in [1 .. n -> Byte]
         /\ S!Reconstruct(Shared(xs, ys, n)) = coeffs[1]
<1> DEFINE c == Downward(coeffs, t)
<1>1. Evaluated(Byte, XorTable, MulTable, xs, c, t, ys, n)
  <2>1. \A m \in 1 .. n : \E a : Rounds(Byte, XorTable, MulTable, xs[m], c, t, a) /\ a[t] = ys[m]
    BY ByteEval
  <2> QED
    BY <2>1 DEF Evaluated
<1>2. c \in [0 .. t -> Byte] /\ c[0] = 0 /\ c[t] = coeffs[1]
  <2>1. 0 \in Byte
    BY ByteFieldAssumption, FieldTypes
  <2> QED
    BY <2>1 DEF Downward
<1> HIDE DEF c
<1>a. PICK H : EndsIn(Byte, XorTable, MulTable, xs, c, t, ys, H, n)
  BY <1>1, <1>2, ByteFieldAssumption, HornerRounds
<1>3. Horner(Byte, XorTable, MulTable, xs, c, t, H, n) /\ \A m \in 1 .. n : H[t][m] = ys[m]
  BY <1>a DEF EndsIn
<1>4. t \in 0 .. t /\ 1 .. n \in SUBSET (1 .. n) /\ Cardinality(1 .. n) = n
  BY FS_Interval
<1>5. H[t] \in [1 .. n -> Byte]
  BY <1>3, <1>4 DEF Horner
<1>6. H[t] = ys
  BY <1>3, <1>5
<1>7. Interpolate(XorTable, XorTable, MulTable, InvTable, xs, 1 .. n, H[t], n) = c[t]
  <2> DEFINE K == 1 .. n
  <2>1. Cardinality(K) >= t /\ K \in SUBSET (1 .. n) /\ Apart(xs, K)
    BY <1>4
  <2> HIDE DEF K
  <2>2. Interpolate(XorTable, XorTable, MulTable, InvTable, xs, K, H[t], n) = c[t]
    BY <1>3, <1>4, <2>1, ByteFieldAssumption, Interpolates
  <2> QED
    BY <2>2 DEF K
<1>8. ys \in [1 .. n -> Byte]
  BY <1>5, <1>6
<1> QED
  BY <1>2, <1>6, <1>7, <1>8, ByteReconstruct

-------------------------------------------------------------------------------
(* lagrange_coefficient: the weights of interpolation over a signing set.  *)
LEMMA ProductIs ==
  ASSUME NEW f \in [1 .. Parties -> Scalars], NEW M
  PROVE  ProductQ(f, M) = Total(TimesTable, 1, Given(f, M, 1, Parties), Parties)
<1> DEFINE n == Parties
           r == Given(f, M, 1, n)
           step(v, m) == IF m \in M THEN MulQ(v, f[m]) ELSE v
           acc == CHOOSE g : g = [m \in 0 .. n |-> IF m = 0 THEN 1 ELSE step(g[m - 1], m)]
<1>0. 1 \in Scalars /\ TimesTable \in [Scalars -> [Scalars -> Scalars]] /\ n \in Nat
  BY ScalarField, FieldTypes, QFacts, FrostAssumption
<1>1. r \in [1 .. n -> Scalars]
  BY <1>0 DEF Given
<1>2. ASSUME NEW v \in Scalars, NEW m \in 1 .. n PROVE step(v, m) = TimesTable[v][r[m]]
  <2>1. CASE m \in M
    BY <2>1, TableEntries DEF Given
  <2>2. CASE m \notin M
    BY <2>2, <1>0, ScalarField, Units DEF Given
  <2> QED
    BY <2>1, <2>2
<1>3. ProductQ(f, M) = acc[n]
  BY DEF ProductQ, F!Loop
<1> HIDE DEF step, r, n
<1>4. PICK g : Fills(Scalars, TimesTable, 1, r, n, g)
  BY <1>0, <1>1, TotalsFunction
<1>5. g = [m \in 0 .. n |-> IF m = 0 THEN 1 ELSE step(g[m - 1], m)]
  <2>1. g \in [0 .. n -> Scalars] /\ g[0] = 1
    BY <1>4 DEF Fills
  <2>2. \A m \in 1 .. n : g[m - 1] \in Scalars /\ g[m] = TimesTable[g[m - 1]][r[m]]
    BY <1>0, <1>4 DEF Fills
  <2>3. \A m \in 1 .. n : g[m] = step(g[m - 1], m)
    BY <1>2, <2>2
  <2> QED
    BY <1>0, <2>1, <2>3
<1>6. acc = [m \in 0 .. n |-> IF m = 0 THEN 1 ELSE step(acc[m - 1], m)]
  BY <1>5
<1> HIDE DEF acc
<1>7. acc[0] = 1 /\ \A m \in 1 .. n : acc[m] = step(acc[m - 1], m)
  BY <1>0, <1>6
<1>8. Looped(Scalars, TimesTable, 1, r, n, acc)
  BY <1>2, <1>7 DEF Looped
<1>9. acc[n] = Total(TimesTable, 1, r, n)
  <2> DEFINE e == 1
  <2>1. e \in Scalars /\ Looped(Scalars, TimesTable, e, r, n, acc)
    BY <1>0, <1>8
  <2> HIDE DEF e
  <2>2. acc[n] = Total(TimesTable, e, r, n)
    BY <1>0, <1>1, <2>1, LoopTotal
  <2> QED
    BY <2>2 DEF e
<1> QED
  BY <1>3, <1>9 DEF r, n

Positions == [m \in 1 .. Parties |-> m]
Lambdas(K) == Weights(SubTable, TimesTable, InverseTable, Positions, K, Parties)

LEMMA PositionFacts ==
  /\ Parties \in Nat /\ Positions \in [1 .. Parties -> Scalars]
  /\ \A m \in 1 .. Parties : Positions[m] = m /\ m # 0 /\ m \in Scalars
  /\ \A K \in SUBSET (1 .. Parties) : Apart(Positions, K)
<1>1. Parties \in Nat /\ Parties < Q /\ Q \in Nat
  BY FrostAssumption
<1>2. \A m \in 1 .. Parties : Positions[m] = m /\ m # 0 /\ m \in Scalars
  BY <1>1 DEF Positions, Scalars
<1>3. Positions \in [1 .. Parties -> Scalars]
  BY <1>2 DEF Positions
<1> QED
  BY <1>1, <1>2, <1>3 DEF Apart

LEMMA LagrangeIs ==
  ASSUME NEW K \in SUBSET Party, NEW j \in K
  PROVE  LagrangeCoefficient(K, j) = Lambdas(K)[j] /\ LagrangeCoefficient(K, j) \in Scalars
<1> DEFINE n == Parties
           D == Diffs(SubTable, Positions, j, n)
           A == Above(TimesTable, Positions, K, j, n)
           Bl == Below(SubTable, TimesTable, Positions, K, j, n)
<1>0. n \in Nat /\ Positions \in [1 .. n -> Scalars] /\ j \in 1 .. n
  BY PositionFacts DEF Party
<1>1. D \in [1 .. n -> Scalars] /\ A \in Scalars /\ Bl \in Scalars /\ Lambdas(K) \in [1 .. n -> Scalars]
  BY <1>0, ScalarField, WeightTypes DEF Lambdas
<1>2. [m \in Party |-> m] = Positions
  BY DEF Party, Positions
<1>3. [m \in Party |-> SubQ(m, j)] = D
  <2>1. \A m \in 1 .. n : D[m] = SubQ(m, j)
    <3> SUFFICES ASSUME NEW m \in 1 .. n PROVE D[m] = SubQ(m, j)
      OBVIOUS
    <3>1. D[m] = SubTable[m][j]
      BY <1>0, PositionFacts DEF Diffs
    <3> QED
      BY <1>0, <3>1, PositionFacts, TableEntries
  <2> QED
    BY <1>1, <2>1 DEF Party
<1>4. Given(Positions, K \ {j}, 1, n) = Factors(K, j, Positions, n)
  BY DEF Given, Factors
<1>5. Given(D, K \ {j}, 1, n) = Factors(K, j, D, n)
  BY DEF Given, Factors
<1>6. ProductQ(Positions, K \ {j}) = A
  BY <1>0, <1>4, ProductIs DEF Above
<1>7. ProductQ(D, K \ {j}) = Bl
  <2> HIDE DEF D
  <2>1. ProductQ(D, K \ {j}) = Total(TimesTable, 1, Factors(K, j, D, n), n)
    BY <1>1, <1>5, ProductIs
  <2> QED
    BY <2>1 DEF Below, D
<1>8. LagrangeCoefficient(K, j) = MulQ(A, InvQ(Bl))
  BY <1>2, <1>3, <1>6, <1>7 DEF LagrangeCoefficient
<1>9. Lambdas(K)[j] = TimesTable[A][InverseTable[Bl]]
  BY <1>0 DEF Lambdas, Weights
<1> HIDE DEF A, Bl
<1>10. InvQ(Bl) = InverseTable[Bl] /\ InverseTable[Bl] \in Scalars
  BY <1>1, ScalarInverse, TableEntries
<1>11. MulQ(A, InverseTable[Bl]) = TimesTable[A][InverseTable[Bl]]
  BY <1>1, <1>10, TableEntries
<1> QED
  BY <1>0, <1>1, <1>8, <1>9, <1>10, <1>11

-------------------------------------------------------------------------------
(* keygen: the shares are points of a polynomial none of whose             *)
(* coefficients is zero, and the secret is its constant term.              *)
Dealt ==
  \E c \in [1 .. Threshold -> 1 .. Q - 1] :
    secret = c[1] /\ share = [p \in Party |-> F!Eval(c, p)]
Combined(K) ==
  Interpolate(AddTable, SubTable, TimesTable, InverseTable, Positions, K, share, Parties)

LEMMA ThresholdFacts ==
  Threshold \in Nat \ {0} /\ Threshold \in 1 .. Parties /\ Threshold <= Parties /\ Party = 1 .. Parties
BY FrostAssumption DEF Party

LEMMA DealtGives ==
  ASSUME Dealt
  PROVE  /\ share \in [1 .. Parties -> Scalars] /\ secret \in Scalars /\ secret # 0
         /\ \A K \in SUBSET (1 .. Parties) : Cardinality(K) >= Threshold => Combined(K) = secret
         /\ \A K \in SUBSET (1 .. Parties) : Cardinality(K) = Threshold - 1 => Combined(K) # secret
<1>0. Threshold \in Nat \ {0} /\ Party = 1 .. Parties /\ Threshold \in 0 .. Threshold /\ Threshold \in 1 .. Threshold
  BY ThresholdFacts
<1> DEFINE t == Threshold
           n == Parties
<1>1. PICK coeffs \in [1 .. t -> 1 .. Q - 1] :
        secret = coeffs[1] /\ share = [p \in Party |-> F!Eval(coeffs, p)]
  BY DEF Dealt
<1>2. coeffs \in [1 .. t -> Scalars] /\ \A k \in 1 .. t : coeffs[k] # 0
  BY <1>1, QFacts DEF Scalars
<1> DEFINE c == Downward(coeffs, t)
<1>3. c \in [0 .. t -> Scalars] /\ c[0] = 0 /\ c[t] = secret /\ c[1] # 0 /\ 0 \in Scalars
  <2>1. 0 \in Scalars
    BY QFacts
  <2>2. c \in [0 .. t -> Scalars] /\ c[0] = 0
    BY <1>0, <1>2, <2>1 DEF Downward
  <2>3. c[t] = coeffs[t + 1 - t] /\ t + 1 - t = 1
    BY <1>0 DEF Downward
  <2>4. c[1] = coeffs[t + 1 - 1] /\ t + 1 - 1 \in 1 .. t
    BY <1>0 DEF Downward
  <2> QED
    BY <1>1, <1>2, <2>1, <2>2, <2>3, <2>4
<1> DEFINE ys == [p \in 1 .. n |-> F!Eval(coeffs, p)]
<1>4. share = ys
  BY <1>0, <1>1
<1>5. Evaluated(Scalars, AddTable, TimesTable, Positions, c, t, ys, n)
  <2>1. \A m \in 1 .. n : \E a : Rounds(Scalars, AddTable, TimesTable, m, c, t, a) /\ a[t] = ys[m]
    <3> SUFFICES ASSUME NEW m \in 1 .. n
                 PROVE  \E a : Rounds(Scalars, AddTable, TimesTable, m, c, t, a) /\ a[t] = ys[m]
      OBVIOUS
    <3>1. m \in Scalars /\ ys[m] = F!Eval(coeffs, m) /\ t \in Nat
      BY <1>0, PositionFacts
    <3> HIDE DEF t, ys
    <3>2. \E a : Rounds(Scalars, AddTable, TimesTable, m, Downward(coeffs, t), t, a) /\ a[t] = F!Eval(coeffs, m)
      BY <1>2, <3>1, ScalarEval
    <3> QED
      BY <3>1, <3>2
  <2> QED
    BY <2>1, PositionFacts DEF Evaluated
<1> HIDE DEF c, ys
<1>6. PICK H : EndsIn(Scalars, AddTable, TimesTable, Positions, c, t, ys, H, n)
  BY <1>0, <1>3, <1>5, PositionFacts, ScalarField, HornerRounds
<1>7. Horner(Scalars, AddTable, TimesTable, Positions, c, t, H, n) /\ \A m \in 1 .. n : H[t][m] = ys[m]
  BY <1>6 DEF EndsIn
<1>8. H[t] = ys /\ H[t] \in [1 .. n -> Scalars]
  <2>1. H[t] \in [1 .. n -> Scalars]
    BY <1>0, <1>7 DEF Horner
  <2> QED
    BY <1>7, <2>1 DEF ys
<1>9. ASSUME NEW K \in SUBSET (1 .. n), Cardinality(K) >= t PROVE Combined(K) = secret
  <2>1. Apart(Positions, K)
    BY PositionFacts
  <2>2. Interpolate(AddTable, SubTable, TimesTable, InverseTable, Positions, K, H[t], n) = c[t]
    BY <1>0, <1>7, <1>9, <2>1, PositionFacts, ScalarField, Interpolates
  <2> QED
    BY <1>3, <1>4, <1>8, <2>2 DEF Combined
<1>10. ASSUME NEW K \in SUBSET (1 .. n), Cardinality(K) = t - 1 PROVE Combined(K) # secret
  <2>1. Apart(Positions, K) /\ \A m \in 1 .. n : Positions[m] # 0
    BY PositionFacts
  <2>2. Interpolate(AddTable, SubTable, TimesTable, InverseTable, Positions, K, H[t], n) # c[t]
    BY <1>0, <1>3, <1>7, <1>10, <2>1, PositionFacts, ScalarField, InterpolatesNot
  <2> QED
    BY <1>3, <1>4, <1>8, <2>2 DEF Combined
<1>11. secret \in Scalars /\ secret # 0
  BY <1>0, <1>1, <1>2
<1> QED
  BY <1>4, <1>8, <1>9, <1>10, <1>11

(* Shares of different parties, at least Threshold, give the secret. *)
LEMMA RecoveredSecret ==
  ASSUME Dealt, NEW n \in Nat, n >= Threshold, NEW indices \in [1 .. n -> Party],
         \A i, j \in 1 .. n : indices[i] = indices[j] => i = j
  PROVE  Recovered(indices) = secret
<1>0. Threshold \in Nat \ {0} /\ Party = 1 .. Parties
  BY ThresholdFacts
<1> DEFINE t == Threshold
<1>1. PICK coeffs \in [1 .. t -> 1 .. Q - 1] :
        secret = coeffs[1] /\ share = [p \in Party |-> F!Eval(coeffs, p)]
  BY DEF Dealt
<1>2. coeffs \in [1 .. t -> Scalars]
  BY <1>1, QFacts DEF Scalars
<1>3. indices \in [1 .. n -> Scalars] /\ Apart(indices, 1 .. n)
  BY <1>0, PositionFacts DEF Apart
<1> DEFINE ys == [i \in 1 .. n |-> F!Eval(coeffs, indices[i])]
<1>4. \A i \in 1 .. n : share[indices[i]] = ys[i]
  BY <1>1
<1>5. F!Reconstruct(Shared(indices, ys, n)) = coeffs[1]
  BY <1>0, <1>2, <1>3, ScalarRecovers
<1>6. [i \in DOMAIN indices |-> [x |-> indices[i], y |-> share[indices[i]]]]
        = Shared(indices, ys, n)
  BY <1>4 DEF Shared
<1> QED
  BY <1>1, <1>5, <1>6 DEF Recovered

(* Where two points meet, neither has a weight. *)
Vanishes(sub, mul, inv, x, K, j, n) == Weights(sub, mul, inv, x, K, n)[j] = 0
LEMMA WeightVanishes ==
  ASSUME NEW B, NEW add, NEW sub, NEW mul, NEW inv, Field(B, add, sub, mul, inv), NEW n \in Nat,
         NEW x \in [1 .. n -> B], NEW K, NEW j \in 1 .. n, j \in K,
         NEW m \in 1 .. n, m \in K, m # j, x[m] = x[j]
  PROVE  Vanishes(sub, mul, inv, x, K, j, n)
<1> DEFINE A == Above(mul, x, K, j, n)
           D == Below(sub, mul, x, K, j, n)
<1>1. A \in B /\ (D = 0 <=> \E k \in 1 .. n : k \in K /\ k # j /\ x[k] = x[j])
  BY WeightTypes
<1>2. D = 0
  BY <1>1
<1>3. Weights(sub, mul, inv, x, K, n)[j] = mul[A][inv[D]]
  BY DEF Weights
<1> HIDE DEF A, D
<1>4. inv[0] = 0 /\ mul[A][0] = 0
  BY <1>1, FieldTypes, FieldZero
<1> QED
  BY <1>2, <1>3, <1>4 DEF Vanishes

(* Shares none of which is given once only interpolate nothing. *)
LEMMA RecoveredNothing ==
  ASSUME Dealt, NEW n \in Nat, NEW indices \in [1 .. n -> Party],
         \A i \in 1 .. n : \E j \in 1 .. n : i # j /\ indices[i] = indices[j]
  PROVE  Recovered(indices) = 0
<1>0. Party = 1 .. Parties /\ share \in [1 .. Parties -> Scalars]
  BY ThresholdFacts, DealtGives
<1>1. indices \in [1 .. n -> Scalars]
  BY <1>0, PositionFacts
<1> DEFINE ys == [i \in 1 .. n |-> share[indices[i]]]
           Wt == Weights(SubTable, TimesTable, InverseTable, indices, 1 .. n, n)
           Wf == Weighted(TimesTable, Wt, ys, n)
<1>2. ys \in [1 .. n -> Scalars]
  BY <1>0
<1>3. \A m \in 1 .. n : ys[m] \in Scalars /\ Wf[m] = TimesTable[Wt[m]][ys[m]]
  BY <1>2 DEF Weighted
<1>4. ASSUME NEW j \in 1 .. n PROVE Wt[j] = 0
  <2>1. PICK m \in 1 .. n : m # j /\ indices[m] = indices[j]
    OBVIOUS
  <2>2. Vanishes(SubTable, TimesTable, InverseTable, indices, 1 .. n, j, n)
    <3> DEFINE K == 1 .. n
    <3>1. j \in K /\ m \in K
      OBVIOUS
    <3> HIDE DEF K
    <3>2. Vanishes(SubTable, TimesTable, InverseTable, indices, K, j, n)
      BY <1>1, <2>1, <3>1, ScalarField, WeightVanishes
    <3> QED
      BY <3>2 DEF K
  <2> QED
    BY <2>2 DEF Vanishes
<1> HIDE DEF ys
<1>5. Wf \in [1 .. n -> Scalars]
  BY <1>1, <1>2, ScalarField, WeightedType
<1> HIDE DEF Wt, Wf
<1>6. \A m \in 1 .. n : Wf[m] = 0
  <2>1. \A a \in Scalars : TimesTable[0][a] = 0
    BY ScalarField, FieldZero
  <2> QED
    BY <1>3, <1>4, <2>1
<1>7. Total(AddTable, 0, Wf, n) = 0
  <2>1. Monoid(Scalars, AddTable, 0)
    BY ScalarField, FieldMonoids
  <2> DEFINE e == 0
  <2>2. Monoid(Scalars, AddTable, e) /\ \A m \in 1 .. n : Wf[m] = e
    BY <1>6, <2>1
  <2> HIDE DEF e
  <2>3. Total(AddTable, e, Wf, n) = e
    BY <1>5, <2>2, TotalUnit
  <2> QED
    BY <2>3 DEF e
<1>8. F!Reconstruct(Shared(indices, ys, n)) = 0
  BY <1>1, <1>2, <1>7, ScalarReconstruct DEF Interpolate, Wt, Wf
<1>9. [i \in DOMAIN indices |-> [x |-> indices[i], y |-> share[indices[i]]]]
        = Shared(indices, ys, n)
  BY DEF ys, Shared
<1> QED
  BY <1>8, <1>9 DEF Recovered

LEMMA DealtSound == Dealt => ReconstructionSound
<1> SUFFICES ASSUME Dealt, NEW n \in 0 .. Parties, NEW indices \in [1 .. n -> Party]
             PROVE  /\ (\A i, j \in 1 .. n : indices[i] = indices[j] => i = j) /\ n >= Threshold
                         => SigningKey(indices) = secret
                    /\ n < Threshold \/ (\A i \in 1 .. n : \E j \in 1 .. n : i # j /\ indices[i] = indices[j])
                         => SigningKey(indices) = Refused
  BY DEF ReconstructionSound
<1>1. n \in Nat /\ Len(indices) = n /\ Threshold \in Nat
  BY SeqLength, ThresholdFacts, PositionFacts
<1>2. secret # 0
  BY DealtGives
<1>3. ASSUME \A i, j \in 1 .. n : indices[i] = indices[j] => i = j, n >= Threshold
      PROVE  SigningKey(indices) = secret
  <2>1. Recovered(indices) = secret
    BY <1>1, <1>3, RecoveredSecret
  <2> QED
    BY <1>1, <1>2, <1>3, <2>1 DEF SigningKey, EnoughShares
<1>4. ASSUME n < Threshold PROVE SigningKey(indices) = Refused
  BY <1>1, <1>4 DEF SigningKey, EnoughShares
<1>5. ASSUME \A i \in 1 .. n : \E j \in 1 .. n : i # j /\ indices[i] = indices[j]
      PROVE  SigningKey(indices) = Refused
  <2>1. Recovered(indices) = 0
    BY <1>1, <1>5, RecoveredNothing
  <2> QED
    BY <2>1 DEF SigningKey
<1> QED
  BY <1>3, <1>4, <1>5

-------------------------------------------------------------------------------
(* A signing session, as its coordinator holds it.                         *)
Partial(V) == UNION {[D -> V] : D \in SUBSET Party}
Hashes == {HashCommitment(k) : k \in Scalars}
SessionType ==
  [signers : SUBSET Party, message : Messages \cup {0}, commitments : Partial(Hashes),
   reveals : Partial(Scalars), partials : Partial(Scalars), used : Partial(Scalars),
   result : {"none", "valid", "invalid", "BadCommitment"}]

Puts(V, f, p, v, g) ==
  /\ g \in Partial(V) /\ DOMAIN g = DOMAIN f \cup {p}
  /\ g[p] = v /\ \A q \in DOMAIN f : q # p => g[q] = f[q]
LEMMA PutPartial ==
  ASSUME NEW V, NEW f \in Partial(V), NEW p \in Party, NEW v \in V
  PROVE  Puts(V, f, p, v, Put(f, p, v))
<1>1. PICK D \in SUBSET Party : f \in [D -> V]
  BY DEF Partial
<1>2. D \cup {p} \in SUBSET Party /\ DOMAIN f = D
  BY <1>1
<1>3. Put(f, p, v) \in [D \cup {p} -> V]
  BY <1>1, <1>2 DEF Put
<1>4. Put(f, p, v) \in Partial(V)
  BY <1>2, <1>3 DEF Partial
<1> QED
  BY <1>2, <1>4 DEF Put, Puts

LEMMA PartialFacts ==
  ASSUME NEW V, NEW f \in Partial(V)
  PROVE  /\ DOMAIN f \subseteq Party /\ \A p \in DOMAIN f : f[p] \in V
         /\ DOMAIN f = {} <=> f = <<>>
<1>1. PICK D \in SUBSET Party : f \in [D -> V]
  BY DEF Partial
<1>2. DOMAIN f = D /\ \A p \in DOMAIN f : f[p] \in V
  BY <1>1
<1>3. DOMAIN <<>> = {}
  OBVIOUS
<1>4. ASSUME D = {} PROVE f = <<>>
  <2>1. f = [p \in {} |-> f[p]]
    BY <1>1, <1>4
  <2>2. <<>> = [p \in {} |-> f[p]]
    OBVIOUS
  <2> QED
    BY <2>1, <2>2
<1> QED
  BY <1>2, <1>3, <1>4

LEMMA EmptyPartial == \A V : <<>> \in Partial(V) /\ DOMAIN <<>> = {}
<1>1. \A V : <<>> \in [{} -> V]
  OBVIOUS
<1> QED
  BY <1>1 DEF Partial

LEMMA IdleType == Idle \in SessionType
BY EmptyPartial DEF Idle, SessionType

(* What partial_sign answers, and what verify accepts, for the group       *)
(* secret x and the shares sh.                                             *)
ChallengeOf(v, x) == Challenge(AggregatedNonce(v), x, v.message)
PartialOf(v, p, x, sh) ==
  AddQ(v.used[p], MulQ(MulQ(ChallengeOf(v, x), LagrangeCoefficient(v.signers, p)), sh[p]))
Accepts(v, x) ==
  SumQ(v.partials, DOMAIN v.partials) = AddQ(AggregatedNonce(v), MulQ(x, ChallengeOf(v, x)))
Bound(v) == DOMAIN v.reveals = v.signers /\ VerifyCommitments(v)

Shaped(v) ==
  /\ v \in SessionType
  /\ DOMAIN v.commitments \subseteq v.signers /\ DOMAIN v.reveals \subseteq v.signers
  /\ DOMAIN v.partials \subseteq v.signers /\ DOMAIN v.used = DOMAIN v.partials
  /\ v.signers # {} => v.message \in Messages
  /\ DOMAIN v.reveals # {} => DOMAIN v.commitments = v.signers
  /\ DOMAIN v.partials # {} => Bound(v)
Signed(v, x, sh) == \A p \in DOMAIN v.partials : v.partials[p] = PartialOf(v, p, x, sh)
Ended(v, x) ==
  v.result \in {"valid", "invalid"} =>
    /\ v.signers # {} /\ DOMAIN v.partials = v.signers
    /\ v.result = "valid" <=> Accepts(v, x)
Proper(v, x, sh) == Shaped(v) /\ Signed(v, x, sh) /\ Ended(v, x)

LEMMA IdleProper == \A x, sh : Proper(Idle, x, sh)
<1>1. Shaped(Idle)
  BY IdleType, EmptyPartial DEF Idle, Shaped
<1>2. DOMAIN Idle.partials = {} /\ Idle.result = "none"
  BY EmptyPartial DEF Idle
<1> QED
  BY <1>1, <1>2 DEF Proper, Signed, Ended

LEMMA OpenProper ==
  ASSUME NEW K \in SUBSET Party, NEW m \in Messages, NEW x, NEW sh
  PROVE  Proper([Idle EXCEPT !.signers = K, !.message = m], x, sh)
<1> DEFINE w == [Idle EXCEPT !.signers = K, !.message = m]
<1>1. /\ w \in SessionType /\ w.signers = K /\ w.message = m /\ w.commitments = <<>> /\ w.reveals = <<>>
      /\ w.partials = <<>> /\ w.used = <<>> /\ w.result = "none"
  BY EmptyPartial DEF Idle, SessionType
<1> HIDE DEF w
<1>2. Shaped(w)
  BY <1>1, EmptyPartial DEF Shaped
<1>3. DOMAIN w.partials = {}
  BY <1>1, EmptyPartial
<1> QED
  BY <1>1, <1>2, <1>3 DEF Proper, Signed, Ended, w

LEMMA CommitProper ==
  ASSUME NEW v, NEW x, NEW sh, Proper(v, x, sh), NEW p \in v.signers \ DOMAIN v.commitments,
         NEW k \in Scalars
  PROVE  Proper([v EXCEPT !.commitments = Put(@, p, HashCommitment(k))], x, sh)
<1> DEFINE hk == HashCommitment(k)
           c == Put(v.commitments, p, hk)
           w == [v EXCEPT !.commitments = c]
<1>0. Shaped(v) /\ Ended(v, x)
  BY DEF Proper
<1>1. v \in SessionType /\ p \in Party /\ v.commitments \in Partial(Hashes) /\ hk \in Hashes
  BY <1>0 DEF Shaped, SessionType, Hashes
<1> HIDE DEF hk
<1>2. c \in Partial(Hashes) /\ DOMAIN c = DOMAIN v.commitments \cup {p}
  <2>1. Puts(Hashes, v.commitments, p, hk, c)
    BY <1>1, PutPartial
  <2> QED
    BY <2>1 DEF Puts
<1> HIDE DEF c
<1>3. /\ w \in SessionType /\ w.signers = v.signers /\ w.message = v.message /\ w.commitments = c
      /\ w.reveals = v.reveals /\ w.partials = v.partials /\ w.used = v.used /\ w.result = v.result
  BY <1>1, <1>2 DEF SessionType
<1> HIDE DEF w
<1>4. DOMAIN v.reveals = {} /\ DOMAIN v.partials = {}
  BY <1>0 DEF Shaped, Bound
<1>5. Shaped(w)
  BY <1>0, <1>2, <1>3, <1>4 DEF Shaped
<1>6. v.result \notin {"valid", "invalid"}
  BY <1>0, <1>4 DEF Ended
<1> QED
  BY <1>3, <1>4, <1>5, <1>6 DEF Proper, Signed, Ended, w, c, hk

LEMMA RevealProper ==
  ASSUME NEW v, NEW x, NEW sh, Proper(v, x, sh), DOMAIN v.commitments = v.signers,
         NEW p \in v.signers \ DOMAIN v.reveals, NEW k \in Scalars
  PROVE  Proper([v EXCEPT !.reveals = Put(@, p, k)], x, sh)
<1> DEFINE c == Put(v.reveals, p, k)
           w == [v EXCEPT !.reveals = c]
<1>0. Shaped(v) /\ Ended(v, x)
  BY DEF Proper
<1>1. v \in SessionType /\ p \in Party /\ v.reveals \in Partial(Scalars)
  BY <1>0 DEF Shaped, SessionType
<1>2. c \in Partial(Scalars) /\ DOMAIN c = DOMAIN v.reveals \cup {p}
  BY <1>1, PutPartial DEF Puts
<1> HIDE DEF c
<1>3. /\ w \in SessionType /\ w.signers = v.signers /\ w.message = v.message /\ w.commitments = v.commitments
      /\ w.reveals = c /\ w.partials = v.partials /\ w.used = v.used /\ w.result = v.result
  BY <1>1, <1>2 DEF SessionType
<1> HIDE DEF w
<1>4. DOMAIN v.partials = {}
  BY <1>0 DEF Shaped, Bound
<1>5. Shaped(w)
  BY <1>0, <1>2, <1>3, <1>4 DEF Shaped
<1>6. v.result \notin {"valid", "invalid"}
  BY <1>0, <1>4 DEF Ended
<1> QED
  BY <1>3, <1>4, <1>5, <1>6 DEF Proper, Signed, Ended, w, c

LEMMA PartialProper ==
  ASSUME NEW v, NEW x \in Scalars, NEW sh \in [1 .. Parties -> Scalars], Proper(v, x, sh), Bound(v),
         NEW p \in v.signers \ DOMAIN v.partials, NEW k \in Scalars, v.result = "none"
  PROVE  Proper([v EXCEPT
                  !.partials = Put(@, p, AddQ(k, MulQ(MulQ(ChallengeOf(v, x),
                                          LagrangeCoefficient(v.signers, p)), sh[p]))),
                  !.used = Put(@, p, k)], x, sh)
<1> DEFINE y == AddQ(k, MulQ(MulQ(ChallengeOf(v, x), LagrangeCoefficient(v.signers, p)), sh[p]))
           c == Put(v.partials, p, y)
           d == Put(v.used, p, k)
           w == [v EXCEPT !.partials = c, !.used = d]
<1>0. Shaped(v) /\ Signed(v, x, sh)
  BY DEF Proper
<1>1. /\ v \in SessionType /\ p \in Party /\ v.reveals \in Partial(Scalars)
      /\ v.partials \in Partial(Scalars) /\ v.used \in Partial(Scalars)
      /\ v.signers \in SUBSET Party /\ v.message \in Messages
  BY <1>0 DEF Shaped, SessionType
<1>2. y \in Scalars
  <2>1. AggregatedNonce(v) \in Scalars
    BY <1>1, PartialFacts, SumIs DEF AggregatedNonce
  <2>2. ChallengeOf(v, x) \in Scalars
    BY <1>1, <2>1, FrostAssumption DEF ChallengeOf, Scalars
  <2>3. LagrangeCoefficient(v.signers, p) \in Scalars
    BY <1>1, LagrangeIs
  <2>4. sh[p] \in Scalars
    BY <1>1, ThresholdFacts
  <2>5. \A a, b \in Scalars : MulQ(a, b) \in Scalars /\ AddQ(a, b) \in Scalars
    BY TableEntries
  <2> QED
    BY <2>2, <2>3, <2>4, <2>5
<1> HIDE DEF y
<1>3. /\ c \in Partial(Scalars) /\ DOMAIN c = DOMAIN v.partials \cup {p} /\ c[p] = y
      /\ \A q \in DOMAIN v.partials : q # p => c[q] = v.partials[q]
  <2>1. Puts(Scalars, v.partials, p, y, c)
    BY <1>1, <1>2, PutPartial
  <2> QED
    BY <2>1 DEF Puts
<1>4. /\ d \in Partial(Scalars) /\ DOMAIN d = DOMAIN v.used \cup {p} /\ d[p] = k
      /\ \A q \in DOMAIN v.used : q # p => d[q] = v.used[q]
  <2>1. Puts(Scalars, v.used, p, k, d)
    BY <1>1, PutPartial
  <2> QED
    BY <2>1 DEF Puts
<1> HIDE DEF c, d
<1>5. /\ w \in SessionType /\ w.signers = v.signers /\ w.message = v.message /\ w.commitments = v.commitments
      /\ w.reveals = v.reveals /\ w.partials = c /\ w.used = d /\ w.result = v.result
  BY <1>1, <1>3, <1>4 DEF SessionType
<1> HIDE DEF w
<1>6. Bound(w)
  BY <1>5 DEF Bound, VerifyCommitments
<1>7. Shaped(w)
  BY <1>0, <1>3, <1>4, <1>5, <1>6 DEF Shaped
<1>8. ChallengeOf(w, x) = ChallengeOf(v, x)
  BY <1>5 DEF ChallengeOf, AggregatedNonce
<1>9. ASSUME NEW q \in DOMAIN w.partials PROVE w.partials[q] = PartialOf(w, q, x, sh)
  <2>1. CASE q = p
    BY <1>3, <1>4, <1>5, <1>8, <2>1 DEF PartialOf, y
  <2>2. CASE q # p
    <3>1. q \in DOMAIN v.partials /\ q \in DOMAIN v.used
      BY <1>0, <1>3, <1>5, <2>2 DEF Shaped
    <3>2. c[q] = v.partials[q] /\ d[q] = v.used[q] /\ v.partials[q] = PartialOf(v, q, x, sh)
      BY <1>0, <1>3, <1>4, <2>2, <3>1 DEF Signed
    <3> QED
      BY <1>5, <1>8, <3>2 DEF PartialOf
  <2> QED
    BY <2>1, <2>2
<1>10. Signed(w, x, sh) /\ Ended(w, x)
  BY <1>5, <1>9 DEF Signed, Ended
<1> QED
  BY <1>7, <1>10 DEF Proper, w, c, d, y

LEMMA ResultProper ==
  ASSUME NEW v, NEW x, NEW sh, Proper(v, x, sh), NEW r,
         \/ r = "BadCommitment"
         \/ /\ r = (IF Accepts(v, x) THEN "valid" ELSE "invalid")
            /\ v.signers # {} /\ DOMAIN v.partials = v.signers
  PROVE  Proper([v EXCEPT !.result = r], x, sh)
<1> DEFINE w == [v EXCEPT !.result = r]
<1>0. Shaped(v) /\ Signed(v, x, sh) /\ v \in SessionType
  BY DEF Proper, Shaped
<1>1. /\ w \in SessionType /\ w.signers = v.signers /\ w.message = v.message /\ w.commitments = v.commitments
      /\ w.reveals = v.reveals /\ w.partials = v.partials /\ w.used = v.used /\ w.result = r
  BY <1>0 DEF SessionType
<1> HIDE DEF w
<1>2. Shaped(w)
  BY <1>0, <1>1 DEF Shaped, Bound, VerifyCommitments
<1>3. ChallengeOf(w, x) = ChallengeOf(v, x) /\ AggregatedNonce(w) = AggregatedNonce(v)
  BY <1>1 DEF ChallengeOf, AggregatedNonce
<1>4. Signed(w, x, sh)
  BY <1>0, <1>1, <1>3 DEF Signed, PartialOf
<1>5. Accepts(w, x) <=> Accepts(v, x)
  BY <1>1, <1>3 DEF Accepts
<1>6. Ended(w, x)
  BY <1>1, <1>5 DEF Ended
<1> QED
  BY <1>2, <1>4, <1>6 DEF Proper, w

-------------------------------------------------------------------------------
FrostInv ==
  /\ Dealt
  /\ nonce \in [Party -> {0} \cup Nonces]
  /\ DOMAIN sess = Sessions /\ sess = [s \in Sessions |-> sess[s]]
  /\ \A s \in Sessions : Proper(sess[s], secret, share)

LEMMA NonceScalars == \A k \in Nonces : k \in Scalars /\ k # 0
BY FrostAssumption DEF Scalars

(* The secret and the other coefficients, in one sequence. *)
LEMMA Prefixed ==
  ASSUME NEW B, NEW t \in Nat \ {0}, NEW x \in B, NEW tail \in [1 .. t - 1 -> B]
  PROVE  <<x>> \o tail \in [1 .. t -> B] /\ (<<x>> \o tail)[1] = x
<1> DEFINE u == t - 1
           c == <<x>> \o tail
<1>1. u \in Nat /\ tail \in [1 .. u -> B] /\ t = u + 1
  OBVIOUS
<1> HIDE DEF u
<1>2. tail \in Seq(B) /\ Len(tail) = u /\ <<x>> \in Seq(B) /\ Len(<<x>>) = 1 /\ <<x>>[1] = x
  BY <1>1, SeqLength
<1>3. c \in Seq(B) /\ Len(c) = u + 1 /\ c[1] = x
  BY <1>1, <1>2
<1> HIDE DEF c
<1>4. c \in [1 .. Len(c) -> B]
  BY <1>3
<1>5. <<x>> \o tail = c
  BY DEF c
<1> QED
  BY <1>1, <1>3, <1>4, <1>5

LEMMA InitFrost == FrostInit => FrostInv
<1> SUFFICES ASSUME FrostInit PROVE FrostInv
  OBVIOUS
<1>1. PICK x \in Secrets, tail \in [1 .. Threshold - 1 -> Coeffs] :
        /\ secret = x
        /\ share = [p \in Party |-> F!Split(<<x>> \o tail, Parties)[p].y]
        /\ nonce = [p \in Party |-> 0]
        /\ sess = [s \in Sessions |-> Idle]
  BY DEF FrostInit
<1>0. Threshold \in Nat \ {0} /\ Party = 1 .. Parties
  BY ThresholdFacts
<1>2. x \in 1 .. Q - 1 /\ tail \in [1 .. Threshold - 1 -> 1 .. Q - 1]
  BY <1>1, FrostAssumption
<1> DEFINE c == <<x>> \o tail
<1>3. c \in [1 .. Threshold -> 1 .. Q - 1] /\ c[1] = x
  <2> DEFINE B == 1 .. Q - 1
  <2>1. x \in B /\ tail \in [1 .. Threshold - 1 -> B]
    BY <1>2
  <2> HIDE DEF B
  <2>2. c \in [1 .. Threshold -> B] /\ c[1] = x
    BY <1>0, <2>1, Prefixed
  <2> QED
    BY <2>2 DEF B
<1> HIDE DEF c
<1>4. share = [p \in Party |-> F!Eval(c, p)]
  BY <1>0, <1>1 DEF c, F!Split
<1>5. Dealt
  BY <1>1, <1>3, <1>4 DEF Dealt
<1> QED
  BY <1>1, <1>5, IdleProper DEF FrostInv

LEMMA NextFrost == FrostInv /\ [FrostNext]_frostVars => FrostInv'
<1> SUFFICES ASSUME FrostInv, [FrostNext]_frostVars PROVE FrostInv'
  OBVIOUS
<1>0. /\ Dealt /\ nonce \in [Party -> {0} \cup Nonces]
      /\ DOMAIN sess = Sessions /\ sess = [s \in Sessions |-> sess[s]]
      /\ \A s \in Sessions : Proper(sess[s], secret, share)
      /\ share \in [1 .. Parties -> Scalars] /\ secret \in Scalars
  BY DealtGives DEF FrostInv
<1>1. ASSUME UNCHANGED <<secret, share>>, nonce' \in [Party -> {0} \cup Nonces],
             NEW s \in Sessions, NEW w, sess' = [sess EXCEPT ![s] = w],
             Proper(w, secret, share)
      PROVE  FrostInv'
  <2>1. Dealt'
    BY <1>0, <1>1 DEF Dealt
  <2>2. DOMAIN sess' = Sessions /\ sess' = [o \in Sessions |-> sess'[o]]
    BY <1>0, <1>1
  <2>3. \A o \in Sessions : sess'[o] = IF o = s THEN w ELSE sess[o]
    BY <1>0, <1>1
  <2>4. \A o \in Sessions : Proper(sess'[o], secret, share)
    BY <1>0, <1>1, <2>3
  <2>5. \A o \in Sessions : Proper(sess'[o], secret', share')
    BY <1>1, <2>4
  <2> QED
    BY <1>1, <2>1, <2>2, <2>5 DEF FrostInv
<1>2. ASSUME NEW s \in Sessions, NEW K \in SigningSets, NEW m \in Messages, OpenSession(s, K, m)
      PROVE  FrostInv'
  <2>1. K \in SUBSET Party
    BY FrostAssumption, ThresholdFacts
  <2>2. sess' = [sess EXCEPT ![s] = [Idle EXCEPT !.signers = K, !.message = m]]
    BY <1>2, <1>0 DEF OpenSession
  <2>3. Proper([Idle EXCEPT !.signers = K, !.message = m], secret, share)
    BY <2>1, OpenProper
  <2> QED
    BY <1>0, <1>1, <1>2, <2>2, <2>3 DEF OpenSession
<1>3. ASSUME NEW s \in Sessions, NEW p \in Party, CommitNonce(s, p) PROVE FrostInv'
  <2>1. PICK k \in Nonces :
          /\ nonce' = [nonce EXCEPT ![p] = k]
          /\ sess' = [sess EXCEPT ![s].commitments = Put(@, p, HashCommitment(k))]
    BY <1>3 DEF CommitNonce
  <2>2. p \in sess[s].signers \ DOMAIN sess[s].commitments /\ UNCHANGED <<secret, share>>
    BY <1>3 DEF CommitNonce
  <2> DEFINE w == [sess[s] EXCEPT !.commitments = Put(@, p, HashCommitment(k))]
  <2>3. sess' = [sess EXCEPT ![s] = w]
    BY <2>1
  <2>4. Proper(w, secret, share)
    BY <1>0, <2>2, NonceScalars, CommitProper
  <2>5. nonce' \in [Party -> {0} \cup Nonces]
    BY <1>0, <2>1
  <2> HIDE DEF w
  <2> QED
    BY <1>1, <2>2, <2>3, <2>4, <2>5
<1>4. ASSUME NEW s \in Sessions, NEW p \in Party, Reveal(s, p) PROVE FrostInv'
  <2> DEFINE w == [sess[s] EXCEPT !.reveals = Put(@, p, nonce[p])]
  <2>1. /\ DOMAIN sess[s].commitments = sess[s].signers /\ nonce[p] # 0
        /\ p \in sess[s].signers \ DOMAIN sess[s].reveals /\ UNCHANGED <<secret, share, nonce>>
        /\ sess' = [sess EXCEPT ![s] = w]
    BY <1>4 DEF Reveal
  <2>2. nonce[p] \in Scalars
    BY <1>0, <2>1, NonceScalars
  <2>3. Proper(w, secret, share)
    BY <1>0, <2>1, <2>2, RevealProper
  <2> HIDE DEF w
  <2> QED
    BY <1>0, <1>1, <2>1, <2>3
<1>5. ASSUME NEW s \in Sessions, NEW p \in Party, PartialSign(s, p) PROVE FrostInv'
  <2> DEFINE v == sess[s]
             y == AddQ(nonce[p], MulQ(MulQ(ChallengeOf(v, secret), LagrangeCoefficient(v.signers, p)), share[p]))
             w == [v EXCEPT !.partials = Put(@, p, y), !.used = Put(@, p, nonce[p])]
  <2>1. /\ Bound(v) /\ nonce[p] # 0 /\ v.result = "none"
        /\ p \in v.signers \ DOMAIN v.partials /\ UNCHANGED <<secret, share, nonce>>
    BY <1>5 DEF PartialSign, AllRevealed, Bound
  <2>2. sess' = [sess EXCEPT ![s] = w]
    BY <1>5 DEF PartialSign, ChallengeOf, GroupPublic
  <2>3. nonce[p] \in Scalars
    BY <1>0, <2>1, NonceScalars
  <2>4. Proper(w, secret, share)
    <3>1. Proper(v, secret, share)
      BY <1>0
    <3> HIDE DEF v
    <3> QED
      BY <1>0, <2>1, <2>3, <3>1, PartialProper
  <2> HIDE DEF w, v
  <2> QED
    BY <1>0, <1>1, <2>1, <2>2, <2>4
<1>6. ASSUME NEW s \in Sessions, Abort(s) PROVE FrostInv'
  <2> DEFINE r == "BadCommitment"
  <2>1. sess' = [sess EXCEPT ![s] = [sess[s] EXCEPT !.result = r]] /\ UNCHANGED <<secret, share, nonce>>
    BY <1>6 DEF Abort
  <2>2. Proper([sess[s] EXCEPT !.result = r], secret, share)
    BY <1>0, ResultProper
  <2> QED
    BY <1>0, <1>1, <2>1, <2>2
<1>7. ASSUME NEW s \in Sessions, Finish(s) PROVE FrostInv'
  <2> DEFINE r == IF Accepts(sess[s], secret) THEN "valid" ELSE "invalid"
  <2>1. Verify(sess[s].message, Aggregate(sess[s])) <=> Accepts(sess[s], secret)
    BY DEF Verify, Aggregate, Accepts, ChallengeOf, GroupPublic
  <2>2. sess' = [sess EXCEPT ![s] = [sess[s] EXCEPT !.result = r]] /\ UNCHANGED <<secret, share, nonce>>
    BY <1>7, <2>1 DEF Finish
  <2>3. sess[s].signers # {} /\ DOMAIN sess[s].partials = sess[s].signers
    BY <1>7 DEF Finish, AllRevealed
  <2>4. Proper([sess[s] EXCEPT !.result = r], secret, share)
    <3>1. r = IF Accepts(sess[s], secret) THEN "valid" ELSE "invalid"
      OBVIOUS
    <3> HIDE DEF r
    <3> QED
      BY <1>0, <2>3, <3>1, ResultProper
  <2> HIDE DEF r
  <2> QED
    BY <1>0, <1>1, <2>2, <2>4
<1>8. CASE UNCHANGED frostVars
  BY <1>8 DEF FrostInv, frostVars, Dealt
<1> QED
  BY <1>2, <1>3, <1>4, <1>5, <1>6, <1>7, <1>8 DEF FrostNext

LEMMA FrostInvariant == FrostSpec => []FrostInv
BY InitFrost, NextFrost, PTL DEF FrostSpec

-------------------------------------------------------------------------------
(* The sum of the partial signatures: the nonces used, and the challenge   *)
(* times what the signers' shares interpolate.                             *)
LEMMA SumOfPartials ==
  ASSUME NEW v, NEW K \in SUBSET Party, NEW e \in Scalars, share \in [1 .. Parties -> Scalars],
         \A p \in K : v.used[p] \in Scalars /\ v.partials[p] \in Scalars,
         \A p \in K : v.partials[p] = AddQ(v.used[p], MulQ(MulQ(e, LagrangeCoefficient(K, p)), share[p]))
  PROVE  /\ SumQ(v.partials, K) = AddTable[SumQ(v.used, K)][TimesTable[e][Combined(K)]]
         /\ SumQ(v.used, K) \in Scalars /\ Combined(K) \in Scalars
<1> DEFINE n == Parties
           h == Given(v.partials, K, 0, n)
           f == Given(v.used, K, 0, n)
           L == Lambdas(K)
           g == Weighted(TimesTable, L, share, n)
<1>0. n \in Nat /\ Positions \in [1 .. n -> Scalars] /\ Party = 1 .. n
  BY PositionFacts, ThresholdFacts
<1>1. h \in [1 .. n -> Scalars] /\ SumQ(v.partials, K) = Total(AddTable, 0, h, n)
  BY SumIs
<1>2. f \in [1 .. n -> Scalars] /\ SumQ(v.used, K) = Total(AddTable, 0, f, n) /\ SumQ(v.used, K) \in Scalars
  BY SumIs
<1>3. L \in [1 .. n -> Scalars] /\ g \in [1 .. n -> Scalars] /\ Combined(K) \in Scalars
  BY <1>0, ScalarField, WeightedType DEF Lambdas, Combined
<1>4. Combined(K) = Total(AddTable, 0, g, n)
  BY DEF Combined, Interpolate, Lambdas
<1>5. 0 \in Scalars /\ 1 \in Scalars
  BY QFacts
<1>6. ASSUME NEW m \in 1 .. n PROVE h[m] = AddTable[TimesTable[1][f[m]]][TimesTable[e][g[m]]]
  <2>1. TimesTable[1][f[m]] = f[m] /\ f[m] \in Scalars /\ g[m] = TimesTable[L[m]][share[m]]
    <3>1. f[m] \in Scalars
      BY <1>2
    <3>2. TimesTable[1][f[m]] = f[m]
      BY <3>1, ScalarField, FieldZero
    <3> QED
      BY <3>1, <3>2 DEF Weighted
  <2>2. L[m] \in Scalars /\ share[m] \in Scalars /\ g[m] \in Scalars
    BY <1>3
  <2>3. CASE m \in K
    <3> DEFINE l == LagrangeCoefficient(K, m)
    <3>1. l = L[m]
      BY <2>3, LagrangeIs
    <3>2. h[m] = AddQ(f[m], MulQ(MulQ(e, l), share[m]))
      BY <2>3 DEF Given
    <3> HIDE DEF l, h, f, g, L
    <3>3. MulQ(e, l) = TimesTable[e][l] /\ TimesTable[e][l] \in Scalars
      BY <2>2, <3>1, TableEntries
    <3>4. MulQ(TimesTable[e][l], share[m]) = TimesTable[TimesTable[e][l]][share[m]]
          /\ TimesTable[TimesTable[e][l]][share[m]] \in Scalars
      BY <2>2, <3>3, TableEntries
    <3>5. TimesTable[TimesTable[e][l]][share[m]] = TimesTable[e][TimesTable[l][share[m]]]
      <4>1. \A a, b, c \in Scalars : TimesTable[TimesTable[a][b]][c] = TimesTable[a][TimesTable[b][c]]
        BY ScalarField, MulAssoc
      <4> QED
        BY <2>2, <3>1, <4>1
    <3>6. TimesTable[e][g[m]] \in Scalars
      BY <2>1, <3>1, <3>4, <3>5
    <3>7. AddQ(f[m], TimesTable[e][g[m]]) = AddTable[f[m]][TimesTable[e][g[m]]]
      BY <2>1, <3>6, TableEntries
    <3> QED
      BY <2>1, <3>1, <3>2, <3>3, <3>4, <3>5, <3>7
  <2>4. CASE m \notin K
    <3>1. h[m] = 0 /\ f[m] = 0
      BY <2>4 DEF Given
    <3>2. L[m] = 0
      BY <2>4 DEF Lambdas, Weights
    <3> HIDE DEF h, f, g, L
    <3>3. \A a \in Scalars : TimesTable[0][a] = 0 /\ TimesTable[a][0] = 0 /\ AddTable[0][a] = a
      BY ScalarField, FieldZero
    <3> QED
      BY <1>5, <2>1, <2>2, <3>1, <3>2, <3>3
  <2> QED
    BY <2>3, <2>4
<1> HIDE DEF h, f, g, L
<1>7. Linear(AddTable, TimesTable, 1, f, e, g, h, n)
  BY <1>0, <1>1, <1>2, <1>3, <1>5, <1>6, ScalarField, SumLinear
<1>8. TimesTable[1][SumQ(v.used, K)] = SumQ(v.used, K)
  BY <1>2, ScalarField, FieldZero
<1> QED
  BY <1>1, <1>2, <1>3, <1>4, <1>7, <1>8 DEF Linear

(* A finished session: what it signed, and whether verify accepts it. *)
LEMMA FinishedSum ==
  ASSUME FrostInv, NEW s \in Sessions, sess[s].result \in {"valid", "invalid"}
  PROVE  LET K == sess[s].signers
             U == SumQ(sess[s].used, K)
             R == SumQ(sess[s].reveals, K)
             e == Challenge(AggregatedNonce(sess[s]), GroupPublic, sess[s].message)
         IN /\ K # {} /\ K \in SUBSET (1 .. Parties) /\ DOMAIN sess[s].reveals = K /\ DOMAIN sess[s].used = K
            /\ U \in Scalars /\ R \in Scalars /\ e \in Scalars /\ Combined(K) \in Scalars
            /\ sess[s].result = "valid" <=>
                 AddTable[U][TimesTable[e][Combined(K)]] = AddTable[R][TimesTable[e][secret]]
<1> DEFINE v == sess[s]
           K == v.signers
           U == SumQ(v.used, K)
           R == SumQ(v.reveals, K)
           e == ChallengeOf(v, secret)
<1>0. /\ Shaped(v) /\ Signed(v, secret, share) /\ Ended(v, secret)
      /\ secret \in Scalars /\ share \in [1 .. Parties -> Scalars]
  BY DealtGives DEF FrostInv, Proper
<1>1. /\ v \in SessionType /\ K # {} /\ DOMAIN v.partials = K /\ DOMAIN v.used = K
      /\ DOMAIN v.reveals = K /\ v.message \in Messages
      /\ v.result = "valid" <=> Accepts(v, secret)
  BY <1>0 DEF Shaped, Ended, Bound
<1>2. /\ K \in SUBSET Party /\ v.partials \in Partial(Scalars) /\ v.used \in Partial(Scalars)
      /\ v.reveals \in Partial(Scalars)
  BY <1>1 DEF SessionType
<1>3. \A p \in K : v.partials[p] \in Scalars /\ v.used[p] \in Scalars /\ v.reveals[p] \in Scalars
  BY <1>1, <1>2, PartialFacts
<1>4. R \in Scalars /\ AggregatedNonce(v) = R
  BY <1>1, <1>2, <1>3, SumIs DEF AggregatedNonce
<1>5. e \in Scalars
  BY <1>0, <1>1, <1>4, FrostAssumption DEF ChallengeOf, Scalars
<1>6. \A p \in K : v.partials[p] = AddQ(v.used[p], MulQ(MulQ(e, LagrangeCoefficient(K, p)), share[p]))
  BY <1>0, <1>1 DEF Signed, PartialOf
<1>a. e = Challenge(AggregatedNonce(v), GroupPublic, v.message) /\ K \in SUBSET (1 .. Parties)
  BY <1>2, ThresholdFacts DEF ChallengeOf, GroupPublic
<1>b. v.result = "valid" <=> SumQ(v.partials, K) = AddQ(R, MulQ(secret, e))
  BY <1>1, <1>4 DEF Accepts
<1> HIDE DEF e
<1>7. /\ SumQ(v.partials, K) = AddTable[U][TimesTable[e][Combined(K)]]
      /\ U \in Scalars /\ Combined(K) \in Scalars
  <2> HIDE DEF v
  <2> QED
    BY <1>0, <1>2, <1>3, <1>5, <1>6, SumOfPartials
<1>8. AddQ(R, MulQ(secret, e)) = AddTable[R][TimesTable[e][secret]]
  <2>1. MulQ(secret, e) = TimesTable[secret][e] /\ TimesTable[secret][e] \in Scalars
    BY <1>0, <1>5, TableEntries
  <2>2. TimesTable[secret][e] = TimesTable[e][secret]
    BY <1>0, <1>5, ScalarField, Commutes
  <2>3. AddQ(R, TimesTable[secret][e]) = AddTable[R][TimesTable[secret][e]]
    BY <1>4, <2>1, TableEntries
  <2> QED
    BY <2>1, <2>2, <2>3
<1> HIDE DEF U, R
<1> QED
  BY <1>1, <1>4, <1>5, <1>7, <1>8, <1>a, <1>b DEF U, R

LEMMA QuorumCards ==
  ASSUME NEW K \in SUBSET (1 .. Parties)
  PROVE  /\ CheckQuorum(Cardinality(K), Threshold, Parties) = "Ok" <=> Cardinality(K) >= Threshold
         /\ CheckQuorum(Cardinality(K), Threshold, Parties) = "Ok"
              <=> Cardinality((1 .. Parties) \ K) <= TolerableUnavailable(Threshold, Parties)
<1> DEFINE k == Cardinality(K)
           n == Parties
           t == Threshold
<1>0. n \in Nat /\ t \in 1 .. n
  BY FrostAssumption
<1>1. k \in Nat /\ IsFiniteSet(K)
  BY <1>0, SubsetCards
<1>2. IsFiniteSet(1 .. n) /\ Cardinality(1 .. n) = n
  BY <1>0, FS_Interval
<1>3. Cardinality((1 .. n) \ K) = n - k
  <2> DEFINE P == 1 .. n
  <2>1. K \cap P = K /\ P \cap K = K /\ IsFiniteSet(P) /\ Cardinality(P) = n
    BY <1>2
  <2> HIDE DEF P
  <2>2. Cardinality(P \ K) = Cardinality(P) - Cardinality(P \cap K)
    BY <1>1, <2>1, FS_Difference
  <2> QED
    BY <2>1, <2>2 DEF P
<1> HIDE DEF k, n, t
<1>4. CheckQuorum(k, t, n) = "Ok" <=> k >= t
  <2>1. ~(t = 0 \/ t > n) /\ t \in 1 .. n
    BY <1>0
  <2>2. CASE k < t
    BY <1>0, <1>1, <2>1, <2>2 DEF CheckQuorum
  <2>3. CASE ~(k < t)
    BY <1>0, <1>1, <2>1, <2>3 DEF CheckQuorum
  <2> QED
    BY <2>2, <2>3
<1>5. TolerableUnavailable(t, n) = n - t
  BY <1>0 DEF TolerableUnavailable
<1>6. k >= t <=> n - k <= n - t
  BY <1>0, <1>1
<1> QED
  BY <1>3, <1>4, <1>5, <1>6 DEF k, n, t

LEMMA FrostTyped == FrostInv => FrostTypeOK
<1> SUFFICES ASSUME FrostInv PROVE FrostTypeOK
  OBVIOUS
<1>1. share \in [Party -> 0 .. Q - 1] /\ nonce \in [Party -> {0} \cup Nonces]
  BY DealtGives, ThresholdFacts DEF FrostInv, Scalars
<1>2. ASSUME NEW s \in Sessions
      PROVE  /\ sess[s].signers \subseteq Party
             /\ DOMAIN sess[s].commitments \subseteq sess[s].signers
             /\ \A f \in {sess[s].reveals, sess[s].partials, sess[s].used} :
                  DOMAIN f \subseteq sess[s].signers /\ \A p \in DOMAIN f : f[p] \in 0 .. Q - 1
  <2>1. Shaped(sess[s])
    BY DEF FrostInv, Proper
  <2>2. /\ sess[s] \in SessionType
        /\ DOMAIN sess[s].commitments \subseteq sess[s].signers
        /\ DOMAIN sess[s].reveals \subseteq sess[s].signers
        /\ DOMAIN sess[s].partials \subseteq sess[s].signers
        /\ DOMAIN sess[s].used \subseteq sess[s].signers
    BY <2>1 DEF Shaped
  <2>3. /\ sess[s].signers \subseteq Party /\ sess[s].reveals \in Partial(Scalars)
        /\ sess[s].partials \in Partial(Scalars) /\ sess[s].used \in Partial(Scalars)
    BY <2>2 DEF SessionType
  <2>4. \A f \in Partial(Scalars) : \A p \in DOMAIN f : f[p] \in 0 .. Q - 1
    BY PartialFacts DEF Scalars
  <2> QED
    BY <2>2, <2>3, <2>4
<1> QED
  BY <1>1, <1>2 DEF FrostTypeOK

LEMMA FrostBinds == FrostInv => CommitmentsBind
<1> SUFFICES ASSUME FrostInv, NEW s \in Sessions, NEW p \in Party,
                    sess[s].partials # <<>>, p \in sess[s].signers
             PROVE  sess[s].commitments[p] = HashCommitment(sess[s].reveals[p])
  BY DEF CommitmentsBind
<1>1. Shaped(sess[s])
  BY DEF FrostInv, Proper
<1>2. sess[s].partials \in Partial(Scalars)
  BY <1>1 DEF Shaped, SessionType
<1>3. DOMAIN sess[s].partials # {}
  <2> DEFINE f == sess[s].partials
  <2>1. f \in Partial(Scalars) /\ f # <<>>
    BY <1>2
  <2> HIDE DEF f
  <2>2. DOMAIN f = {} <=> f = <<>>
    BY <2>1, PartialFacts
  <2> QED
    BY <2>1, <2>2 DEF f
<1> QED
  BY <1>1, <1>3 DEF Shaped, Bound, VerifyCommitments

LEMMA FrostSigns == FrostInv => SignsExactly
<1> SUFFICES ASSUME FrostInv, NEW s \in Sessions, sess[s].result \in {"valid", "invalid"}, HasQuorum(s)
             PROVE  sess[s].result = "valid" <=>
                      SumQ(sess[s].used, sess[s].signers) = SumQ(sess[s].reveals, sess[s].signers)
  BY DEF SignsExactly
<1> DEFINE K == sess[s].signers
           U == SumQ(sess[s].used, K)
           R == SumQ(sess[s].reveals, K)
           e == Challenge(AggregatedNonce(sess[s]), GroupPublic, sess[s].message)
<1>1. /\ K \in SUBSET (1 .. Parties) /\ U \in Scalars /\ R \in Scalars /\ e \in Scalars
      /\ sess[s].result = "valid" <=>
           AddTable[U][TimesTable[e][Combined(K)]] = AddTable[R][TimesTable[e][secret]]
  BY FinishedSum
<1>2. Cardinality(K) >= Threshold
  BY <1>1, QuorumCards DEF HasQuorum
<1>3. Combined(K) = secret /\ secret \in Scalars
  BY <1>1, <1>2, DealtGives DEF FrostInv
<1> HIDE DEF U, R, e
<1>4. TimesTable[e][secret] \in Scalars
  BY <1>1, <1>3, TableEntries
<1>5. AddTable[U][TimesTable[e][secret]] = AddTable[R][TimesTable[e][secret]] => U = R
  BY <1>1, <1>4, ScalarField, FieldCancels
<1> QED
  BY <1>1, <1>3, <1>5 DEF U, R

LEMMA FrostBelow == FrostInv => BelowQuorumNeverSigns
<1> SUFFICES ASSUME FrostInv, NEW s \in Sessions, sess[s].signers # {}
             PROVE  /\ HasQuorum(s) <=> Cardinality(Party \ sess[s].signers)
                                          <= TolerableUnavailable(Threshold, Parties)
                    /\ /\ Cardinality(sess[s].signers) = Threshold - 1 /\ sess[s].result = "valid"
                       => \/ Challenge(AggregatedNonce(sess[s]), GroupPublic, sess[s].message) = 0
                          \/ sess[s].used # sess[s].reveals
  BY DEF BelowQuorumNeverSigns
<1> DEFINE K == sess[s].signers
           U == SumQ(sess[s].used, K)
           R == SumQ(sess[s].reveals, K)
           e == Challenge(AggregatedNonce(sess[s]), GroupPublic, sess[s].message)
<1>0. K \in SUBSET (1 .. Parties)
  BY ThresholdFacts DEF FrostInv, Proper, Shaped, SessionType
<1>1. HasQuorum(s) <=> Cardinality(Party \ K) <= TolerableUnavailable(Threshold, Parties)
  BY <1>0, QuorumCards, ThresholdFacts DEF HasQuorum
<1>2. ASSUME Cardinality(K) = Threshold - 1, sess[s].result = "valid", e # 0,
             sess[s].used = sess[s].reveals
      PROVE  FALSE
  <2>1. /\ U \in Scalars /\ R \in Scalars /\ e \in Scalars /\ Combined(K) \in Scalars
        /\ sess[s].result = "valid" <=>
             AddTable[U][TimesTable[e][Combined(K)]] = AddTable[R][TimesTable[e][secret]]
    BY <1>2, FinishedSum
  <2>2. U = R /\ Combined(K) # secret /\ secret \in Scalars
    BY <1>0, <1>2, DealtGives DEF FrostInv
  <2>3. AddTable[U][TimesTable[e][Combined(K)]] = AddTable[U][TimesTable[e][secret]]
    BY <1>2, <2>1, <2>2
  <2> HIDE DEF U, R, e, K
  <2> DEFINE a == TimesTable[e][Combined(K)]
             b == TimesTable[e][secret]
  <2>4. a \in Scalars /\ b \in Scalars
    BY <2>1, <2>2, TableEntries
  <2>5. a = b
    <3>1. AddTable[U][a] = AddTable[a][U] /\ AddTable[U][b] = AddTable[b][U] /\ AddTable[U][a] = AddTable[U][b]
      <4>1. AddTable[U][a] = AddTable[U][b]
        BY <2>3
      <4> HIDE DEF a, b
      <4> QED
        BY <2>1, <2>4, <4>1, ScalarField, Commutes
    <3>2. AddTable[a][U] = AddTable[b][U]
      BY <3>1
    <3> HIDE DEF a, b
    <3>3. \A c, d, u \in Scalars : AddTable[c][u] = AddTable[d][u] => c = d
      BY ScalarField, FieldCancels
    <3> QED
      BY <2>1, <2>4, <3>2, <3>3
  <2>6. Combined(K) = secret
    BY <1>2, <2>1, <2>2, <2>5, ScalarField, FieldDivides
  <2> QED
    BY <2>2, <2>6
<1> HIDE DEF e
<1>3. \/ ~(Cardinality(K) = Threshold - 1 /\ sess[s].result = "valid")
      \/ e = 0 \/ sess[s].used # sess[s].reveals
  BY <1>2
<1> QED
  BY <1>1, <1>3 DEF e

(* partial_sign, aggregate and verify: for any group of prime order, any   *)
(* threshold and number of parties, and however sessions interleave over   *)
(* the one nonce slot of a party, a session of a quorum ends in a valid    *)
(* signature exactly if the nonces its signers used are the ones they      *)
(* revealed (in sum), and nobody signs over a changed nonce.               *)
THEOREM SigningSessionsExact == FrostSpec => []SessionsExact
<1>1. FrostInv => SessionsExact
  BY FrostTyped, FrostBinds, FrostSigns DEF SessionsExact
<1> QED
  BY <1>1, FrostInvariant, PTL

(* A signing set one party short of the threshold never signs with the     *)
(* nonces it revealed, whatever the coefficients, unless the challenge is  *)
(* zero; and check_quorum agrees with tolerable_unavailable.               *)
THEOREM NoQuorumNoSignature == FrostSpec => []BelowQuorumNeverSigns
BY FrostInvariant, FrostBelow, PTL

(* reconstruction.rs: threshold-many or more different shares give the     *)
(* group's key, in any order and for any field of scalars; too few, or     *)
(* shares none of which is given once only, are refused.                   *)
THEOREM SharesGiveTheKey == FrostSpec => []ReconstructionSound
<1>1. FrostInv => ReconstructionSound
  BY DealtSound DEF FrostInv
<1> QED
  BY <1>1, FrostInvariant, PTL

-------------------------------------------------------------------------------
(* An entry is sealed under the key the store has now and for its own id.  *)
Holds(id) ==
  \/ put[id] = <<>> /\ entries[id] = None
  \/ /\ put[id] = <<put[id][1]>>
     /\ entries[id] = EncryptSeed(id, put[id][1], entries[id].exportable)
StoreInv ==
  /\ pass \in Passphrases /\ salt \in Salts
  /\ DOMAIN entries = Ids /\ DOMAIN put = Ids
  /\ \A id \in Ids : Holds(id)

LEMMA OkOut == \A v : Ok(v).out = v
BY DEF Ok

LEMMA KekLength ==
  ASSUME StoreInv
  PROVE  Len(Kek) = KeyLen
BY CipherAssumption DEF Kek, DeriveKek

(* Each id's entry opens to the seed put there. *)
LEMMA EntriesOpen ==
  ASSUME StoreInv, NEW id \in Ids
  PROVE  DecryptSeed(id) = IF put[id] = <<>> THEN Err("NotFound") ELSE Ok(put[id][1])
<1>1. CASE put[id] = <<>> /\ entries[id] = None
  BY <1>1 DEF DecryptSeed
<1>2. CASE /\ put[id] = <<put[id][1]>>
           /\ entries[id] = EncryptSeed(id, put[id][1], entries[id].exportable)
  <2> DEFINE seed == put[id][1]
             c == Seal(Kek, Random, seed, id)
  <2>1. entries[id].sealed = <<c>>
    BY <1>2 DEF EncryptSeed
  <2>2. entries[id] # None /\ entries[id].sealed[1] = c
    <3>1. None.sealed = <<>> /\ <<c>> # <<>> /\ <<c>>[1] = c
      BY DEF None
    <3> QED
      BY <2>1, <3>1
  <2>3. Open(Kek, Random, c, id) = Ok(seed)
    BY KekLength DEF Open, Seal
  <2>4. IsOk(Ok(seed))
    BY DEF IsOk, Ok
  <2>5. put[id] # <<>>
    BY <1>2
  <2> HIDE DEF seed, c
  <2>6. DecryptSeed(id) = Ok(seed)
    BY <2>2, <2>3, <2>4 DEF DecryptSeed
  <2> QED
    BY <2>5, <2>6 DEF seed
<1> QED
  BY <1>1, <1>2 DEF StoreInv, Holds

LEMMA AnswersFollow ==
  ASSUME StoreInv
  PROVE  AnswersForLastStored
<1> SUFFICES ASSUME NEW id \in Ids
             PROVE  /\ DecryptSeed(id) = IF put[id] = <<>> THEN Err("NotFound") ELSE Ok(put[id][1])
                    /\ IsOk(SignPrehash(id)) => PublicKey(id) = SignPrehash(id)
                    /\ IsOk(PublicKey(id)) => (IsOk(SignPrehash(id)) <=> Len(put[id][1]) = KeyLen)
  BY DEF AnswersForLastStored
<1>1. CASE ~IsOk(DecryptSeed(id))
  BY <1>1, EntriesOpen DEF PublicKey, SignPrehash
<1>2. CASE IsOk(DecryptSeed(id))
  <2> DEFINE seed == put[id][1]
  <2>1. /\ DecryptSeed(id) = Ok(seed)
        /\ PublicKey(id) = PublicKeyOf(seed) /\ SignPrehash(id) = SignatureOf(seed)
    <3>1. DecryptSeed(id) = Ok(seed)
      <4>1. ~IsOk(Err("NotFound"))
        BY DEF IsOk, Err
      <4>2. DecryptSeed(id) = IF put[id] = <<>> THEN Err("NotFound") ELSE Ok(put[id][1])
        BY EntriesOpen
      <4> QED
        BY <1>2, <4>1, <4>2
    <3>2. DecryptSeed(id).out = seed
      BY <3>1, OkOut
    <3> QED
      BY <1>2, <3>1, <3>2 DEF PublicKey, SignPrehash
  <2>2. \A v : IsOk(Ok(v))
    BY DEF IsOk, Ok
  <2>3. ~IsOk(Err("WrongKey")) /\ ~IsOk(Err("BadParams")) /\ ~IsOk(Err("Crypto"))
    BY DEF IsOk, Err
  <2> HIDE DEF seed
  <2>4. CASE ValidKey(seed)
    <3>1. PublicKeyOf(seed) = Ok(<<Value(seed)>>)
      BY <2>4 DEF PublicKeyOf
    <3>2. Len(seed) = KeyLen => SignatureOf(seed) = Ok(<<Value(seed)>>)
      BY <2>4 DEF SignatureOf
    <3>3. Len(seed) # KeyLen => SignatureOf(seed) = Err("BadParams")
      BY DEF SignatureOf
    <3>4. /\ IsOk(SignPrehash(id)) => PublicKey(id) = SignPrehash(id)
          /\ IsOk(SignPrehash(id)) <=> Len(seed) = KeyLen
      BY <2>1, <2>2, <2>3, <3>1, <3>2, <3>3
    <3> QED
      BY <3>4, EntriesOpen DEF seed
  <2>5. CASE ~ValidKey(seed)
    <3>1. PublicKeyOf(seed) = Err("WrongKey") /\ SignatureOf(seed) \in {Err("BadParams"), Err("Crypto")}
      BY <2>5 DEF PublicKeyOf, SignatureOf
    <3>2. ~IsOk(PublicKey(id)) /\ ~IsOk(SignPrehash(id))
      BY <2>1, <2>3, <3>1
    <3> QED
      BY <3>2, EntriesOpen
  <2> QED
    BY <2>4, <2>5
<1> QED
  BY <1>1, <1>2

(* Storing a seed, of whatever origin, seals it under the store's key. *)
LEMMA StoreKeeps ==
  ASSUME StoreInv, NEW id \in Ids, NEW seed, NEW x, Store(id, seed, x),
         UNCHANGED <<pass, salt>>
  PROVE  StoreInv'
<1>1. Kek' = Kek
  BY DEF Kek
<1>2. ASSUME NEW i \in Ids PROVE Holds(i)'
  <2>1. CASE i = id
    <3>1. put'[i] = <<seed>> /\ entries'[i] = EncryptSeed(id, seed, x)
      BY <2>1 DEF StoreInv, Store
    <3>2. EncryptSeed(id, seed, x).exportable = x
      BY DEF EncryptSeed
    <3>3. put'[i][1] = seed
      BY <3>1
    <3> QED
      BY <1>1, <2>1, <3>1, <3>2, <3>3 DEF Holds, EncryptSeed
  <2>2. CASE i # id
    <3>1. put'[i] = put[i] /\ entries'[i] = entries[i]
      BY <2>2 DEF StoreInv, Store
    <3>2. Holds(i)
      BY DEF StoreInv
    <3> QED
      BY <1>1, <3>1, <3>2 DEF Holds, EncryptSeed
  <2> QED
    BY <2>1, <2>2
<1> QED
  BY <1>2 DEF StoreInv, Store

(* The store was opened anew, or dropped an entry. *)
LEMMA StoreInvKept ==
  ASSUME StoreInv, UNCHANGED <<pass, salt, entries, put>>
  PROVE  StoreInv'
BY DEF StoreInv, Holds, EncryptSeed, Kek

LEMMA NextKeepsStore ==
  ASSUME StoreInv, [Next]_vars
  PROVE  StoreInv'
<1>1. ASSUME NEW p \in Passphrases, NEW s \in Salts, OpenStore(p, s) PROVE StoreInv'
  <2>1. pass' = p /\ salt' = s
    BY <1>1 DEF OpenStore
  <2>2. entries' = [i \in Ids |-> None] /\ put' = [i \in Ids |-> <<>>]
    BY <1>1 DEF OpenStore
  <2> QED
    BY <2>1, <2>2 DEF StoreInv, Holds
<1>2. ASSUME NEW id \in Ids, NEW x \in BOOLEAN, Generate(id, x) PROVE StoreInv'
  <2>1. PICK seed \in Drawn : Store(id, seed, x)
    BY <1>2 DEF Generate
  <2> QED
    BY <1>2, <2>1, StoreKeeps DEF Generate
<1>3. ASSUME NEW id \in Ids, NEW x \in BOOLEAN, NEW seed \in Imported, Import(id, seed, x)
      PROVE  StoreInv'
  BY <1>3, StoreKeeps DEF Import
<1>4. ASSUME NEW id \in Ids, Use(id) PROVE StoreInv'
  BY <1>4, StoreInvKept DEF Use
<1>5. ASSUME NEW id \in Ids, Delete(id) PROVE StoreInv'
  <2>1. Kek' = Kek
    BY <1>5 DEF Delete, Kek
  <2>2. ASSUME NEW i \in Ids PROVE Holds(i)'
    <3>1. CASE i = id
      BY <1>5, <3>1 DEF Delete, StoreInv, Holds
    <3>2. CASE i # id
      <4>1. put'[i] = put[i] /\ entries'[i] = entries[i]
        BY <1>5, <3>2 DEF Delete, StoreInv
      <4> QED
        BY <2>1, <4>1 DEF StoreInv, Holds, EncryptSeed
    <3> QED
      BY <3>1, <3>2
  <2> QED
    BY <1>5, <2>2 DEF Delete, StoreInv
<1>6. ASSUME NEW id \in Ids, Export(id) PROVE StoreInv'
  BY <1>6, StoreInvKept DEF Export
<1>7. ASSUME NEW id \in Ids, NEW p \in Params, Backup(id, p[1], p[2]) PROVE StoreInv'
  BY <1>7, StoreInvKept DEF Backup
<1>8. ASSUME NEW index \in Indices, NEW m \in Plaintexts, WrapBytes(index, m) PROVE StoreInv'
  BY <1>8, StoreInvKept DEF WrapBytes
<1>9. ASSUME NEW s \in shares, UnwrapBytes(s) PROVE StoreInv'
  BY <1>9, StoreInvKept DEF UnwrapBytes
<1>10. ASSUME NEW T, Restore(T) PROVE StoreInv'
  <2> DEFINE result == RestoreSeed(SetToSeq(T))
  <2>1. /\ UNCHANGED <<pass, salt>>
        /\ \/ \E id \in Ids, x \in BOOLEAN : Store(id, result.out, x)
           \/ UNCHANGED <<entries, put>>
    BY <1>10 DEF Restore
  <2> HIDE DEF result
  <2> QED
    BY <2>1, StoreKeeps, StoreInvKept
<1>11. CASE DropSecret
  BY <1>11, StoreInvKept DEF DropSecret
<1>12. CASE UNCHANGED vars
  BY <1>12, StoreInvKept DEF vars
<1> QED
  BY <1>1, <1>2, <1>3, <1>4, <1>5, <1>6, <1>7, <1>8, <1>9, <1>10, <1>11, <1>12 DEF Next

(* decrypt_seed, public_key and sign_prehash: after any calls, reopenings  *)
(* with other passphrases and salts included, an id answers with the seed  *)
(* last stored under it; what signs is the key public_key gives, and a     *)
(* seed that has a public key signs exactly if it has full length.         *)
THEOREM AnswersAreCurrent == Spec => []AnswersForLastStored
<1>1. Init => StoreInv
  BY KeyStoreAssumption DEF Init, StoreInv, Holds
<1>2. StoreInv /\ [Next]_vars => StoreInv'
  BY NextKeepsStore
<1>3. StoreInv => AnswersForLastStored
  BY AnswersFollow
<1> QED
  BY <1>1, <1>2, <1>3, PTL DEF Spec

-------------------------------------------------------------------------------
(* Locked pages. *)
LocksInv == locked \subseteq Pages /\ NoLockLeak

LEMMA NextKeepsLocks ==
  ASSUME LocksInv, [Next]_vars
  PROVE  LocksInv'
<1>1. -1 \notin Pages /\ 0 \notin Pages
  BY KeyStoreAssumption
<1>2. ASSUME NEW p, NEW s, OpenStore(p, s) PROVE LocksInv'
  <2>1. PICK page \in Pages \cup {0} :
          kekPage' = page /\ locked' = LockRegion(UnlockRegion(locked, kekPage), page)
    BY <1>2 DEF OpenStore
  <2>2. held' = held
    BY <1>2 DEF OpenStore
  <2> QED
    BY <2>1, <2>2 DEF LocksInv, NoLockLeak, LockRegion, UnlockRegion
<1>3. ASSUME NEW n, locked' \in Temporaries(locked, n), UNCHANGED <<kekPage, held>> PROVE LocksInv'
  <2>1. locked' \subseteq locked
    BY <1>3 DEF Temporaries
  <2> QED
    BY <1>3, <2>1 DEF LocksInv, NoLockLeak
<1>4. ASSUME NEW bytes, Receive(bytes), kekPage' = kekPage PROVE LocksInv'
  <2>1. PICK page \in Pages \cup {0} :
          held' = [page |-> page, bytes |-> bytes] /\ locked' = LockRegion(locked, page)
    BY <1>4 DEF Receive
  <2>2. locked \subseteq {kekPage}
    BY <1>1, <1>4 DEF LocksInv, NoLockLeak, Receive, Free
  <2>3. held'.page = page
    BY <2>1
  <2> QED
    BY <1>4, <2>1, <2>2, <2>3 DEF LocksInv, NoLockLeak, LockRegion
<1>5. CASE DropSecret
  <2>1. locked' = locked \ {held.page} /\ kekPage' = kekPage
    BY <1>5 DEF DropSecret, UnlockRegion
  <2> QED
    BY <2>1 DEF LocksInv, NoLockLeak
<1>6. ASSUME UNCHANGED <<kekPage, held, locked>> PROVE LocksInv'
  BY <1>6 DEF LocksInv, NoLockLeak
<1>7. ASSUME NEW id, NEW x, Generate(id, x) PROVE LocksInv'
  BY <1>6, <1>7 DEF Generate, memory
<1>8. ASSUME NEW id, NEW seed, NEW x, Import(id, seed, x) PROVE LocksInv'
  BY <1>6, <1>8 DEF Import, memory
<1>9. ASSUME NEW id, Use(id) PROVE LocksInv'
  BY <1>3, <1>9 DEF Use
<1>10. ASSUME NEW id, Delete(id) PROVE LocksInv'
  BY <1>6, <1>10 DEF Delete, memory
<1>11. ASSUME NEW id, Export(id) PROVE LocksInv'
  BY <1>4, <1>11 DEF Export
<1>12. ASSUME NEW id, NEW t, NEW n, Backup(id, t, n) PROVE LocksInv'
  BY <1>3, <1>12 DEF Backup
<1>13. ASSUME NEW index, NEW m, WrapBytes(index, m) PROVE LocksInv'
  BY <1>6, <1>13 DEF WrapBytes, memory
<1>14. ASSUME NEW s, UnwrapBytes(s) PROVE LocksInv'
  BY <1>4, <1>14 DEF UnwrapBytes
<1>15. ASSUME NEW T, Restore(T) PROVE LocksInv'
  BY <1>3, <1>15 DEF Restore
<1>16. CASE UNCHANGED vars
  BY <1>6, <1>16 DEF vars
<1> QED
  BY <1>2, <1>5, <1>7, <1>8, <1>9, <1>10, <1>11, <1>12, <1>13, <1>14, <1>15, <1>16 DEF Next

(* SecretBytes and its Drop: whatever pages the allocator chooses, however *)
(* many secrets share one, and whichever calls are refused midway, a page  *)
(* is locked only while a secret that locked it lives.                     *)
THEOREM LocksReleased == Spec => []NoLockLeak
<1>1. Init => LocksInv
  BY KeyStoreAssumption DEF Init, LocksInv, NoLockLeak, LockRegion
<1>2. LocksInv /\ [Next]_vars => LocksInv'
  BY NextKeepsLocks
<1>3. LocksInv => NoLockLeak
  BY DEF LocksInv
<1> QED
  BY <1>1, <1>2, <1>3, PTL DEF Spec

-------------------------------------------------------------------------------
(* Generated keys. *)

(* Nobody guesses a key that has not left the store: no operator imports   *)
(* it, no share or wrap in a caller's hands opens to it, and no shares of  *)
(* other secrets combine to it.  For random keys of the code's length      *)
(* this fails with negligible probability.                                 *)
Unguessed ==
  \A seed \in Drawn : fate[seed] # Spread =>
    /\ seed \notin Imported
    /\ \A s \in shares : Unwrap(Kek, s.wrapped).out # seed
    /\ \A k \in 2 .. 3 : \A T \in kSubset(k, shares) : RestoreSeed(SetToSeq(T)).out # seed

(* A key not drawn yet is nowhere; one that was stored non-exportable and  *)
(* never backed up is in at most one entry, and that is not exportable.    *)
Kept(seed) ==
  fate[seed] # Spread =>
    /\ held.bytes # seed
    /\ \A id \in Ids : put[id] = <<seed>> => fate[seed] = Inside /\ ~entries[id].exportable
    /\ \A i, j \in Ids : put[i] = <<seed>> /\ put[j] = <<seed>> => i = j
KeptInv == DOMAIN fate = Drawn /\ \A seed \in Drawn : Kept(seed)

LEMMA KeptFollows ==
  ASSUME StoreInv, KeptInv
  PROVE  UnbackedKeyStays
<1> SUFFICES ASSUME NEW seed \in Drawn, fate[seed] = Inside
             PROVE  /\ held.bytes # seed
                    /\ \A id \in Ids : DecryptSeed(id).out = seed => ~entries[id].exportable
                    /\ Cardinality({id \in Ids : DecryptSeed(id).out = seed}) <= 1
  BY DEF UnbackedKeyStays
<1>1. Kept(seed) /\ fate[seed] # Spread
  BY DEF KeptInv, Inside, Spread
<1>2. seed # <<>>
  <2>1. Len(seed) = KeyLen /\ KeyLen # 0
    BY KeyStoreAssumption, CipherAssumption
  <2> QED
    BY <2>1
<1>3. ASSUME NEW id \in Ids, DecryptSeed(id).out = seed PROVE put[id] = <<seed>>
  <2>1. CASE put[id] = <<>>
    BY <1>2, <1>3, <2>1, EntriesOpen DEF Err
  <2>2. CASE put[id] # <<>>
    <3>1. DecryptSeed(id) = Ok(put[id][1])
      BY <2>2, EntriesOpen
    <3>2. put[id][1] = seed
      BY <1>3, <3>1, OkOut
    <3> QED
      BY <2>2, <3>2 DEF StoreInv, Holds
  <2> QED
    BY <2>1, <2>2
<1>4. Cardinality({id \in Ids : DecryptSeed(id).out = seed}) <= 1
  <2> DEFINE A == {id \in Ids : DecryptSeed(id).out = seed}
  <2>1. \A i, j \in A : i = j
    BY <1>1, <1>3 DEF Kept
  <2>2. CASE A = {}
    BY <2>2, FS_EmptySet
  <2>3. CASE A # {}
    <3>1. PICK a : A = {a}
      BY <2>1, <2>3
    <3>2. Cardinality(A) = 1
      BY <3>1, FS_Singleton
    <3> QED
      BY <3>2
  <2> QED
    BY <2>2, <2>3
<1> QED
  BY <1>1, <1>3, <1>4 DEF Kept

(* Storing bytes that are not an unshared key, or deleting, shares none. *)
LEMMA StoreKeepsKept ==
  ASSUME StoreInv, KeptInv, NEW id \in Ids, NEW seed, NEW x, Store(id, seed, x),
         UNCHANGED <<held, fate>>,
         \A s \in Drawn : fate[s] # Spread => s # seed
  PROVE  KeptInv'
<1> SUFFICES ASSUME NEW s \in Drawn, fate[s] # Spread PROVE Kept(s)'
  BY DEF KeptInv, Kept
<1>1. \A i \in Ids : put'[i] = <<s>> => i # id /\ put[i] = <<s>> /\ entries'[i] = entries[i]
  BY DEF Store, StoreInv
<1> QED
  BY <1>1 DEF KeptInv, Kept

(* A caller receives bytes that are not an unshared key. *)
LEMMA ReceiveKeepsKept ==
  ASSUME KeptInv, NEW bytes, Receive(bytes), UNCHANGED <<entries, put, fate>>,
         \A s \in Drawn : fate[s] # Spread => s # bytes
  PROVE  KeptInv'
<1>1. held'.bytes = bytes
  BY DEF Receive
<1> QED
  BY <1>1 DEF KeptInv, Kept

LEMMA KeptInvKept ==
  ASSUME KeptInv, UNCHANGED <<entries, put, fate, held>>
  PROVE  KeptInv'
BY DEF KeptInv, Kept

LEMMA GenerateKeepsKept ==
  ASSUME StoreInv, KeptInv, NEW id \in Ids, NEW x \in BOOLEAN, Generate(id, x)
  PROVE  KeptInv'
<1>1. PICK seed \in Drawn : /\ fate[seed] = Unborn
                            /\ Store(id, seed, x)
                            /\ fate' = Mark(seed, IF x THEN Spread ELSE Inside)
  BY DEF Generate
<1>2. held' = held
  BY DEF Generate
<1>3. fate' = [fate EXCEPT ![seed] = IF x THEN Spread ELSE Inside]
  BY <1>1 DEF Mark, KeptInv
<1>4. ASSUME NEW s \in Drawn, fate'[s] # Spread PROVE Kept(s)'
  <2>1. CASE s # seed
    <3>1. fate'[s] = fate[s]
      BY <1>3, <2>1 DEF KeptInv
    <3>2. \A i \in Ids : put'[i] = <<s>> => i # id /\ put[i] = <<s>> /\ entries'[i] = entries[i]
      BY <1>1, <2>1 DEF Store, StoreInv
    <3> QED
      BY <1>2, <1>4, <3>1, <3>2 DEF KeptInv, Kept
  <2>2. CASE s = seed
    <3>1. ~x /\ fate'[seed] = Inside
      BY <1>3, <1>4, <2>2 DEF KeptInv
    <3>2. \A i \in Ids : put[i] # <<seed>>
      BY <1>1 DEF KeptInv, Kept, Unborn, Spread, Inside
    <3>3. \A i \in Ids : put'[i] = <<seed>> => i = id
      BY <1>1, <3>2 DEF Store, StoreInv
    <3>4. entries'[id] = EncryptSeed(id, seed, x)
      BY <1>1 DEF Store, StoreInv
    <3>5. ~entries'[id].exportable
      BY <3>1, <3>4 DEF EncryptSeed
    <3>6. held.bytes # seed
      BY <1>1 DEF KeptInv, Kept, Unborn, Spread
    <3> QED
      BY <1>2, <2>2, <3>1, <3>3, <3>5, <3>6 DEF Kept
  <2> QED
    BY <2>1, <2>2
<1> QED
  BY <1>3, <1>4 DEF KeptInv, Kept

LEMMA BackupKeepsKept ==
  ASSUME StoreInv, KeptInv, NEW id \in Ids, NEW t, NEW n, Backup(id, t, n)
  PROVE  KeptInv'
<1>1. UNCHANGED <<entries, held, put>>
  BY DEF Backup
<1>2. fate' = fate \/ fate' = Mark(DecryptSeed(id).out, Spread)
  BY DEF Backup
<1>3. DOMAIN fate' = Drawn /\ \A s \in Drawn : fate'[s] # Spread => fate'[s] = fate[s]
  BY <1>2 DEF Mark, KeptInv
<1> QED
  BY <1>1, <1>3 DEF KeptInv, Kept

LEMMA NextKeepsKept ==
  ASSUME StoreInv, KeptInv, Unguessed, [Next]_vars
  PROVE  KeptInv'
<1>1. ASSUME NEW p, NEW s, OpenStore(p, s) PROVE KeptInv'
  <2>1. put' = [i \in Ids |-> <<>>] /\ UNCHANGED <<held, fate>>
    BY <1>1 DEF OpenStore
  <2>2. \A s1 \in Drawn, i \in Ids : put'[i] # <<s1>>
    BY <2>1
  <2> QED
    BY <2>1, <2>2 DEF KeptInv, Kept
<1>2. ASSUME NEW id \in Ids, NEW x \in BOOLEAN, Generate(id, x) PROVE KeptInv'
  BY <1>2, GenerateKeepsKept
<1>3. ASSUME NEW id \in Ids, NEW x \in BOOLEAN, NEW seed \in Imported, Import(id, seed, x)
      PROVE  KeptInv'
  <2>1. \A s \in Drawn : fate[s] # Spread => s # seed
    BY DEF Unguessed
  <2> QED
    BY <1>3, <2>1, StoreKeepsKept DEF Import
<1>4. ASSUME NEW id, Use(id) PROVE KeptInv'
  BY <1>4, KeptInvKept DEF Use
<1>5. ASSUME NEW id \in Ids, Delete(id) PROVE KeptInv'
  <2>1. \A s \in Drawn, i \in Ids :
          put'[i] = <<s>> => i # id /\ put[i] = <<s>> /\ entries'[i] = entries[i]
    BY <1>5 DEF Delete, StoreInv
  <2>2. UNCHANGED <<held, fate>>
    BY <1>5 DEF Delete
  <2> QED
    BY <2>1, <2>2 DEF KeptInv, Kept
<1>6. ASSUME NEW id \in Ids, Export(id) PROVE KeptInv'
  <2> DEFINE seed == DecryptSeed(id).out
  <2>1. entries[id] # None /\ entries[id].exportable /\ Receive(seed)
    BY <1>6 DEF Export
  <2>2. put[id] # <<>> /\ put[id] = <<put[id][1]>>
    BY <2>1, EntriesOpen DEF StoreInv, Holds
  <2>3. DecryptSeed(id) = Ok(put[id][1])
    BY <2>2, EntriesOpen
  <2>4. seed = put[id][1]
    BY <2>3, OkOut
  <2> HIDE DEF seed
  <2>5. \A s \in Drawn : fate[s] # Spread => s # seed
    BY <2>1, <2>2, <2>4 DEF KeptInv, Kept
  <2> QED
    BY <1>6, <2>1, <2>5, ReceiveKeepsKept DEF Export
<1>7. ASSUME NEW id \in Ids, NEW p \in Params, Backup(id, p[1], p[2]) PROVE KeptInv'
  BY <1>7, BackupKeepsKept
<1>8. ASSUME NEW index, NEW m, WrapBytes(index, m) PROVE KeptInv'
  BY <1>8, KeptInvKept DEF WrapBytes
<1>9. ASSUME NEW s \in shares, UnwrapBytes(s) PROVE KeptInv'
  <2>1. \A s1 \in Drawn : fate[s1] # Spread => s1 # Unwrap(Kek, s.wrapped).out
    BY DEF Unguessed
  <2> QED
    BY <1>9, <2>1, ReceiveKeepsKept DEF UnwrapBytes
<1>10. ASSUME NEW k \in 2 .. 3, NEW T \in kSubset(k, shares), Restore(T) PROVE KeptInv'
  <2> DEFINE result == RestoreSeed(SetToSeq(T))
  <2>1. /\ UNCHANGED <<held, fate>>
        /\ \/ \E id \in Ids, x \in BOOLEAN : Store(id, result.out, x)
           \/ UNCHANGED <<entries, put>>
    BY <1>10 DEF Restore
  <2>2. \A s \in Drawn : fate[s] # Spread => s # result.out
    BY DEF Unguessed
  <2> HIDE DEF result
  <2> QED
    BY <2>1, <2>2, StoreKeepsKept, KeptInvKept
<1>11. CASE DropSecret
  <2>1. held'.bytes = <<>> /\ UNCHANGED <<entries, put, fate>>
    BY <1>11 DEF DropSecret, Free
  <2>2. \A s \in Drawn : s # <<>>
    <3>1. \A s \in Drawn : Len(s) # 0
      BY KeyStoreAssumption, CipherAssumption
    <3> QED
      BY <3>1
  <2> QED
    BY <2>1, <2>2 DEF KeptInv, Kept
<1>12. CASE UNCHANGED vars
  BY <1>12, KeptInvKept DEF vars
<1> QED
  BY <1>1, <1>2, <1>3, <1>4, <1>5, <1>6, <1>7, <1>8, <1>9, <1>10, <1>11, <1>12 DEF Next

(* generate, export, delete and backup: as long as nobody guesses it, a    *)
(* key generated non-exportable and never backed up is in no caller's      *)
(* hands, in at most one entry, and in none that can be exported.          *)
THEOREM UnbackedKeysStay == Spec /\ []Unguessed => []UnbackedKeyStays
<1>1. Init => StoreInv /\ KeptInv
  <2>1. Init => StoreInv
    BY KeyStoreAssumption DEF Init, StoreInv, Holds
  <2>2. \A s \in Drawn : s # <<>>
    <3>1. \A s \in Drawn : Len(s) # 0
      BY KeyStoreAssumption, CipherAssumption
    <3> QED
      BY <3>1
  <2>3. Init => KeptInv
    BY <2>2 DEF Init, KeptInv, Kept, Free, Unborn
  <2> QED
    BY <2>1, <2>3
<1>2. StoreInv /\ KeptInv /\ Unguessed /\ [Next]_vars => (StoreInv /\ KeptInv)'
  BY NextKeepsStore, NextKeepsKept
<1>3. StoreInv /\ KeptInv => UnbackedKeyStays
  BY KeptFollows
<1> QED
  BY <1>1, <1>2, <1>3, PTL DEF Spec

-------------------------------------------------------------------------------
(* restore: fewer than two shares, a share that another key-encryption key *)
(* wrapped, and the same share twice are refused, each with its own error; *)
(* for shares of any backups, in any order.                                *)
THEOREM RestoreRefuses ==
  ASSUME NEW seq \in Seq(shares)
  PROVE  /\ Len(seq) < 2 => RestoreSeed(seq) = Err("InsufficientShares")
         /\ Len(seq) >= 2 /\ (\E i \in DOMAIN seq : seq[i].wrapped.key # Kek)
              => RestoreSeed(seq) = Err("WrongKey")
         /\ (\A i \in DOMAIN seq : IsOk(Unwrap(Kek, seq[i].wrapped)))
              /\ seq # <<>> /\ Unwrap(Kek, seq[1].wrapped).out # <<>>
              => RestoreSeed(seq \o <<seq[1]>>) = Err("BadParams")
<1>1. Len(seq) < 2 => RestoreSeed(seq) = Err("InsufficientShares")
  BY DEF RestoreSeed
<1>2. ASSUME Len(seq) >= 2, NEW i \in DOMAIN seq, seq[i].wrapped.key # Kek
      PROVE  RestoreSeed(seq) = Err("WrongKey")
  <2>1. Unwrap(Kek, seq[i].wrapped) \in {Err("BadKeyLength"), Err("Aead")}
    BY <1>2 DEF Unwrap, Open
  <2>2. ~IsOk(Unwrap(Kek, seq[i].wrapped))
    <3>1. ~IsOk(Err("BadKeyLength")) /\ ~IsOk(Err("Aead"))
      BY DEF IsOk, Err
    <3> QED
      BY <2>1, <3>1
  <2>3. ~(Len(seq) < 2)
    BY <1>2
  <2> QED
    BY <2>2, <2>3 DEF RestoreSeed
<1>3. ASSUME \A i \in DOMAIN seq : IsOk(Unwrap(Kek, seq[i].wrapped)),
             seq # <<>>, Unwrap(Kek, seq[1].wrapped).out # <<>>
      PROVE  RestoreSeed(seq \o <<seq[1]>>) = Err("BadParams")
  <2> DEFINE twice == seq \o <<seq[1]>>
             parts == [i \in DOMAIN twice |->
                        [index |-> twice[i].index, body |-> Unwrap(Kek, twice[i].wrapped).out]]
             last == Len(seq) + 1
  <2>1. /\ Len(seq) \in Nat \ {0} /\ seq[1] \in shares
        /\ DOMAIN twice = 1 .. last /\ Len(twice) = last
        /\ twice[1] = seq[1] /\ twice[last] = seq[1]
        /\ \A i \in DOMAIN seq : twice[i] = seq[i]
    BY <1>3
  <2>2. 1 \in DOMAIN twice /\ last \in DOMAIN twice /\ last # 1 /\ ~(Len(twice) < 2)
        /\ \A i \in DOMAIN twice : twice[i] = IF i = last THEN seq[1] ELSE seq[i]
    BY <2>1
  <2>3. \A i \in DOMAIN twice : IsOk(Unwrap(Kek, twice[i].wrapped))
    BY <1>3, <2>1, <2>2
  <2> HIDE DEF twice, last
  <2>4. parts[1].index = parts[last].index /\ parts[1].body # <<>>
    BY <1>3, <2>1, <2>2
  <2>5. Collide(parts)
    BY <2>2, <2>4 DEF Collide
  <2>6. RestoreSeed(twice) = Err("BadParams")
    BY <2>2, <2>3, <2>5 DEF RestoreSeed
  <2> QED
    BY <2>6 DEF twice
<1> QED
  BY <1>1, <1>2, <1>3

-------------------------------------------------------------------------------
(* Everything the store seals is a string of bytes.                        *)
Seeds == {m \in Seq(Byte) : Len(m) \in Lengths}
BytesInv ==
  /\ kekPage \in Pages \cup {0} /\ held.page \in Pages \cup {-1, 0}
  /\ \A id \in Ids : put[id] # <<>> => put[id][1] \in Seeds
  /\ \A id \in Ids : entries[id].exportable \in BOOLEAN
  /\ IsFiniteSet(shares)
  /\ \A s \in shares : s.index \in Byte /\ s.wrapped.msg \in Seeds

LEMMA ConstantSeeds ==
  /\ \A s \in Drawn : s \in Seeds
  /\ \A m \in Plaintexts : m \in Seeds
  /\ \A s \in Imported : Len(s) = KeyLen => s \in Seeds
  /\ KeyLen \in Lengths /\ Lengths \subseteq Nat
<1>1. KeyLen \in Lengths /\ \A m \in Plaintexts : Len(m) \in Lengths
  BY DEF Lengths
<1>2. Drawn \subseteq Seq(Byte) /\ Imported \subseteq Seq(Byte) /\ Plaintexts \subseteq Seq(Byte)
  BY KeyStoreAssumption
<1>3. \A s \in Drawn : Len(s) = KeyLen
  BY KeyStoreAssumption
<1>4. Lengths \subseteq Nat
  <2>1. \A m \in Plaintexts : Len(m) \in Nat
    BY <1>2
  <2> QED
    BY <2>1, CipherAssumption DEF Lengths
<1> QED
  BY <1>1, <1>2, <1>3, <1>4 DEF Seeds

(* SetToSeq gives the members in some order. *)
LEMMA InSomeOrder ==
  ASSUME NEW T, IsFiniteSet(T)
  PROVE  Cardinality(T) \in Nat /\ SetToSeq(T) \in [1 .. Cardinality(T) -> T]
<1>1. Cardinality(T) \in Nat /\ ExistsBijection(1 .. Cardinality(T), T)
  BY FS_CardinalityType
<1>2. \E f \in [1 .. Cardinality(T) -> T] : IsInjective(f)
  BY <1>1 DEF ExistsBijection, Bijection, Injection
<1> QED
  BY <1>1, <1>2 DEF SetToSeq

(* What unwraps, unwraps to what was wrapped. *)
LEMMA UnwrapsTo ==
  ASSUME NEW key, NEW c, IsOk(Unwrap(key, c))
  PROVE  Unwrap(key, c).out = c.msg
<1>1. ~IsOk(Err("BadKeyLength")) /\ ~IsOk(Err("Aead"))
  BY DEF IsOk, Err
<1>2. Unwrap(key, c) = Ok(c.msg)
  BY <1>1 DEF Unwrap, Open
<1> QED
  BY <1>2, OkOut

(* Interpolating bytes gives bytes. *)
LEMMA ReconstructsBytes ==
  ASSUME NEW n \in Nat, NEW xs \in [1 .. n -> Byte], NEW ys \in [1 .. n -> Byte]
  PROVE  S!Reconstruct(Shared(xs, ys, n)) \in Byte
<1>1. S!Reconstruct(Shared(xs, ys, n))
        = Interpolate(XorTable, XorTable, MulTable, InvTable, xs, 1 .. n, ys, n)
  BY ByteReconstruct
<1>2. Interpolate(XorTable, XorTable, MulTable, InvTable, xs, 1 .. n, ys, n) \in Byte
  BY ByteFieldAssumption, WeightedType
<1> QED
  BY <1>1, <1>2

(* restore gives a seed of bytes, as long as the shares it was given. *)
LEMMA RestoresSeeds ==
  ASSUME NEW n \in Nat, NEW seq \in [1 .. n -> shares], IsOk(RestoreSeed(seq)),
         \A s \in shares : s.index \in Byte /\ s.wrapped.msg \in Seeds
  PROVE  RestoreSeed(seq).out \in Seeds
<1> DEFINE parts == [i \in DOMAIN seq |-> [index |-> seq[i].index, body |-> Unwrap(Kek, seq[i].wrapped).out]]
           out == ReconstructSeed(parts)
<1>0. DOMAIN seq = 1 .. n /\ Len(seq) = n
  BY SeqLength
<1>1. ~IsOk(Err("InsufficientShares")) /\ ~IsOk(Err("WrongKey")) /\ ~IsOk(Err("BadParams"))
  BY DEF IsOk, Err
<1>2. /\ ~(Len(seq) < 2) /\ \A i \in DOMAIN seq : IsOk(Unwrap(Kek, seq[i].wrapped))
      /\ ~Ragged(parts) /\ RestoreSeed(seq) = Ok(out)
  BY <1>1 DEF RestoreSeed
<1>3. 1 \in 1 .. n /\ DOMAIN parts = 1 .. n
  BY <1>0, <1>2
<1>4. \A i \in 1 .. n : parts[i].body = seq[i].wrapped.msg /\ parts[i].body \in Seeds /\ parts[i].index \in Byte
  BY <1>0, <1>2, UnwrapsTo
<1>5. \A i \in 1 .. n : Len(parts[i].body) = Len(parts[1].body)
  BY <1>2, <1>3 DEF Ragged
<1> DEFINE l == Len(parts[1].body)
           xs == [i \in 1 .. n |-> parts[i].index]
<1>a. out = [b \in DOMAIN parts[1].body |->
               S!Reconstruct([i \in DOMAIN parts |-> [x |-> parts[i].index, y |-> parts[i].body[b]]])]
  BY DEF ReconstructSeed
<1> HIDE DEF parts, out
<1>6. l \in Lengths /\ l \in Nat /\ \A i \in 1 .. n : parts[i].body \in [1 .. l -> Byte]
  <2>1. l \in Lengths /\ \A i \in 1 .. n : parts[i].body \in Seq(Byte)
    BY <1>3, <1>4 DEF Seeds
  <2>2. \A i \in 1 .. n : parts[i].body \in [1 .. Len(parts[i].body) -> Byte]
    BY <2>1
  <2> QED
    BY <1>5, <2>1, <2>2, ConstantSeeds
<1>7. DOMAIN parts[1].body = 1 .. l
  BY <1>3, <1>6
<1> HIDE DEF l
<1>8. ASSUME NEW b \in 1 .. l
      PROVE  S!Reconstruct([i \in DOMAIN parts |-> [x |-> parts[i].index, y |-> parts[i].body[b]]]) \in Byte
  <2> DEFINE ys == [i \in 1 .. n |-> parts[i].body[b]]
  <2>1. xs \in [1 .. n -> Byte] /\ ys \in [1 .. n -> Byte]
    BY <1>4, <1>6
  <2>2. [i \in DOMAIN parts |-> [x |-> parts[i].index, y |-> parts[i].body[b]]] = Shared(xs, ys, n)
    BY <1>3 DEF Shared
  <2> HIDE DEF xs, ys
  <2> QED
    BY <2>1, <2>2, ReconstructsBytes
<1>9. out \in [1 .. l -> Byte]
  BY <1>a, <1>7, <1>8
<1>10. out \in Seq(Byte) /\ Len(out) = l
  BY <1>6, <1>9, SeqLength
<1>11. RestoreSeed(seq).out = out
  BY <1>2, OkOut
<1> QED
  BY <1>6, <1>10, <1>11 DEF Seeds

(* backup: share i of a seed holds, of each byte, the byte's polynomial    *)
(* at i.                                                                   *)
Polynomial(seed, t, draw, b) == <<seed[b]>> \o [d \in 1 .. t - 1 |-> Coefficient(draw, b, d)]
BodyAt(seed, t, draw, i) == [b \in DOMAIN seed |-> S!Eval(Polynomial(seed, t, draw, b), i)]
ShareAt(key, seed, t, draw, batch, i) ==
  [index |-> i, wrapped |-> Wrap(key, BodyAt(seed, t, draw, i)),
   of |-> [batch |-> batch, t |-> t, seed |-> seed]]

LEMMA SharesAre ==
  ASSUME NEW seed, NEW t, NEW n, NEW draw, NEW batch
  PROVE  WrapShares(seed, t, n, draw, batch)
           = {ShareAt(Kek, seed, t, draw, batch, i) : i \in 1 .. n}
<1> DEFINE tail == [b \in DOMAIN seed |-> [d \in 1 .. t - 1 |-> Coefficient(draw, b, d)]]
           parts == SplitSeed(seed, t, n, tail)
<1>1. ASSUME NEW i \in 1 .. n PROVE parts[i] = [index |-> i, body |-> BodyAt(seed, t, draw, i)]
  <2>1. \A b \in DOMAIN seed : S!Split(<<seed[b]>> \o tail[b], n)[i].y = S!Eval(<<seed[b]>> \o tail[b], i)
    BY DEF S!Split
  <2>2. \A b \in DOMAIN seed : <<seed[b]>> \o tail[b] = Polynomial(seed, t, draw, b)
    BY DEF Polynomial
  <2> HIDE DEF tail
  <2>3. [b \in DOMAIN seed |-> S!Split(<<seed[b]>> \o tail[b], n)[i].y] = BodyAt(seed, t, draw, i)
    BY <2>1, <2>2 DEF BodyAt
  <2> QED
    BY <2>3 DEF SplitSeed
<1> HIDE DEF parts
<1>2. ASSUME NEW i \in 1 .. n
      PROVE  [index |-> parts[i].index, wrapped |-> Wrap(Kek, parts[i].body),
              of |-> [batch |-> batch, t |-> t, seed |-> seed]] = ShareAt(Kek, seed, t, draw, batch, i)
  <2> DEFINE body == BodyAt(seed, t, draw, i)
  <2>0. parts[i] = [index |-> i, body |-> body]
    BY <1>1
  <2> HIDE DEF body
  <2>1. parts[i].index = i /\ parts[i].body = body
    BY <2>0
  <2> QED
    BY <2>1 DEF ShareAt, body
<1>3. WrapShares(seed, t, n, draw, batch)
        = {[index |-> parts[i].index, wrapped |-> Wrap(Kek, parts[i].body),
            of |-> [batch |-> batch, t |-> t, seed |-> seed]] : i \in 1 .. n}
  BY DEF WrapShares, parts
<1> QED
  BY <1>2, <1>3

LEMMA PolynomialType ==
  ASSUME NEW seed \in Seeds, NEW t \in Byte, t # 0, NEW draw \in Draws, NEW b \in DOMAIN seed
  PROVE  /\ Polynomial(seed, t, draw, b) \in [1 .. t -> Byte]
         /\ Polynomial(seed, t, draw, b)[1] = seed[b]
         /\ t \in Nat \ {0}
<1> DEFINE tail == [d \in 1 .. t - 1 |-> Coefficient(draw, b, d)]
<1>1. t \in Nat \ {0} /\ t <= 2^W - 1 /\ 2^W \in Nat
  BY FieldAssumption DEF Byte
<1>2. seed \in Seq(Byte) /\ Len(seed) \in Lengths /\ b \in 1 .. Len(seed) /\ seed[b] \in Byte
  BY DEF Seeds
<1>3. ASSUME NEW d \in 1 .. t - 1 PROVE Coefficient(draw, b, d) \in Byte
  <2>1. \A n \in Lengths : \A c \in 1 .. n, k \in 1 .. 2^W - 1 : Coefficient(draw, c, k) \in Byte
    BY KeyStoreAssumption
  <2>2. d \in 1 .. 2^W - 1
    BY <1>1
  <2> QED
    BY <1>2, <2>1, <2>2
<1>4. tail \in [1 .. t - 1 -> Byte]
  BY <1>3
<1> HIDE DEF tail
<1> QED
  BY <1>1, <1>2, <1>4, Prefixed DEF Polynomial, tail

LEMMA BodyType ==
  ASSUME NEW seed \in Seeds, NEW t \in Byte, t # 0, NEW draw \in Draws, NEW i \in Byte
  PROVE  BodyAt(seed, t, draw, i) \in Seeds /\ Len(BodyAt(seed, t, draw, i)) = Len(seed)
         /\ DOMAIN BodyAt(seed, t, draw, i) = DOMAIN seed
<1> DEFINE l == Len(seed)
           body == BodyAt(seed, t, draw, i)
<1>1. seed \in Seq(Byte) /\ l \in Nat /\ l \in Lengths /\ DOMAIN seed = 1 .. l
  BY DEF Seeds
<1>2. ASSUME NEW b \in DOMAIN seed PROVE S!Eval(Polynomial(seed, t, draw, b), i) \in Byte
  <2> DEFINE p == Polynomial(seed, t, draw, b)
  <2>1. p \in [1 .. t -> Byte] /\ t \in Nat \ {0}
    BY PolynomialType
  <2> HIDE DEF p
  <2>2. PICK a : Rounds(Byte, XorTable, MulTable, i, Downward(p, t), t, a) /\ a[t] = S!Eval(p, i)
    BY <2>1, ByteEval
  <2>3. a[t] \in Byte
    BY <2>1, <2>2 DEF Rounds
  <2> QED
    BY <2>2, <2>3 DEF p
<1>3. body \in [1 .. l -> Byte]
  BY <1>1, <1>2 DEF BodyAt
<1> HIDE DEF body, l
<1>4. body \in Seq(Byte) /\ Len(body) = l /\ DOMAIN body = 1 .. l
  BY <1>1, <1>3, SeqLength
<1> QED
  BY <1>1, <1>4 DEF Seeds, body, l

LEMMA SharesFinite ==
  ASSUME NEW n \in Nat, NEW key, NEW seed, NEW t, NEW draw, NEW batch
  PROVE  IsFiniteSet({ShareAt(key, seed, t, draw, batch, i) : i \in 1 .. n})
<1> DEFINE M == {ShareAt(key, seed, t, draw, batch, i) : i \in 1 .. n}
           f == [i \in 1 .. n |-> ShareAt(key, seed, t, draw, batch, i)]
<1>1. f \in Surjection(1 .. n, M)
  BY DEF Surjection
<1>2. IsFiniteSet(1 .. n)
  BY FS_Interval
<1> HIDE DEF M, f
<1>3. IsFiniteSet(M)
  BY <1>1, <1>2, FS_Surjection
<1> QED
  BY <1>3 DEF M

-------------------------------------------------------------------------------
(* The shares of a backup, of whichever store it was made in. *)
Backed(k, c, given) ==
  \A s \in given : s.of.batch = k =>
    /\ c.seed \in Seeds /\ c.t \in Byte /\ c.t # 0 /\ c.draw \in Draws
    /\ s.index \in Byte /\ s = ShareAt(c.key, c.seed, c.t, c.draw, k, s.index)
BatchInv ==
  /\ calls \in Nat
  /\ \A s \in shares : s.of.batch \in 0 .. calls
  /\ \A k \in 1 .. calls : \E c : Backed(k, c, shares)

LEMMA BackupKeeps ==
  ASSUME StoreInv, BytesInv, BatchInv, NEW id \in Ids, NEW p \in Params, Backup(id, p[1], p[2])
  PROVE  BytesInv' /\ BatchInv'
<1> DEFINE t == p[1]
           n == p[2]
           seed == DecryptSeed(id).out
<1>0. t \in Byte /\ n \in Byte /\ Byte \subseteq Nat
  BY KeyStoreAssumption, FieldAssumption DEF Byte
<1>1. UNCHANGED <<pass, salt, kekPage, entries, held, put>> /\ IsOk(DecryptSeed(id))
  BY DEF Backup
<1>2. CASE ~S!SplitParams(t, n)
  <2>1. UNCHANGED <<shares, calls>>
    BY <1>2 DEF Backup
  <2> QED
    BY <1>1, <2>1 DEF BytesInv, BatchInv
<1>3. CASE S!SplitParams(t, n)
  <2>1. PICK draw \in Draws : calls' = calls + 1 /\ shares' = shares \cup WrapShares(seed, t, n, draw, calls + 1)
    BY <1>3 DEF Backup
  <2> DEFINE M == {ShareAt(Kek, seed, t, draw, calls + 1, i) : i \in 1 .. n}
  <2>2. shares' = shares \cup M
    BY <2>1, SharesAre
  <2>3. seed \in Seeds
    <3>1. put[id] # <<>> /\ DecryptSeed(id) = Ok(put[id][1])
      <4>1. ~IsOk(Err("NotFound"))
        BY DEF IsOk, Err
      <4> QED
        BY <1>1, <4>1, EntriesOpen
    <3> QED
      BY <3>1, OkOut DEF BytesInv
  <2>4. t # 0 /\ n \in Nat /\ t \in Byte
    BY <1>0, <1>3 DEF S!SplitParams
  <2> HIDE DEF seed, t, n
  <2>5. \A i \in 1 .. n : i \in Byte
    BY <1>0, FieldAssumption DEF Byte
  <2>6. ASSUME NEW i \in 1 .. n
        PROVE  LET s == ShareAt(Kek, seed, t, draw, calls + 1, i) IN
                 /\ s.index = i /\ s.wrapped.msg \in Seeds /\ s.of.batch = calls + 1
    <3>1. BodyAt(seed, t, draw, i) \in Seeds
      BY <2>3, <2>4, <2>5, BodyType
    <3> QED
      BY <3>1 DEF ShareAt, Wrap, Seal
  <2>7. \A s \in M : s.index \in Byte /\ s.wrapped.msg \in Seeds /\ s.of.batch = calls + 1
    BY <2>5, <2>6
  <2>8. \A s \in M : s = ShareAt(Kek, seed, t, draw, calls + 1, s.index)
    BY <2>6
  <2>9. IsFiniteSet(shares')
    <3>1. IsFiniteSet(M)
      BY <2>4, SharesFinite
    <3> HIDE DEF M
    <3> QED
      BY <2>2, <3>1, FS_Union DEF BytesInv
  <2> HIDE DEF M
  <2>10. BytesInv'
    BY <1>1, <2>2, <2>7, <2>9 DEF BytesInv
  <2>11. calls' \in Nat /\ \A s \in shares' : s.of.batch \in 0 .. calls'
    BY <2>1, <2>2, <2>7 DEF BatchInv
  <2>12. ASSUME NEW k \in 1 .. calls' PROVE \E c : Backed(k, c, shares')
    <3>1. CASE k = calls + 1
      <4> DEFINE c == [key |-> Kek, seed |-> seed, t |-> t, draw |-> draw]
      <4>1. \A s \in shares' : s.of.batch = k => s \in M
        BY <2>2, <3>1 DEF BatchInv
      <4>2. Backed(k, c, shares')
        BY <2>3, <2>4, <2>7, <2>8, <3>1, <4>1 DEF Backed
      <4> QED
        BY <4>2
    <3>2. CASE k # calls + 1
      <4>1. k \in 1 .. calls
        BY <2>1, <3>2 DEF BatchInv
      <4>2. PICK c : Backed(k, c, shares)
        BY <4>1 DEF BatchInv
      <4>3. \A s \in shares' : s.of.batch = k => s \in shares
        BY <2>2, <2>7, <3>2
      <4>4. Backed(k, c, shares')
        BY <4>2, <4>3 DEF Backed
      <4> QED
        BY <4>4
    <3> QED
      BY <3>1, <3>2
  <2>13. BatchInv'
    BY <2>11, <2>12 DEF BatchInv
  <2> QED
    BY <2>10, <2>13
<1> QED
  BY <1>2, <1>3

(* A call that backs nothing up leaves every backup as it was; the next    *)
(* one has no shares yet.                                                  *)
LEMMA MoreBatches ==
  ASSUME BatchInv, calls' = calls + 1, \A s \in shares' : s.of.batch \in 0 .. calls',
         \A s \in shares' : s.of.batch # 0 => s \in shares
  PROVE  BatchInv'
<1>1. calls \in Nat /\ calls' \in Nat
  BY DEF BatchInv
<1>2. ASSUME NEW k \in 1 .. calls' PROVE \E c : Backed(k, c, shares')
  <2>1. \A s \in shares' : s.of.batch = k => s \in shares /\ k \in 1 .. calls
    BY <1>1 DEF BatchInv
  <2>2. CASE k \in 1 .. calls
    <3>1. PICK c : Backed(k, c, shares)
      BY <2>2 DEF BatchInv
    <3>2. Backed(k, c, shares')
      BY <2>1, <3>1 DEF Backed
    <3> QED
      BY <3>2
  <2>3. CASE k \notin 1 .. calls
    <3>1. Backed(k, 0, shares')
      BY <2>1, <2>3 DEF Backed
    <3> QED
      BY <3>1
  <2> QED
    BY <2>2, <2>3
<1> QED
  BY <1>1, <1>2 DEF BatchInv

LEMMA LaterBatches ==
  ASSUME BatchInv, calls' = calls + 1, shares' = shares
  PROVE  BatchInv'
<1>1. \A s \in shares' : s.of.batch \in 0 .. calls'
  BY DEF BatchInv
<1> QED
  BY <1>1, MoreBatches

(* A seed is stored, or an entry goes. *)
LEMMA StoreKeepsBytes ==
  ASSUME StoreInv, BytesInv, BatchInv, NEW id \in Ids, NEW seed \in Seeds, NEW x \in BOOLEAN,
         Store(id, seed, x), UNCHANGED <<kekPage, held, shares>>
  PROVE  BytesInv' /\ BatchInv'
<1>1. \A i \in Ids : put'[i] = IF i = id THEN <<seed>> ELSE put[i]
  BY DEF Store, StoreInv
<1>2. \A i \in Ids : entries'[i] = IF i = id THEN EncryptSeed(id, seed, x) ELSE entries[i]
  BY DEF Store, StoreInv
<1>3. EncryptSeed(id, seed, x).exportable = x /\ <<seed>>[1] = seed
  BY DEF EncryptSeed
<1>4. calls' = calls + 1
  BY DEF Store
<1>5. BytesInv'
  <2>1. \A i \in Ids : put'[i] # <<>> => put'[i][1] \in Seeds
    BY <1>1, <1>3 DEF BytesInv
  <2>2. \A i \in Ids : entries'[i].exportable \in BOOLEAN
    BY <1>2, <1>3 DEF BytesInv
  <2> QED
    BY <2>1, <2>2 DEF BytesInv
<1> QED
  BY <1>4, <1>5, LaterBatches

LEMMA BytesKept ==
  ASSUME BytesInv, BatchInv, UNCHANGED <<kekPage, entries, shares, put, calls>>,
         held'.page \in Pages \cup {-1, 0}
  PROVE  BytesInv' /\ BatchInv'
BY DEF BytesInv, BatchInv, Backed

LEMMA NextKeepsBytes ==
  ASSUME StoreInv, BytesInv, BatchInv, [Next]_vars
  PROVE  BytesInv' /\ BatchInv'
<1>0. ASSUME NEW bytes, Receive(bytes) PROVE held'.page \in Pages \cup {-1, 0}
  BY <1>0 DEF Receive
<1>00. ASSUME held' = held PROVE held'.page \in Pages \cup {-1, 0}
  BY <1>00 DEF BytesInv
<1>1. ASSUME NEW p \in Passphrases, NEW s \in Salts, OpenStore(p, s) PROVE BytesInv' /\ BatchInv'
  <2>1. kekPage' \in Pages \cup {0} /\ UNCHANGED <<shares, held>> /\ calls' = calls + 1
    BY <1>1 DEF OpenStore
  <2>2. entries' = [i \in Ids |-> None] /\ put' = [i \in Ids |-> <<>>]
    BY <1>1 DEF OpenStore
  <2>3. None.exportable = FALSE
    BY DEF None
  <2>4. BytesInv'
    BY <2>1, <2>2, <2>3 DEF BytesInv
  <2> QED
    BY <2>1, <2>4, LaterBatches
<1>2. ASSUME NEW id \in Ids, NEW x \in BOOLEAN, Generate(id, x) PROVE BytesInv' /\ BatchInv'
  <2>1. PICK seed \in Drawn : Store(id, seed, x)
    BY <1>2 DEF Generate
  <2>2. UNCHANGED <<kekPage, held, shares>>
    BY <1>2 DEF Generate, memory
  <2> QED
    BY <2>1, <2>2, StoreKeepsBytes, ConstantSeeds
<1>3. ASSUME NEW id \in Ids, NEW x \in BOOLEAN, NEW seed \in Imported, Import(id, seed, x)
      PROVE  BytesInv' /\ BatchInv'
  <2>1. Store(id, seed, x) /\ Len(seed) = KeyLen /\ UNCHANGED <<kekPage, held, shares>>
    BY <1>3 DEF Import, memory
  <2> QED
    BY <2>1, StoreKeepsBytes, ConstantSeeds
<1>4. ASSUME NEW id \in Ids, Use(id) PROVE BytesInv' /\ BatchInv'
  BY <1>00, <1>4, BytesKept DEF Use
<1>5. ASSUME NEW id \in Ids, Delete(id) PROVE BytesInv' /\ BatchInv'
  <2>1. \A i \in Ids : entries'[i] = (IF i = id THEN None ELSE entries[i])
                       /\ put'[i] = (IF i = id THEN <<>> ELSE put[i])
    BY <1>5 DEF Delete, StoreInv
  <2>2. None.exportable = FALSE /\ UNCHANGED <<kekPage, shares, held, calls>>
    BY <1>5 DEF None, Delete, memory
  <2>3. BytesInv'
    BY <2>1, <2>2 DEF BytesInv
  <2> QED
    BY <2>2, <2>3 DEF BatchInv
<1>6. ASSUME NEW id \in Ids, Export(id) PROVE BytesInv' /\ BatchInv'
  BY <1>0, <1>6, BytesKept DEF Export
<1>7. ASSUME NEW id \in Ids, NEW p \in Params, Backup(id, p[1], p[2]) PROVE BytesInv' /\ BatchInv'
  BY <1>7, BackupKeeps
<1>8. ASSUME NEW index \in Indices, NEW m \in Plaintexts, WrapBytes(index, m) PROVE BytesInv' /\ BatchInv'
  <2> DEFINE w == [index |-> index, wrapped |-> Wrap(Kek, m), of |-> [batch |-> 0, t |-> 0, seed |-> m]]
  <2>1. calls' = calls + 1 /\ shares' = shares \cup {w} /\ UNCHANGED <<kekPage, entries, held, put>>
    BY <1>8 DEF WrapBytes, memory
  <2>2. w.index \in Byte /\ w.wrapped.msg \in Seeds /\ w.of.batch = 0
    BY KeyStoreAssumption, ConstantSeeds DEF Wrap, Seal
  <2> HIDE DEF w
  <2>3. IsFiniteSet(shares')
    BY <2>1, FS_AddElement DEF BytesInv
  <2>4. BytesInv'
    BY <2>1, <2>2, <2>3 DEF BytesInv
  <2>5. calls' \in Nat /\ \A s \in shares' : s.of.batch \in 0 .. calls'
    BY <2>1, <2>2 DEF BatchInv
  <2>6. \A s \in shares' : s.of.batch # 0 => s \in shares
    BY <2>1, <2>2
  <2> QED
    BY <2>1, <2>4, <2>5, <2>6, MoreBatches
<1>9. ASSUME NEW s \in shares, UnwrapBytes(s) PROVE BytesInv' /\ BatchInv'
  BY <1>0, <1>9, BytesKept DEF UnwrapBytes
<1>10. ASSUME NEW k \in 2 .. 3, NEW T \in kSubset(k, shares), Restore(T) PROVE BytesInv' /\ BatchInv'
  <2> DEFINE seq == SetToSeq(T)
             result == RestoreSeed(seq)
  <2>1. /\ UNCHANGED <<kekPage, held, shares>>
        /\ \/ IsOk(result) /\ \E id \in Ids, x \in BOOLEAN : Store(id, result.out, x)
           \/ UNCHANGED <<entries, put, calls>>
    BY <1>10 DEF Restore
  <2>2. T \subseteq shares /\ IsFiniteSet(T)
    <3>1. T \subseteq shares
      BY DEF kSubset
    <3> QED
      BY <3>1, FS_Subset DEF BytesInv
  <2>3. Cardinality(T) \in Nat /\ seq \in [1 .. Cardinality(T) -> shares]
    BY <2>2, InSomeOrder
  <2> HIDE DEF seq
  <2>4. IsOk(result) => result.out \in Seeds
    BY <2>3, RestoresSeeds DEF BytesInv
  <2> HIDE DEF result
  <2>5. CASE UNCHANGED <<entries, put, calls>>
    BY <1>00, <2>1, <2>5, BytesKept
  <2>6. CASE IsOk(result) /\ \E id \in Ids, x \in BOOLEAN : Store(id, result.out, x)
    BY <2>1, <2>4, <2>6, StoreKeepsBytes
  <2> QED
    BY <2>1, <2>5, <2>6
<1>11. CASE DropSecret
  <2>1. held'.page = -1
    BY <1>11 DEF DropSecret, Free
  <2> QED
    BY <1>11, <2>1, BytesKept DEF DropSecret
<1>12. CASE UNCHANGED vars
  BY <1>00, <1>12, BytesKept DEF vars
<1> QED
  BY <1>1, <1>2, <1>3, <1>4, <1>5, <1>6, <1>7, <1>8, <1>9, <1>10, <1>11, <1>12 DEF Next

LEMMA InitBytes ==
  ASSUME Init
  PROVE  BytesInv /\ BatchInv
<1>1. None.exportable = FALSE /\ Free.page = -1
  BY DEF None, Free
<1>2. BytesInv
  BY <1>1, FS_EmptySet DEF Init, BytesInv
<1>3. BatchInv
  <2>1. calls = 0 /\ shares = {}
    BY DEF Init
  <2>2. 1 .. calls = {}
    BY <2>1
  <2> QED
    BY <2>1, <2>2 DEF BatchInv
<1> QED
  BY <1>2, <1>3

LEMMA InitKept ==
  ASSUME Init
  PROVE  KeptInv
<1>1. \A s \in Drawn : Len(s) # 0
  BY KeyStoreAssumption, CipherAssumption
<1>2. \A s \in Drawn : s # <<>>
  BY <1>1
<1> QED
  BY <1>2 DEF Init, KeptInv, Kept, Free, Unborn

LEMMA TypeFollows ==
  ASSUME StoreInv, BytesInv, LocksInv
  PROVE  TypeOK
<1>1. pass \in Passphrases /\ salt \in Salts
  BY DEF StoreInv
<1>2. kekPage \in Pages \cup {0} /\ locked \subseteq Pages /\ held.page \in Pages \cup {-1, 0}
  BY DEF BytesInv, LocksInv
<1>3. ASSUME NEW id \in Ids, entries[id] # None
      PROVE  entries[id].sealed[1].msg \in Seq(Byte) /\ entries[id].exportable \in BOOLEAN
  <2>1. /\ put[id] = <<put[id][1]>>
        /\ entries[id] = EncryptSeed(id, put[id][1], entries[id].exportable)
    BY <1>3 DEF StoreInv, Holds
  <2> DEFINE seed == put[id][1]
  <2>2. seed \in Seeds
    <3>1. put[id] # <<>>
      BY <2>1
    <3> QED
      BY <3>1 DEF BytesInv
  <2> HIDE DEF seed
  <2>3. entries[id].sealed = <<Seal(Kek, Random, seed, id)>>
    BY <2>1 DEF EncryptSeed, seed
  <2>4. entries[id].sealed[1].msg = seed
    BY <2>3 DEF Seal
  <2> QED
    BY <2>2, <2>4 DEF BytesInv, Seeds
<1>4. \A s \in shares : s.index \in Byte /\ s.wrapped.msg \in Seq(Byte)
  BY DEF BytesInv, Seeds
<1> QED
  BY <1>1, <1>2, <1>3, <1>4 DEF TypeOK

(* The store's secrets: as long as nobody guesses it, a key that was       *)
(* neither exported nor backed up is in the store alone; a page is locked  *)
(* only for a living secret; and whatever is sealed, wrapped, split or     *)
(* restored from whichever shares is a string of bytes.                    *)
THEOREM SecretsStayContained == Spec /\ []Unguessed => []SecretsContained
<1> DEFINE Inv == StoreInv /\ KeptInv /\ LocksInv /\ BytesInv /\ BatchInv
<1>1. Init => Inv
  <2>1. ASSUME Init PROVE StoreInv
    BY <2>1, KeyStoreAssumption DEF Init, StoreInv, Holds
  <2>2. ASSUME Init PROVE LocksInv
    BY <2>2, KeyStoreAssumption DEF Init, LocksInv, NoLockLeak, LockRegion
  <2>3. ASSUME Init PROVE KeptInv
    BY <2>3, InitKept
  <2> QED
    BY <2>1, <2>2, <2>3, InitBytes
<1>2. Inv /\ Unguessed /\ [Next]_vars => Inv'
  BY NextKeepsStore, NextKeepsKept, NextKeepsLocks, NextKeepsBytes
<1>3. Inv => SecretsContained
  <2>1. Inv => TypeOK
    BY TypeFollows
  <2>2. Inv => UnbackedKeyStays
    BY KeptFollows
  <2>3. Inv => NoLockLeak
    BY DEF LocksInv
  <2> QED
    BY <2>1, <2>2, <2>3 DEF SecretsContained
<1> HIDE DEF Inv
<1> QED
  BY <1>1, <1>2, <1>3, PTL DEF Spec

-------------------------------------------------------------------------------
(* Shares of one backup, in some order and none twice. *)
OfBackup(key, seed, t, draw, k, n, seq) ==
  /\ seed \in Seeds /\ t \in Byte /\ t # 0 /\ draw \in Draws /\ n \in Nat \ {0}
  /\ seq \in [1 .. n -> shares] /\ \A i, j \in 1 .. n : seq[i] = seq[j] => i = j
  /\ \A i \in 1 .. n : /\ seq[i].index \in Byte
                       /\ seq[i] = ShareAt(key, seed, t, draw, k, seq[i].index)

LEMMA OrdersOfBackup ==
  ASSUME BytesInv, BatchInv, NEW k \in Batches, NEW T \in SUBSET Batch(k), T # {}, NEW seq \in Orders(T)
  PROVE  \E c : /\ OfBackup(c.key, c.seed, c.t, c.draw, k, Cardinality(T), seq)
                /\ \A s \in T : \E i \in 1 .. Cardinality(T) : seq[i] = s
<1> DEFINE n == Cardinality(T)
<1>1. k \in 1 .. calls
  BY DEF Batches, BatchInv
<1>2. PICK c : Backed(k, c, shares)
  BY <1>1 DEF BatchInv
<1>3. T \subseteq shares /\ \A s \in T : s.of.batch = k
  BY DEF Batch
<1>4. n \in Nat
  BY <1>3, FS_Subset, FS_CardinalityType DEF BytesInv
<1>5. PICK f \in Bijection(1 .. n, T) : seq = [i \in 1 .. n |-> f[i]]
  BY DEF Orders
<1>6. f \in [1 .. n -> T] /\ (\A i, j \in 1 .. n : f[i] = f[j] => i = j)
      /\ \A s \in T : \E i \in 1 .. n : f[i] = s
  BY <1>5 DEF Bijection, Injection, Surjection, IsInjective
<1> HIDE DEF n
<1>7. seq \in [1 .. n -> T] /\ (\A i, j \in 1 .. n : seq[i] = seq[j] => i = j)
      /\ \A s \in T : \E i \in 1 .. n : seq[i] = s
  BY <1>5, <1>6
<1>8. n \in Nat \ {0}
  BY <1>4, <1>7
<1>9. \A s \in T : /\ c.seed \in Seeds /\ c.t \in Byte /\ c.t # 0 /\ c.draw \in Draws
                   /\ s.index \in Byte /\ s = ShareAt(c.key, c.seed, c.t, c.draw, k, s.index)
  BY <1>2, <1>3 DEF Backed
<1>10. OfBackup(c.key, c.seed, c.t, c.draw, k, n, seq)
  BY <1>3, <1>7, <1>8, <1>9 DEF OfBackup
<1> QED
  BY <1>7, <1>10 DEF n

(* What each of them holds. *)
LEMMA BackupFields ==
  ASSUME NEW key, NEW seed, NEW t, NEW draw, NEW k, NEW n, NEW seq,
         OfBackup(key, seed, t, draw, k, n, seq), NEW i \in 1 .. n
  PROVE  /\ seq[i].wrapped = Wrap(key, BodyAt(seed, t, draw, seq[i].index))
         /\ seq[i].wrapped.key = key
         /\ seq[i].of.t = t /\ seq[i].of.seed = seed
<1>1. seq[i] = ShareAt(key, seed, t, draw, k, seq[i].index)
  BY DEF OfBackup
<1> DEFINE x == seq[i].index
           body == BodyAt(seed, t, draw, x)
<1>2. seq[i] = [index |-> x, wrapped |-> Wrap(key, body), of |-> [batch |-> k, t |-> t, seed |-> seed]]
  BY <1>1 DEF ShareAt
<1> HIDE DEF x, body
<1>3. seq[i].wrapped = Wrap(key, body) /\ seq[i].of.t = t /\ seq[i].of.seed = seed
  BY <1>2
<1>4. Wrap(key, body).key = key
  BY DEF Wrap, Seal
<1> QED
  BY <1>3, <1>4 DEF x, body

LEMMA WrapOpens ==
  ASSUME StoreInv, NEW m
  PROVE  Unwrap(Kek, Wrap(Kek, m)) = Ok(m) /\ IsOk(Ok(m)) /\ Ok(m).out = m
BY KekLength DEF Unwrap, Wrap, Seal, Open, Ok, IsOk

(* restore, in a store with the key the shares were wrapped under. *)
LEMMA BackupRestores ==
  ASSUME StoreInv, NEW seed, NEW t, NEW draw, NEW k, NEW n, NEW seq,
         OfBackup(Kek, seed, t, draw, k, n, seq), n >= 2, n >= t
  PROVE  RestoreSeed(seq) = Ok(seed)
<1> DEFINE parts == [i \in DOMAIN seq |-> [index |-> seq[i].index, body |-> Unwrap(Kek, seq[i].wrapped).out]]
           xs == [i \in 1 .. n |-> seq[i].index]
           l == Len(seed)
<1>1. /\ seed \in Seeds /\ t \in Byte /\ t # 0 /\ draw \in Draws /\ n \in Nat \ {0}
      /\ seq \in [1 .. n -> shares] /\ \A i \in 1 .. n : seq[i].index \in Byte
  BY DEF OfBackup
<1>2. DOMAIN seq = 1 .. n /\ Len(seq) = n /\ n \in Nat
  BY <1>1, SeqLength
<1>3. xs \in [1 .. n -> Byte]
  BY <1>1
<1>4. Apart(xs, 1 .. n)
  <2>1. \A i, j \in 1 .. n : seq[i] = seq[j] => i = j
    BY DEF OfBackup
  <2>2. \A i \in 1 .. n : seq[i] = ShareAt(Kek, seed, t, draw, k, seq[i].index)
    BY DEF OfBackup
  <2>3. \A i, j \in 1 .. n : seq[i].index = seq[j].index => i = j
    BY <2>1, <2>2
  <2> QED
    BY <2>3 DEF Apart
<1>5. ASSUME NEW i \in 1 .. n
      PROVE  /\ IsOk(Unwrap(Kek, seq[i].wrapped))
             /\ Unwrap(Kek, seq[i].wrapped).out = BodyAt(seed, t, draw, xs[i])
  BY BackupFields, WrapOpens
<1>6. DOMAIN parts = 1 .. n
  BY <1>2
<1>7. \A i \in 1 .. n : parts[i].index = xs[i] /\ parts[i].body = BodyAt(seed, t, draw, xs[i])
  BY <1>2, <1>5
<1>8. seed \in Seq(Byte) /\ l \in Nat /\ DOMAIN seed = 1 .. l /\ seed \in [1 .. l -> Byte]
  BY <1>1 DEF Seeds
<1>9. RestoreSeed(seq) = IF Ragged(parts) \/ Collide(parts) THEN Err("BadParams") ELSE Ok(ReconstructSeed(parts))
  BY <1>2, <1>5 DEF RestoreSeed
<1> HIDE DEF parts, xs
<1>10. \A i \in 1 .. n : /\ Len(parts[i].body) = l /\ DOMAIN parts[i].body = DOMAIN seed
                         /\ \A b \in DOMAIN seed : parts[i].body[b] = S!Eval(Polynomial(seed, t, draw, b), xs[i])
  <2> TAKE i \in 1 .. n
  <2>1. xs[i] \in Byte
    BY <1>3
  <2>2. /\ Len(BodyAt(seed, t, draw, xs[i])) = l
        /\ DOMAIN BodyAt(seed, t, draw, xs[i]) = DOMAIN seed
    BY <1>1, <2>1, BodyType
  <2>3. \A b \in DOMAIN seed : BodyAt(seed, t, draw, xs[i])[b] = S!Eval(Polynomial(seed, t, draw, b), xs[i])
    BY DEF BodyAt
  <2> QED
    BY <1>7, <2>2, <2>3
<1>11. 1 \in 1 .. n
  BY <1>1
<1>12. ~Ragged(parts)
  BY <1>6, <1>10, <1>11 DEF Ragged
<1>13. ~Collide(parts)
  <2>1. \A i, j \in 1 .. n : parts[i].index = parts[j].index => i = j
    BY <1>4, <1>7 DEF Apart
  <2> QED
    BY <1>6, <2>1 DEF Collide
<1>14. ASSUME NEW b \in DOMAIN seed
       PROVE  S!Reconstruct([i \in DOMAIN parts |-> [x |-> parts[i].index, y |-> parts[i].body[b]]]) = seed[b]
  <2> DEFINE p == Polynomial(seed, t, draw, b)
             ys == [i \in 1 .. n |-> S!Eval(p, xs[i])]
  <2>1. p \in [1 .. t -> Byte] /\ p[1] = seed[b] /\ t \in Nat \ {0}
    BY <1>1, PolynomialType
  <2>2. \A i \in 1 .. n : parts[i].index = xs[i] /\ parts[i].body[b] = ys[i]
    BY <1>7, <1>10
  <2> HIDE DEF p
  <2>3. [i \in DOMAIN parts |-> [x |-> parts[i].index, y |-> parts[i].body[b]]] = Shared(xs, ys, n)
    <3> HIDE DEF ys
    <3> QED
      BY <1>6, <2>2 DEF Shared
  <2>4. S!Reconstruct(Shared(xs, ys, n)) = p[1]
    <3>1. ys = [i \in 1 .. n |-> S!Eval(p, xs[i])]
      OBVIOUS
    <3> HIDE DEF ys
    <3> QED
      BY <1>2, <1>3, <1>4, <2>1, <3>1, ByteRecovers
  <2> HIDE DEF ys
  <2> QED
    BY <2>1, <2>3, <2>4
<1>15. ReconstructSeed(parts) = seed
  <2>1. ReconstructSeed(parts)
          = [b \in DOMAIN seed |-> S!Reconstruct([i \in DOMAIN parts |-> [x |-> parts[i].index, y |-> parts[i].body[b]]])]
    BY <1>10, <1>11 DEF ReconstructSeed
  <2>2. ReconstructSeed(parts) = [b \in DOMAIN seed |-> seed[b]]
    BY <1>14, <2>1
  <2>3. seed = [b \in DOMAIN seed |-> seed[b]]
    BY <1>8
  <2> QED
    BY <2>2, <2>3
<1> QED
  BY <1>9, <1>12, <1>13, <1>15

(* What RestoreFaithful says of shares of one backup in one order. *)
Exactly(T, seq) ==
  /\ Len(seq) < 2 => RestoreSeed(seq) = Err("InsufficientShares")
  /\ Len(seq) >= 2 /\ Foreign(T) => RestoreSeed(seq) = Err("WrongKey")
  /\ ~Foreign(T) /\ Len(seq) >= 2 /\ Len(seq) >= seq[1].of.t
       => RestoreSeed(seq) = Ok(seq[1].of.seed)
  /\ ~Foreign(T) /\ seq[1].of.seed # <<>>
       => RestoreSeed(seq \o <<seq[1]>>) = Err("BadParams")

LEMMA RestoresExactly ==
  ASSUME StoreInv, NEW key, NEW seed, NEW t, NEW draw, NEW k, NEW T, NEW seq, T # {},
         OfBackup(key, seed, t, draw, k, Cardinality(T), seq),
         \A s \in T : \E i \in 1 .. Cardinality(T) : seq[i] = s,
         \A i \in 1 .. Cardinality(T) : seq[i] \in T
  PROVE  Exactly(T, seq)
<1> DEFINE n == Cardinality(T)
<1>1. /\ seed \in Seeds /\ t \in Byte /\ t # 0 /\ draw \in Draws /\ n \in Nat \ {0}
      /\ seq \in [1 .. n -> shares] /\ \A i \in 1 .. n : seq[i].index \in Byte
  BY DEF OfBackup
<1>2. DOMAIN seq = 1 .. n /\ Len(seq) = n /\ seq \in Seq(shares) /\ 1 \in 1 .. n
  BY <1>1, SeqLength
<1>3. seq[1].of.t = t /\ seq[1].of.seed = seed /\ \A i \in 1 .. n : seq[i].wrapped.key = key
  BY <1>2, BackupFields
<1>4. Len(seq) < 2 => RestoreSeed(seq) = Err("InsufficientShares")
  BY <1>2, RestoreRefuses
<1>5. Len(seq) >= 2 /\ Foreign(T) => RestoreSeed(seq) = Err("WrongKey")
  <2>1. Foreign(T) => \E i \in DOMAIN seq : seq[i].wrapped.key # Kek
    BY <1>2 DEF Foreign
  <2> QED
    BY <1>2, <2>1, RestoreRefuses
<1>6. ASSUME ~Foreign(T) PROVE key = Kek
  BY <1>2, <1>3, <1>6 DEF Foreign
<1>7. ASSUME ~Foreign(T), Len(seq) >= 2, Len(seq) >= seq[1].of.t
      PROVE  RestoreSeed(seq) = Ok(seq[1].of.seed)
  <2>1. OfBackup(Kek, seed, t, draw, k, n, seq) /\ n >= 2 /\ n >= t
    BY <1>2, <1>3, <1>6, <1>7
  <2>2. RestoreSeed(seq) = Ok(seed)
    <3> HIDE DEF n
    <3> QED
      BY <2>1, BackupRestores
  <2> QED
    BY <1>3, <2>2
<1>8. ASSUME ~Foreign(T), seq[1].of.seed # <<>>
      PROVE  RestoreSeed(seq \o <<seq[1]>>) = Err("BadParams")
  <2>1. key = Kek /\ seed # <<>>
    BY <1>3, <1>6, <1>8
  <2>2. ASSUME NEW i \in 1 .. n
        PROVE  /\ IsOk(Unwrap(Kek, seq[i].wrapped))
               /\ Unwrap(Kek, seq[i].wrapped).out = BodyAt(seed, t, draw, seq[i].index)
    <3>1. seq[i].wrapped = Wrap(Kek, BodyAt(seed, t, draw, seq[i].index))
      BY <2>1, BackupFields
    <3> QED
      BY <3>1, WrapOpens
  <2>3. BodyAt(seed, t, draw, seq[1].index) # <<>>
    <3> DEFINE body == BodyAt(seed, t, draw, seq[1].index)
    <3>1. Len(body) = Len(seed) /\ seed \in Seq(Byte)
      BY <1>1, <1>2, BodyType DEF Seeds
    <3> HIDE DEF body
    <3>2. Len(body) # 0
      BY <2>1, <3>1
    <3>3. body # <<>>
      BY <3>2
    <3> QED
      BY <3>3 DEF body
  <2>4. /\ \A i \in DOMAIN seq : IsOk(Unwrap(Kek, seq[i].wrapped))
        /\ seq # <<>> /\ Unwrap(Kek, seq[1].wrapped).out # <<>>
    BY <1>2, <2>2, <2>3
  <2> QED
    BY <1>2, <2>4, RestoreRefuses
<1> QED
  BY <1>4, <1>5, <1>7, <1>8 DEF Exactly

(* backup and restore: for every field of bytes, seed, threshold and draw  *)
(* of coefficients, and whatever was imported, wrapped, reopened or backed *)
(* up in between, any threshold-many shares of one backup restore its seed *)
(* byte for byte, in any order, in a store with the same key-encryption    *)
(* key; another store, a lone share and a repeated share are refused.      *)
THEOREM BackupsRestore == Spec => []RestoreFaithful
<1> DEFINE Inv == StoreInv /\ BytesInv /\ BatchInv
<1>1. Init => Inv
  <2>1. ASSUME Init PROVE StoreInv
    BY <2>1, KeyStoreAssumption DEF Init, StoreInv, Holds
  <2> QED
    BY <2>1, InitBytes
<1>2. Inv /\ [Next]_vars => Inv'
  BY NextKeepsStore, NextKeepsBytes
<1>3. Inv => RestoreFaithful
  <2> SUFFICES ASSUME Inv, NEW k \in Batches, NEW T \in SUBSET Batch(k), T # {}, NEW seq \in Orders(T)
               PROVE  Exactly(T, seq)
    BY DEF RestoreFaithful, Exactly
  <2>1. PICK c : /\ OfBackup(c.key, c.seed, c.t, c.draw, k, Cardinality(T), seq)
                 /\ \A s \in T : \E i \in 1 .. Cardinality(T) : seq[i] = s
    BY OrdersOfBackup
  <2>2. \A i \in 1 .. Cardinality(T) : seq[i] \in T
    <3>1. PICK f \in Bijection(1 .. Cardinality(T), T) : seq = [i \in 1 .. Cardinality(T) |-> f[i]]
      BY DEF Orders
    <3>2. f \in [1 .. Cardinality(T) -> T]
      BY <3>1 DEF Bijection, Injection
    <3> QED
      BY <3>1, <3>2
  <2> DEFINE key == c.key
             seed == c.seed
             t == c.t
             draw == c.draw
  <2>3. OfBackup(key, seed, t, draw, k, Cardinality(T), seq)
    BY <2>1
  <2>4. StoreInv
    OBVIOUS
  <2> HIDE DEF key, seed, t, draw, Inv
  <2> QED
    BY <2>1, <2>2, <2>3, <2>4, RestoresExactly
<1> HIDE DEF Inv
<1> QED
  BY <1>1, <1>2, <1>3, PTL DEF Spec
===============================================================================
