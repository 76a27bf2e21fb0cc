----------------------------- MODULE OverlayProofs ----------------------------
(***************************************************************************)
(* Proofs about the overlay.  First its writer: when every position has    *)
(* one funding output of its own, retries after lost answers and restarts  *)
(* cannot put a second transaction for the position on the chain.  Then    *)
(* its key sets: what is sealed opens for those it was sealed for alone,   *)
(* keys that leak lead to nothing above or beside them, and a second       *)
(* module resolves exactly the keys it was given the seeds of.             *)
(***************************************************************************)
EXTENDS OverlayWriter, OverlayKeys, FiniteSetTheorems, NaturalsInduction,
        WellFoundedInduction, TLAPS

(* Every accepted transaction spends the one coin of its position, and the *)
(* node lets no two of them spend the same outpoint.                       *)
ChainInv ==
  /\ \A t \in chain : t.funding = Coin(t.position, 1)
  /\ \A s, t \in chain : s.funding = t.funding => s = t

(* One write_node: the node accepts the transaction only if the coin of    *)
(* its position is unspent.                                                *)
LEMMA WriteKeepsChain ==
  ASSUME CoinsPerPosition = 1, ChildLinks = FALSE, ChainInv,
         NEW pos \in Positions, NEW payload, NEW obfuscate, NEW value,
         NEW funding, NEW delivered, NEW answered,
         WriteNode(pos, payload, obfuscate, value, funding, delivered, answered)
  PROVE  ChainInv'
<1> DEFINE tx == Skeleton(pos, payload, obfuscate, value, funding)
<1>1. funding = Coin(pos, 1)
  <2>1. funding \in {Coin(pos, i) : i \in 1 .. 1}
    BY DEF WriteNode, Fundings
  <2> QED
    BY <2>1
<1>2. tx.position = pos /\ tx.funding = funding
  BY DEF Skeleton
<1>3. chain' = IF delivered /\ Accepts(tx) THEN chain \cup {tx} ELSE chain
  BY DEF WriteNode
<1> HIDE DEF tx
<1>4. CASE chain' = chain
  BY <1>4 DEF ChainInv, Coin
<1>5. CASE chain' = chain \cup {tx} /\ Accepts(tx)
  <2>1. \A t \in chain : t.funding # tx.funding
    BY <1>5 DEF Accepts, Unspent
  <2> QED
    BY <1>1, <1>2, <1>5, <2>1 DEF ChainInv, Coin
<1> QED
  BY <1>3, <1>4, <1>5

(* Writing is idempotent on the node's position (writer.rs), whatever is   *)
(* lost, retried or restarted, for callers that fund a position from one   *)
(* outpoint of its own and nothing else.                                   *)
THEOREM IdempotentOnPosition ==
  ASSUME CoinsPerPosition = 1, ChildLinks = FALSE
  PROVE  WriterSpec => []OneTxPerPosition
<1>1. WriterInit => ChainInv
  BY DEF WriterInit, ChainInv
<1>2. ChainInv /\ [WriterNext]_writerVars => ChainInv'
  <2> SUFFICES ASSUME ChainInv, [WriterNext]_writerVars PROVE ChainInv'
    OBVIOUS
  <2>1. CASE \E pos \in Positions : WriteAgain(pos)
    BY <2>1 DEF WriteAgain, ChainInv, Coin
  <2>2. ASSUME NEW pos \in Positions, NEW payload \in Payloads, NEW value \in Values,
               NEW obfuscate \in BOOLEAN, NEW delivered \in BOOLEAN,
               NEW answered \in BOOLEAN, NEW funding \in Fundings(pos),
               WriteNode(pos, payload, obfuscate, value, funding, delivered, answered)
        PROVE  ChainInv'
    BY <2>2, WriteKeepsChain
  <2>3. CASE Restart
    BY <2>3 DEF Restart, ChainInv, Coin
  <2>4. CASE UNCHANGED writerVars
    BY <2>4 DEF writerVars, ChainInv, Coin
  <2> QED
    BY <2>1, <2>2, <2>3, <2>4 DEF WriterNext
<1>3. ChainInv => OneTxPerPosition
  BY DEF ChainInv, OneTxPerPosition
<1> QED
  BY <1>1, <1>2, <1>3, PTL DEF WriterSpec

-----------------------------------------------------------------------------
(* What write_node reports is on the chain, for every instance, lossy or   *)
(* not, and whatever callers pass as funding.                              *)
THEOREM ReportedIsOnChain == WriterSpec => []WrittenIsOnChain
<1>1. WriterInit => WrittenIsOnChain
  BY DEF WriterInit, WrittenIsOnChain, Error
<1>2. WrittenIsOnChain /\ [WriterNext]_writerVars => WrittenIsOnChain'
  <2> SUFFICES ASSUME WrittenIsOnChain, [WriterNext]_writerVars PROVE WrittenIsOnChain'
    OBVIOUS
  <2>1. ASSUME NEW pos \in Positions, WriteAgain(pos) PROVE WrittenIsOnChain'
    BY <2>1 DEF WriteAgain, WrittenIsOnChain
  <2>2. ASSUME NEW pos \in Positions, NEW payload \in Payloads, NEW value \in Values,
               NEW obfuscate \in BOOLEAN, NEW delivered \in BOOLEAN,
               NEW answered \in BOOLEAN, NEW funding \in Fundings(pos),
               WriteNode(pos, payload, obfuscate, value, funding, delivered, answered)
        PROVE  WrittenIsOnChain'
    <3> DEFINE tx == Skeleton(pos, payload, obfuscate, value, funding)
               ok == delivered /\ answered /\ (Accepts(tx) \/ tx \in chain)
    <3>1. tx.position = pos
      BY DEF Skeleton
    <3>2. /\ chain' = IF delivered /\ Accepts(tx) THEN chain \cup {tx} ELSE chain
          /\ Record(pos, tx, ok)
          /\ result' = IF ok THEN [ok |-> TRUE, position |-> pos, tx |-> tx] ELSE Error
      BY <2>2 DEF WriteNode
    <3> HIDE DEF tx
    <3>3. CASE ok
      <4>1. tx \in chain' /\ chain \subseteq chain'
        BY <3>2, <3>3
      <4>2. written' = [p \in DOMAIN written \cup {pos} |-> IF p = pos THEN tx ELSE written[p]]
        BY <3>2, <3>3 DEF Record
      <4>3. result'.tx = tx /\ result'.position = pos
        BY <3>2, <3>3
      <4> QED
        BY <3>1, <4>1, <4>2, <4>3 DEF WrittenIsOnChain
    <3>4. CASE ~ok
      <4>1. written' = written /\ chain \subseteq chain' /\ result' = Error
        BY <3>2, <3>4 DEF Record
      <4> QED
        BY <4>1 DEF WrittenIsOnChain, Error
    <3> QED
      BY <3>3, <3>4
  <2>3. CASE Restart
    BY <2>3 DEF Restart, WrittenIsOnChain, Error
  <2>4. CASE UNCHANGED writerVars
    BY <2>4 DEF writerVars, WrittenIsOnChain
  <2> QED
    BY <2>1, <2>2, <2>3, <2>4 DEF WriterNext
<1> QED
  BY <1>1, <1>2, PTL DEF WriterSpec

-----------------------------------------------------------------------------
(* What the writer's memory is worth: a transaction on the chain is the    *)
(* recorded one of its position, or its position is one of the unsure.     *)
RecordedInv ==
  \A t \in chain : \/ t.position \in unsure
                   \/ t.position \in DOMAIN written /\ written[t.position] = t

(* Writing is idempotent on the position (writer.rs) for every instance,   *)
(* as long as answers arrive and the process lives: a second transaction   *)
(* of a position needs a lost answer or a restart before it.               *)
THEOREM IdempotentUnlessUnsure == WriterSpec => []OneTxUnlessUnsure
<1>1. WriterInit => RecordedInv
  BY DEF WriterInit, RecordedInv
<1>2. RecordedInv /\ [WriterNext]_writerVars => RecordedInv'
  <2> SUFFICES ASSUME RecordedInv, [WriterNext]_writerVars PROVE RecordedInv'
    OBVIOUS
  <2>1. ASSUME NEW pos \in Positions, WriteAgain(pos) PROVE RecordedInv'
    BY <2>1 DEF WriteAgain, RecordedInv
  <2>2. ASSUME NEW pos \in Positions, NEW payload \in Payloads, NEW value \in Values,
               NEW obfuscate \in BOOLEAN, NEW delivered \in BOOLEAN,
               NEW answered \in BOOLEAN, NEW funding \in Fundings(pos),
               WriteNode(pos, payload, obfuscate, value, funding, delivered, answered)
        PROVE  RecordedInv'
    <3> DEFINE tx == Skeleton(pos, payload, obfuscate, value, funding)
               takes == delivered /\ Accepts(tx)
               ok == delivered /\ answered /\ (Accepts(tx) \/ tx \in chain)
    <3>1. tx.position = pos
      BY DEF Skeleton
    <3>2. /\ pos \notin DOMAIN written
          /\ chain' = IF takes THEN chain \cup {tx} ELSE chain
          /\ Record(pos, tx, ok)
          /\ unsure' = IF takes /\ ~answered THEN unsure \cup {pos} ELSE unsure
      BY <2>2 DEF WriteNode
    <3> HIDE DEF tx
    <3>3. \A t \in chain : t.position = pos => t.position \in unsure
      BY <3>2 DEF RecordedInv
    <3>4. CASE ok
      <4>1. written' = [p \in DOMAIN written \cup {pos} |-> IF p = pos THEN tx ELSE written[p]]
        BY <3>2, <3>4 DEF Record
      <4> QED
        BY <3>1, <3>2, <3>3, <3>4, <4>1 DEF RecordedInv
    <3>5. CASE ~ok
      <4>1. written' = written
        BY <3>2, <3>5 DEF Record
      <4>2. takes => ~answered
        BY <3>5
      <4> QED
        BY <3>1, <3>2, <4>1, <4>2 DEF RecordedInv
    <3> QED
      BY <3>4, <3>5
  <2>3. CASE Restart
    BY <2>3 DEF Restart, RecordedInv
  <2>4. CASE UNCHANGED writerVars
    BY <2>4 DEF writerVars, RecordedInv
  <2> QED
    BY <2>1, <2>2, <2>3, <2>4 DEF WriterNext
<1>3. RecordedInv => OneTxUnlessUnsure
  BY DEF RecordedInv, OneTxUnlessUnsure
<1> QED
  BY <1>1, <1>2, <1>3, PTL DEF WriterSpec

-------------------------------------------------------------------------------
(* Arithmetic modulo the order of the group.                               *)

(* Division with remainder. *)
LEMMA DivMod ==
  ASSUME NEW a \in Int, NEW n \in Nat \ {0}
  PROVE  (a \div n) \in Int /\ (a % n) \in 0 .. n - 1 /\ a = (a \div n) * n + (a % n)
OBVIOUS

(* A set of naturals that is not empty has a least element. *)
LEMMA LeastOf ==
  ASSUME NEW S, S \subseteq Nat, S # {}
  PROVE  \E x \in S : \A y \in S : x <= y
<1> DEFINE R == {p \in Nat \X Nat : p[1] < p[2]}
<1>1. IsWellFoundedOn(R, Nat)
  BY NatLessThanWellFounded DEF OpToRel
<1>2. PICK x \in S : \A y \in S : <<y, x>> \notin R
  <2> HIDE DEF R
  <2> QED
    BY <1>1, WFMin
<1>3. ASSUME NEW y \in S PROVE x <= y
  <2>1. x \in Nat /\ y \in Nat /\ <<y, x>> \notin R
    BY <1>2
  <2>2. ~(y < x)
    BY <2>1
  <2> QED
    BY <2>1, <2>2
<1> QED
  BY <1>3

(* What leaves no remainder is a multiple. *)
LEMMA Multiples ==
  ASSUME NEW p \in Nat \ {0}, NEW a \in Int
  PROVE  (a % p = 0) <=> \E k \in Int : a = k * p
<1>1. ASSUME NEW k \in Int PROVE (k * p) % p = 0
  OBVIOUS
<1>2. ASSUME a % p = 0 PROVE \E k \in Int : a = k * p
  <2>1. (a \div p) \in Int /\ a = (a \div p) * p
    BY <1>2, DivMod
  <2> QED
    BY <2>1
<1> QED
  BY <1>1, <1>2

Prime(n) == n \in Nat /\ n > 1 /\ \A d \in 2 .. n - 1 : n % d # 0

(* Euclid's lemma, for factors below the prime. *)
LEMMA Euclid ==
  ASSUME NEW p, Prime(p), NEW a \in 1 .. p - 1, NEW b \in 1 .. p - 1
  PROVE  (a * b) % p # 0
<1> SUFFICES ASSUME (a * b) % p = 0 PROVE FALSE
  OBVIOUS
<1> DEFINE S == {c \in 1 .. p - 1 : (c * b) % p = 0}
<1>0. p \in Nat /\ p > 1 /\ p \in Nat \ {0} /\ b \in Nat
  BY DEF Prime
<1>1. PICK c \in S : \A d \in S : c <= d
  <2>1. S \subseteq Nat /\ a \in S
    BY <1>0
  <2> QED
    BY <2>1, LeastOf
<1>2. c \in 1 .. p - 1 /\ (c * b) % p = 0 /\ c \in Nat \ {0} /\ c * b \in Int
  BY <1>0
<1>3. c # 1
  <2>1. b % p = b
    BY <1>0
  <2> QED
    BY <1>0, <1>2, <2>1
<1>4. p % c \in 1 .. c - 1 /\ p = (p \div c) * c + (p % c) /\ p \div c \in Int
  <2>1. c \in 2 .. p - 1
    BY <1>0, <1>2, <1>3
  <2>2. p % c # 0
    BY <2>1 DEF Prime
  <2> QED
    BY <1>0, <1>2, <2>2, DivMod
<1>5. ((p % c) * b) % p = 0
  <2>1. PICK k \in Int : c * b = k * p
    BY <1>0, <1>2, Multiples
  <2>2. ASSUME NEW q \in Int, NEW r \in Int, p = q * c + r
        PROVE  r * b = (b - q * k) * p
    <3>1. r = p - q * c
      BY <2>2, <1>0, <1>2
    <3>2. r * b = p * b - q * (c * b)
      BY <3>1, <1>0, <1>2
    <3>3. r * b = p * b - q * (k * p)
      BY <3>2, <2>1
    <3> QED
      BY <3>3, <1>0
  <2>3. (p % c) * b = (b - (p \div c) * k) * p
    BY <1>0, <1>2, <1>4, <2>2
  <2>4. (p % c) * b \in Int /\ b - (p \div c) * k \in Int
    BY <1>0, <1>4
  <2> QED
    BY <1>0, <2>3, <2>4, Multiples
<1>6. p % c \in S
  BY <1>0, <1>2, <1>4, <1>5
<1> QED
  BY <1>1, <1>2, <1>4, <1>6

(* The remainder is what its bounds and a multiple make of it. *)
LEMMA ModUnique ==
  ASSUME NEW n \in Nat \ {0}, NEW k \in Int, NEW r \in 0 .. n - 1
  PROVE  (k * n + r) % n = r
OBVIOUS

(* Multiplying by a nonzero scalar tells points of the group apart, up to  *)
(* the sign: the points with one x-coordinate are a point and its negative.*)
LEMMA SharedPoint ==
  ASSUME Prime(N), NEW d \in 1 .. N - 1, NEW e \in 1 .. N - 1, NEW p \in 1 .. N - 1
  PROVE  XOf(N, (d * e) % N) = XOf(N, (e * p) % N) <=> p \in {d, N - d}
<1> DEFINE u == (d * e) % N
           v == (e * p) % N
<1>0. N \in Nat \ {0} /\ N > 1 /\ d \in Nat /\ e \in Nat /\ p \in Nat
  BY DEF Prime
<1>a. d * e \in Int /\ e * p \in Int
  BY <1>0
<1>b. /\ d * e = ((d * e) \div N) * N + u /\ e * p = ((e * p) \div N) * N + v
      /\ (d * e) \div N \in Int /\ (e * p) \div N \in Int
      /\ u \in 0 .. N - 1 /\ v \in 0 .. N - 1
  <2>1. \A x \in Int : x = (x \div N) * N + (x % N) /\ x \div N \in Int /\ (x % N) \in 0 .. N - 1
    BY <1>0, DivMod
  <2> QED
    BY <1>a, <2>1, Zenon
<1>1. PICK k \in Int : d * e = k * N + u
  BY <1>b, Zenon
<1>2. PICK l \in Int : e * p = l * N + v
  BY <1>b, Zenon
<1>3. u \in 1 .. N - 1 /\ v \in 1 .. N - 1
  <2>1. u # 0 /\ v # 0
    BY Euclid
  <2> HIDE DEF u, v
  <2> QED
    BY <2>1, <1>b, <1>0
<1>4. XOf(N, u) = XOf(N, v) <=> u = v \/ u + v = N
  <2> HIDE DEF u, v
  <2> QED
    BY <1>0, <1>3 DEF XOf
<1>5. ASSUME NEW a \in 1 .. N - 1, NEW m \in Int, a * e = m * N PROVE FALSE
  <2> DEFINE x == a * e
  <2>1. x \in Int /\ x = m * N
    BY <1>0, <1>5
  <2>2. x % N # 0
    BY Euclid
  <2> HIDE DEF x
  <2>3. x % N = 0
    BY <1>0, <2>1, Multiples
  <2> QED
    BY <2>2, <2>3
<1>6. ASSUME u = v PROVE p = d
  <2> HIDE DEF u, v
  <2>1. (d - p) * e = (k - l) * N /\ (p - d) * e = (l - k) * N
    BY <1>0, <1>1, <1>2, <1>3, <1>6
  <2>2. CASE d > p
    <3>1. d - p \in 1 .. N - 1 /\ k - l \in Int
      BY <2>2, <1>0
    <3> QED
      BY <2>1, <3>1, <1>5
  <2>3. CASE p > d
    <3>1. p - d \in 1 .. N - 1 /\ l - k \in Int
      BY <2>3, <1>0
    <3> QED
      BY <2>1, <3>1, <1>5
  <2> QED
    BY <2>2, <2>3, <1>0
<1>7. ASSUME u + v = N PROVE p = N - d
  <2> HIDE DEF u, v
  <2>1. (d + p) * e = (k + l + 1) * N /\ (d + p - N) * e = (k + l + 1 - e) * N
    BY <1>0, <1>1, <1>2, <1>3, <1>7
  <2>2. CASE d + p < N
    <3>1. d + p \in 1 .. N - 1 /\ k + l + 1 \in Int
      BY <2>2, <1>0
    <3> QED
      BY <2>1, <3>1, <1>5
  <2>3. CASE d + p > N
    <3>1. d + p - N \in 1 .. N - 1 /\ k + l + 1 - e \in Int
      BY <2>3, <1>0
    <3> QED
      BY <2>1, <3>1, <1>5
  <2> QED
    BY <2>2, <2>3, <1>0
<1>8. ASSUME p = d PROVE u = v
  <2>1. e * p = d * e
    BY <1>8, <1>0
  <2> QED
    BY <2>1
<1>9. ASSUME p = N - d PROVE u + v = N
  <2>1. N - u \in 0 .. N - 1 /\ e - k - 1 \in Int
    BY <1>0, <1>3
  <2>2. e * p = (e - k - 1) * N + (N - u)
    <3> HIDE DEF u
    <3> QED
      BY <1>0, <1>1, <1>3, <1>9
  <2>3. v = N - u
    BY <1>0, <2>1, <2>2, ModUnique
  <2> QED
    BY <2>3, <1>0, <1>3
<1> QED
  BY <1>4, <1>6, <1>7, <1>8, <1>9

(* Keys filled with one value have the length of a key and tell the value. *)
LEMMA FilledKeys ==
  ASSUME NEW a, NEW b
  PROVE  /\ Len([i \in 1 .. KeyLen |-> a]) = KeyLen
         /\ [i \in 1 .. KeyLen |-> a] = [i \in 1 .. KeyLen |-> b] <=> a = b
<1>1. KeyLen \in Nat /\ 1 \in 1 .. KeyLen
  BY CipherAssumption
<1>2. ASSUME [i \in 1 .. KeyLen |-> a] = [i \in 1 .. KeyLen |-> b] PROVE a = b
  <2>1. [i \in 1 .. KeyLen |-> a][1] = a /\ [i \in 1 .. KeyLen |-> b][1] = b
    BY <1>1
  <2> QED
    BY <2>1, <1>2
<1> QED
  BY <1>1, <1>2
-------------------------------------------------------------------------------
(* Messages.                                                               *)

(* A sealed value opens under its own key, nonce and associated data only. *)
LEMMA OpenExact ==
  ASSUME NEW key, NEW nonce, NEW msg, NEW aad, NEW k, NEW n, NEW a
  PROVE  IsOk(Open(k, n, Seal(key, nonce, msg, aad), a)) <=>
           Len(k) = KeyLen /\ k = key /\ n = nonce /\ a = aad
BY DEF IsOk, Open, Seal, Ok, Err

(* What the log of the AeadCiphers and the mail look like. *)
IsLogEntry(i) ==
  \E key, msg, aad : \E epoch \in Epochs, counter \in Nat, maker \in 1 .. made :
    /\ Len(key) = KeyLen
    /\ log[i] = [maker |-> maker, epoch |-> epoch,
                 sealed |-> Seal(key, <<epoch, counter>>, msg, aad)]
CounterOf(i) == log[i].sealed.nonce[2]
LogInv ==
  /\ made \in Nat /\ log \in Seq({log[i] : i \in DOMAIN log})
  /\ cipher # NoCipher =>
       /\ Len(cipher.key) = KeyLen /\ cipher.epoch \in Epochs /\ cipher.counter \in Nat
       /\ cipher = [key |-> cipher.key, epoch |-> cipher.epoch, counter |-> cipher.counter]
       /\ made > 0
  /\ cipher = NoCipher => made = 0
  /\ \A i \in DOMAIN log : IsLogEntry(i)
  /\ \A i \in DOMAIN log : log[i].maker = made => CounterOf(i) < cipher.counter
  /\ \A i, j \in DOMAIN log : i < j /\ log[i].maker = log[j].maker => CounterOf(i) < CounterOf(j)
MailInv ==
  \A m \in mail : \E r, aad :
    \/ /\ m = [mode |-> "Symmetric", to |-> r, body |-> [eph |-> 0, sealed |-> Seal(r, Random, <<1>>, aad)]]
       /\ Len(r) = KeyLen
    \/ \E d \in 1 .. N - 1, eph \in 1 .. N - 1 :
         m = [mode |-> "Asymmetric", to |-> <<d>>, body |-> EciesEncrypt(N, d, eph, <<1>>, aad)]

MsgInv == LogInv /\ MailInv

(* The parts of an entry of the log. *)
LEMMA EntryParts ==
  ASSUME made \in Nat, NEW i, IsLogEntry(i)
  PROVE  /\ log[i].maker \in 1 .. made /\ log[i].epoch \in Epochs /\ CounterOf(i) \in Nat
         /\ log[i].sealed.nonce = <<log[i].epoch, CounterOf(i)>>
         /\ log[i].sealed = Seal(log[i].sealed.key, log[i].sealed.nonce, log[i].sealed.msg, log[i].sealed.aad)
         /\ Len(log[i].sealed.key) = KeyLen
         /\ log[i] = [maker |-> log[i].maker, epoch |-> log[i].epoch, sealed |-> log[i].sealed]
<1>1. PICK key, msg, aad : \E epoch \in Epochs, counter \in Nat, maker \in 1 .. made :
    /\ Len(key) = KeyLen
    /\ log[i] = [maker |-> maker, epoch |-> epoch,
                 sealed |-> Seal(key, <<epoch, counter>>, msg, aad)]
  BY Zenon DEF IsLogEntry
<1>2. PICK epoch \in Epochs, counter \in Nat, maker \in 1 .. made :
    /\ Len(key) = KeyLen
    /\ log[i] = [maker |-> maker, epoch |-> epoch,
                 sealed |-> Seal(key, <<epoch, counter>>, msg, aad)]
  BY <1>1
<1>3. log[i].sealed = Seal(key, <<epoch, counter>>, msg, aad)
  BY <1>2
<1>4. /\ log[i].sealed.nonce = <<epoch, counter>> /\ log[i].sealed.key = key
      /\ log[i].sealed.msg = msg /\ log[i].sealed.aad = aad
  BY <1>3 DEF Seal
<1>5. CounterOf(i) = counter
  BY <1>4 DEF CounterOf
<1> QED
  BY <1>2, <1>3, <1>4, <1>5

(* AeadCipher::new: no entry was made by the cipher that is new. *)
LEMMA MakeKeepsLog ==
  ASSUME LogInv, NEW key, NEW epoch \in Epochs, MakeCipher(key, epoch)
  PROVE  LogInv'
<1>1. /\ log' = log /\ made' = made + 1 /\ made \in Nat
      /\ cipher' = [key |-> key, epoch |-> epoch, counter |-> 0] /\ Len(key) = KeyLen
  BY DEF LogInv, MakeCipher, NewCipher
<1>2. /\ cipher'.key = key /\ cipher'.epoch = epoch /\ cipher'.counter = 0
  BY <1>1
<1>3. cipher' # NoCipher
  <2>1. Len(<<>>) = 0 /\ KeyLen # 0
    BY CipherAssumption
  <2>2. key # <<>>
    BY <2>1, <1>1
  <2> QED
    BY <2>2, <1>2 DEF NoCipher, NewCipher
<1>4. ASSUME NEW i \in DOMAIN log PROVE IsLogEntry(i)' /\ log[i].maker # made'
  <2>1. IsLogEntry(i)
    BY DEF LogInv
  <2>2. 1 .. made \subseteq 1 .. made'
    BY <1>1
  <2>3. IsLogEntry(i)'
    <3>1. PICK k, msg, aad : \E ep \in Epochs, counter \in Nat, maker \in 1 .. made :
               /\ Len(k) = KeyLen
               /\ log[i] = [maker |-> maker, epoch |-> ep,
                            sealed |-> Seal(k, <<ep, counter>>, msg, aad)]
      BY <2>1, Zenon DEF IsLogEntry
    <3>2. \E ep \in Epochs, counter \in Nat, maker \in 1 .. made' :
               /\ Len(k) = KeyLen
               /\ log'[i] = [maker |-> maker, epoch |-> ep,
                            sealed |-> Seal(k, <<ep, counter>>, msg, aad)]
      BY <3>1, <2>2, <1>1
    <3> QED
      BY <3>2, Zenon DEF IsLogEntry
  <2>4. log[i].maker \in 1 .. made
    BY <2>1, <1>1, EntryParts
  <2> QED
    BY <2>3, <2>4, <1>1
<1>5. \A i : CounterOf(i)' = CounterOf(i)
  BY <1>1 DEF CounterOf
<1>6. NoCipher' = NoCipher
  BY DEF NoCipher, NewCipher
<1>7. made' \in Nat /\ made' > 0 /\ log' \in Seq({log'[i] : i \in DOMAIN log'})
  BY <1>1 DEF LogInv
<1>8. \A i, j \in DOMAIN log' : i < j /\ log'[i].maker = log'[j].maker => CounterOf(i)' < CounterOf(j)'
  BY <1>1, <1>5 DEF LogInv
<1> QED
  BY <1>1, <1>2, <1>3, <1>4, <1>6, <1>7, <1>8 DEF LogInv

(* AeadCipher::encrypt: the counter is above every one it has used. *)
LEMMA EncryptKeepsLog ==
  ASSUME LogInv, NEW aad, Encrypt(aad)
  PROVE  LogInv'
<1>n. PICK n \in Nat : n = Len(log)
  <2>1. log \in Seq({log[i] : i \in DOMAIN log})
    BY DEF LogInv
  <2> QED
    BY <2>1
<1> DEFINE new == [maker |-> made, epoch |-> cipher.epoch,
                   sealed |-> Seal(cipher.key, <<cipher.epoch, cipher.counter>>, <<Len(log)>>, aad)]
<1>1. /\ log' = Append(log, new) /\ made' = made /\ made \in Nat /\ made > 0
      /\ cipher # NoCipher /\ Len(cipher.key) = KeyLen /\ cipher.epoch \in Epochs
      /\ cipher.counter \in Nat
      /\ cipher' = [cipher EXCEPT !.counter = @ + 1]
      /\ cipher = [key |-> cipher.key, epoch |-> cipher.epoch, counter |-> cipher.counter]
  BY DEF LogInv, Encrypt, NextNonce, Counts
<1>2. /\ cipher'.key = cipher.key /\ cipher'.epoch = cipher.epoch
      /\ cipher'.counter = cipher.counter + 1
      /\ cipher' = [key |-> cipher'.key, epoch |-> cipher'.epoch, counter |-> cipher'.counter]
  BY <1>1
<1>3. cipher' # NoCipher /\ NoCipher' = NoCipher
  BY <1>1, <1>2 DEF NoCipher, NewCipher
<1>4. new.sealed.nonce[2] = cipher.counter /\ new.maker = made
  BY DEF Seal
<1>5. log \in Seq({log[i] : i \in DOMAIN log})
  BY DEF LogInv
<1> HIDE DEF new
<1>6. /\ n \in Nat /\ DOMAIN log = 1 .. n /\ DOMAIN log' = 1 .. n + 1
      /\ \A i \in 1 .. n : log'[i] = log[i]
      /\ log'[n + 1] = new /\ Len(log') = n + 1
  <2> DEFINE T == {log[i] : i \in DOMAIN log} \cup {new}
  <2>1. log \in Seq(T) /\ new \in T
    BY <1>5
  <2> HIDE DEF T
  <2> QED
    BY <2>1, <1>1, <1>n
<1>7. log' \in Seq({log'[i] : i \in DOMAIN log'})
  <2> DEFINE T == {log[i] : i \in DOMAIN log} \cup {new}
             U == {log'[i] : i \in DOMAIN log'}
  <2>1. log \in Seq(T) /\ new \in T
    BY <1>5
  <2>2. T \subseteq U
    BY <1>6
  <2>3. log' \in Seq(T)
    <3> HIDE DEF T
    <3> QED
      BY <2>1, <1>1
  <2> QED
    BY <2>2, <2>3, <1>6
<1>8. ASSUME NEW i \in 1 .. n + 1 PROVE IsLogEntry(i)'
  <2>1. CASE i \in 1 .. n
    <3>1. IsLogEntry(i) /\ log'[i] = log[i] /\ made' = made
      BY <2>1, <1>1, <1>6 DEF LogInv
    <3> QED
      BY <3>1, Zenon DEF IsLogEntry
  <2>2. CASE i = n + 1
    <3>1. log'[i] = new /\ made \in 1 .. made'
      BY <2>2, <1>1, <1>6
    <3>2. \E ep \in Epochs, counter \in Nat, maker \in 1 .. made' :
            /\ Len(cipher.key) = KeyLen
            /\ log'[i] = [maker |-> maker, epoch |-> ep,
                          sealed |-> Seal(cipher.key, <<ep, counter>>, <<Len(log)>>, aad)]
      BY <3>1, <1>1, Zenon DEF new
    <3> QED
      BY <3>2, Zenon DEF IsLogEntry
  <2> QED
    BY <2>1, <2>2, <1>6
<1>9. /\ \A i \in 1 .. n : CounterOf(i)' = CounterOf(i)
      /\ CounterOf(n + 1)' = cipher.counter /\ log'[n + 1].maker = made
  BY <1>4, <1>6 DEF CounterOf
<1>10. \A i \in 1 .. n : CounterOf(i) \in Nat /\ (log[i].maker = made => CounterOf(i) < cipher.counter)
  BY <1>6, <1>1, EntryParts DEF LogInv
<1>11. ASSUME NEW i \in DOMAIN log', log'[i].maker = made' PROVE CounterOf(i)' < cipher'.counter
  <2>1. CASE i \in 1 .. n
    BY <2>1, <1>11, <1>1, <1>2, <1>6, <1>9, <1>10
  <2>2. CASE i = n + 1
    BY <2>2, <1>1, <1>2, <1>9
  <2> QED
    BY <2>1, <2>2, <1>6
<1>12. ASSUME NEW i \in DOMAIN log', NEW j \in DOMAIN log', i < j, log'[i].maker = log'[j].maker
       PROVE  CounterOf(i)' < CounterOf(j)'
  <2>1. i \in 1 .. n
    BY <1>12, <1>6
  <2>2. CASE j \in 1 .. n
    <3>1. log[i].maker = log[j].maker
      BY <2>1, <2>2, <1>6, <1>12
    <3>2. CounterOf(i) < CounterOf(j)
      BY <3>1, <2>1, <2>2, <1>6, <1>12 DEF LogInv
    <3> QED
      BY <3>2, <2>1, <2>2, <1>9
  <2>3. CASE j = n + 1
    BY <2>1, <2>3, <1>12, <1>6, <1>9, <1>10
  <2> QED
    BY <2>2, <2>3, <1>6
<1> QED
  BY <1>1, <1>2, <1>3, <1>6, <1>7, <1>8, <1>11, <1>12 DEF LogInv

(* seal_for adds a message of one of the two modes. *)
LEMMA SealKeepsMail ==
  ASSUME MailInv, NEW mode, NEW r, NEW eph, NEW aad, SealFor(mode, r, eph, aad),
         \/ mode = "Symmetric"
         \/ mode = "Asymmetric" /\ eph \in 1 .. N - 1 /\ \E d \in 1 .. N - 1 : r = <<d>>
  PROVE  MailInv'
<1> DEFINE new == [mode |-> mode, to |-> r,
                   body |-> IF mode = "Symmetric"
                            THEN [eph |-> 0, sealed |-> Seal(r, Random, <<1>>, aad)]
                            ELSE EciesEncrypt(N, r[1], eph, <<1>>, aad)]
           Sent(m) == \E q, a :
             \/ /\ m = [mode |-> "Symmetric", to |-> q, body |-> [eph |-> 0, sealed |-> Seal(q, Random, <<1>>, a)]]
                /\ Len(q) = KeyLen
             \/ \E d \in 1 .. N - 1, ep \in 1 .. N - 1 :
                  m = [mode |-> "Asymmetric", to |-> <<d>>, body |-> EciesEncrypt(N, d, ep, <<1>>, a)]
<1>1. mail' = mail \cup {new} /\ (mode = "Symmetric" => Len(r) = KeyLen)
  BY DEF SealFor
<1>2. Sent(new)
  <2>1. CASE mode = "Symmetric"
    <3>1. new = [mode |-> "Symmetric", to |-> r, body |-> [eph |-> 0, sealed |-> Seal(r, Random, <<1>>, aad)]]
      BY <2>1
    <3> QED
      BY <3>1, <2>1, <1>1, Zenon
  <2>2. CASE mode = "Asymmetric" /\ eph \in 1 .. N - 1 /\ \E d \in 1 .. N - 1 : r = <<d>>
    <3>1. PICK d \in 1 .. N - 1 : r = <<d>>
      BY <2>2
    <3>2. new = [mode |-> "Asymmetric", to |-> <<d>>, body |-> EciesEncrypt(N, d, eph, <<1>>, aad)]
      BY <3>1, <2>2
    <3> QED
      BY <3>2, <2>2, Zenon
  <2> QED
    BY <2>1, <2>2
<1>3. \A m \in mail : Sent(m)
  BY Zenon DEF MailInv
<1>4. \A m \in mail' : Sent(m)
  <2> HIDE DEF new, Sent
  <2> QED
    BY <1>1, <1>2, <1>3
<1> QED
  BY <1>4, Zenon DEF MailInv

(* Nothing of it depends on other variables. *)
LEMMA MsgUnchanged ==
  ASSUME MsgInv, UNCHANGED msgVars
  PROVE  MsgInv'
<1>1. cipher' = cipher /\ made' = made /\ log' = log /\ mail' = mail
  BY DEF msgVars
<1>2. LogInv'
  <2>1. \A i : IsLogEntry(i)' <=> IsLogEntry(i)
    BY <1>1, Zenon DEF IsLogEntry
  <2>2. \A i : CounterOf(i)' = CounterOf(i)
    BY <1>1 DEF CounterOf
  <2>3. NoCipher' = NoCipher
    BY DEF NoCipher, NewCipher
  <2> QED
    BY <1>1, <2>1, <2>2, <2>3 DEF MsgInv, LogInv
<1>3. MailInv'
  BY <1>1, Zenon DEF MsgInv, MailInv
<1> QED
  BY <1>2, <1>3 DEF MsgInv

LEMMA MsgStep ==
  ASSUME MsgInv, MNext
  PROVE  MsgInv'
<1>0. Privates \subseteq 1 .. N - 1 /\ Ephemerals \subseteq 1 .. N - 1
  BY MessagingAssumption
<1>1. ASSUME NEW key \in AeadKeys, NEW e \in Epochs, MakeCipher(key, e) PROVE MsgInv'
  <2>1. LogInv'
    BY <1>1, MakeKeepsLog DEF MsgInv
  <2>2. mail' = mail
    BY <1>1 DEF MakeCipher
  <2> QED
    BY <2>1, <2>2, Zenon DEF MsgInv, MailInv
<1>2. ASSUME NEW aad, Encrypt(aad) PROVE MsgInv'
  <2>1. LogInv'
    BY <1>2, EncryptKeepsLog DEF MsgInv
  <2>2. mail' = mail
    BY <1>2 DEF Encrypt
  <2> QED
    BY <2>1, <2>2, Zenon DEF MsgInv, MailInv
<1>3. ASSUME NEW mode, NEW r, NEW eph, NEW aad, SealFor(mode, r, eph, aad),
             \/ mode = "Symmetric"
             \/ mode = "Asymmetric" /\ eph \in 1 .. N - 1 /\ \E d \in 1 .. N - 1 : r = <<d>>
      PROVE  MsgInv'
  <2>1. MailInv'
    BY <1>3, SealKeepsMail DEF MsgInv
  <2>2. cipher' = cipher /\ made' = made /\ log' = log
    BY <1>3 DEF SealFor
  <2>3. LogInv'
    <3>1. \A i : IsLogEntry(i)' <=> IsLogEntry(i)
      BY <2>2, Zenon DEF IsLogEntry
    <3>2. \A i : CounterOf(i)' = CounterOf(i)
      BY <2>2 DEF CounterOf
    <3>3. NoCipher' = NoCipher
      BY DEF NoCipher, NewCipher
    <3> QED
      BY <2>2, <3>1, <3>2, <3>3 DEF MsgInv, LogInv
  <2> QED
    BY <2>1, <2>3 DEF MsgInv
<1>4. ASSUME NEW key, NEW aad, SealFor("Symmetric", key, 0, aad) PROVE MsgInv'
  BY <1>3, <1>4
<1>5. ASSUME NEW d \in Privates, NEW eph \in Ephemerals, NEW aad, SealFor("Asymmetric", <<d>>, eph, aad)
      PROVE  MsgInv'
  <2>1. eph \in 1 .. N - 1 /\ \E c \in 1 .. N - 1 : <<d>> = <<c>>
    BY <1>0
  <2> QED
    BY <1>3, <1>5, <2>1
<1> QED
  BY <1>1, <1>2, <1>4, <1>5 DEF MNext

LEMMA MsgStart ==
  ASSUME MInit
  PROVE  MsgInv
<1>1. cipher = NoCipher /\ made = 0 /\ log = <<>> /\ mail = {}
  BY DEF MInit
<1>2. DOMAIN log = {} /\ log \in Seq({log[i] : i \in DOMAIN log})
  BY <1>1
<1> QED
  BY <1>1, <1>2 DEF MsgInv, LogInv, MailInv

(* One cipher never uses a nonce twice. *)
LEMMA LogSound ==
  ASSUME LogInv
  PROVE  NoncesUnique
<1> SUFFICES ASSUME NEW i \in DOMAIN log, NEW j \in DOMAIN log
             PROVE  LET a == log[i].sealed  b == log[j].sealed
                    IN /\ i < j /\ a.key = b.key /\ a.nonce = b.nonce
                            => log[i].maker # log[j].maker /\ log[i].epoch = log[j].epoch
                       /\ \A aad \in Aads :
                            IsOk(Decrypt(NewCipher(a.key, 0), b.nonce, a, aad)) <=>
                              a.nonce = b.nonce /\ aad = a.aad
  BY DEF NoncesUnique
<1> DEFINE a == log[i].sealed
           b == log[j].sealed
<1>1. /\ CounterOf(i) \in Nat /\ a.nonce = <<log[i].epoch, CounterOf(i)>>
      /\ a = Seal(a.key, a.nonce, a.msg, a.aad) /\ Len(a.key) = KeyLen
      /\ CounterOf(j) \in Nat /\ b.nonce = <<log[j].epoch, CounterOf(j)>>
  BY EntryParts DEF LogInv
<1>2. ASSUME i < j, a.key = b.key, a.nonce = b.nonce
      PROVE  log[i].maker # log[j].maker /\ log[i].epoch = log[j].epoch
  <2> HIDE DEF a, b
  <2>1. log[i].epoch = log[j].epoch /\ CounterOf(i) = CounterOf(j)
    BY <1>1, <1>2
  <2>2. log[i].maker = log[j].maker => CounterOf(i) < CounterOf(j)
    BY <1>2 DEF LogInv
  <2> QED
    BY <1>1, <2>1, <2>2
<1>3. ASSUME NEW aad \in Aads
      PROVE  IsOk(Decrypt(NewCipher(a.key, 0), b.nonce, a, aad)) <=> a.nonce = b.nonce /\ aad = a.aad
  <2>1. Decrypt(NewCipher(a.key, 0), b.nonce, a, aad) = Open(a.key, b.nonce, a, aad)
    BY DEF Decrypt, NewCipher
  <2>2. IsOk(Open(a.key, b.nonce, Seal(a.key, a.nonce, a.msg, a.aad), aad)) <=>
           Len(a.key) = KeyLen /\ a.key = a.key /\ b.nonce = a.nonce /\ aad = a.aad
    <3> HIDE DEF a, b
    <3> QED
      BY OpenExact
  <2> HIDE DEF a, b
  <2> QED
    BY <2>1, <2>2, <1>1
<1> QED
  BY <1>2, <1>3

(* A message opens for the holder of its key only. *)
LEMMA MailSound ==
  ASSUME MailInv
  PROVE  OpensForRecipient
<1>0. Prime(N)
  BY MessagingAssumption DEF Prime
<1> SUFFICES ASSUME NEW m \in mail, NEW s \in AeadKeys \cup {<<>>},
                    NEW p \in {<<d>> : d \in 1 .. N - 1} \cup {<<>>}, NEW aad \in Aads
             PROVE  IsOk(OpenFor(s, p, m, aad)) <=>
                      /\ aad = m.body.sealed.aad
                      /\ IF m.mode = "Symmetric" THEN s = m.to
                         ELSE p # <<>> /\ p[1] \in {m.to[1], N - m.to[1]}
  BY Zenon DEF OpensForRecipient
<1>1. PICK r, ad :
    \/ /\ m = [mode |-> "Symmetric", to |-> r, body |-> [eph |-> 0, sealed |-> Seal(r, Random, <<1>>, ad)]]
       /\ Len(r) = KeyLen
    \/ \E d \in 1 .. N - 1, eph \in 1 .. N - 1 :
         m = [mode |-> "Asymmetric", to |-> <<d>>, body |-> EciesEncrypt(N, d, eph, <<1>>, ad)]
  BY Zenon DEF MailInv
<1>2. ~IsOk(Err("Aead"))
  BY DEF IsOk, Err
<1>3. CASE /\ m = [mode |-> "Symmetric", to |-> r, body |-> [eph |-> 0, sealed |-> Seal(r, Random, <<1>>, ad)]]
           /\ Len(r) = KeyLen
  <2>1. /\ m.mode = "Symmetric" /\ m.to = r /\ m.body.sealed = Seal(r, Random, <<1>>, ad)
        /\ m.body.sealed.aad = ad
    BY <1>3 DEF Seal
  <2>2. r # <<>>
    BY <1>3, CipherAssumption
  <2>3. OpenFor(s, p, m, aad) =
          IF s = <<>> THEN Err("Aead") ELSE Open(s, Random, Seal(r, Random, <<1>>, ad), aad)
    BY <2>1 DEF OpenFor
  <2>4. IsOk(Open(s, Random, Seal(r, Random, <<1>>, ad), aad)) <=>
          Len(s) = KeyLen /\ s = r /\ Random = Random /\ aad = ad
    BY OpenExact
  <2> QED
    BY <2>1, <2>2, <2>3, <2>4, <1>2, <1>3
<1>4. ASSUME NEW d \in 1 .. N - 1, NEW eph \in 1 .. N - 1,
             m = [mode |-> "Asymmetric", to |-> <<d>>, body |-> EciesEncrypt(N, d, eph, << 1 >>, ad)]
      PROVE  IsOk(OpenFor(s, p, m, aad)) <=>
                      /\ aad = m.body.sealed.aad
                      /\ IF m.mode = "Symmetric" THEN s = m.to
                         ELSE p # <<>> /\ p[1] \in {m.to[1], N - m.to[1]}
  <2> DEFINE key == DeriveKeyNonce(N, (d * eph) % N)
  <2>1. m.mode = "Asymmetric" /\ m.to[1] = d /\ m.body = EciesEncrypt(N, d, eph, << 1 >>, ad)
    BY <1>4
  <2>2. m.body.eph = eph /\ m.body.sealed = Seal(key, Random, <<1>>, ad)
    BY <2>1 DEF EciesEncrypt
  <2>3. m.body.sealed.aad = ad
    BY <2>2 DEF Seal
  <2>4. CASE p = <<>>
    <3>1. OpenFor(s, p, m, aad) = Err("Aead")
      BY <2>1, <2>4 DEF OpenFor
    <3> QED
      BY <3>1, <2>1, <2>4, <1>2
  <2>5. ASSUME NEW q \in 1 .. N - 1, p = <<q>>
        PROVE  IsOk(OpenFor(s, p, m, aad)) <=>
                 aad = ad /\ q \in {d, N - d}
    <3> DEFINE other == DeriveKeyNonce(N, (eph * q) % N)
    <3>1. p # <<>> /\ p[1] = q /\ q # 0
      BY <2>5
    <3>2. OpenFor(s, p, m, aad) = Open(other, Random, Seal(key, Random, <<1>>, ad), aad)
      <4>1. OpenFor(s, p, m, aad) = EciesDecrypt(N, q, m.body, aad)
        BY <2>1, <3>1 DEF OpenFor
      <4>2. EciesDecrypt(N, q, m.body, aad) = Open(other, Random, m.body.sealed, aad)
        BY <2>2, <3>1 DEF EciesDecrypt
      <4> QED
        BY <4>1, <4>2, <2>2
    <3>3. /\ Len(other) = KeyLen
          /\ other = key <=> XOf(N, (eph * q) % N) = XOf(N, (d * eph) % N)
      BY FilledKeys DEF DeriveKeyNonce
    <3>4. XOf(N, (d * eph) % N) = XOf(N, (eph * q) % N) <=> q \in {d, N - d}
      BY <1>0, SharedPoint
    <3>5. IsOk(Open(other, Random, Seal(key, Random, <<1>>, ad), aad)) <=>
             Len(other) = KeyLen /\ other = key /\ Random = Random /\ aad = ad
      <4> HIDE DEF other, key
      <4> QED
        BY OpenExact
    <3> QED
      BY <3>2, <3>3, <3>4, <3>5
  <2>6. p # <<>> => \E q \in 1 .. N - 1 : p = <<q>> /\ p[1] = q
    OBVIOUS
  <2> HIDE DEF key
  <2> QED
    BY <2>1, <2>3, <2>4, <2>5, <2>6
<1> QED
  BY <1>1, <1>3, <1>4

(* A step of the key sets leaves the ciphers and messages alone. *)
LEMMA KeysLeaveMessages ==
  ASSUME KeysNext
  PROVE  UNCHANGED msgVars
BY DEF KeysNext, AddNode, SignalPosition, ObfuscateNode, Grant

(* What is sealed opens for those it was sealed for and for no others: an  *)
(* AeadCipher never uses a nonce twice however often it is made again, and *)
(* a message of seal_for opens with its key, or for an ECIES message with  *)
(* the private key or its negative, and with its associated data alone.    *)
(* For every prime group order and every set of keys, epochs and data.     *)
THEOREM OverlayMessages == Spec => []MessagesSound
<1>1. Init => MsgInv
  BY MsgStart DEF Init
<1>2. MsgInv /\ [Next]_vars => MsgInv'
  <2> SUFFICES ASSUME MsgInv, [Next]_vars PROVE MsgInv'
    OBVIOUS
  <2>1. CASE KeysNext
    BY <2>1, KeysLeaveMessages, MsgUnchanged
  <2>2. CASE MNext
    BY <2>2, MsgStep
  <2>3. CASE UNCHANGED vars
    <3>1. UNCHANGED msgVars
      BY <2>3 DEF vars
    <3> QED
      BY <3>1, MsgUnchanged
  <2> QED
    BY <2>1, <2>2, <2>3 DEF Next
<1>3. MsgInv => MessagesSound
  BY LogSound, MailSound DEF MsgInv, MessagesSound
<1> QED
  BY <1>1, <1>2, <1>3, PTL DEF Spec

-------------------------------------------------------------------------------
(* Sequences and induction.                                                *)

(* Induction, stated of a set: a least number outside S would have its     *)
(* predecessor in S.                                                       *)
LEMMA InductionOn ==
  ASSUME NEW S, 0 \in S, \A n \in Nat : n \in S => n + 1 \in S
  PROVE  Nat \subseteq S
<1> SUFFICES ASSUME Nat \ S # {} PROVE FALSE
  OBVIOUS
<1>1. PICK x \in Nat \ S : \A y \in Nat \ S : x <= y
  BY LeastOf
<1>2. x \in Nat /\ x # 0 /\ x \notin S
  BY <1>1
<1>3. x - 1 \in Nat /\ x - 1 + 1 = x /\ ~(x <= x - 1)
  BY <1>2
<1> QED
  BY <1>1, <1>2, <1>3

(* The prefix of a sequence, element by element. *)
LEMMA PrefixIs ==
  ASSUME NEW S, NEW s \in Seq(S), NEW k \in 0 .. Len(s)
  PROVE  /\ SubSeq(s, 1, k) \in Seq(S) /\ Len(SubSeq(s, 1, k)) = k
         /\ \A j \in 1 .. k : SubSeq(s, 1, k)[j] = s[j]
         /\ DOMAIN SubSeq(s, 1, k) = 1 .. k
OBVIOUS

(* Two sequences are one if they agree element by element. *)
LEMMA SeqsEqual ==
  ASSUME NEW S, NEW s \in Seq(S), NEW t \in Seq(S), Len(s) = Len(t),
         \A j \in 1 .. Len(s) : s[j] = t[j]
  PROVE  s = t
OBVIOUS

(* What lies above what, element by element. *)
LEMMA AbovePoint ==
  ASSUME NEW S, NEW p \in Seq(S), NEW q \in Seq(S)
  PROVE  Above(p, q) <=> Len(p) <= Len(q) /\ \A j \in 1 .. Len(p) : p[j] = q[j]
<1>1. Len(p) \in Nat /\ Len(q) \in Nat
  OBVIOUS
<1>2. ASSUME Len(p) <= Len(q) PROVE SubSeq(q, 1, Len(p)) = p <=> \A j \in 1 .. Len(p) : p[j] = q[j]
  <2>1. Len(p) \in 0 .. Len(q)
    BY <1>1, <1>2
  <2>2. /\ SubSeq(q, 1, Len(p)) \in Seq(S) /\ Len(SubSeq(q, 1, Len(p))) = Len(p)
        /\ \A j \in 1 .. Len(p) : SubSeq(q, 1, Len(p))[j] = q[j]
    BY <2>1, PrefixIs
  <2> QED
    BY <2>2, SeqsEqual
<1> QED
  BY <1>2 DEF Above
-------------------------------------------------------------------------------
(* Derivation.                                                             *)
Elem == Nat \X Nat
Chains == Seq(Elem)
Prefixes(cc) == {SubSeq(cc, 1, k) : k \in 1 .. Len(cc)}

(* A sequence is the longest of its prefixes. *)
LEMMA PrefixesTell ==
  ASSUME NEW a \in Chains, NEW b \in Chains, a # <<>>, b # <<>>
  PROVE  Prefixes(a) = Prefixes(b) <=> a = b
<1> SUFFICES ASSUME Prefixes(a) = Prefixes(b) PROVE a = b
  OBVIOUS
<1>1. ASSUME NEW c \in Chains, c # <<>> PROVE c \in Prefixes(c) /\ Len(c) \in Nat
  <2>1. Len(c) \in 1 .. Len(c) /\ Len(c) \in 0 .. Len(c) /\ Len(c) \in Nat
    BY <1>1 DEF Chains
  <2>2. SubSeq(c, 1, Len(c)) = c
    BY <2>1, PrefixIs, SeqsEqual DEF Chains
  <2> QED
    BY <2>1, <2>2 DEF Prefixes
<1>2. ASSUME NEW c \in Chains, NEW d \in Prefixes(c) PROVE Len(d) <= Len(c) /\ \A j \in 1 .. Len(d) : d[j] = c[j]
  <2>1. PICK k \in 1 .. Len(c) : d = SubSeq(c, 1, k)
    BY <1>2 DEF Prefixes
  <2>2. k \in 0 .. Len(c) /\ k <= Len(c) /\ Len(c) \in Nat
    BY DEF Chains
  <2> QED
    BY <2>1, <2>2, PrefixIs DEF Chains
<1>3. Len(a) <= Len(b) /\ Len(b) <= Len(a) /\ \A j \in 1 .. Len(a) : a[j] = b[j]
  BY <1>1, <1>2
<1>4. Len(a) = Len(b)
  BY <1>1, <1>3
<1> QED
  BY <1>3, <1>4, SeqsEqual DEF Chains

(* One more element is one more prefix. *)
LEMMA PrefixesAppend ==
  ASSUME NEW cc \in Chains, NEW e \in Elem
  PROVE  /\ Append(cc, e) \in Chains /\ Len(Append(cc, e)) = Len(cc) + 1 /\ Append(cc, e) # <<>>
         /\ Prefixes(Append(cc, e)) = Prefixes(cc) \cup {Append(cc, e)}
<1> DEFINE c == Append(cc, e)
<1>1. /\ c \in Seq(Elem) /\ cc \in Seq(Elem) /\ Len(c) = Len(cc) + 1 /\ Len(cc) \in Nat /\ c # <<>>
      /\ \A j \in 1 .. Len(cc) : c[j] = cc[j]
  BY DEF Chains
<1> HIDE DEF c
<1>2. ASSUME NEW k \in 1 .. Len(cc) PROVE SubSeq(c, 1, k) = SubSeq(cc, 1, k)
  <2>1. k \in 0 .. Len(cc) /\ k \in 0 .. Len(c)
    BY <1>1
  <2>2. /\ SubSeq(c, 1, k) \in Seq(Elem) /\ Len(SubSeq(c, 1, k)) = k
        /\ \A j \in 1 .. k : SubSeq(c, 1, k)[j] = c[j]
        /\ SubSeq(cc, 1, k) \in Seq(Elem) /\ Len(SubSeq(cc, 1, k)) = k
        /\ \A j \in 1 .. k : SubSeq(cc, 1, k)[j] = cc[j]
    BY <1>1, <2>1, PrefixIs
  <2>3. \A j \in 1 .. k : SubSeq(c, 1, k)[j] = SubSeq(cc, 1, k)[j]
    BY <1>1, <2>2
  <2> QED
    BY <2>2, <2>3, SeqsEqual
<1>3. SubSeq(c, 1, Len(c)) = c
  <2>1. Len(c) \in 0 .. Len(c)
    BY <1>1
  <2> QED
    BY <1>1, <2>1, PrefixIs, SeqsEqual
<1>4. 1 .. Len(c) = 1 .. Len(cc) \cup {Len(c)}
  BY <1>1
<1>5. Prefixes(c) = Prefixes(cc) \cup {c}
  BY <1>2, <1>3, <1>4 DEF Prefixes
<1> QED
  BY <1>1, <1>5 DEF c, Chains

(* What a key of the code is: its sum has one addend for each prefix of    *)
(* its chain code.                                                         *)
IsKey(x) ==
  /\ x = [private |-> x.private, sum |-> x.sum, cc |-> x.cc, depth |-> x.depth, number |-> x.number]
  /\ x.private \in BOOLEAN /\ x.cc \in Chains /\ x.cc # <<>>
  /\ x.sum = Prefixes(x.cc) /\ x.depth = Len(x.cc) - 1

(* The chain code after k indices of a path, and the key there. *)
Hash(i) == IF i >= Hardened THEN 1 ELSE 0
Chain(seed, path, k) ==
  [j \in 1 .. k + 1 |-> IF j = 1 THEN seed ELSE <<Hash(path[j - 1]), path[j - 1]>>]
Reaches(seed, k) == SeedLength(seed) \in 16 .. 64 /\ k <= DepthMax
PathKey(seed, path, k) ==
  IF Reaches(seed, k)
  THEN XPriv(Prefixes(Chain(seed, path, k)), Chain(seed, path, k), k, IF k = 0 THEN 0 ELSE path[k])
  ELSE NoKey

(* A chain code is a sequence, and grows by one element an index. *)
LEMMA ChainGrows ==
  ASSUME NEW seed \in Elem, NEW path \in Seq(Nat), NEW k \in 0 .. Len(path)
  PROVE  /\ Chain(seed, path, k) \in Chains /\ Len(Chain(seed, path, k)) = k + 1
         /\ Chain(seed, path, k) # <<>> /\ Chain(seed, path, k)[1] = seed
         /\ \A j \in 1 .. k : /\ Chain(seed, path, k)[j + 1] = <<Hash(path[j]), path[j]>>
                              /\ <<Hash(path[j]), path[j]>> \in Elem
         /\ k < Len(path) =>
              /\ path[k + 1] \in Nat
              /\ Chain(seed, path, k + 1) = Append(Chain(seed, path, k), <<Hash(path[k + 1]), path[k + 1]>>)
<1>1. Hardened \in Nat /\ Len(path) \in Nat /\ k \in Nat
  BY OverlayKeysAssumption
<1>2. \A j \in 1 .. Len(path) : path[j] \in Nat /\ <<Hash(path[j]), path[j]>> \in Elem
  BY <1>1 DEF Hash, Elem
<1>3. ASSUME NEW l \in 0 .. Len(path)
      PROVE /\ Chain(seed, path, l) \in Chains /\ Len(Chain(seed, path, l)) = l + 1
            /\ Chain(seed, path, l)[1] = seed
            /\ \A j \in 1 .. l : Chain(seed, path, l)[j + 1] = <<Hash(path[j]), path[j]>>
  <2>1. \A j \in 1 .. l + 1 : (IF j = 1 THEN seed ELSE <<Hash(path[j - 1]), path[j - 1]>>) \in Elem
    <3> SUFFICES ASSUME NEW j \in 1 .. l + 1, j # 1 PROVE <<Hash(path[j - 1]), path[j - 1]>> \in Elem
      OBVIOUS
    <3>1. j - 1 \in 1 .. Len(path)
      BY <1>1
    <3> QED
      BY <3>1, <1>2
  <2>2. Chain(seed, path, l) \in [1 .. l + 1 -> Elem]
    BY <2>1 DEF Chain
  <2>3. l + 1 \in Nat /\ 1 \in 1 .. l + 1 /\ \A j \in 1 .. l : j + 1 \in 1 .. l + 1 /\ j + 1 # 1 /\ (j + 1) - 1 = j
    BY <1>1
  <2>4. Chain(seed, path, l) \in Chains /\ Len(Chain(seed, path, l)) = l + 1
    BY <2>2, <2>3 DEF Chains
  <2>5. Chain(seed, path, l)[1] = seed
    BY <2>3 DEF Chain
  <2>6. ASSUME NEW j \in 1 .. l PROVE Chain(seed, path, l)[j + 1] = <<Hash(path[j]), path[j]>>
    BY <2>3 DEF Chain
  <2> QED
    BY <2>4, <2>5, <2>6
<1>4. Chain(seed, path, k) # <<>>
  BY <1>3, <1>1
<1>5. ASSUME k < Len(path)
      PROVE Chain(seed, path, k + 1) = Append(Chain(seed, path, k), <<Hash(path[k + 1]), path[k + 1]>>)
  <2> DEFINE a == Chain(seed, path, k + 1)
             b == Chain(seed, path, k)
             e == <<Hash(path[k + 1]), path[k + 1]>>
  <2>1. k + 1 \in 0 .. Len(path) /\ k + 1 \in 1 .. Len(path) /\ k + 1 \in 1 .. k + 1
    BY <1>1, <1>5
  <2>2. /\ a \in Seq(Elem) /\ Len(a) = (k + 1) + 1 /\ a[1] = seed
        /\ \A j \in 1 .. k + 1 : a[j + 1] = <<Hash(path[j]), path[j]>>
    BY <1>3, <2>1 DEF Chains
  <2>3. /\ b \in Seq(Elem) /\ Len(b) = k + 1 /\ b[1] = seed
        /\ \A j \in 1 .. k : b[j + 1] = <<Hash(path[j]), path[j]>>
    BY <1>3 DEF Chains
  <2>4. e \in Elem /\ a[(k + 1) + 1] = e
    BY <1>2, <2>1, <2>2
  <2>5. ASSUME NEW j \in 1 .. k + 1 PROVE a[j] = b[j]
    <3>1. CASE j = 1
      BY <3>1, <2>2, <2>3
    <3>2. CASE j # 1
      <4>1. PICK i \in 1 .. k : j = i + 1
        <5>1. j - 1 \in 1 .. k /\ j = (j - 1) + 1
          BY <3>2, <1>1
        <5> QED
          BY <5>1
      <4>2. i \in 1 .. k + 1
        BY <1>1
      <4> QED
        BY <4>1, <4>2, <2>2, <2>3
    <3> QED
      BY <3>1, <3>2
  <2> HIDE DEF a, b, e
  <2>6. Append(b, e) \in Seq(Elem) /\ Len(Append(b, e)) = Len(a)
    BY <2>2, <2>3, <2>4
  <2>7. ASSUME NEW j \in 1 .. Len(a) PROVE a[j] = Append(b, e)[j]
    <3>1. CASE j \in 1 .. k + 1
      BY <3>1, <2>3, <2>4, <2>5
    <3>2. CASE j = (k + 1) + 1
      BY <3>2, <2>3, <2>4
    <3>3. j \in 1 .. (k + 1) + 1
      BY <2>2
    <3>4. j \in 1 .. k + 1 \/ j = (k + 1) + 1
      BY <3>3, <1>1
    <3> QED
      BY <3>1, <3>2, <3>4
  <2>8. a = Append(b, e)
    BY <2>2, <2>6, <2>7, SeqsEqual
  <2> QED
    BY <2>8 DEF a, b, e
<1>6. k < Len(path) => k + 1 \in 1 .. Len(path)
  BY <1>1
<1>7. \A j \in 1 .. k : j \in 1 .. Len(path)
  BY <1>1
<1> QED
  BY <1>1, <1>2, <1>3, <1>4, <1>5, <1>6, <1>7

(* A key along a path is one, or none where the seed or the depth is bad. *)
LEMMA PathKeyParts ==
  ASSUME NEW seed \in Elem, NEW path \in Seq(Nat), NEW k \in 0 .. Len(path), Reaches(seed, k)
  PROVE  LET x == PathKey(seed, path, k)
         IN /\ IsKey(x) /\ x # NoKey /\ x.private /\ x.cc = Chain(seed, path, k) /\ x.depth = k
            /\ x.sum = Prefixes(Chain(seed, path, k))
<1> DEFINE x == PathKey(seed, path, k)
           c == Chain(seed, path, k)
<1>1. /\ c \in Chains /\ Len(c) = k + 1 /\ c # <<>> /\ k \in Nat
  BY ChainGrows
<1>2. x = [private |-> TRUE, sum |-> Prefixes(c), cc |-> c, depth |-> k, number |-> IF k = 0 THEN 0 ELSE path[k]]
  BY DEF PathKey, XPriv
<1> HIDE DEF x, c
<1>3. x.private = TRUE /\ x.sum = Prefixes(c) /\ x.cc = c /\ x.depth = k
  BY <1>2
<1>4. x # NoKey
  BY <1>1, <1>3 DEF NoKey, XPriv
<1>5. IsKey(x)
  BY <1>1, <1>2, <1>3 DEF IsKey
<1> QED
  BY <1>3, <1>4, <1>5 DEF x, c

(* derive_child goes from one key along the path to the next. *)
LEMMA PathKeyStep ==
  ASSUME NEW seed \in Elem, NEW path \in Seq(Nat), NEW k \in 0 .. Len(path), k < Len(path)
  PROVE  DeriveChild(PathKey(seed, path, k), path[k + 1]) = PathKey(seed, path, k + 1)
<1> DEFINE x == PathKey(seed, path, k)
           y == PathKey(seed, path, k + 1)
           c == Chain(seed, path, k)
           i == path[k + 1]
<1>0. DepthMax \in Nat /\ k \in Nat /\ Len(path) \in Nat /\ k + 1 \in 0 .. Len(path) /\ k + 1 # 0
  BY OverlayKeysAssumption
<1>1. CASE ~Reaches(seed, k)
  <2>1. ~Reaches(seed, k + 1)
    BY <1>0, <1>1 DEF Reaches
  <2> QED
    BY <1>1, <2>1 DEF PathKey, DeriveChild
<1>2. CASE Reaches(seed, k) /\ k = DepthMax
  <2>1. ~Reaches(seed, k + 1) /\ x.depth = DepthMax
    BY <1>0, <1>2, PathKeyParts DEF Reaches
  <2> QED
    BY <2>1 DEF PathKey, DeriveChild
<1>3. CASE Reaches(seed, k) /\ k # DepthMax
  <2>1. Reaches(seed, k + 1)
    BY <1>0, <1>3 DEF Reaches
  <2>2. x # NoKey /\ x.depth = k /\ x.cc = c /\ x.sum = Prefixes(c)
    BY <1>3, PathKeyParts
  <2>3. x = [private |-> TRUE, sum |-> Prefixes(c), cc |-> c, depth |-> k, number |-> IF k = 0 THEN 0 ELSE path[k]]
    BY <1>3 DEF PathKey, XPriv
  <2>4. DeriveChild(x, i) = ChildWith(x, Hash(i), i)
    BY <2>2, <1>3 DEF DeriveChild, Hash
  <2>5. /\ c \in Chains /\ i \in Nat /\ <<Hash(i), i>> \in Elem
        /\ Chain(seed, path, k + 1) = Append(c, <<Hash(i), i>>)
    <3>1. Hardened \in Nat
      BY OverlayKeysAssumption
    <3>2. c \in Chains /\ i \in Nat /\ Chain(seed, path, k + 1) = Append(c, <<Hash(i), i>>)
      BY ChainGrows
    <3> QED
      BY <3>1, <3>2 DEF Elem, Hash
  <2>6. Prefixes(Append(c, <<Hash(i), i>>)) = Prefixes(c) \cup {Append(c, <<Hash(i), i>>)}
    BY <2>5, PrefixesAppend
  <2>7. y = [private |-> TRUE, sum |-> Prefixes(c) \cup {Append(c, <<Hash(i), i>>)},
             cc |-> Append(c, <<Hash(i), i>>), depth |-> k + 1, number |-> i]
    <3>1. y = XPriv(Prefixes(Chain(seed, path, k + 1)), Chain(seed, path, k + 1), k + 1, i)
      BY <2>1, <1>0 DEF PathKey
    <3> QED
      BY <3>1, <2>5, <2>6 DEF XPriv
  <2> HIDE DEF x, y, c, i
  <2>8. ChildWith(x, Hash(i), i) = y
    BY <2>3, <2>7 DEF ChildWith, HmacSha512
  <2> QED
    BY <2>4, <2>8 DEF x, y, i
<1> QED
  BY <1>1, <1>2, <1>3

(* derive_path, in closed form. *)
LEMMA DerivePathIs ==
  ASSUME NEW seed \in Elem, NEW path \in Seq(Nat)
  PROVE  DerivePath(FromSeed(seed), path) = PathKey(seed, path, Len(path))
<1> DEFINE n == Len(path)
           start == FromSeed(seed)
           Rec(f) == [i \in 0 .. n |-> IF i = 0 THEN start ELSE DeriveChild(f[i - 1], path[i])]
           g == [i \in 0 .. n |-> PathKey(seed, path, i)]
           h == CHOOSE f : f = Rec(f)
<1>0. n \in Nat /\ DepthMax \in Nat
  BY OverlayKeysAssumption
<1>1. start = PathKey(seed, path, 0)
  <2>1. Chain(seed, path, 0) = <<seed>>
    <3>1. /\ Chain(seed, path, 0) \in Seq(Elem) /\ Len(Chain(seed, path, 0)) = 1
          /\ Chain(seed, path, 0)[1] = seed
      <4>1. 0 \in 0 .. Len(path) /\ 0 + 1 = 1
        BY <1>0
      <4>2. Len(Chain(seed, path, 0)) = 0 + 1 /\ Chain(seed, path, 0) \in Chains /\ Chain(seed, path, 0)[1] = seed
        BY <4>1, ChainGrows
      <4> QED
        BY <4>1, <4>2 DEF Chains
    <3> QED
      BY <3>1
  <2>2. Prefixes(<<seed>>) = {<<seed>>}
    <3>1. <<>> \in Chains /\ Append(<<>>, seed) = <<seed>> /\ Prefixes(<<>>) = {}
      BY DEF Chains, Prefixes
    <3> QED
      BY <3>1, PrefixesAppend
  <2>3. Reaches(seed, 0) <=> SeedLength(seed) \in 16 .. 64
    BY <1>0 DEF Reaches
  <2> QED
    BY <2>1, <2>2, <2>3 DEF FromSeed, PathKey
<1>2. g = Rec(g)
  <2>1. ASSUME NEW i \in 0 .. n PROVE g[i] = Rec(g)[i]
    <3>1. CASE i = 0
      BY <3>1, <1>1
    <3>2. CASE i # 0
      <4>1. i - 1 \in 0 .. n /\ i - 1 < n /\ (i - 1) + 1 = i
        BY <3>2, <1>0
      <4>2. DeriveChild(PathKey(seed, path, i - 1), path[(i - 1) + 1]) = PathKey(seed, path, (i - 1) + 1)
        BY <4>1, PathKeyStep
      <4>3. Rec(g)[i] = DeriveChild(g[i - 1], path[i])
        BY <3>2
      <4>4. g[i - 1] = PathKey(seed, path, i - 1) /\ g[i] = PathKey(seed, path, i)
        BY <4>1
      <4> QED
        BY <4>1, <4>2, <4>3, <4>4
    <3> QED
      BY <3>1, <3>2
  <2> QED
    BY <2>1
<1>3. h = Rec(h)
  <2> HIDE DEF g
  <2>1. \E f : f = Rec(f)
    BY <1>2
  <2> QED
    BY <2>1
<1>4. ASSUME NEW i \in 0 .. n PROVE h[i] = IF i = 0 THEN start ELSE DeriveChild(h[i - 1], path[i])
  <2> HIDE DEF h
  <2>1. h[i] = Rec(h)[i]
    BY <1>3
  <2> QED
    BY <2>1
<1> HIDE DEF h
<1>5. Nat \subseteq {i \in Nat : i <= n => h[i] = PathKey(seed, path, i)}
  <2> DEFINE S == {i \in Nat : i <= n => h[i] = PathKey(seed, path, i)}
  <2>1. 0 \in S
    BY <1>0, <1>1, <1>4
  <2>2. ASSUME NEW i \in Nat, i \in S PROVE i + 1 \in S
    <3> SUFFICES ASSUME i + 1 <= n PROVE h[i + 1] = PathKey(seed, path, i + 1)
      OBVIOUS
    <3>1. i \in 0 .. n /\ i < n /\ i + 1 \in 0 .. n /\ i + 1 # 0 /\ (i + 1) - 1 = i
      BY <1>0
    <3>2. h[i + 1] = DeriveChild(h[i], path[i + 1]) /\ h[i] = PathKey(seed, path, i)
      BY <3>1, <1>4, <2>2
    <3> QED
      BY <3>1, <3>2, PathKeyStep
  <2> HIDE DEF S
  <2>3. Nat \subseteq S
    BY <2>1, <2>2, InductionOn
  <2> QED
    BY <2>3 DEF S
<1>6. DerivePath(start, path) = h[n]
  BY DEF DerivePath, h
<1> QED
  BY <1>0, <1>5, <1>6

(* Position::hardened_path and path. *)
LEMMA PathsOfPositions ==
  ASSUME NEW p \in Seq(Coords)
  PROVE  /\ HardenedPath(p) \in Seq(Nat) /\ Len(HardenedPath(p)) = Len(p)
         /\ \A j \in 1 .. Len(p) : HardenedPath(p)[j] >= Hardened /\ HardenedPath(p)[j] \in Indices(Coords)
         /\ PlainPath(p) \in Seq(Nat) /\ Len(PlainPath(p)) = Len(p)
<1>0. Hardened \in Nat \ {0} /\ Coords \subseteq Int
  BY OverlayKeysAssumption
<1>1. ASSUME NEW c \in Coords PROVE c % Hardened \in Nat /\ (c % Hardened) + Hardened \in Nat /\ (c % Hardened) + Hardened >= Hardened
  <2>1. c % Hardened \in 0 .. Hardened - 1
    BY <1>0, DivMod
  <2> QED
    BY <1>0, <2>1
<1>2. Len(p) \in Nat /\ DOMAIN p = 1 .. Len(p) /\ \A j \in 1 .. Len(p) : p[j] \in Coords
  OBVIOUS
<1>3. HardenedPath(p) \in [1 .. Len(p) -> Nat] /\ PlainPath(p) \in [1 .. Len(p) -> Nat]
  BY <1>1, <1>2 DEF HardenedPath, PlainPath
<1>4. \A j \in 1 .. Len(p) : HardenedPath(p)[j] >= Hardened /\ HardenedPath(p)[j] \in Indices(Coords)
  BY <1>1, <1>2 DEF HardenedPath, Indices
<1>5. ASSUME NEW n \in Nat, NEW f \in [1 .. n -> Nat] PROVE f \in Seq(Nat) /\ Len(f) = n
  OBVIOUS
<1>6. Len(p) \in Nat
  BY <1>2
<1> QED
  BY <1>3, <1>4, <1>5, <1>6

(* The graph, as far as the keys go: positions are as long as they are     *)
(* deep.                                                                   *)
PositionsInv ==
  /\ G!TypeOK
  /\ \A id \in DOMAIN nodes :
       /\ PositionOf(id) \in Seq(Coords) /\ Len(PositionOf(id)) = nodes[id].layer
       /\ Len(PositionOf(id)) <= GraphDepth
SeedsInv ==
  /\ \A d \in Sets : seeds[d] \in Elem
  /\ \A d, e \in Sets : seeds[d] = seeds[e] => d = e
GrantInv ==
  \A g \in granted :
    /\ g.set \in Sets /\ g.path \in Seq(Nat) /\ Len(g.path) <= GraphDepth
    /\ g.plain \in BOOLEAN /\ g.private \in BOOLEAN
    /\ DerivePath(FromSeed(seeds[g.set]), g.path) # NoKey
    /\ ~g.plain => \A j \in 1 .. Len(g.path) : g.path[j] >= Hardened
StoredInv ==
  /\ DOMAIN stored \subseteq DOMAIN nodes
  /\ \A id \in DOMAIN stored :
       /\ KeyAt(2, PositionOf(id)) # NoKey
       /\ stored[id] = Obfuscate(KeyAt(2, PositionOf(id)), <<id>>)
KeyInv == PositionsInv /\ SeedsInv /\ GrantInv /\ StoredInv /\ heard \subseteq NodePositions

LEMMA KeysStart ==
  ASSUME Init
  PROVE  KeyInv
<1>1. /\ nodes = [n \in {0} |-> [position |-> <<>>, layer |-> 0, parent |-> -1, children |-> {}, key_epoch |-> 0]]
      /\ next_id = 1
  BY DEF Init, G!Init, G!Root, G!None
<1>2. DOMAIN nodes = {0} /\ PositionOf(0) = <<>> /\ nodes[0].layer = 0
  BY <1>1 DEF PositionOf
<1>3. PositionsInv
  <2>1. nodes[0] \in G!Node /\ nodes \in [{0} -> G!Node]
    BY <1>1 DEF G!Node, G!NodeId, G!None
  <2>2. G!TypeOK
    BY <1>1, <1>2, <2>1 DEF G!TypeOK, G!Ids, G!Root
  <2>3. <<>> \in Seq(Coords) /\ Len(<<>>) = 0 /\ 0 <= GraphDepth
    BY OverlayKeysAssumption
  <2> QED
    BY <1>2, <2>2, <2>3 DEF PositionsInv
<1>4. SeedsInv
  BY DEF Init, SeedsInv, FromMaster, FromParts, DeriveSeed, Sets, Elem
<1>5. granted = {} /\ stored = <<>> /\ heard = {} /\ DOMAIN stored = {}
  BY DEF Init
<1> QED
  BY <1>3, <1>4, <1>5 DEF KeyInv, GrantInv, StoredInv

(* add_node gives the new node a position and leaves the others theirs. *)
LEMMA AddKeepsPositions ==
  ASSUME PositionsInv, NEW p, NEW coord \in Coords, G!AddChild(p, coord)
  PROVE  /\ PositionsInv' /\ DOMAIN nodes \subseteq DOMAIN nodes'
         /\ \A id \in DOMAIN nodes : PositionOf(id)' = PositionOf(id)
<1> DEFINE old == nodes[p]
           kid == [position |-> Append(old.position, coord), layer |-> old.layer + 1,
                   parent |-> p, children |-> {}, key_epoch |-> 0]
           up  == [old EXCEPT !.children = @ \cup {next_id}]
<1>1. /\ p \in DOMAIN nodes /\ old.layer + 1 <= GraphDepth
      /\ nodes' = [n \in DOMAIN nodes \cup {next_id} |->
                     CASE n = next_id -> kid [] n = p -> up [] OTHER -> nodes[n]]
      /\ next_id' = next_id + 1
  BY DEF G!AddChild, G!HasRoom, G!NewChild, G!Ids
<1>2. /\ next_id \in Nat /\ DOMAIN nodes \subseteq 0 .. next_id - 1 /\ 0 \in DOMAIN nodes
      /\ nodes \in [DOMAIN nodes -> G!Node]
  BY DEF PositionsInv, G!TypeOK, G!Ids, G!Root
<1>3. next_id \notin DOMAIN nodes /\ p # next_id /\ p \in Nat /\ old \in G!Node
  BY <1>1, <1>2
<1>4. old.position \in Seq(Coords) /\ old.layer \in Nat /\ old.children \in SUBSET Nat /\ Len(old.position) = old.layer
  BY <1>1, <1>3 DEF G!Node, G!NodeId, PositionsInv, PositionOf
<1>5. kid \in G!Node /\ kid.position \in Seq(Coords) /\ kid.layer = Len(kid.position) /\ kid.layer <= GraphDepth
  <2>1. Append(old.position, coord) \in Seq(Coords) /\ Len(Append(old.position, coord)) = old.layer + 1
    BY <1>4
  <2>2. kid \in G!Node
    BY <2>1, <1>3, <1>4 DEF G!Node, G!NodeId, G!None
  <2> QED
    BY <2>1, <2>2, <1>1
<1>6. up \in G!Node /\ up.position = old.position /\ up.layer = old.layer
  BY <1>2, <1>3, <1>4 DEF G!Node, G!NodeId
<1> HIDE DEF kid, up
<1>7. /\ DOMAIN nodes' = DOMAIN nodes \cup {next_id} /\ nodes'[next_id] = kid /\ nodes'[p] = up
      /\ \A n \in DOMAIN nodes : n # p => nodes'[n] = nodes[n]
  BY <1>1, <1>3
<1>8. \A id \in DOMAIN nodes : nodes'[id].position = nodes[id].position /\ nodes'[id].layer = nodes[id].layer
  BY <1>6, <1>7
<1>9. \A id \in DOMAIN nodes' : nodes'[id] \in G!Node
  BY <1>2, <1>5, <1>6, <1>7
<1>10. G!TypeOK'
  <2>1. nodes' \in [DOMAIN nodes' -> G!Node]
    BY <1>1, <1>7, <1>9
  <2>2. DOMAIN nodes' \subseteq 0 .. next_id' - 1 /\ next_id' \in Nat /\ 0 \in DOMAIN nodes'
    BY <1>1, <1>2, <1>7
  <2> QED
    BY <2>1, <2>2 DEF G!TypeOK, G!Ids, G!Root
<1>11. ASSUME NEW id \in DOMAIN nodes'
       PROVE  /\ nodes'[id].position \in Seq(Coords) /\ Len(nodes'[id].position) = nodes'[id].layer
              /\ Len(nodes'[id].position) <= GraphDepth
  <2>1. CASE id = next_id
    BY <2>1, <1>5, <1>7
  <2>2. CASE id \in DOMAIN nodes
    BY <2>2, <1>8 DEF PositionsInv, PositionOf
  <2> QED
    BY <2>1, <2>2, <1>7
<1> QED
  BY <1>7, <1>8, <1>10, <1>11 DEF PositionsInv, PositionOf

(* A step of the key sets. *)
LEMMA KeysStep ==
  ASSUME KeyInv, KeysNext
  PROVE  KeyInv'
<1>1. ASSUME NEW id, NEW c \in Coords, AddNode(id, c) PROVE KeyInv'
  <2>1. /\ PositionsInv' /\ DOMAIN nodes \subseteq DOMAIN nodes'
        /\ \A n \in DOMAIN nodes : PositionOf(n)' = PositionOf(n)
    BY <1>1, AddKeepsPositions DEF AddNode, KeyInv
  <2>2. seeds' = seeds /\ heard' = heard /\ granted' = granted /\ stored' = stored
    BY <1>1 DEF AddNode
  <2>3. SeedsInv' /\ GrantInv'
    BY <2>2 DEF KeyInv, SeedsInv, GrantInv
  <2>4. StoredInv'
    <3>1. \A n \in DOMAIN stored : KeyAt(2, PositionOf(n))' = KeyAt(2, PositionOf(n))
      BY <2>1, <2>2 DEF KeyAt, KeyInv, StoredInv
    <3> QED
      BY <2>1, <2>2, <3>1 DEF KeyInv, StoredInv
  <2>5. heard' \subseteq NodePositions'
    BY <2>1, <2>2 DEF KeyInv, NodePositions
  <2> QED
    BY <2>1, <2>3, <2>4, <2>5 DEF KeyInv
<1>2. ASSUME NEW id \in DOMAIN nodes, SignalPosition(id) PROVE KeyInv'
  <2>1. /\ nodes' = nodes /\ next_id' = next_id /\ seeds' = seeds /\ granted' = granted /\ stored' = stored
        /\ heard' = {PositionOf(id)}
    BY <1>2 DEF SignalPosition
  <2>2. heard' \subseteq NodePositions'
    BY <2>1 DEF NodePositions, PositionOf
  <2>3. PositionsInv'
    BY <2>1 DEF KeyInv, PositionsInv, PositionOf, G!TypeOK, G!Ids
  <2> QED
    BY <2>1, <2>2, <2>3 DEF KeyInv, SeedsInv, GrantInv, StoredInv, KeyAt, PositionOf
<1>3. ASSUME NEW id \in DOMAIN nodes, ObfuscateNode(id) PROVE KeyInv'
  <2>1. /\ nodes' = nodes /\ next_id' = next_id /\ seeds' = seeds /\ granted' = granted /\ heard' = heard
        /\ KeyAt(2, PositionOf(id)) # NoKey
        /\ stored' = [n \in DOMAIN stored \cup {id} |->
             IF n = id THEN Obfuscate(KeyAt(2, PositionOf(id)), <<id>>) ELSE stored[n]]
    BY <1>3 DEF ObfuscateNode
  <2>2. PositionsInv'
    BY <2>1 DEF KeyInv, PositionsInv, PositionOf, G!TypeOK, G!Ids
  <2>3. \A n : PositionOf(n)' = PositionOf(n) /\ KeyAt(2, PositionOf(n))' = KeyAt(2, PositionOf(n))
    BY <2>1 DEF PositionOf, KeyAt
  <2>4. StoredInv'
    BY <2>1, <2>3 DEF KeyInv, StoredInv
  <2> QED
    BY <2>1, <2>2, <2>4 DEF KeyInv, SeedsInv, GrantInv, NodePositions, PositionOf
<1>4. ASSUME NEW d \in GrantSets, NEW path \in Seq(Nat), NEW plain \in BOOLEAN, NEW private \in BOOLEAN,
             Len(path) <= GraphDepth, ~plain => \A j \in 1 .. Len(path) : path[j] >= Hardened,
             Grant(d, path, plain, private)
      PROVE  KeyInv'
  <2> DEFINE new == [set |-> d, path |-> path, plain |-> plain, private |-> private]
  <2>1. /\ nodes' = nodes /\ next_id' = next_id /\ seeds' = seeds /\ heard' = heard /\ stored' = stored
        /\ DerivePath(FromSeed(seeds[d]), path) # NoKey
        /\ granted' = granted \cup {new}
    BY <1>4 DEF Grant
  <2>2. d \in Sets
    BY OverlayKeysAssumption DEF Sets
  <2>3. /\ new.set = d /\ new.path = path /\ new.plain = plain /\ new.private = private
    OBVIOUS
  <2> HIDE DEF new
  <2>4. GrantInv'
    BY <1>4, <2>1, <2>2, <2>3 DEF KeyInv, GrantInv
  <2>5. PositionsInv'
    BY <2>1 DEF KeyInv, PositionsInv, PositionOf, G!TypeOK, G!Ids
  <2> QED
    BY <2>1, <2>4, <2>5 DEF KeyInv, SeedsInv, StoredInv, KeyAt, PositionOf, NodePositions
<1>5. ASSUME NEW d \in GrantSets, NEW p \in NodePositions, NEW private \in BOOLEAN,
             Grant(d, HardenedPath(p), FALSE, private) \/ Grant(d, PlainPath(p), TRUE, private)
      PROVE  KeyInv'
  <2>1. p \in Seq(Coords) /\ Len(p) <= GraphDepth
    BY DEF NodePositions, KeyInv, PositionsInv
  <2>2. /\ HardenedPath(p) \in Seq(Nat) /\ Len(HardenedPath(p)) = Len(p)
        /\ \A j \in 1 .. Len(p) : HardenedPath(p)[j] >= Hardened
        /\ PlainPath(p) \in Seq(Nat) /\ Len(PlainPath(p)) = Len(p)
    BY <2>1, PathsOfPositions
  <2> QED
    BY <1>4, <1>5, <2>1, <2>2
<1> QED
  BY <1>1, <1>2, <1>3, <1>5 DEF KeysNext

(* Nothing of it depends on the ciphers and messages. *)
LEMMA KeysUnchanged ==
  ASSUME KeyInv, UNCHANGED keyVars
  PROVE  KeyInv'
<1>1. /\ nodes' = nodes /\ next_id' = next_id /\ seeds' = seeds /\ heard' = heard
      /\ granted' = granted /\ stored' = stored
  BY DEF keyVars
<1>2. PositionsInv'
  BY <1>1 DEF KeyInv, PositionsInv, PositionOf, G!TypeOK, G!Ids
<1> QED
  BY <1>1, <1>2 DEF KeyInv, SeedsInv, GrantInv, StoredInv, KeyAt, PositionOf, NodePositions

LEMMA LogIsTyped ==
  ASSUME LogInv
  PROVE  log \in Seq([maker : 1 .. made, epoch : Epochs, sealed : {log[i].sealed : i \in DOMAIN log}])
<1> DEFINE R == [maker : 1 .. made, epoch : Epochs, sealed : {log[i].sealed : i \in DOMAIN log}]
<1>1. log \in Seq({log[i] : i \in DOMAIN log})
  BY DEF LogInv
<1>2. ASSUME NEW i \in DOMAIN log PROVE log[i] \in R
  <2>1. /\ log[i].maker \in 1 .. made /\ log[i].epoch \in Epochs
        /\ log[i] = [maker |-> log[i].maker, epoch |-> log[i].epoch, sealed |-> log[i].sealed]
    BY EntryParts DEF LogInv
  <2>2. log[i].sealed \in {log[j].sealed : j \in DOMAIN log}
    OBVIOUS
  <2> QED
    BY <2>1, <2>2
<1> HIDE DEF R
<1>3. log \in Seq(R)
  BY <1>1, <1>2
<1> QED
  BY <1>3 DEF R

LEMMA KeysAreTyped ==
  ASSUME KeyInv, LogInv
  PROVE  TypeOK
BY LogIsTyped DEF KeyInv, PositionsInv, SeedsInv, StoredInv, TypeOK, Elem

(* A key tells its seed and its path. *)
LEMMA ChainsTell ==
  ASSUME NEW a \in Elem, NEW b \in Elem, NEW p \in Seq(Nat), NEW q \in Seq(Nat),
         NEW k \in 0 .. Len(p), NEW l \in 0 .. Len(q), Above(Chain(a, p, k), Chain(b, q, l))
  PROVE  a = b /\ k <= l /\ \A j \in 1 .. k : p[j] = q[j]
<1>0. ASSUME NEW s \in Elem, NEW r \in Seq(Nat), NEW m \in 0 .. Len(r)
      PROVE  /\ Chain(s, r, m) \in Chains /\ Len(Chain(s, r, m)) = m + 1 /\ Chain(s, r, m)[1] = s
             /\ \A j \in 1 .. m : Chain(s, r, m)[j + 1] = <<Hash(r[j]), r[j]>>
  <2>1. /\ Chain(s, r, m) \in Chains /\ Len(Chain(s, r, m)) = m + 1 /\ Chain(s, r, m)[1] = s
        /\ \A j \in 1 .. m : /\ Chain(s, r, m)[j + 1] = <<Hash(r[j]), r[j]>>
                             /\ <<Hash(r[j]), r[j]>> \in Elem
    BY ChainGrows, Zenon
  <2> QED
    BY <2>1, Zenon
<1>1. PICK c : c = Chain(a, p, k)
  OBVIOUS
<1>2. PICK d : d = Chain(b, q, l)
  OBVIOUS
<1>k. k \in Nat /\ l \in Nat
  OBVIOUS
<1>c. /\ c \in Seq(Elem) /\ Len(c) = k + 1 /\ c[1] = a
      /\ \A j \in 1 .. k : c[j + 1] = <<Hash(p[j]), p[j]>>
  <2>1. Chain(a, p, k) \in Chains /\ Len(Chain(a, p, k)) = k + 1 /\ Chain(a, p, k)[1] = a
    BY <1>0
  <2>2. \A j \in 1 .. k : Chain(a, p, k)[j + 1] = <<Hash(p[j]), p[j]>>
    BY <1>0
  <2> QED
    BY <1>1, <2>1, <2>2, Zenon DEF Chains
<1>d. /\ d \in Seq(Elem) /\ Len(d) = l + 1 /\ d[1] = b
      /\ \A j \in 1 .. l : d[j + 1] = <<Hash(q[j]), q[j]>>
  <2>1. Chain(b, q, l) \in Chains /\ Len(Chain(b, q, l)) = l + 1 /\ Chain(b, q, l)[1] = b
    BY <1>0
  <2>2. \A j \in 1 .. l : Chain(b, q, l)[j + 1] = <<Hash(q[j]), q[j]>>
    BY <1>0
  <2> QED
    BY <1>2, <2>1, <2>2, Zenon DEF Chains
<1>3. Len(c) <= Len(d) /\ \A j \in 1 .. Len(c) : c[j] = d[j]
  <2>1. Above(c, d)
    BY <1>1, <1>2
  <2> QED
    BY <2>1, <1>c, <1>d, AbovePoint
<1>4. k <= l /\ a = b
  BY <1>k, <1>c, <1>d, <1>3
<1>5. ASSUME NEW j \in 1 .. k PROVE p[j] = q[j]
  <2>1. j \in 1 .. l /\ j + 1 \in 1 .. Len(c)
    BY <1>k, <1>c, <1>4
  <2>2. <<Hash(p[j]), p[j]>> = <<Hash(q[j]), q[j]>>
    BY <2>1, <1>c, <1>d, <1>3
  <2> QED
    BY <2>2
<1> QED
  BY <1>4, <1>5

LEMMA AboveItself ==
  ASSUME NEW S, NEW c \in Seq(S)
  PROVE  Above(c, c)
<1>1. Len(c) \in Nat /\ Len(c) <= Len(c)
  OBVIOUS
<1> QED
  BY <1>1, AbovePoint

(* The keys of the owner, in closed form. *)
LEMMA KeyAtIs ==
  ASSUME KeyInv, NEW d \in Sets, NEW p \in NodePositions
  PROVE  /\ p \in Seq(Coords) /\ Len(p) <= GraphDepth /\ seeds[d] \in Elem
         /\ HardenedPath(p) \in Seq(Nat) /\ Len(HardenedPath(p)) = Len(p)
         /\ KeyAt(d, p) = PathKey(seeds[d], HardenedPath(p), Len(p))
         /\ KeyAt(d, p) # NoKey => /\ Reaches(seeds[d], Len(p))
                                   /\ KeyAt(d, p).cc = Chain(seeds[d], HardenedPath(p), Len(p))
<1>1. p \in Seq(Coords) /\ Len(p) <= GraphDepth /\ seeds[d] \in Elem
  BY DEF KeyInv, NodePositions, PositionsInv, SeedsInv
<1>2. HardenedPath(p) \in Seq(Nat) /\ Len(HardenedPath(p)) = Len(p)
  BY <1>1, PathsOfPositions
<1>3. KeyAt(d, p) = PathKey(seeds[d], HardenedPath(p), Len(p))
  BY <1>1, <1>2, DerivePathIs DEF KeyAt
<1>4. KeyAt(d, p) # NoKey => Reaches(seeds[d], Len(p))
  BY <1>3 DEF PathKey
<1>5. Len(p) \in 0 .. Len(HardenedPath(p))
  BY <1>2
<1> QED
  BY <1>1, <1>2, <1>3, <1>4, <1>5, PathKeyParts

LEMMA SeparateKeys ==
  ASSUME KeyInv
  PROVE  KeysSeparate
<1> SUFFICES ASSUME NEW d \in Sets, NEW e \in Sets, NEW p \in NodePositions, NEW q \in NodePositions,
                    KeyAt(d, p) # NoKey, KeyAt(d, p) = KeyAt(e, q)
             PROVE  d = e /\ HardenedPath(p) = HardenedPath(q)
  BY DEF KeysSeparate, KeyAt
<1> DEFINE hp == HardenedPath(p)
           hq == HardenedPath(q)
<1>0. ASSUME NEW f \in Sets, NEW r \in NodePositions, KeyAt(f, r) # NoKey
      PROVE  /\ HardenedPath(r) \in Seq(Nat) /\ Len(HardenedPath(r)) = Len(r) /\ seeds[f] \in Elem
             /\ KeyAt(f, r).cc = Chain(seeds[f], HardenedPath(r), Len(HardenedPath(r)))
  BY <1>0, KeyAtIs
<1>1. /\ hp \in Seq(Nat) /\ Len(hp) = Len(p) /\ seeds[d] \in Elem
      /\ KeyAt(d, p).cc = Chain(seeds[d], hp, Len(hp))
  BY <1>0
<1>2. /\ hq \in Seq(Nat) /\ Len(hq) = Len(q) /\ seeds[e] \in Elem
      /\ KeyAt(e, q).cc = Chain(seeds[e], hq, Len(hq))
  BY <1>0
<1>3. Chain(seeds[d], hp, Len(hp)) = Chain(seeds[e], hq, Len(hq))
  BY <1>1, <1>2
<1> HIDE DEF hp, hq
<1>4. Len(hp) \in 0 .. Len(hp) /\ Len(hq) \in 0 .. Len(hq) /\ Len(hp) \in Nat /\ Len(hq) \in Nat
  BY <1>1, <1>2
<1>5. Chain(seeds[d], hp, Len(hp)) \in Seq(Elem)
  BY <1>1, <1>4, ChainGrows DEF Chains
<1>6. /\ Above(Chain(seeds[d], hp, Len(hp)), Chain(seeds[e], hq, Len(hq)))
      /\ Above(Chain(seeds[e], hq, Len(hq)), Chain(seeds[d], hp, Len(hp)))
  BY <1>3, <1>5, AboveItself
<1>7. seeds[d] = seeds[e] /\ Len(hp) <= Len(hq) /\ \A j \in 1 .. Len(hp) : hp[j] = hq[j]
  BY <1>1, <1>2, <1>4, <1>6, ChainsTell
<1>8. Len(hq) <= Len(hp)
  BY <1>1, <1>2, <1>4, <1>6, ChainsTell
<1>9. Len(hp) = Len(hq)
  BY <1>4, <1>7, <1>8
<1>10. hp = hq
  BY <1>1, <1>2, <1>7, <1>9, SeqsEqual
<1>11. d = e
  BY <1>7 DEF KeyInv, SeedsInv
<1> QED
  BY <1>10, <1>11 DEF hp, hq

-------------------------------------------------------------------------------
(* What leaks.                                                             *)

(* Every step of a set has iterates. *)
Iterated(X, x0, step, m) ==
  \E g \in [0 .. m -> X] : g[0] = x0 /\ \A k \in 1 .. m : g[k] = step[g[k - 1]]
LEMMA RoundsExist ==
  ASSUME NEW X, NEW x0 \in X, NEW step \in [X -> X], NEW m \in Nat
  PROVE  Iterated(X, x0, step, m)
<1> DEFINE Good(n) == \E g \in [0 .. n -> X] : /\ g[0] = x0
                                               /\ \A k \in 1 .. n : g[k] = step[g[k - 1]]
           S == {n \in Nat : Good(n)}
<1>1. 0 \in S
  <2> DEFINE h == [k \in 0 .. 0 |-> x0]
  <2>1. /\ h \in [0 .. 0 -> X] /\ h[0] = x0
        /\ \A k \in 1 .. 0 : h[k] = step[h[k - 1]]
    OBVIOUS
  <2> HIDE DEF h
  <2> QED
    BY <2>1
<1>2. ASSUME NEW n \in Nat, n \in S PROVE n + 1 \in S
  <2>1. PICK g \in [0 .. n -> X] : g[0] = x0 /\ \A k \in 1 .. n : g[k] = step[g[k - 1]]
    BY <1>2
  <2> DEFINE h == [k \in 0 .. n + 1 |-> IF k = n + 1 THEN step[g[n]] ELSE g[k]]
  <2>2. h \in [0 .. n + 1 -> X] /\ h[0] = x0
    BY <2>1
  <2>3. \A k \in 1 .. n + 1 : h[k] = step[h[k - 1]]
    BY <2>1
  <2> HIDE DEF h
  <2> QED
    BY <2>2, <2>3
<1>3. Nat \subseteq S
  <2> HIDE DEF S
  <2> QED
    BY <1>1, <1>2, InductionOn
<1> QED
  BY <1>3 DEF Iterated

(* One round of what can be computed, over everything that has the fields  *)
(* of a key.                                                               *)
Universe == [private : BOOLEAN, sum : SUBSET Chains, cc : Chains, depth : Int, number : Nat]
Round(L, indices, maxDepth) == L \cup (Descend(L, indices, maxDepth) \ {NoKey}) \cup Climb(L)

LEMMA ChildInUniverse ==
  ASSUME NEW x \in Universe, NEW h \in {0, 1}, NEW i \in Nat
  PROVE  ChildWith(x, h, i) \in Universe
<1>1. x.private \in BOOLEAN /\ x.sum \in SUBSET Chains /\ x.cc \in Chains /\ x.depth \in Int
  BY DEF Universe
<1>2. <<h, i>> \in Elem
  BY DEF Elem
<1>3. Append(x.cc, <<h, i>>) \in Chains
  BY <1>1, <1>2, PrefixesAppend
<1>4. x.sum \cup {Append(x.cc, <<h, i>>)} \in SUBSET Chains /\ x.depth + 1 \in Int
  <2>1. \A S \in SUBSET Chains, a \in Chains : S \cup {a} \in SUBSET Chains
    OBVIOUS
  <2>2. x.sum \cup {Append(x.cc, <<h, i>>)} \in SUBSET Chains
    BY <1>1, <1>3, <2>1, Zenon
  <2> QED
    BY <1>1, <2>2
<1> QED
  BY <1>1, <1>3, <1>4 DEF Universe, ChildWith, HmacSha512

LEMMA RoundInUniverse ==
  ASSUME NEW L \in SUBSET Universe, NEW indices \in SUBSET Nat, NEW maxDepth
  PROVE  Round(L, indices, maxDepth) \in SUBSET Universe
<1>0. Hardened \in Nat
  BY OverlayKeysAssumption
<1>1. ASSUME NEW x \in L, NEW i \in indices, NEW y \in {DeriveChild(x, i), XPubDeriveChild(x, i)}, y # NoKey
      PROVE  y \in Universe
  <2>1. y = ChildWith(x, 0, i) \/ y = ChildWith(x, 1, i)
    BY <1>1 DEF DeriveChild, XPubDeriveChild
  <2>2. x \in Universe /\ i \in Nat
    OBVIOUS
  <2> QED
    BY <2>1, <2>2, ChildInUniverse
<1>2. Descend(L, indices, maxDepth) \ {NoKey} \subseteq Universe
  <2> SUFFICES ASSUME NEW y \in Descend(L, indices, maxDepth), y # NoKey PROVE y \in Universe
    OBVIOUS
  <2>1. \E x \in L, i \in indices : y = DeriveChild(x, i) \/ y = XPubDeriveChild(x, i)
    BY DEF Descend
  <2> QED
    BY <1>1, <2>1
<1>3. Climb(L) \subseteq Universe
  <2>1. ASSUME NEW q \in Universe PROVE [q EXCEPT !.private = TRUE] \in Universe
    BY DEF Universe
  <2> QED
    BY <2>1 DEF Climb
<1> QED
  BY <1>2, <1>3 DEF Round

(* The recursion of Closure has a solution, so Closure is one. *)
LEMMA ClosureRounds ==
  ASSUME NEW K \in SUBSET Universe, NEW indices \in SUBSET Nat, NEW maxDepth \in Nat
  PROVE  \E f : /\ Closure(K, indices, maxDepth) = f[2 * maxDepth + 1]
                /\ f[0] = K
                /\ \A n \in 1 .. 2 * maxDepth + 1 : f[n] = Round(f[n - 1], indices, maxDepth)
<1> DEFINE m == 2 * maxDepth + 1
           X == SUBSET Universe
           step == [L \in X |-> Round(L, indices, maxDepth)]
           Rec(f) == [n \in 0 .. m |-> IF n = 0 THEN K ELSE Round(f[n - 1], indices, maxDepth)]
           h == CHOOSE f : f = Rec(f)
<1>0. m \in Nat
  OBVIOUS
<1>1. step \in [X -> X]
  <2>1. \A L \in X : Round(L, indices, maxDepth) \in X
    BY RoundInUniverse
  <2> HIDE DEF X
  <2> QED
    BY <2>1
<1>2. PICK g \in [0 .. m -> X] : g[0] = K /\ \A k \in 1 .. m : g[k] = step[g[k - 1]]
  <2> HIDE DEF step, m, X, Rec, h
  <2>1. K \in X
    BY DEF X
  <2>2. Iterated(X, K, step, m)
    BY <1>0, <1>1, <2>1, RoundsExist
  <2> QED
    BY <2>2, Zenon DEF Iterated
<1> HIDE DEF m
<1>3. g = Rec(g)
  <2>1. ASSUME NEW n \in 0 .. m PROVE g[n] = Rec(g)[n]
    <3>1. CASE n = 0
      BY <3>1, <1>2
    <3>2. CASE n # 0
      <4>1. n \in 1 .. m /\ n - 1 \in 0 .. m
        BY <3>2, <1>0
      <4>2. g[n - 1] \in X /\ g[n] = step[g[n - 1]]
        BY <1>2, <4>1
      <4>3. step[g[n - 1]] = Round(g[n - 1], indices, maxDepth)
        BY <4>2
      <4> QED
        BY <3>2, <4>2, <4>3
    <3> QED
      BY <3>1, <3>2
  <2> QED
    BY <2>1
<1> HIDE DEF step, X
<1>4. h = Rec(h)
  <2>1. \E f : f = Rec(f)
    BY <1>3
  <2> QED
    BY <2>1
<1>5. Closure(K, indices, maxDepth) = h[m]
  BY DEF Closure, Round, h, m
<1> HIDE DEF h
<1>6. h[0] = K /\ \A n \in 1 .. m : h[n] = Round(h[n - 1], indices, maxDepth)
  <2>1. \A n \in 0 .. m : h[n] = Rec(h)[n]
    BY <1>4
  <2>2. 0 \in 0 .. m /\ \A n \in 1 .. m : n \in 0 .. m /\ n # 0
    BY <1>0
  <2> QED
    BY <2>1, <2>2
<1> QED
  BY <1>5, <1>6 DEF m

(* A child is a key, one element below its parent. *)
LEMMA ChildIsKey ==
  ASSUME NEW x, IsKey(x), NEW h \in {0, 1}, NEW i \in Nat
  PROVE  LET y == ChildWith(x, h, i)
         IN /\ IsKey(y) /\ y.private = x.private /\ y.cc = Append(x.cc, <<h, i>>)
            /\ Len(y.cc) = Len(x.cc) + 1 /\ y # NoKey
<1> DEFINE y == ChildWith(x, h, i)
           c == Append(x.cc, <<h, i>>)
<1>1. /\ x.private \in BOOLEAN /\ x.cc \in Chains /\ x.cc # <<>>
      /\ x.sum = Prefixes(x.cc) /\ x.depth = Len(x.cc) - 1 /\ Len(x.cc) \in Nat
  BY DEF IsKey, Chains
<1>2. <<h, i>> \in Elem
  BY DEF Elem
<1>3. c \in Chains /\ Len(c) = Len(x.cc) + 1 /\ c # <<>> /\ Prefixes(c) = Prefixes(x.cc) \cup {c}
  BY <1>1, <1>2, PrefixesAppend
<1>4. y = [private |-> x.private, sum |-> x.sum \cup {c}, cc |-> c, depth |-> x.depth + 1, number |-> i]
  BY DEF ChildWith, HmacSha512
<1> HIDE DEF y, c
<1>5. /\ y.private = x.private /\ y.sum = x.sum \cup {c} /\ y.cc = c /\ y.depth = x.depth + 1
      /\ y = [private |-> y.private, sum |-> y.sum, cc |-> y.cc, depth |-> y.depth, number |-> y.number]
  BY <1>4
<1>6. y # NoKey
  BY <1>3, <1>5 DEF NoKey, XPriv
<1>7. x.depth + 1 = Len(c) - 1
  BY <1>1, <1>3
<1>8. IsKey(y)
  BY <1>1, <1>3, <1>5, <1>7 DEF IsKey
<1> QED
  BY <1>3, <1>5, <1>6, <1>8 DEF y, c

(* to_xpub and climbing change whether a key is private, nothing else. *)
LEMMA PrivateSet ==
  ASSUME NEW x, IsKey(x), NEW b \in BOOLEAN
  PROVE  LET y == [x EXCEPT !.private = b]
         IN IsKey(y) /\ y.private = b /\ y.cc = x.cc
<1>1. PICK p, s, c, d, n : x = [private |-> p, sum |-> s, cc |-> c, depth |-> d, number |-> n]
  BY Zenon DEF IsKey
<1>2. [x EXCEPT !.private = b] = [private |-> b, sum |-> s, cc |-> c, depth |-> d, number |-> n]
  BY <1>1
<1>3. x.sum = s /\ x.cc = c /\ x.depth = d
  BY <1>1
<1>4. c \in Chains /\ c # <<>> /\ s = Prefixes(c) /\ d = Len(c) - 1
  BY <1>3, Zenon DEF IsKey
<1>5. PICK y : y = [private |-> b, sum |-> s, cc |-> c, depth |-> d, number |-> n]
  OBVIOUS
<1>6. y.private = b /\ y.sum = s /\ y.cc = c /\ y.depth = d /\ y.number = n
  BY <1>5
<1>7. IsKey(y)
  BY <1>4, <1>5, <1>6 DEF IsKey
<1> QED
  BY <1>2, <1>3, <1>5, <1>6, <1>7

(* What the second module was given. *)
LEMMA GrantedIs ==
  ASSUME KeyInv, NEW g \in granted
  PROVE  /\ g.path \in Seq(Nat) /\ Len(g.path) \in 0 .. Len(g.path) /\ Len(g.path) <= GraphDepth
         /\ g.set \in Sets /\ seeds[g.set] \in Elem /\ g.private \in BOOLEAN
         /\ Reaches(seeds[g.set], Len(g.path))
         /\ LET x == GrantedKey(g)
            IN /\ IsKey(x) /\ x \in Universe /\ x.private = g.private
               /\ x.cc = Chain(seeds[g.set], g.path, Len(g.path))
               /\ g.private => x = PathKey(seeds[g.set], g.path, Len(g.path))
<1> DEFINE s == seeds[g.set]
           n == Len(g.path)
           y == DerivePath(FromSeed(s), g.path)
           x == GrantedKey(g)
<1>1. /\ g.path \in Seq(Nat) /\ n \in Nat /\ n \in 0 .. n /\ n <= GraphDepth /\ g.set \in Sets
      /\ s \in Elem /\ g.private \in BOOLEAN /\ y # NoKey
  BY DEF KeyInv, GrantInv, SeedsInv
<1>2. y = PathKey(s, g.path, n)
  BY <1>1, DerivePathIs
<1>3. Reaches(s, n)
  BY <1>1, <1>2 DEF PathKey
<1>4. IsKey(y) /\ y.private /\ y.cc = Chain(s, g.path, n)
  BY <1>1, <1>2, <1>3, PathKeyParts
<1>5. y \in Universe
  <2>1. /\ Chain(s, g.path, n) \in Chains
    BY <1>1, ChainGrows
  <2>2. Prefixes(Chain(s, g.path, n)) \subseteq Chains
    <3> SUFFICES ASSUME NEW c \in Chains, NEW k \in 1 .. Len(c) PROVE SubSeq(c, 1, k) \in Chains
      BY <2>1 DEF Prefixes
    <3>1. k \in 0 .. Len(c)
      BY DEF Chains
    <3> QED
      BY <3>1, PrefixIs DEF Chains
  <2>3. (IF n = 0 THEN 0 ELSE g.path[n]) \in Nat
    BY <1>1
  <2>4. y = [private |-> TRUE, sum |-> Prefixes(Chain(s, g.path, n)), cc |-> Chain(s, g.path, n),
             depth |-> n, number |-> IF n = 0 THEN 0 ELSE g.path[n]]
    BY <1>2, <1>3 DEF PathKey, XPriv
  <2> HIDE DEF y, n
  <2> QED
    BY <2>1, <2>2, <2>3, <2>4, <1>1 DEF Universe
<1>6. x = IF g.private THEN y ELSE ToXPub(y)
  BY DEF GrantedKey
<1>7. ToXPub(y) \in Universe
  <2> HIDE DEF y
  <2> QED
    BY <1>5 DEF ToXPub, Universe
<1> HIDE DEF x, y, n, s
<1>8. IsKey(ToXPub(y)) /\ ToXPub(y).private = FALSE /\ ToXPub(y).cc = y.cc
  BY <1>4, PrivateSet DEF ToXPub
<1>9. CASE g.private
  <2>1. x = y
    BY <1>6, <1>9
  <2>2. y.private = TRUE
    BY <1>4 DEF IsKey
  <2> QED
    BY <2>1, <2>2, <1>1, <1>2, <1>3, <1>4, <1>5, <1>9 DEF x, n, s
<1>10. CASE ~g.private
  <2>1. x = ToXPub(y)
    BY <1>6, <1>10
  <2> QED
    BY <2>1, <1>1, <1>3, <1>4, <1>7, <1>8, <1>10 DEF x, n, s
<1> QED
  BY <1>9, <1>10

(* A key the second module may hold: if it is private, one it was given    *)
(* lies above it.                                                          *)
Contained(x) ==
  /\ IsKey(x)
  /\ x.private => \E g \in granted : g.private /\ Above(GrantedKey(g).cc, x.cc)

(* What lies above a key lies above its children. *)
LEMMA ChildContained ==
  ASSUME KeyInv, NEW x, Contained(x), NEW h \in {0, 1}, NEW i \in Nat
  PROVE  Contained(ChildWith(x, h, i))
<1> DEFINE y == ChildWith(x, h, i)
<1>1. /\ IsKey(y) /\ y.private = x.private /\ y.cc = Append(x.cc, <<h, i>>)
  BY ChildIsKey DEF Contained
<1>2. x.cc \in Seq(Elem) /\ y.cc \in Seq(Elem) /\ <<h, i>> \in Elem
  BY <1>1 DEF Contained, IsKey, Chains, Elem
<1> HIDE DEF y
<1>3. ASSUME NEW g \in granted, Above(GrantedKey(g).cc, x.cc) PROVE Above(GrantedKey(g).cc, y.cc)
  <2>1. GrantedKey(g).cc \in Seq(Elem)
    BY GrantedIs DEF IsKey, Chains
  <2>2. Len(GrantedKey(g).cc) <= Len(x.cc) /\ \A j \in 1 .. Len(GrantedKey(g).cc) : GrantedKey(g).cc[j] = x.cc[j]
    BY <2>1, <1>2, <1>3, AbovePoint
  <2>3. Len(y.cc) = Len(x.cc) + 1 /\ \A j \in 1 .. Len(x.cc) : y.cc[j] = x.cc[j]
    BY <1>1, <1>2
  <2>4. Len(GrantedKey(g).cc) \in Nat /\ Len(x.cc) \in Nat
    BY <2>1, <1>2
  <2>5. Len(GrantedKey(g).cc) <= Len(y.cc) /\ \A j \in 1 .. Len(GrantedKey(g).cc) : GrantedKey(g).cc[j] = y.cc[j]
    BY <2>2, <2>3, <2>4
  <2> QED
    BY <2>1, <2>5, <1>2, AbovePoint
<1>4. y.private => \E g \in granted : g.private /\ Above(GrantedKey(g).cc, y.cc)
  BY <1>1, <1>3 DEF Contained
<1> QED
  BY <1>1, <1>4 DEF Contained, y

(* Climbing to a parent: no private key that was given is its unhardened   *)
(* child, so the one above the child is above the parent.                  *)
LEMMA ParentContained ==
  ASSUME KeyInv, PrivateFromKeySets, NEW q, Contained(q), NEW c, Contained(c), c.private,
         NEW i \in Nat, c.sum = q.sum \cup {HmacSha512(q.cc, 0, i)}
  PROVE  Contained([q EXCEPT !.private = TRUE])
<1> DEFINE e == <<0, i>>
           y == [q EXCEPT !.private = TRUE]
<1>1. q.cc \in Chains /\ c.cc \in Chains /\ e \in Elem /\ c.cc # <<>> /\ q.cc # <<>>
  BY DEF Contained, IsKey, Elem
<1>2. c.cc = Append(q.cc, e)
  <2>1. /\ Append(q.cc, e) \in Chains /\ Append(q.cc, e) # <<>>
        /\ Prefixes(Append(q.cc, e)) = Prefixes(q.cc) \cup {Append(q.cc, e)}
    BY <1>1, PrefixesAppend
  <2>2. Prefixes(c.cc) = Prefixes(Append(q.cc, e))
    BY <2>1 DEF Contained, IsKey, HmacSha512
  <2> QED
    BY <1>1, <2>1, <2>2, PrefixesTell
<1>3. PICK g \in granted : g.private /\ Above(GrantedKey(g).cc, c.cc)
  BY DEF Contained
<1>4. PICK n \in Nat : n = Len(g.path)
  BY GrantedIs
<1>5. PICK a : a = GrantedKey(g).cc
  OBVIOUS
<1>6. /\ a \in Seq(Elem) /\ Len(a) = n + 1 /\ g.path \in Seq(Nat)
      /\ \A j \in 1 .. n : a[j + 1] = <<Hash(g.path[j]), g.path[j]>>
  <2>1. a = Chain(seeds[g.set], g.path, n) /\ seeds[g.set] \in Elem /\ g.path \in Seq(Nat) /\ n \in 0 .. Len(g.path)
    BY <1>4, <1>5, GrantedIs
  <2>2. Chain(seeds[g.set], g.path, n) \in Chains /\ Len(Chain(seeds[g.set], g.path, n)) = n + 1
    BY <2>1, ChainGrows
  <2>3. \A j \in 1 .. n : /\ Chain(seeds[g.set], g.path, n)[j + 1] = <<Hash(g.path[j]), g.path[j]>>
                          /\ <<Hash(g.path[j]), g.path[j]>> \in Elem
    BY <2>1, ChainGrows, Zenon
  <2> QED
    BY <2>1, <2>2, <2>3, Zenon DEF Chains
<1>c. PICK cc : cc = c.cc
  OBVIOUS
<1>q. PICK qc : qc = q.cc
  OBVIOUS
<1>7. /\ Len(cc) = Len(qc) + 1 /\ cc[Len(qc) + 1] = e /\ \A j \in 1 .. Len(qc) : cc[j] = qc[j]
      /\ Len(qc) \in Nat /\ Len(qc) > 0 /\ cc \in Seq(Elem) /\ qc \in Seq(Elem)
  <2>1. cc \in Seq(Elem) /\ qc \in Seq(Elem) /\ qc # <<>> /\ cc = Append(qc, e)
    BY <1>1, <1>2, <1>c, <1>q DEF Chains
  <2> QED
    BY <2>1, <1>1
<1>8. Len(a) <= Len(cc) /\ \A j \in 1 .. Len(a) : a[j] = cc[j]
  <2>1. Above(a, cc) /\ cc \in Seq(Elem)
    BY <1>7, <1>3, <1>5, <1>c
  <2> QED
    BY <2>1, <1>6, AbovePoint
<1>9. Len(a) # Len(cc)
  <2> SUFFICES ASSUME Len(a) = Len(cc) PROVE FALSE
    OBVIOUS
  <2>1. n = Len(qc) /\ n \in 1 .. n /\ n + 1 \in 1 .. Len(a)
    <3>1. PICK k \in Nat : k = Len(qc) /\ k > 0
      BY <1>7
    <3>2. n + 1 = k + 1 /\ n \in Nat /\ n + 1 = Len(a)
      BY <3>1, <1>6, <1>7
    <3>3. n = k
      BY <3>2
    <3> QED
      BY <3>1, <3>2, <3>3
  <2>2. a[n + 1] = <<Hash(g.path[n]), g.path[n]>> /\ a[n + 1] = <<0, i>>
    BY <2>1, <1>6, <1>7, <1>8
  <2>3. Hash(g.path[n]) = 0
    BY <2>2
  <2>4. g.path[n] >= Hardened
    BY <1>3, <1>4, <2>1 DEF KeyInv, GrantInv, PrivateFromKeySets
  <2> QED
    BY <2>3, <2>4 DEF Hash
<1>10. Len(a) <= Len(qc) /\ \A j \in 1 .. Len(a) : a[j] = qc[j]
  <2>1. Len(a) \in Nat /\ Len(cc) \in Nat
    BY <1>6, <1>7
  <2>2. Len(a) <= Len(qc)
    BY <2>1, <1>7, <1>8, <1>9
  <2> QED
    BY <2>1, <2>2, <1>7, <1>8
<1>11. Above(a, q.cc)
  BY <1>q, <1>6, <1>7, <1>10, AbovePoint
<1>12. IsKey(y) /\ y.cc = q.cc
  BY PrivateSet DEF Contained
<1> HIDE DEF y
<1>13. Contained(y)
  BY <1>3, <1>5, <1>11, <1>12 DEF Contained
<1> QED
  BY <1>13 DEF y

(* The rounds of Closure, from the keys the second module was given. *)
LEMMA KnownRounds ==
  ASSUME KeyInv
  PROVE  \E f : /\ Known = f[2 * GraphDepth + 1]
                /\ f[0] = {GrantedKey(g) : g \in granted}
                /\ \A n \in 1 .. 2 * GraphDepth + 1 :
                     f[n] = Round(f[n - 1], Indices(Coords), GraphDepth)
<1>1. {GrantedKey(g) : g \in granted} \in SUBSET Universe
  BY GrantedIs
<1>2. Indices(Coords) \in SUBSET Nat /\ GraphDepth \in Nat
  <2>1. Hardened \in Nat \ {0} /\ Coords \subseteq Int /\ GraphDepth \in Nat
    BY OverlayKeysAssumption
  <2>2. \A c \in Coords : c % Hardened \in Nat /\ (c % Hardened) + Hardened \in Nat
    BY <2>1, DivMod
  <2> QED
    BY <2>1, <2>2 DEF Indices
<1> QED
  BY <1>1, <1>2, ClosureRounds DEF Known

(* A round makes nothing that is not contained. *)
LEMMA RoundContained ==
  ASSUME KeyInv, PrivateFromKeySets, NEW L, \A x \in L : Contained(x),
         NEW y \in Round(L, Indices(Coords), GraphDepth)
  PROVE  Contained(y)
<1>0. Hardened \in Nat /\ Indices(Coords) \subseteq Nat
  <2>1. Hardened \in Nat \ {0} /\ Coords \subseteq Int
    BY OverlayKeysAssumption
  <2>2. \A c \in Coords : c % Hardened \in Nat /\ (c % Hardened) + Hardened \in Nat
    BY <2>1, DivMod
  <2> QED
    BY <2>1, <2>2 DEF Indices
<1>1. CASE y \in L
  BY <1>1
<1>2. CASE y \in Descend(L, Indices(Coords), GraphDepth) /\ y # NoKey
  <2>1. PICK x \in L, i \in Indices(Coords) : y = DeriveChild(x, i) \/ y = XPubDeriveChild(x, i)
    BY <1>2 DEF Descend
  <2>2. y = ChildWith(x, 0, i) \/ y = ChildWith(x, 1, i)
    BY <2>1, <1>2 DEF DeriveChild, XPubDeriveChild
  <2>3. Contained(x) /\ i \in Nat
    BY <1>0
  <2> QED
    BY <2>2, <2>3, ChildContained
<1>3. CASE y \in Climb(L)
  <2>1. PICK q \in L : /\ y = [q EXCEPT !.private = TRUE]
                       /\ \E c \in L : c.private /\ \E i \in 0 .. 2 * Hardened - 1 :
                            c.sum = q.sum \cup {HmacSha512(q.cc, 0, i)}
    BY <1>3 DEF Climb
  <2>2. PICK c \in L, i \in 0 .. 2 * Hardened - 1 :
          c.private /\ c.sum = q.sum \cup {HmacSha512(q.cc, 0, i)}
    BY <2>1
  <2>3. Contained(q) /\ Contained(c) /\ i \in Nat
    OBVIOUS
  <2> QED
    BY <2>1, <2>2, <2>3, ParentContained
<1> QED
  BY <1>1, <1>2, <1>3 DEF Round

LEMMA KnownContained ==
  ASSUME KeyInv, PrivateFromKeySets
  PROVE  \A x \in Known : Contained(x)
<1>1. PICK f : /\ Known = f[2 * GraphDepth + 1]
               /\ f[0] = {GrantedKey(g) : g \in granted}
               /\ \A n \in 1 .. 2 * GraphDepth + 1 :
                    f[n] = Round(f[n - 1], Indices(Coords), GraphDepth)
  BY KnownRounds
<1>2. PICK m \in Nat : m = 2 * GraphDepth + 1
  BY OverlayKeysAssumption
<1> DEFINE S == {n \in Nat : n <= m => \A x \in f[n] : Contained(x)}
<1>3. 0 \in S
  <2>1. ASSUME NEW g \in granted PROVE Contained(GrantedKey(g))
    <3>1. IsKey(GrantedKey(g)) /\ GrantedKey(g).private = g.private
      BY GrantedIs
    <3>2. Above(GrantedKey(g).cc, GrantedKey(g).cc)
      BY <3>1, AboveItself DEF IsKey, Chains
    <3> QED
      BY <3>1, <3>2 DEF Contained
  <2> QED
    BY <1>1, <2>1
<1>4. ASSUME NEW n \in Nat, n \in S PROVE n + 1 \in S
  <2> SUFFICES ASSUME n + 1 <= m, NEW x \in f[n + 1] PROVE Contained(x)
    OBVIOUS
  <2>1. n + 1 \in 1 .. m /\ (n + 1) - 1 = n /\ n <= m
    BY <1>2
  <2>2. f[n + 1] = Round(f[n], Indices(Coords), GraphDepth) /\ \A y \in f[n] : Contained(y)
    BY <1>1, <1>2, <1>4, <2>1
  <2> QED
    BY <2>2, RoundContained
<1>5. Nat \subseteq S
  <2> HIDE DEF S
  <2> QED
    BY <1>3, <1>4, InductionOn
<1>6. \A x \in f[m] : Contained(x)
  BY <1>5
<1> QED
  BY <1>1, <1>2, <1>6

(* Of all that the second module can compute from keys of the key sets and *)
(* public keys, the private keys lie below a private key it was given.     *)
LEMMA LeaksBelow ==
  ASSUME KeyInv
  PROVE  LeakStaysBelow
BY KnownContained DEF LeakStaysBelow, Contained

(* A payload opens under a key exactly if the key's sum is the one it was  *)
(* sealed with.                                                            *)
LEMMA Reads ==
  ASSUME NEW x, NEW key, NEW payload
  PROVE  IsOk(Deobfuscate(x, Obfuscate(key, payload))) <=> x.sum = key.sum
<1>1. /\ Len(ObfuscationKey(x)) = KeyLen
      /\ ObfuscationKey(x) = ObfuscationKey(key) <=> x.sum = key.sum
  BY FilledKeys DEF ObfuscationKey
<1>2. IsOk(Open(ObfuscationKey(x), Random, Seal(ObfuscationKey(key), Random, payload, ObfuscationAad), ObfuscationAad)) <=>
        /\ Len(ObfuscationKey(x)) = KeyLen /\ ObfuscationKey(x) = ObfuscationKey(key)
        /\ Random = Random /\ ObfuscationAad = ObfuscationAad
  BY OpenExact
<1> QED
  BY <1>1, <1>2 DEF Deobfuscate, Obfuscate

(* A key depends on the indices up to it. *)
LEMMA SamePrefixSameKey ==
  ASSUME NEW seed \in Elem, NEW p \in Seq(Nat), NEW q \in Seq(Nat), NEW k \in Nat,
         k <= Len(p), k <= Len(q), \A j \in 1 .. k : p[j] = q[j]
  PROVE  PathKey(seed, p, k) = PathKey(seed, q, k)
<1>1. Chain(seed, p, k) = Chain(seed, q, k)
  <2>1. \A j \in 1 .. k + 1 : j # 1 => j - 1 \in 1 .. k
    OBVIOUS
  <2>2. \A j \in 1 .. k + 1 : (IF j = 1 THEN seed ELSE <<Hash(p[j - 1]), p[j - 1]>>)
                            = (IF j = 1 THEN seed ELSE <<Hash(q[j - 1]), q[j - 1]>>)
    BY <2>1
  <2> QED
    BY <2>2, Zenon DEF Chain
<1>2. (IF k = 0 THEN 0 ELSE p[k]) = (IF k = 0 THEN 0 ELSE q[k])
  <2>1. k # 0 => k \in 1 .. k
    OBVIOUS
  <2> QED
    BY <2>1
<1> QED
  BY <1>1, <1>2 DEF PathKey

(* From a private key that lies above a position of its set, the second    *)
(* module comes to the key of the position.                                *)
LEMMA DescendsTo ==
  ASSUME KeyInv, NEW d \in Sets, NEW p \in NodePositions, KeyAt(d, p) # NoKey,
         NEW g \in granted, g.private, g.set = d, Above(g.path, HardenedPath(p))
  PROVE  KeyAt(d, p) \in Known
<1>0. PICK s, h : s = seeds[d] /\ h = HardenedPath(p)
  OBVIOUS
<1>1. /\ h \in Seq(Nat) /\ Len(h) = Len(p) /\ Len(p) <= GraphDepth /\ s \in Elem
      /\ KeyAt(d, p) = PathKey(s, h, Len(h)) /\ Reaches(s, Len(h))
  BY <1>0, KeyAtIs
<1>2. PICK n, l : n = Len(g.path) /\ l = Len(h)
  OBVIOUS
<1>3. /\ n \in Nat /\ l \in Nat /\ g.path \in Seq(Nat) /\ l <= GraphDepth /\ GraphDepth \in Nat /\ DepthMax \in Nat
  BY <1>1, <1>2, GrantedIs, OverlayKeysAssumption
<1>4. n <= l /\ \A j \in 1 .. n : g.path[j] = h[j]
  BY <1>0, <1>1, <1>2, <1>3, AbovePoint
<1>5. GrantedKey(g) = PathKey(s, h, n)
  <2>1. GrantedKey(g) = PathKey(s, g.path, n)
    BY <1>0, <1>2, GrantedIs
  <2>2. n <= Len(g.path) /\ n <= Len(h)
    BY <1>2, <1>3, <1>4
  <2> QED
    BY <2>1, <2>2, <1>1, <1>3, <1>4, SamePrefixSameKey
<1>6. PICK f : /\ Known = f[2 * GraphDepth + 1]
               /\ f[0] = {GrantedKey(a) : a \in granted}
               /\ \A k \in 1 .. 2 * GraphDepth + 1 :
                    f[k] = Round(f[k - 1], Indices(Coords), GraphDepth)
  BY KnownRounds
<1>7. PICK m \in Nat : m = 2 * GraphDepth + 1
  BY <1>3
<1> DEFINE At(j) == IF n + j <= l THEN n + j ELSE l
           S == {j \in Nat : j <= m => PathKey(s, h, At(j)) \in f[j]}
<1>8. 0 \in S
  <2>1. At(0) = n
    BY <1>3, <1>4
  <2>2. PathKey(s, h, n) \in f[0]
    BY <1>5, <1>6
  <2> QED
    BY <2>1, <2>2
<1>9. ASSUME NEW j \in Nat, j \in S PROVE j + 1 \in S
  <2> SUFFICES ASSUME j + 1 <= m PROVE PathKey(s, h, At(j + 1)) \in f[j + 1]
    OBVIOUS
  <2>1. j + 1 \in 1 .. m /\ (j + 1) - 1 = j /\ j <= m
    BY <1>7
  <2>2. f[j + 1] = Round(f[j], Indices(Coords), GraphDepth) /\ PathKey(s, h, At(j)) \in f[j]
    BY <1>6, <1>7, <1>9, <2>1
  <2>3. CASE n + j >= l
    <3>1. At(j + 1) = At(j)
      BY <2>3, <1>3
    <3> QED
      BY <2>2, <3>1 DEF Round
  <2>4. CASE n + j < l
    <3>1. PICK k \in Nat : k = n + j
      BY <1>3
    <3>2. /\ At(j) = k /\ At(j + 1) = k + 1 /\ k \in 0 .. Len(h) /\ k < Len(h) /\ k < GraphDepth
          /\ k + 1 \in 1 .. Len(p) /\ k + 1 \in 0 .. Len(h)
      <4>1. k < l /\ l = Len(h) /\ l = Len(p) /\ k < GraphDepth
        BY <3>1, <2>4, <1>1, <1>2, <1>3
      <4>2. At(j) = k
        BY <3>1, <4>1, <1>3
      <4>3. n + (j + 1) = k + 1 /\ k + 1 <= l
        BY <3>1, <4>1, <1>3
      <4>4. At(j + 1) = k + 1
        BY <4>3
      <4>5. k \in 0 .. l /\ k + 1 \in 1 .. l /\ k + 1 \in 0 .. l
        BY <4>1, <1>3
      <4> HIDE DEF At
      <4> QED
        BY <4>1, <4>2, <4>4, <4>5
    <3>3. DeriveChild(PathKey(s, h, k), h[k + 1]) = PathKey(s, h, k + 1)
      BY <3>2, <1>1, PathKeyStep
    <3>4. Reaches(s, k) /\ Reaches(s, k + 1)
      BY <1>1, <1>2, <1>3, <3>1, <3>2 DEF Reaches
    <3>5. /\ PathKey(s, h, k).private /\ PathKey(s, h, k).depth = k
      BY <3>2, <3>4, <1>1, PathKeyParts
    <3>6. PathKey(s, h, k + 1) # NoKey
      BY <3>2, <3>4, <1>1, PathKeyParts
    <3>7. h[k + 1] \in Indices(Coords)
      <4>1. p \in Seq(Coords)
        BY KeyAtIs
      <4> QED
        BY <4>1, <3>2, <1>0, PathsOfPositions
    <3>8. PathKey(s, h, k) \in {y \in f[j] : y.private /\ y.depth < GraphDepth}
      BY <2>2, <3>2, <3>5
    <3>9. PathKey(s, h, k + 1) \in Descend(f[j], Indices(Coords), GraphDepth)
      BY <3>3, <3>7, <3>8 DEF Descend
    <3> QED
      BY <2>2, <3>2, <3>6, <3>9 DEF Round
  <2> QED
    BY <2>3, <2>4, <1>3
<1>10. Nat \subseteq S
  <2> HIDE DEF S
  <2> QED
    BY <1>8, <1>9, InductionOn
<1>11. At(m) = l
  BY <1>3, <1>4, <1>7
<1>12. PathKey(s, h, l) \in f[m]
  BY <1>10, <1>11
<1> QED
  BY <1>1, <1>2, <1>6, <1>7, <1>12

LEMMA SeedsIsolate ==
  ASSUME KeyInv
  PROVE  SeedIsolation
<1>1. \A p \in heard : \A d \in Sets : ResolveKey(p, seeds[d]) = KeyAt(d, p)
  BY DEF ResolveKey, KeyAt
<1>2. ASSUME PrivateFromKeySets, NEW id \in DOMAIN stored
      PROVE  (\E x \in Known : x.private /\ IsOk(Deobfuscate(x, stored[id]))) <=>
               \E g \in granted : g.private /\ g.set = 2 /\ Above(g.path, HardenedPath(PositionOf(id)))
  <2>1. PICK p : p = PositionOf(id)
    OBVIOUS
  <2>2. PICK h, s : h = HardenedPath(p) /\ s = seeds[2]
    OBVIOUS
  <2>3. /\ p \in NodePositions /\ KeyAt(2, p) # NoKey /\ 2 \in Sets
        /\ stored[id] = Obfuscate(KeyAt(2, p), <<id>>)
    BY <2>1 DEF KeyInv, StoredInv, NodePositions, Sets
  <2>4. /\ h \in Seq(Nat) /\ Len(h) = Len(p) /\ s \in Elem /\ Len(h) \in 0 .. Len(h) /\ Reaches(s, Len(h))
        /\ KeyAt(2, p) = PathKey(s, h, Len(h))
    <3>1. /\ h \in Seq(Nat) /\ Len(h) = Len(p) /\ s \in Elem
          /\ KeyAt(2, p) = PathKey(s, h, Len(p)) /\ Reaches(s, Len(p))
      BY <2>2, <2>3, KeyAtIs
    <3> QED
      BY <3>1
  <2>5. PICK key : key = KeyAt(2, p)
    OBVIOUS
  <2>6. IsKey(key) /\ key.private /\ key.cc = Chain(s, h, Len(h))
    BY <2>4, <2>5, PathKeyParts
  <2>7. \A x : IsOk(Deobfuscate(x, stored[id])) <=> x.sum = key.sum
    BY <2>3, <2>5, Reads
  <2>8. ASSUME NEW x \in Known, x.private, IsOk(Deobfuscate(x, stored[id]))
        PROVE  \E g \in granted : g.private /\ g.set = 2 /\ Above(g.path, h)
    <3>1. Contained(x) /\ x.sum = key.sum
      BY <1>2, <2>7, <2>8, KnownContained
    <3>2. x.cc = key.cc
      BY <3>1, <2>6, PrefixesTell DEF Contained, IsKey
    <3>3. PICK g \in granted : g.private /\ Above(GrantedKey(g).cc, x.cc)
      BY <3>1, <2>8 DEF Contained
    <3>4. PICK t, q : t = seeds[g.set] /\ q = g.path
      OBVIOUS
    <3>5. /\ q \in Seq(Nat) /\ t \in Elem /\ Len(q) \in 0 .. Len(q)
          /\ GrantedKey(g).cc = Chain(t, q, Len(q)) /\ g.set \in Sets
      BY <3>4, GrantedIs
    <3>6. Above(Chain(t, q, Len(q)), Chain(s, h, Len(h)))
      BY <3>2, <3>3, <3>5, <2>6
    <3>7. t = s /\ Len(q) <= Len(h) /\ \A j \in 1 .. Len(q) : q[j] = h[j]
      BY <3>5, <3>6, <2>4, ChainsTell
    <3>8. g.set = 2
      BY <3>4, <3>5, <3>7, <2>2, <2>3 DEF KeyInv, SeedsInv
    <3>9. Above(q, h)
      BY <3>5, <3>7, <2>4, AbovePoint
    <3> QED
      BY <3>3, <3>4, <3>8, <3>9
  <2>9. ASSUME NEW g \in granted, g.private, g.set = 2, Above(g.path, h)
        PROVE  \E x \in Known : x.private /\ IsOk(Deobfuscate(x, stored[id]))
    <3>1. key \in Known
      BY <2>2, <2>3, <2>5, <2>9, DescendsTo
    <3> QED
      BY <3>1, <2>6, <2>7
  <2> QED
    BY <2>1, <2>2, <2>8, <2>9
<1> QED
  BY <1>1, <1>2 DEF SeedIsolation

(* to_xpub, field by field. *)
LEMMA XPubIs ==
  ASSUME NEW x, NEW p, NEW s, NEW c, NEW d, NEW n,
         x = [private |-> p, sum |-> s, cc |-> c, depth |-> d, number |-> n]
  PROVE  ToXPub(x) = [private |-> FALSE, sum |-> s, cc |-> c, depth |-> d, number |-> n]
<1>1. ASSUME NEW b
      PROVE  [x EXCEPT !.private = b] = [private |-> b, sum |-> s, cc |-> c, depth |-> d, number |-> n]
  OBVIOUS
<1> QED
  BY <1>1, Zenon DEF ToXPub

(* XPub::derive_child agrees with XPriv::derive_child. *)
LEMMA PublicDerivation ==
  ASSUME KeyInv
  PROVE  PublicAgrees
<1> SUFFICES ASSUME NEW g \in granted, NEW i \in Indices(Coords)
             PROVE  LET x == DerivePath(FromSeed(seeds[g.set]), g.path)
                    IN XPubDeriveChild(ToXPub(x), i) =
                         IF i >= Hardened \/ DeriveChild(x, i) = NoKey THEN NoKey ELSE ToXPub(DeriveChild(x, i))
  BY DEF PublicAgrees
<1>0. i \in Nat /\ Hardened \in Nat
  <2>1. Hardened \in Nat \ {0} /\ Coords \subseteq Int
    BY OverlayKeysAssumption
  <2>2. \A c \in Coords : c % Hardened \in Nat /\ (c % Hardened) + Hardened \in Nat
    BY <2>1, DivMod
  <2> QED
    BY <2>1, <2>2 DEF Indices
<1>1. PICK x : x = DerivePath(FromSeed(seeds[g.set]), g.path)
  OBVIOUS
<1>2. IsKey(x) /\ x # NoKey
  <2>1. /\ g.path \in Seq(Nat) /\ Len(g.path) \in 0 .. Len(g.path) /\ seeds[g.set] \in Elem
        /\ Reaches(seeds[g.set], Len(g.path))
    BY GrantedIs
  <2>2. x = PathKey(seeds[g.set], g.path, Len(g.path))
    BY <1>1, <2>1, DerivePathIs
  <2> QED
    BY <2>1, <2>2, PathKeyParts
<1>3. PICK p, s, c, d, n : x = [private |-> p, sum |-> s, cc |-> c, depth |-> d, number |-> n]
  BY <1>2, Zenon DEF IsKey
<1>4. ToXPub(x) = [private |-> FALSE, sum |-> s, cc |-> c, depth |-> d, number |-> n]
  <2>1. ASSUME NEW b
        PROVE  [x EXCEPT !.private = b] = [private |-> b, sum |-> s, cc |-> c, depth |-> d, number |-> n]
    BY <1>3
  <2> QED
    BY <2>1, Zenon DEF ToXPub
<1>5. x.depth = d /\ ToXPub(x).depth = d
  BY <1>3, <1>4
<1>6. CASE i >= Hardened \/ d = DepthMax
  <2>1. XPubDeriveChild(ToXPub(x), i) = NoKey
    BY <1>5, <1>6 DEF XPubDeriveChild
  <2>2. i >= Hardened \/ DeriveChild(x, i) = NoKey
    BY <1>5, <1>6 DEF DeriveChild
  <2> QED
    BY <2>1, <2>2, <1>1
<1>7. CASE ~(i >= Hardened) /\ d # DepthMax
  <2>1. XPubDeriveChild(ToXPub(x), i) = ChildWith(ToXPub(x), 0, i) /\ DeriveChild(x, i) = ChildWith(x, 0, i)
    BY <1>2, <1>5, <1>7 DEF XPubDeriveChild, DeriveChild
  <2>2. ChildWith(x, 0, i) # NoKey
    BY <1>0, <1>2, ChildIsKey
  <2>3. ChildWith(x, 0, i) = [private |-> p, sum |-> s \cup {Append(c, <<0, i>>)}, cc |-> Append(c, <<0, i>>),
                              depth |-> d + 1, number |-> i]
    BY <1>3 DEF ChildWith, HmacSha512
  <2>4. ChildWith(ToXPub(x), 0, i) = [private |-> FALSE, sum |-> s \cup {Append(c, <<0, i>>)}, cc |-> Append(c, <<0, i>>),
                                      depth |-> d + 1, number |-> i]
    BY <1>4 DEF ChildWith, HmacSha512
  <2>5. ToXPub(ChildWith(x, 0, i)) = [private |-> FALSE, sum |-> s \cup {Append(c, <<0, i>>)}, cc |-> Append(c, <<0, i>>),
                                      depth |-> d + 1, number |-> i]
    BY <2>3, XPubIs
  <2> QED
    BY <2>1, <2>2, <2>4, <2>5, <1>7, <1>1
<1> QED
  BY <1>6, <1>7, <1>1

(* A step keeps both invariants. *)
LEMMA OverlayStep ==
  ASSUME KeyInv, MsgInv, [Next]_vars
  PROVE  KeyInv' /\ MsgInv'
<1>1. CASE KeysNext
  BY <1>1, KeysStep, KeysLeaveMessages, MsgUnchanged
<1>2. CASE MNext /\ UNCHANGED keyVars
  BY <1>2, MsgStep, KeysUnchanged
<1>3. CASE UNCHANGED vars
  <2>1. UNCHANGED keyVars /\ UNCHANGED msgVars
    BY <1>3 DEF vars
  <2> QED
    BY <2>1, KeysUnchanged, MsgUnchanged
<1> QED
  BY <1>1, <1>2, <1>3 DEF Next

(* Keys of different sets or positions differ, and whatever keys of the    *)
(* key sets the second module was given, with any public keys, the private *)
(* keys it can compute from them, by deriving and by subtracting, lie      *)
(* below a private key it was given.  For every graph, hardened bit, depth *)
(* limit and number of grants.                                             *)
THEOREM OverlayLeaks == Spec => []LeaksContained
<1>1. Init => KeyInv /\ MsgInv
  BY KeysStart, MsgStart DEF Init
<1>2. KeyInv /\ MsgInv /\ [Next]_vars => (KeyInv /\ MsgInv)'
  BY OverlayStep
<1>3. KeyInv /\ MsgInv => LeaksContained
  BY KeysAreTyped, SeparateKeys, LeaksBelow DEF LeaksContained, MsgInv
<1> QED
  BY <1>1, <1>2, <1>3, PTL DEF Spec

(* A second module resolves from a signalled position the owner's keys of  *)
(* the sets whose seed it holds; it reads a payload exactly if a private   *)
(* key of the second set above the node, or the seed, is among what it     *)
(* holds; and public derivation gives the public keys of what private      *)
(* derivation gives.                                                       *)
THEOREM OverlayResolving == Spec => []ResolvingExact
<1>1. Init => KeyInv /\ MsgInv
  BY KeysStart, MsgStart DEF Init
<1>2. KeyInv /\ MsgInv /\ [Next]_vars => (KeyInv /\ MsgInv)'
  BY OverlayStep
<1>3. KeyInv /\ MsgInv => ResolvingExact
  BY SeedsIsolate, PublicDerivation DEF ResolvingExact
<1> QED
  BY <1>1, <1>2, <1>3, PTL DEF Spec
=============================================================================
