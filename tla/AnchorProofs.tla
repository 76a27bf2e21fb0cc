----------------------------- MODULE AnchorProofs -----------------------------
(***************************************************************************)
(* Theorems about Anchor: for logs of any length, any keys, times and      *)
(* strings, a head determines the log it is the head of; for any blocks    *)
(* and whatever a node serves, the client's chain has true heights and     *)
(* finds every root; and for blocks of any number of leaves, a proof is    *)
(* accepted exactly of a leaf, so that an anchored log is the custodian's. *)
(***************************************************************************)
EXTENDS Anchor, NaturalsInduction, WellFoundedInduction, TLAPS

(* Induction over the natural numbers, for a set: its complement has no    *)
(* least element.                                                          *)
LEMMA Induction ==
  ASSUME NEW S, 0 \in S, \A n \in Nat : n \in S => n + 1 \in S
  PROVE  \A n \in Nat : n \in S
<1> DEFINE T == Nat \ S
           R == {p \in Nat \X Nat : p[1] < p[2]}
<1> SUFFICES ASSUME T # {} PROVE FALSE
  OBVIOUS
<1>1. IsWellFoundedOn(R, Nat)
  BY NatLessThanWellFounded DEF OpToRel
<1>2. PICK x \in T : \A y \in T : <<y, x>> \notin R
  <2>1. T \subseteq Nat
    OBVIOUS
  <2> HIDE DEF T, R
  <2> QED
    BY <1>1, <2>1, WFMin
<1>3. x \in Nat \ {0}
  OBVIOUS
<1>4. x - 1 \in Nat /\ x - 1 + 1 = x /\ <<x - 1, x>> \in R
  BY <1>3
<1> QED
  BY <1>2, <1>3, <1>4

LEMMA FunctionIsSeq ==
  ASSUME NEW R, NEW n \in Nat, NEW f \in [1 .. n -> R]
  PROVE  f \in Seq(R)
OBVIOUS

(* A sequence is one over its own elements, and so is a longer one. *)
LEMMA SeqOverRange ==
  ASSUME NEW S, NEW s \in Seq(S)
  PROVE  Range(s) \subseteq S /\ s \in Seq(Range(s))
<1>1. DOMAIN s = 1 .. Len(s) /\ Len(s) \in Nat /\ \A i \in 1 .. Len(s) : s[i] \in S
  OBVIOUS
<1>2. s \in [1 .. Len(s) -> Range(s)]
  BY <1>1 DEF Range
<1>3. s \in Seq(Range(s))
  BY <1>1, <1>2, FunctionIsSeq
<1> QED
  BY <1>1, <1>3 DEF Range

LEMMA AppendFacts ==
  ASSUME NEW s, s \in Seq(Range(s)), NEW e
  PROVE  LET t == Append(s, e)
         IN  /\ t \in Seq(Range(t)) /\ Len(t) = Len(s) + 1 /\ Len(s) \in Nat
             /\ Range(t) = Range(s) \cup {e} /\ t # <<>> /\ Last(t) = e
             /\ DOMAIN s = 1 .. Len(s) /\ DOMAIN t = 1 .. Len(s) + 1
             /\ t[Len(s) + 1] = e /\ \A i \in 1 .. Len(s) : t[i] = s[i]
<1> DEFINE t == Append(s, e)
           S == Range(s) \cup {e}
<1>1. /\ t \in Seq(S) /\ Len(t) = Len(s) + 1 /\ Len(s) \in Nat
      /\ DOMAIN s = 1 .. Len(s) /\ DOMAIN t = 1 .. Len(s) + 1
      /\ t[Len(s) + 1] = e /\ \A i \in 1 .. Len(s) : t[i] = s[i]
  <2>1. s \in Seq(S)
    <3>1. DOMAIN s = 1 .. Len(s) /\ Len(s) \in Nat /\ \A i \in 1 .. Len(s) : s[i] \in Range(s)
      OBVIOUS
    <3>2. s \in [1 .. Len(s) -> S]
      BY <3>1
    <3> QED
      BY <3>1, <3>2
  <2> HIDE DEF S
  <2>2. e \in S
    BY DEF S
  <2> QED
    BY <2>1, <2>2
<1> HIDE DEF t
<1>2. t \in Seq(Range(t))
  BY <1>1, SeqOverRange
<1>3. Range(t) = Range(s) \cup {e}
  <2>1. \A i \in DOMAIN t : i \in DOMAIN s \/ i = Len(s) + 1
    BY <1>1
  <2>2. \A i \in DOMAIN s : i \in DOMAIN t /\ t[i] = s[i]
    BY <1>1
  <2>3. Len(s) + 1 \in DOMAIN t
    BY <1>1
  <2> QED
    BY <1>1, <2>1, <2>2, <2>3 DEF Range
<1>4. t # <<>>
  BY <1>1
<1> QED
  BY <1>1, <1>2, <1>3, <1>4 DEF Last, t

-------------------------------------------------------------------------------
(* A head determines its log. *)
Shaped(e) ==
  e = [kind |-> e.kind, key |-> e.key, time |-> e.time, prev |-> e.prev, hash |-> e.hash]
Linked(log) ==
  /\ log # <<>> /\ log[1].kind = "Genesis"
  /\ \A i \in DOMAIN log : /\ Rehashes(log[i])
                           /\ i > 1 => log[i].kind # "Genesis" /\ LinksAt(log, i)

LEMMA EventFromHash ==
  ASSUME NEW d, NEW e, Shaped(d), Shaped(e), Rehashes(d), Rehashes(e), d.hash = e.hash
  PROVE  d = e
<1>1. EventHash(d.kind, d.key, d.time, d.prev) = EventHash(e.kind, e.key, e.time, e.prev)
  BY DEF Rehashes
<1>2. d.kind = e.kind /\ d.key = e.key /\ d.time = e.time /\ d.prev = e.prev
  BY <1>1 DEF EventHash
<1> QED
  BY <1>2 DEF Shaped

(* verify_lifecycle: of all logs whose entries rehash and link, only one   *)
(* has a given head, whatever their lengths.                               *)
LEMMA HeadDeterminesLog ==
  ASSUME NEW S, \A e \in S : Shaped(e), NEW log \in Seq(S), NEW ev \in Seq(S),
         Linked(log), Linked(ev), HeadHash(log) = HeadHash(ev)
  PROVE  log = ev
<1> DEFINE n == Len(log)
           m == Len(ev)
           K == {k \in Nat : k < n /\ k < m => log[n - k] = ev[m - k]}
<1>1. /\ n \in Nat \ {0} /\ m \in Nat \ {0} /\ DOMAIN log = 1 .. n /\ DOMAIN ev = 1 .. m
      /\ \A i \in 1 .. n : log[i] \in S
      /\ \A i \in 1 .. m : ev[i] \in S
  BY DEF Linked
<1>2. \A i \in 1 .. n, j \in 1 .. m : log[i].hash = ev[j].hash => log[i] = ev[j]
  BY <1>1, EventFromHash DEF Linked
<1>3. log[n].hash = ev[m].hash
  BY DEF Linked, HeadHash, Last
<1> HIDE DEF n, m
<1>4. 0 \in K
  BY <1>1, <1>2, <1>3
<1>5. ASSUME NEW k \in Nat, k \in K PROVE k + 1 \in K
  <2> SUFFICES ASSUME k + 1 < n, k + 1 < m PROVE log[n - (k + 1)] = ev[m - (k + 1)]
    OBVIOUS
  <2> DEFINE i == n - k
             j == m - k
  <2>1. i \in 2 .. n /\ j \in 2 .. m /\ i - 1 = n - (k + 1) /\ j - 1 = m - (k + 1)
    BY <1>1
  <2>2. log[i] = ev[j]
    <3>1. k < n /\ k < m
      BY <1>1
    <3> QED
      BY <1>5, <3>1
  <2> HIDE DEF i, j
  <2>3. log[i].prev = log[i - 1].hash /\ ev[j].prev = ev[j - 1].hash
    <3>1. i \in DOMAIN log /\ i > 1 /\ j \in DOMAIN ev /\ j > 1
      BY <1>1, <2>1
    <3> QED
      BY <3>1 DEF Linked, LinksAt
  <2>4. i - 1 \in 1 .. n /\ j - 1 \in 1 .. m
    BY <1>1, <2>1
  <2>5. log[i - 1] = ev[j - 1]
    BY <1>2, <2>2, <2>3, <2>4
  <2> QED
    BY <2>1, <2>5
<1>6. \A k \in Nat : k \in K
  <2> HIDE DEF K
  <2> QED
    BY <1>4, <1>5, Induction
<1>7. \A k \in Nat : k < n /\ k < m => log[n - k] = ev[m - k]
  BY <1>6
<1>8. n = m
  <2>1. CASE n < m
    <3>1. log[1] = ev[m - n + 1]
      <4>1. n - 1 \in Nat /\ n - (n - 1) = 1 /\ m - (n - 1) = m - n + 1 /\ n - 1 < n /\ n - 1 < m
        BY <1>1, <2>1
      <4> QED
        BY <1>7, <4>1
    <3>2. m - n + 1 \in 1 .. m /\ m - n + 1 > 1
      BY <1>1, <2>1
    <3> QED
      BY <1>1, <3>1, <3>2 DEF Linked
  <2>2. CASE m < n
    <3>1. log[n - m + 1] = ev[1]
      <4>1. m - 1 \in Nat /\ m - (m - 1) = 1 /\ n - (m - 1) = n - m + 1 /\ m - 1 < m /\ m - 1 < n
        BY <1>1, <2>2
      <4> QED
        BY <1>7, <4>1
    <3>2. n - m + 1 \in 1 .. n /\ n - m + 1 > 1
      BY <1>1, <2>2
    <3> QED
      BY <1>1, <3>1, <3>2 DEF Linked
  <2> QED
    BY <1>1, <2>1, <2>2
<1>9. ASSUME NEW i \in 1 .. n PROVE log[i] = ev[i]
  <2>1. n - i \in Nat /\ n - (n - i) = i /\ m - (n - i) = i /\ n - i < n /\ n - i < m
    BY <1>1, <1>8
  <2> QED
    BY <1>7, <2>1
<1> QED
  BY <1>1, <1>8, <1>9

(* record_hash: what two records with the same hash share. *)
LEMMA RecordFromHash ==
  ASSUME NEW r, NEW q, Rehashed(r), Rehashed(q), r.hash = q.hash
  PROVE  /\ r.time = q.time /\ r.prev = q.prev
         /\ Joined(r.actor, r.action) = Joined(q.actor, q.action)
<1>1. RecordHash(r.time, r.actor, r.action, r.prev) = RecordHash(q.time, q.actor, q.action, q.prev)
  BY DEF Rehashed
<1> QED
  BY <1>1 DEF RecordHash

LEMMA RecordNotZero ==
  ASSUME NEW r, Rehashed(r)
  PROVE  r.hash # ZeroHash
<1>1. DOMAIN RecordHash(r.time, r.actor, r.action, r.prev) = {"time", "text", "prev"}
  BY DEF RecordHash
<1>2. DOMAIN ZeroHash = {"zero"}
  BY DEF ZeroHash
<1> QED
  BY <1>1, <1>2 DEF Rehashed

(* verify_audit_chain, as links from entry to entry. *)
LEMMA AuditLinks ==
  ASSUME NEW S, NEW log \in Seq(S)
  PROVE  VerifyAuditChain(log) <=>
           \A i \in 1 .. Len(log) :
             /\ Rehashed(log[i])
             /\ log[i].prev = IF i = 1 THEN ZeroHash ELSE log[i - 1].hash
<1>1. ASSUME NEW i \in 1 .. Len(log)
      PROVE  HeadHash(SubSeq(log, 1, i - 1)) = IF i = 1 THEN ZeroHash ELSE log[i - 1].hash
  <2> DEFINE part == SubSeq(log, 1, i - 1)
  <2>1. Len(part) = i - 1 /\ (i # 1 => part # <<>> /\ part[i - 1] = log[i - 1])
    OBVIOUS
  <2>2. i = 1 => part = <<>>
    OBVIOUS
  <2> HIDE DEF part
  <2>3. HeadHash(part) = IF i = 1 THEN ZeroHash ELSE log[i - 1].hash
    BY <2>1, <2>2 DEF HeadHash, Last
  <2> QED
    BY <2>3 DEF part
<1>2. DOMAIN log = 1 .. Len(log)
  OBVIOUS
<1> QED
  BY <1>1, <1>2 DEF VerifyAuditChain

(* verify_audit_chain: of all logs that verify, the entries of those with  *)
(* a given head agree in time, predecessor and joined text.                *)
LEMMA HeadDeterminesTexts ==
  ASSUME NEW S, NEW log \in Seq(S), NEW rec \in Seq(S),
         VerifyAuditChain(log), VerifyAuditChain(rec), HeadHash(log) = HeadHash(rec)
  PROVE  /\ Len(log) = Len(rec)
         /\ \A i \in 1 .. Len(log) :
              /\ log[i].time = rec[i].time /\ log[i].prev = rec[i].prev
              /\ log[i].hash = rec[i].hash
              /\ Joined(log[i].actor, log[i].action) = Joined(rec[i].actor, rec[i].action)
<1> DEFINE n == Len(log)
           m == Len(rec)
           K == {k \in Nat : k < n /\ k < m => log[n - k].hash = rec[m - k].hash}
<1>1. n \in Nat /\ m \in Nat
  OBVIOUS
<1>2. /\ \A i \in 1 .. n : /\ Rehashed(log[i])
                           /\ log[i].prev = IF i = 1 THEN ZeroHash ELSE log[i - 1].hash
      /\ \A i \in 1 .. m : /\ Rehashed(rec[i])
                           /\ rec[i].prev = IF i = 1 THEN ZeroHash ELSE rec[i - 1].hash
  BY AuditLinks
<1>3. \A i \in 1 .. n, j \in 1 .. m : log[i].hash = rec[j].hash =>
        /\ log[i].time = rec[j].time /\ log[i].prev = rec[j].prev
        /\ Joined(log[i].actor, log[i].action) = Joined(rec[j].actor, rec[j].action)
  BY <1>2, RecordFromHash
<1>4. \A i \in 1 .. n, j \in 1 .. m : log[i].hash # ZeroHash /\ rec[j].hash # ZeroHash
  BY <1>2, RecordNotZero
<1>5. HeadHash(log) = (IF n = 0 THEN ZeroHash ELSE log[n].hash)
      /\ HeadHash(rec) = (IF m = 0 THEN ZeroHash ELSE rec[m].hash)
  BY DEF HeadHash, Last
<1> HIDE DEF n, m
<1>6. (n = 0 <=> m = 0) /\ (n # 0 => log[n].hash = rec[m].hash)
  <2>1. (n # 0 => n \in 1 .. n) /\ (m # 0 => m \in 1 .. m)
    BY <1>1
  <2>3. n # 0 => log[n].hash # ZeroHash
    BY <1>2, <2>1, RecordNotZero
  <2>4. m # 0 => rec[m].hash # ZeroHash
    BY <1>2, <2>1, RecordNotZero
  <2> QED
    BY <1>5, <2>3, <2>4
<1>7. 0 \in K
  <2>1. 0 < n => n # 0 /\ n - 0 = n
    BY <1>1
  <2>2. 0 < m => m - 0 = m
    BY <1>1
  <2> QED
    BY <1>6, <2>1, <2>2
<1>8. ASSUME NEW k \in Nat, k \in K PROVE k + 1 \in K
  <2> SUFFICES ASSUME k + 1 < n, k + 1 < m PROVE log[n - (k + 1)].hash = rec[m - (k + 1)].hash
    OBVIOUS
  <2> DEFINE i == n - k
             j == m - k
  <2>1. /\ i \in 1 .. n /\ i # 1 /\ j \in 1 .. m /\ j # 1
        /\ i - 1 = n - (k + 1) /\ j - 1 = m - (k + 1) /\ k < n /\ k < m
    BY <1>1
  <2>2. log[i].hash = rec[j].hash
    BY <1>8, <2>1
  <2> HIDE DEF i, j
  <2>3. log[i].prev = rec[j].prev
    BY <1>3, <2>1, <2>2
  <2>4. log[i - 1].hash = rec[j - 1].hash
    BY <1>2, <2>1, <2>3
  <2> QED
    BY <2>1, <2>4
<1>9. \A k \in Nat : k < n /\ k < m => log[n - k].hash = rec[m - k].hash
  <2>1. \A k \in Nat : k \in K
    <3> HIDE DEF K
    <3> QED
      BY <1>7, <1>8, Induction
  <2> QED
    BY <2>1
<1>10. n = m
  <2>1. CASE n < m
    <3>1. n # 0
      BY <1>6, <2>1
    <3> DEFINE j == m - n + 1
    <3>2. /\ n - 1 \in Nat /\ n - (n - 1) = 1 /\ m - (n - 1) = j /\ n - 1 < n /\ n - 1 < m
          /\ 1 \in 1 .. n /\ j \in 1 .. m /\ j # 1 /\ j - 1 \in 1 .. m
      BY <1>1, <2>1, <3>1
    <3>3. log[1].hash = rec[j].hash
      BY <1>9, <3>2
    <3> HIDE DEF j
    <3>4. log[1].prev = rec[j].prev
      BY <1>3, <3>2, <3>3
    <3> QED
      BY <1>2, <1>4, <3>2, <3>4
  <2>2. CASE m < n
    <3>1. m # 0
      BY <1>6, <2>2
    <3> DEFINE i == n - m + 1
    <3>2. /\ m - 1 \in Nat /\ m - (m - 1) = 1 /\ n - (m - 1) = i /\ m - 1 < n /\ m - 1 < m
          /\ 1 \in 1 .. m /\ i \in 1 .. n /\ i # 1 /\ i - 1 \in 1 .. n
      BY <1>1, <2>2, <3>1
    <3>3. log[i].hash = rec[1].hash
      BY <1>9, <3>2
    <3> HIDE DEF i
    <3>4. log[i].prev = rec[1].prev
      BY <1>3, <3>2, <3>3
    <3> QED
      BY <1>2, <1>4, <3>2, <3>4
  <2> QED
    BY <1>1, <2>1, <2>2
<1>11. ASSUME NEW i \in 1 .. n PROVE log[i].hash = rec[i].hash
  <2>1. n - i \in Nat /\ n - (n - i) = i /\ m - (n - i) = i /\ n - i < n /\ n - i < m
    BY <1>1, <1>10
  <2> QED
    BY <1>9, <2>1
<1> QED
  BY <1>3, <1>10, <1>11 DEF n, m

LEMMA JoinedAt ==
  ASSUME NEW S, Sep \in S, NEW a \in Seq(S), NEW b \in Seq(S)
  PROVE  /\ Len(Joined(a, b)) = Len(a) + 1 + Len(b)
         /\ Joined(a, b)[Len(a) + 1] = Sep
         /\ \A i \in 1 .. Len(a) : Joined(a, b)[i] = a[i]
         /\ \A i \in 1 .. Len(b) : Joined(a, b)[Len(a) + 1 + i] = b[i]
<1> DEFINE front == a \o <<Sep>>
<1>1. /\ front \in Seq(S) /\ Len(front) = Len(a) + 1 /\ front[Len(a) + 1] = Sep
      /\ \A i \in 1 .. Len(a) : front[i] = a[i]
  OBVIOUS
<1> HIDE DEF front
<1>2. /\ Len(front \o b) = Len(a) + 1 + Len(b)
      /\ \A i \in 1 .. Len(a) + 1 : (front \o b)[i] = front[i]
      /\ \A i \in 1 .. Len(b) : (front \o b)[Len(a) + 1 + i] = b[i]
  BY <1>1
<1>3. Joined(a, b) = front \o b
  BY DEF Joined, front
<1> QED
  <2>1. \A i \in 1 .. Len(a) : i \in 1 .. Len(a) + 1
    OBVIOUS
  <2>2. Len(a) + 1 \in 1 .. Len(a) + 1
    OBVIOUS
  <2> QED
    BY <1>1, <1>2, <1>3, <2>1, <2>2

(* A text without the separator has one reading. *)
LEMMA JoinedSplits ==
  ASSUME NEW S, Sep \in S, NEW a \in Seq(S), NEW b \in Seq(S), NEW c \in Seq(S), NEW d \in Seq(S),
         Joined(a, b) = Joined(c, d), Sep \notin Range(c \o d)
  PROVE  a = c /\ b = d
<1> DEFINE j == Joined(c, d)
<1>0. j = Joined(a, b)
  OBVIOUS
<1>1. /\ Len(j) = Len(a) + 1 + Len(b) /\ j[Len(a) + 1] = Sep
      /\ \A i \in 1 .. Len(a) : j[i] = a[i]
      /\ \A i \in 1 .. Len(b) : j[Len(a) + 1 + i] = b[i]
  <2>1. /\ Len(Joined(a, b)) = Len(a) + 1 + Len(b)
        /\ Joined(a, b)[Len(a) + 1] = Sep
        /\ \A i \in 1 .. Len(a) : Joined(a, b)[i] = a[i]
        /\ \A i \in 1 .. Len(b) : Joined(a, b)[Len(a) + 1 + i] = b[i]
    BY JoinedAt
  <2> HIDE DEF j
  <2> QED
    BY <1>0, <2>1
<1>2. /\ Len(j) = Len(c) + 1 + Len(d) /\ j[Len(c) + 1] = Sep
      /\ \A i \in 1 .. Len(c) : j[i] = c[i]
      /\ \A i \in 1 .. Len(d) : j[Len(c) + 1 + i] = d[i]
  <2>1. /\ Len(Joined(c, d)) = Len(c) + 1 + Len(d)
        /\ Joined(c, d)[Len(c) + 1] = Sep
        /\ \A i \in 1 .. Len(c) : Joined(c, d)[i] = c[i]
        /\ \A i \in 1 .. Len(d) : Joined(c, d)[Len(c) + 1 + i] = d[i]
    BY ONLY JoinedAt, Sep \in S, c \in Seq(S), d \in Seq(S)
  <2> QED
    BY <2>1
<1>3. /\ \A i \in 1 .. Len(c) : c[i] # Sep
      /\ \A i \in 1 .. Len(d) : d[i] # Sep
  <2> DEFINE t == c \o d
  <2>1. /\ DOMAIN t = 1 .. Len(c) + Len(d) /\ Len(c) \in Nat /\ Len(d) \in Nat
        /\ \A i \in 1 .. Len(c) : t[i] = c[i]
        /\ \A i \in 1 .. Len(d) : t[Len(c) + i] = d[i]
    OBVIOUS
  <2> HIDE DEF t
  <2>2. \A i \in DOMAIN t : t[i] # Sep
    BY DEF Range, t
  <2>3. \A i \in 1 .. Len(c) : i \in DOMAIN t
    BY <2>1
  <2>4. \A i \in 1 .. Len(d) : Len(c) + i \in DOMAIN t
    BY <2>1
  <2> QED
    BY <2>1, <2>2, <2>3, <2>4
<1>4. Len(a) \in Nat /\ Len(b) \in Nat /\ Len(c) \in Nat /\ Len(d) \in Nat
  OBVIOUS
<1> HIDE DEF j
<1>5. Len(a) = Len(c)
  <2>1. CASE Len(a) < Len(c)
    <3>1. Len(a) + 1 \in 1 .. Len(c)
      BY <1>4, <2>1
    <3> QED
      BY <1>1, <1>2, <1>3, <3>1
  <2>2. CASE Len(a) > Len(c)
    <3> DEFINE i == Len(a) - Len(c)
    <3>1. i \in 1 .. Len(d) /\ Len(c) + 1 + i = Len(a) + 1
      BY <1>1, <1>2, <1>4, <2>2
    <3> HIDE DEF i
    <3>2. j[Len(c) + 1 + i] = d[i] /\ d[i] # Sep
      BY <1>2, <1>3, <3>1
    <3> QED
      BY <1>1, <3>1, <3>2
  <2> QED
    BY <1>4, <2>1, <2>2
<1>6. Len(b) = Len(d)
  BY <1>1, <1>2, <1>4, <1>5
<1>7. \A i \in 1 .. Len(a) : a[i] = c[i]
  BY <1>1, <1>2, <1>5
<1>8. \A i \in 1 .. Len(b) : b[i] = d[i]
  BY <1>1, <1>2, <1>5, <1>6
<1>9. a = c
  <2>1. a = [i \in 1 .. Len(a) |-> a[i]] /\ c = [i \in 1 .. Len(c) |-> c[i]]
    OBVIOUS
  <2> QED
    BY <1>5, <1>7, <2>1
<1>10. b = d
  <2>1. b = [i \in 1 .. Len(b) |-> b[i]] /\ d = [i \in 1 .. Len(d) |-> d[i]]
    OBVIOUS
  <2> QED
    BY <1>6, <1>8, <2>1
<1> QED
  BY <1>9, <1>10

LEMMA TamperedSeqs ==
  ASSUME NEW S, NEW log \in Seq(S), NEW entries \in SUBSET S
  PROVE  Tampered(log, entries) \subseteq Seq(S)
<1>1. \A n \in 0 .. Len(log) : SubSeq(log, 1, n) \in Seq(S)
  OBVIOUS
<1>2. \A i \in DOMAIN log, e \in entries : [log EXCEPT ![i] = e] \in Seq(S)
  OBVIOUS
<1>3. \A i \in DOMAIN log : RemoveAt(log, i) \in Seq(S)
  BY DEF RemoveAt
<1>4. \A e \in entries : Append(log, e) \in Seq(S)
  OBVIOUS
<1> QED
  BY <1>1, <1>2, <1>3, <1>4 DEF Tampered

-------------------------------------------------------------------------------
(* The logs the custodian and the compliance layer build. *)
EventOk(e) == Shaped(e) /\ e.key \in Keys /\ e.time \in Times
RecordOk(r) ==
  /\ r = [time |-> r.time, actor |-> r.actor, action |-> r.action, prev |-> r.prev, hash |-> r.hash]
  /\ r.time \in Times /\ r.actor \in Strings /\ r.action \in Strings

LifecycleOk(log) ==
  /\ log \in Seq(Range(log)) /\ \A e \in Range(log) : EventOk(e)
  /\ Linked(log) /\ log[1].prev = ZeroHash
  /\ \A i \in 2 .. Len(log) : log[i - 1].kind # "Revocation"
AuditOk(log) ==
  /\ log \in Seq(Range(log)) /\ \A r \in Range(log) : RecordOk(r)
  /\ VerifyAuditChain(log)

LogsInv ==
  /\ custodian = [key |-> custodian.key, revoked |-> custodian.revoked, events |-> custodian.events]
  /\ custodian.revoked \in BOOLEAN
  /\ LifecycleOk(custodian.events)
  /\ custodian.key = Last(custodian.events).key
  /\ custodian.revoked <=> Last(custodian.events).kind = "Revocation"
  /\ AuditOk(records)
  /\ LogLength <= MaxLog

LEMMA EventFields ==
  ASSUME NEW kind, NEW k \in Keys, NEW t \in Times, NEW prev
  PROVE  LET e == Event(kind, k, t, prev)
         IN  /\ EventOk(e) /\ Rehashes(e)
             /\ e.kind = kind /\ e.key = k /\ e.time = t /\ e.prev = prev
BY DEF Event, EventOk, Shaped, Rehashes

(* rotate and revoke append an event over the last, which is no revocation. *)
LEMMA AppendEvent ==
  ASSUME NEW log, LifecycleOk(log), Last(log).kind # "Revocation",
         NEW kind \in {"Rotation", "Revocation"}, NEW k \in Keys, NEW t \in Times
  PROVE  LET e == Event(kind, k, t, HeadHash(log))
             new == Append(log, e)
         IN  /\ LifecycleOk(new) /\ Last(new).kind = kind /\ Last(new).key = k
             /\ Len(new) = Len(log) + 1
<1> DEFINE e == Event(kind, k, t, HeadHash(log))
           new == Append(log, e)
           n == Len(log)
<1>1. EventOk(e) /\ Rehashes(e) /\ e.kind = kind /\ e.key = k /\ e.prev = HeadHash(log)
  BY EventFields
<1>2. /\ new \in Seq(Range(new)) /\ Len(new) = n + 1 /\ n \in Nat
      /\ Range(new) = Range(log) \cup {e} /\ new # <<>> /\ Last(new) = e
      /\ DOMAIN log = 1 .. n /\ DOMAIN new = 1 .. n + 1
      /\ new[n + 1] = e /\ \A i \in 1 .. n : new[i] = log[i]
  <2> HIDE DEF e
  <2> QED
    BY AppendFacts DEF LifecycleOk
<1>3. n # 0
  BY DEF LifecycleOk, Linked
<1> HIDE DEF e, new, n
<1>4. 1 \in 1 .. n
  BY <1>2, <1>3
<1>5. ASSUME NEW i \in DOMAIN new
      PROVE  Rehashes(new[i]) /\ (i > 1 => new[i].kind # "Genesis" /\ LinksAt(new, i))
  <2>1. CASE i = n + 1
    <3>1. n \in 1 .. n /\ i - 1 = n
      BY <1>2, <1>3, <2>1
    <3>2. HeadHash(log) = log[n].hash
      BY DEF HeadHash, Last, LifecycleOk, Linked, n
    <3>3. e.prev = new[n].hash
      BY <1>1, <1>2, <3>1, <3>2
    <3>4. new[i] = e
      BY <1>2, <2>1
    <3>5. LinksAt(new, i)
      BY <3>1, <3>3, <3>4 DEF LinksAt
    <3> QED
      BY <1>1, <3>4, <3>5
  <2>2. CASE i # n + 1
    <3>1. i \in 1 .. n /\ (i > 1 => i - 1 \in 1 .. n)
      BY <1>2, <2>2
    <3>2. Rehashes(log[i]) /\ (i > 1 => log[i].kind # "Genesis" /\ LinksAt(log, i))
      BY <1>2, <3>1 DEF LifecycleOk, Linked
    <3> QED
      BY <1>2, <3>1, <3>2 DEF LinksAt
  <2> QED
    BY <2>1, <2>2
<1>6. Linked(new) /\ new[1].prev = ZeroHash
  BY <1>2, <1>4, <1>5 DEF LifecycleOk, Linked
<1>7. ASSUME NEW i \in 2 .. Len(new) PROVE new[i - 1].kind # "Revocation"
  <2>1. i - 1 \in 1 .. n
    BY <1>2
  <2>2. log[i - 1].kind # "Revocation"
    <3>1. CASE i = n + 1
      <4>1. i - 1 = n
        BY <1>2, <3>1
      <4> QED
        BY <4>1 DEF Last, n
    <3>2. CASE i # n + 1
      <4>1. i \in 2 .. n
        BY <1>2, <3>2
      <4> QED
        BY <4>1 DEF LifecycleOk, n
    <3> QED
      BY <3>1, <3>2
  <2> QED
    BY <1>2, <2>1, <2>2
<1>8. LifecycleOk(new)
  BY <1>1, <1>2, <1>6, <1>7 DEF LifecycleOk
<1> QED
  BY <1>1, <1>2, <1>8 DEF e, new, n

(* append writes a record over the head. *)
LEMMA AppendAudit ==
  ASSUME NEW log, AuditOk(log), NEW t \in Times, NEW actor \in Strings, NEW action \in Strings
  PROVE  LET new == Append(log, AuditRecord(t, actor, action, HeadHash(log)))
         IN  AuditOk(new) /\ Len(new) = Len(log) + 1
<1> DEFINE r == AuditRecord(t, actor, action, HeadHash(log))
           new == Append(log, r)
           n == Len(log)
<1>1. RecordOk(r) /\ Rehashed(r) /\ r.prev = HeadHash(log)
  BY DEF AuditRecord, RecordOk, Rehashed
<1>2. /\ new \in Seq(Range(new)) /\ Len(new) = n + 1 /\ n \in Nat
      /\ Range(new) = Range(log) \cup {r} /\ new # <<>> /\ Last(new) = r
      /\ DOMAIN log = 1 .. n /\ DOMAIN new = 1 .. n + 1
      /\ new[n + 1] = r /\ \A i \in 1 .. n : new[i] = log[i]
  <2> HIDE DEF r
  <2> QED
    BY AppendFacts DEF AuditOk
<1>3. \A i \in 1 .. n :
        /\ Rehashed(log[i])
        /\ log[i].prev = IF i = 1 THEN ZeroHash ELSE log[i - 1].hash
  BY AuditLinks DEF AuditOk
<1>4. HeadHash(log) = IF n = 0 THEN ZeroHash ELSE log[n].hash
  BY DEF HeadHash, Last, AuditOk
<1> HIDE DEF r, new, n
<1>5. ASSUME NEW i \in 1 .. n + 1
      PROVE  /\ Rehashed(new[i])
             /\ new[i].prev = IF i = 1 THEN ZeroHash ELSE new[i - 1].hash
  <2>1. CASE i = n + 1
    <3>1. new[i] = r /\ (n = 0 <=> i = 1) /\ (n # 0 => i - 1 = n /\ n \in 1 .. n)
      BY <1>2, <2>1
    <3> QED
      BY <1>1, <1>2, <1>4, <3>1
  <2>2. CASE i # n + 1
    <3>1. i \in 1 .. n /\ (i # 1 => i - 1 \in 1 .. n)
      BY <1>2, <2>2
    <3> QED
      BY <1>2, <1>3, <3>1
  <2> QED
    BY <2>1, <2>2
<1>6. VerifyAuditChain(new)
  BY <1>2, <1>5, AuditLinks
<1> QED
  BY <1>1, <1>2, <1>6 DEF AuditOk, r, new, n

LEMMA LogsInit == Init => LogsInv
<1> SUFFICES ASSUME Init PROVE LogsInv
  OBVIOUS
<1>1. PICK k \in Keys, t \in Times :
        custodian = [key |-> k, revoked |-> FALSE, events |-> <<Event("Genesis", k, t, ZeroHash)>>]
  BY DEF Init
<1> DEFINE e == Event("Genesis", k, t, ZeroHash)
           log == <<e>>
<1>2. EventOk(e) /\ Rehashes(e) /\ e.kind = "Genesis" /\ e.key = k /\ e.prev = ZeroHash
  BY EventFields
<1> HIDE DEF e
<1>3. /\ log \in Seq({e}) /\ Len(log) = 1 /\ DOMAIN log = {1} /\ log[1] = e /\ log # <<>>
  OBVIOUS
<1>4. custodian.key = k /\ custodian.revoked = FALSE /\ custodian.events = log
  BY <1>1 DEF e
<1> HIDE DEF log
<1>5. Range(log) = {e} /\ Last(log) = e
  BY <1>3 DEF Range, Last
<1>6. \A i \in DOMAIN log : i = 1 /\ ~(i > 1)
  BY <1>3
<1>7. LifecycleOk(log)
  <2>1. Linked(log)
    BY <1>2, <1>3, <1>6 DEF Linked
  <2>2. \A i \in 2 .. Len(log) : FALSE
    BY <1>3
  <2> QED
    BY <1>2, <1>3, <1>5, <2>1, <2>2 DEF LifecycleOk
<1>8. AuditOk(records) /\ Len(records) = 0
  <2>1. records = <<>>
    BY DEF Init
  <2>2. \A i \in DOMAIN records : FALSE
    BY <2>1
  <2> QED
    BY <2>1, <2>2 DEF AuditOk, Range, VerifyAuditChain
<1>9. LogLength <= MaxLog
  <2>1. MaxLog \in Nat \ {0}
    BY AnchorAssumption
  <2>2. Len(custodian.events) = 1
    BY <1>3, <1>4
  <2>3. LogLength = 1
    BY <1>8, <2>2 DEF LogLength
  <2> QED
    BY <2>1, <2>3
<1> QED
  BY <1>1, <1>2, <1>4, <1>5, <1>7, <1>8, <1>9 DEF LogsInv

LEMMA LogsKept ==
  ASSUME LogsInv, UNCHANGED <<custodian, records>>
  PROVE  LogsInv'
BY DEF LogsInv, LogLength

(* The room a step has left, whichever bound applies. *)
LEMMA RoomLeft ==
  ASSUME LogsInv, LogRoom
  PROVE  /\ Len(custodian.events) \in Nat /\ Len(records) \in Nat
         /\ Len(custodian.events) + Len(records) + 1 <= MaxLog
<1>1. Len(custodian.events) \in Nat /\ Len(records) \in Nat
  <2>1. custodian.events \in Seq(Range(custodian.events)) /\ records \in Seq(Range(records))
    BY DEF LogsInv, LifecycleOk, AuditOk
  <2> QED
    BY <2>1
<1>2. LogLength < MaxLog \/ LogLength < MaxMined
  BY DEF LogRoom
<1> QED
  BY <1>1, <1>2, AnchorAssumption DEF LogLength

LEMMA NextKeepsLogs ==
  ASSUME LogsInv, [Next]_vars
  PROVE  LogsInv'
<1>1. ASSUME ~custodian.revoked, LogRoom, NEW kind \in {"Rotation", "Revocation"},
             NEW k \in Keys, NEW t \in Times, records' = records,
             custodian' = [key |-> k, revoked |-> kind = "Revocation",
               events |-> Append(custodian.events, Event(kind, k, t, HeadHash(custodian.events)))]
      PROVE  LogsInv'
  <2> DEFINE log == custodian.events
             new == Append(log, Event(kind, k, t, HeadHash(log)))
  <2>1. LifecycleOk(log) /\ Last(log).kind # "Revocation"
    BY <1>1 DEF LogsInv
  <2>2. LifecycleOk(new) /\ Last(new).kind = kind /\ Last(new).key = k /\ Len(new) = Len(log) + 1
    <3> HIDE DEF log
    <3> QED
      BY <1>1, <2>1, AppendEvent
  <2>3. custodian' = [key |-> k, revoked |-> kind = "Revocation", events |-> new]
    BY <1>1
  <2> HIDE DEF new
  <2>4. custodian'.events = new /\ custodian'.key = k /\ custodian'.revoked = (kind = "Revocation")
    BY <2>3
  <2>5. Len(new) + Len(records) <= MaxLog
    BY <1>1, <2>2, RoomLeft
  <2>6. LogLength' <= MaxLog
    BY <1>1, <2>4, <2>5 DEF LogLength
  <2>7. AuditOk(records)'
    BY <1>1 DEF LogsInv
  <2> QED
    BY <2>2, <2>3, <2>4, <2>6, <2>7 DEF LogsInv
<1>2. ASSUME NEW k \in Keys, NEW t \in Times, Rotate(k, t) PROVE LogsInv'
  <2>1. custodian' = [key |-> k, revoked |-> FALSE,
          events |-> Append(custodian.events, Event("Rotation", k, t, HeadHash(custodian.events)))]
    BY <1>2 DEF Rotate, LogsInv
  <2>2. ("Rotation" = "Revocation") = FALSE
    OBVIOUS
  <2>3. ~custodian.revoked /\ LogRoom /\ records' = records
    BY <1>2 DEF Rotate
  <2> QED
    BY <1>1, <2>1, <2>2, <2>3
<1>3. ASSUME NEW t \in Times, Revoke(t) PROVE LogsInv'
  <2>1. custodian' = [key |-> custodian.key, revoked |-> TRUE,
          events |-> Append(custodian.events,
                            Event("Revocation", custodian.key, t, HeadHash(custodian.events)))]
    BY <1>3 DEF Revoke, LogsInv
  <2>2. custodian.key \in Keys
    <3>1. custodian.events # <<>> /\ custodian.events \in Seq(Range(custodian.events))
      BY DEF LogsInv, LifecycleOk, Linked
    <3>2. Last(custodian.events) \in Range(custodian.events)
      BY <3>1 DEF Last
    <3> QED
      BY <3>2 DEF LogsInv, LifecycleOk, EventOk
  <2>3. ~custodian.revoked /\ LogRoom /\ records' = records
    BY <1>3 DEF Revoke
  <2>4. ("Revocation" = "Revocation") = TRUE
    OBVIOUS
  <2> QED
    BY <1>1, <2>1, <2>2, <2>3, <2>4
<1>4. ASSUME NEW t \in Times, NEW actor \in Strings, NEW action \in Strings,
             AppendRecord(t, actor, action)
      PROVE  LogsInv'
  <2>1. AuditOk(records') /\ Len(records') = Len(records) + 1
    BY <1>4, AppendAudit DEF AppendRecord, LogsInv
  <2>2. custodian' = custodian /\ LogRoom
    BY <1>4 DEF AppendRecord
  <2>3. LogLength' <= MaxLog
    <3> DEFINE a == Len(custodian.events)
               b == Len(records)
    <3>1. LogLength' = a + (b + 1)
      BY <2>1, <2>2 DEF LogLength
    <3>2. a \in Nat /\ b \in Nat /\ a + b + 1 <= MaxLog
      BY <2>2, RoomLeft
    <3> HIDE DEF a, b
    <3>3. a + (b + 1) <= MaxLog
      BY <3>2, AnchorAssumption
    <3> QED
      BY <3>1, <3>3
  <2>4. AuditOk(records)'
    BY <2>1
  <2>5. LifecycleOk(custodian'.events)
    BY <2>2 DEF LogsInv
  <2> QED
    BY <2>2, <2>3, <2>4, <2>5 DEF LogsInv
<1>5. CASE Mine
  BY <1>5, LogsKept DEF Mine
<1>6. CASE Sync
  BY <1>6, LogsKept DEF Sync
<1>7. CASE AddOne
  BY <1>7, LogsKept DEF AddOne
<1>8. CASE UNCHANGED vars
  BY <1>8, LogsKept DEF vars
<1> QED
  BY <1>2, <1>3, <1>4, <1>5, <1>6, <1>7, <1>8 DEF Next

LEMMA BuiltVerifies ==
  ASSUME LogsInv
  PROVE  BuiltLogsVerify
<1> DEFINE log == custodian.events
<1>1. LifecycleOk(log) /\ VerifyAuditChain(records)
  BY DEF LogsInv, AuditOk
<1> HIDE DEF log
<1>2. DOMAIN log = 1 .. Len(log) /\ Len(log) \in Nat
  <2>1. log \in Seq(Range(log))
    BY <1>1 DEF LifecycleOk
  <2> QED
    BY <2>1
<1>3. \A i \in DOMAIN log : i > 1 <=> i \in 2 .. Len(log)
  BY <1>2
<1>4. \A i \in 2 .. Len(log) : i \in DOMAIN log
  BY <1>2
<1>5. VerifyLifecycle(log) <=> \A i \in 2 .. Len(log) : TimesOrdered(log, i)
  BY <1>1, <1>3, <1>4 DEF VerifyLifecycle, LifecycleOk, Linked
<1> QED
  BY <1>1, <1>5 DEF BuiltLogsVerify, TimesOrdered, log

LEMMA ForgedShaped ==
  ASSUME LogsInv
  PROVE  /\ \A e \in ForgedEvents : Shaped(e)
         /\ Range(custodian.events) \subseteq ForgedEvents
         /\ \A r \in ForgedRecords :
              /\ r = [time |-> r.time, actor |-> r.actor, action |-> r.action,
                      prev |-> r.prev, hash |-> r.hash]
              /\ r.actor \in Strings /\ r.action \in Strings
         /\ Range(records) \subseteq ForgedRecords
<1>1. \A e \in Range(custodian.events) : EventOk(e)
  BY DEF LogsInv, LifecycleOk
<1>2. \A r \in Range(records) : RecordOk(r)
  BY DEF LogsInv, AuditOk
<1>3. \A f \in MadeUpEvents : Shaped(f)
  BY EventFields DEF MadeUpEvents, EventOk
<1>4. \A f \in MadeUpEvents : \A h : Shaped([f EXCEPT !.hash = h])
  <2> SUFFICES ASSUME NEW f \in MadeUpEvents, NEW h PROVE Shaped([f EXCEPT !.hash = h])
    OBVIOUS
  <2>1. f = [kind |-> f.kind, key |-> f.key, time |-> f.time, prev |-> f.prev, hash |-> f.hash]
    BY <1>3 DEF Shaped
  <2>2. [f EXCEPT !.hash = h]
          = [kind |-> f.kind, key |-> f.key, time |-> f.time, prev |-> f.prev, hash |-> h]
    BY <2>1
  <2> QED
    BY <2>2 DEF Shaped
<1> DEFINE RecShape(r) ==
             /\ r = [time |-> r.time, actor |-> r.actor, action |-> r.action,
                     prev |-> r.prev, hash |-> r.hash]
             /\ r.actor \in Strings /\ r.action \in Strings
           made == {AuditRecord(t, a, b, r.prev) : t \in Times, a, b \in Strings, r \in Range(records)}
<1>5. \A f \in made : RecShape(f)
  BY DEF AuditRecord
<1>6. \A f \in made : \A h : RecShape([f EXCEPT !.hash = h])
  <2>1. ASSUME NEW f \in made, NEW h PROVE RecShape([f EXCEPT !.hash = h])
    <3>1. RecShape(f)
      BY <1>5
    <3>2. [f EXCEPT !.hash = h]
            = [time |-> f.time, actor |-> f.actor, action |-> f.action, prev |-> f.prev, hash |-> h]
      BY <3>1
    <3> QED
      BY <3>1, <3>2
  <2> HIDE DEF made, RecShape
  <2> QED
    BY <2>1
<1>7. \A r \in Range(records) : RecShape(r)
  BY <1>2 DEF RecordOk
<1>8. \A r \in ForgedRecords : RecShape(r)
  <2>1. ForgedRecords = Range(records) \cup made
                        \cup {[f EXCEPT !.hash = r.hash] : f \in made, r \in Range(records)}
    BY DEF ForgedRecords
  <2> HIDE DEF made, RecShape
  <2> QED
    BY <1>5, <1>6, <1>7, <2>1
<1>9. \A e \in ForgedEvents : Shaped(e)
  BY <1>1, <1>3, <1>4 DEF ForgedEvents, EventOk
<1> QED
  BY <1>8, <1>9 DEF ForgedEvents, ForgedRecords

LEMMA SeqWidens ==
  ASSUME NEW S, NEW T, S \subseteq T, NEW s \in Seq(S)
  PROVE  s \in Seq(T)
<1>1. Len(s) \in Nat /\ s \in [1 .. Len(s) -> T]
  OBVIOUS
<1> QED
  BY <1>1, FunctionIsSeq

LEMMA LifecycleEvident ==
  ASSUME LogsInv
  PROVE  LifecycleTamperEvident
<1> SUFFICES ASSUME NEW log \in Tampered(custodian.events, ForgedEvents), VerifyLifecycle(log),
                    HeadHash(log) = HeadHash(custodian.events)
             PROVE  log = custodian.events
  BY DEF LifecycleTamperEvident
<1>1. LifecycleOk(custodian.events)
  BY DEF LogsInv
<1>2. custodian.events \in Seq(ForgedEvents)
  BY <1>1, ForgedShaped, SeqWidens DEF LifecycleOk
<1>3. log \in Seq(ForgedEvents)
  BY <1>2, TamperedSeqs
<1>4. Linked(log)
  BY DEF VerifyLifecycle, Linked
<1> QED
  BY <1>1, <1>2, <1>3, <1>4, ForgedShaped, HeadDeterminesLog DEF LifecycleOk

LEMMA AuditEvident ==
  ASSUME LogsInv
  PROVE  AuditTamperEvident
<1> SUFFICES ASSUME NEW log \in Tampered(records, ForgedRecords)
             PROVE  /\ VerifyAuditChain(log) /\ HeadHash(log) = HeadHash(records) <=>
                         Len(log) = Len(records) /\ \A i \in DOMAIN log : SameText(log[i], records[i])
                    /\ Len(log) = Len(records) => \A i \in DOMAIN log :
                         SameText(log[i], records[i]) /\ log[i] # records[i] =>
                           Sep \in Range(records[i].actor \o records[i].action)
  BY DEF AuditTamperEvident
<1>1. AuditOk(records)
  BY DEF LogsInv
<1>2. records \in Seq(ForgedRecords)
  BY <1>1, ForgedShaped, SeqWidens DEF AuditOk
<1>3. log \in Seq(ForgedRecords)
  BY <1>2, TamperedSeqs
<1>4. ASSUME VerifyAuditChain(log), HeadHash(log) = HeadHash(records)
      PROVE  Len(log) = Len(records) /\ \A i \in 1 .. Len(log) : SameText(log[i], records[i])
  BY <1>1, <1>2, <1>3, <1>4, HeadDeterminesTexts DEF AuditOk, SameText
<1>5. DOMAIN log = 1 .. Len(log) /\ Len(log) \in Nat /\ DOMAIN records = 1 .. Len(records)
  BY <1>2, <1>3
<1>6. ASSUME Len(log) = Len(records), \A i \in DOMAIN log : SameText(log[i], records[i])
      PROVE  VerifyAuditChain(log) /\ HeadHash(log) = HeadHash(records)
  <2> DEFINE n == Len(log)
  <2>1. \A i \in 1 .. n :
          /\ Rehashed(records[i])
          /\ records[i].prev = IF i = 1 THEN ZeroHash ELSE records[i - 1].hash
    BY <1>1, <1>2, <1>5, <1>6, AuditLinks DEF AuditOk
  <2>2. \A i \in 1 .. n :
          /\ log[i].time = records[i].time /\ log[i].prev = records[i].prev
          /\ log[i].hash = records[i].hash
          /\ Joined(log[i].actor, log[i].action) = Joined(records[i].actor, records[i].action)
    BY <1>5, <1>6 DEF SameText
  <2>3. ASSUME NEW i \in 1 .. n
        PROVE  Rehashed(log[i]) /\ log[i].prev = IF i = 1 THEN ZeroHash ELSE log[i - 1].hash
    <3>1. Rehashed(log[i])
      BY <2>1, <2>2 DEF Rehashed, RecordHash
    <3>2. i # 1 => i - 1 \in 1 .. n
      BY <1>5
    <3> QED
      BY <2>1, <2>2, <3>1, <3>2
  <2>4. VerifyAuditChain(log)
    BY <1>3, <2>3, AuditLinks
  <2>5. HeadHash(log) = HeadHash(records)
    <3>1. CASE n = 0
      <4>1. log = <<>>
        BY <1>3, <3>1
      <4>2. Len(records) = 0
        BY <1>6, <3>1
      <4>3. records = <<>>
        BY <1>2, <4>2
      <4> QED
        BY <4>1, <4>3 DEF HeadHash
    <3>2. CASE n # 0
      <4>1. n \in 1 .. n /\ log # <<>> /\ records # <<>>
        BY <1>2, <1>3, <1>5, <1>6, <3>2
      <4>2. log[n].hash = records[n].hash
        BY <2>2, <4>1
      <4> QED
        BY <1>6, <4>1, <4>2 DEF HeadHash, Last
    <3> QED
      BY <3>1, <3>2
  <2> QED
    BY <2>4, <2>5
<1>7. ASSUME Len(log) = Len(records), NEW i \in DOMAIN log, SameText(log[i], records[i]),
             Sep \notin Range(records[i].actor \o records[i].action)
      PROVE  log[i] = records[i]
  <2> DEFINE l == log[i]
             r == records[i]
             S == Nat \cup {Sep}
  <2>1. l \in ForgedRecords /\ r \in ForgedRecords
    BY <1>2, <1>3, <1>5, <1>7
  <2>2. /\ l.time = r.time /\ l.prev = r.prev /\ l.hash = r.hash
        /\ Joined(l.actor, l.action) = Joined(r.actor, r.action)
    BY <1>7 DEF SameText
  <2>3. Sep \notin Range(r.actor \o r.action)
    BY <1>7
  <2> HIDE DEF l, r
  <2>4. \A s \in Strings : s \in Seq(S)
    BY AnchorAssumption, SeqWidens
  <2>5. l.actor \in Seq(S) /\ l.action \in Seq(S) /\ r.actor \in Seq(S) /\ r.action \in Seq(S)
    BY <2>1, <2>4, ForgedShaped
  <2>6. Sep \in S
    OBVIOUS
  <2> HIDE DEF S
  <2>7. l.actor = r.actor /\ l.action = r.action
    BY <2>2, <2>3, <2>5, <2>6, JoinedSplits
  <2>8. /\ l = [time |-> l.time, actor |-> l.actor, action |-> l.action,
                prev |-> l.prev, hash |-> l.hash]
        /\ r = [time |-> r.time, actor |-> r.actor, action |-> r.action,
                prev |-> r.prev, hash |-> r.hash]
    BY <2>1, ForgedShaped
  <2> QED
    BY <2>2, <2>7, <2>8 DEF l, r
<1> QED
  BY <1>4, <1>5, <1>6, <1>7

-------------------------------------------------------------------------------
(* The headers of the blocks mined, as a function of the blocks. *)
HeaderAt(bs, h, i) ==
  Header(IF i = 1 THEN ZeroHash ELSE h[i - 1], MerkleRoot(bs[i]), NetworkTarget, NetworkTarget)
HeadersOf(bs) == CHOOSE h : h = [i \in 1 .. Len(bs) |-> HeaderAt(bs, h, i)]

LEMMA HeaderOfIs ==
  ASSUME NEW n
  PROVE  HeaderOf(n) = HeadersOf(blocks)[n]
BY DEF HeaderOf, HeadersOf, HeaderAt

(* The recursion has a solution, one block at a time. *)
LEMMA HeadersExist ==
  ASSUME NEW bs, Len(bs) \in Nat
  PROVE  HeadersOf(bs) = [i \in 1 .. Len(bs) |-> HeaderAt(bs, HeadersOf(bs), i)]
<1> DEFINE K == {n \in Nat : \E h : h = [i \in 1 .. n |-> HeaderAt(bs, h, i)]}
<1>1. 0 \in K
  <2> DEFINE g == [i \in 1 .. 0 |-> 0]
  <2>1. g = [i \in 1 .. 0 |-> HeaderAt(bs, g, i)]
    OBVIOUS
  <2> HIDE DEF g
  <2> QED
    BY <2>1
<1>2. ASSUME NEW n \in Nat, n \in K PROVE n + 1 \in K
  <2>1. PICK h : h = [i \in 1 .. n |-> HeaderAt(bs, h, i)]
    BY <1>2
  <2> DEFINE g == [i \in 1 .. n + 1 |-> IF i = n + 1 THEN HeaderAt(bs, h, i) ELSE h[i]]
  <2>2. ASSUME NEW i \in 1 .. n + 1 PROVE g[i] = HeaderAt(bs, g, i)
    <3>1. i # 1 => i - 1 \in 1 .. n + 1 /\ i - 1 # n + 1
      OBVIOUS
    <3>2. i # 1 => g[i - 1] = h[i - 1]
      BY <3>1
    <3>3. g[i] = HeaderAt(bs, h, i)
      <4>1. CASE i = n + 1
        BY <4>1
      <4>2. CASE i # n + 1
        <5>1. i \in 1 .. n /\ g[i] = h[i]
          BY <4>2
        <5> QED
          BY <2>1, <5>1
      <4> QED
        BY <4>1, <4>2
    <3> HIDE DEF g
    <3> QED
      BY <3>2, <3>3 DEF HeaderAt
  <2>3. g = [i \in 1 .. n + 1 |-> g[i]]
    OBVIOUS
  <2> HIDE DEF g
  <2>4. g = [i \in 1 .. n + 1 |-> HeaderAt(bs, g, i)]
    BY <2>2, <2>3
  <2> QED
    BY <2>4
<1>3. \E h : h = [i \in 1 .. Len(bs) |-> HeaderAt(bs, h, i)]
  <2>1. \A n \in Nat : n \in K
    <3> HIDE DEF K
    <3> QED
      BY <1>1, <1>2, Induction
  <2> QED
    BY <2>1
<1> QED
  BY <1>3 DEF HeadersOf

LEMMA HeaderFacts ==
  ASSUME NEW bs, Len(bs) \in Nat, NEW i \in 1 .. Len(bs)
  PROVE  LET h == HeadersOf(bs)[i]
         IN  /\ h = Header(h.prev, h.root, h.bits, h.nonce)
             /\ h.bits = NetworkTarget /\ h.root = MerkleRoot(bs[i])
             /\ h.prev = IF i = 1 THEN ZeroHash ELSE HeadersOf(bs)[i - 1]
<1>1. HeadersOf(bs)[i] = HeaderAt(bs, HeadersOf(bs), i)
  BY HeadersExist
<1> DEFINE p == IF i = 1 THEN ZeroHash ELSE HeadersOf(bs)[i - 1]
           r == MerkleRoot(bs[i])
<1>2. HeadersOf(bs)[i] = [prev |-> p, root |-> r, bits |-> NetworkTarget, nonce |-> NetworkTarget]
  BY <1>1 DEF HeaderAt, Header
<1> HIDE DEF p, r
<1> QED
  BY <1>2 DEF Header, p, r

(* No header is that of two blocks: each contains all before it. *)
LEMMA HeadersInjective ==
  ASSUME NEW bs, Len(bs) \in Nat
  PROVE  \A i, j \in 1 .. Len(bs) : HeadersOf(bs)[i] = HeadersOf(bs)[j] => i = j
<1> DEFINE N == Len(bs)
           H == HeadersOf(bs)
           K == {i \in Nat : i \in 1 .. N => \A j \in 1 .. N : H[i] = H[j] => i = j}
<1>1. \A i \in 1 .. N : /\ H[i] = Header(H[i].prev, H[i].root, H[i].bits, H[i].nonce)
                        /\ H[i].prev = IF i = 1 THEN ZeroHash ELSE H[i - 1]
  BY HeaderFacts
<1> HIDE DEF N, H
<1>2. \A i \in 1 .. N : H[i] # ZeroHash
  <2> SUFFICES ASSUME NEW i \in 1 .. N PROVE H[i] # ZeroHash
    OBVIOUS
  <2>1. DOMAIN Header(H[i].prev, H[i].root, H[i].bits, H[i].nonce) = {"prev", "root", "bits", "nonce"}
    BY DEF Header
  <2>2. DOMAIN ZeroHash = {"zero"}
    BY DEF ZeroHash
  <2> QED
    BY <1>1, <2>1, <2>2
<1>3. N \in Nat
  BY DEF N
<1>4. 0 \in K
  BY <1>3
<1>5. ASSUME NEW i \in Nat, i \in K PROVE i + 1 \in K
  <2> SUFFICES ASSUME i + 1 \in 1 .. N, NEW j \in 1 .. N, H[i + 1] = H[j] PROVE i + 1 = j
    OBVIOUS
  <2>1. H[i + 1].prev = H[j].prev
    OBVIOUS
  <2>2. H[i + 1].prev = (IF i + 1 = 1 THEN ZeroHash ELSE H[i]) /\ H[j].prev = IF j = 1 THEN ZeroHash ELSE H[j - 1]
    <3>1. i + 1 - 1 = i
      OBVIOUS
    <3>2. H[i + 1].prev = IF i + 1 = 1 THEN ZeroHash ELSE H[(i + 1) - 1]
      BY <1>1
    <3>3. H[j].prev = IF j = 1 THEN ZeroHash ELSE H[j - 1]
      BY <1>1
    <3> QED
      BY <3>1, <3>2, <3>3
  <2>3. CASE i = 0
    <3>1. CASE j # 1
      <4>1. j - 1 \in 1 .. N
        BY <1>3, <3>1
      <4> QED
        BY <1>2, <2>1, <2>2, <2>3, <3>1, <4>1
    <3> QED
      BY <2>3, <3>1
  <2>4. CASE i # 0
    <3>1. i \in 1 .. N /\ i + 1 # 1
      BY <1>3, <2>4
    <3>2. j # 1
      BY <1>2, <2>1, <2>2, <3>1
    <3>3. j - 1 \in 1 .. N
      BY <1>3, <3>2
    <3>4. H[i] = H[j - 1]
      BY <2>1, <2>2, <3>1, <3>2
    <3>5. i = j - 1
      BY <1>5, <3>1, <3>3, <3>4
    <3> QED
      BY <3>5
  <2> QED
    BY <2>3, <2>4
<1>6. \A i \in Nat : i \in K
  <2> HIDE DEF K
  <2> QED
    BY <1>4, <1>5, Induction
<1>7. \A i \in 1 .. N : i \in Nat
  BY <1>3
<1>8. \A i, j \in 1 .. N : H[i] = H[j] => i = j
  BY <1>6, <1>7
<1> QED
  BY <1>8 DEF N, H

(* A new block leaves the headers of the earlier ones alone. *)
LEMMA HeadersStable ==
  ASSUME NEW bs, NEW cs, Len(bs) \in Nat, Len(cs) = Len(bs) + 1,
         \A i \in 1 .. Len(bs) : cs[i] = bs[i]
  PROVE  \A i \in 1 .. Len(bs) : HeadersOf(cs)[i] = HeadersOf(bs)[i]
<1> DEFINE N == Len(bs)
           K == {i \in Nat : i \in 1 .. N => HeadersOf(cs)[i] = HeadersOf(bs)[i]}
<1>1. \A i \in 1 .. N : HeadersOf(bs)[i] = HeaderAt(bs, HeadersOf(bs), i)
  BY HeadersExist
<1>2. Len(cs) \in Nat /\ \A i \in 1 .. N : i \in 1 .. Len(cs)
  OBVIOUS
<1>3. \A i \in 1 .. N : HeadersOf(cs)[i] = HeaderAt(cs, HeadersOf(cs), i)
  BY <1>2, HeadersExist
<1>4. N \in Nat /\ \A i \in 1 .. N : cs[i] = bs[i]
  OBVIOUS
<1> HIDE DEF N
<1>5. 0 \in K
  BY <1>4
<1>6. ASSUME NEW i \in Nat, i \in K PROVE i + 1 \in K
  <2> SUFFICES ASSUME i + 1 \in 1 .. N PROVE HeadersOf(cs)[i + 1] = HeadersOf(bs)[i + 1]
    OBVIOUS
  <2>1. 1 \in 1 .. N /\ i + 1 - 1 = i
    BY <1>4
  <2>2. i # 0 => HeadersOf(cs)[i] = HeadersOf(bs)[i]
    <3>1. i # 0 => i \in 1 .. N
      BY <1>4
    <3> QED
      BY <1>6, <3>1
  <2>3. cs[1] = bs[1] /\ cs[i + 1] = bs[i + 1]
    BY <1>4, <2>1
  <2>4. HeaderAt(cs, HeadersOf(cs), i + 1) = HeaderAt(bs, HeadersOf(bs), i + 1)
    <3>1. CASE i = 0
      BY <2>3, <3>1 DEF HeaderAt
    <3>2. CASE i # 0
      <4>1. i + 1 # 1 /\ HeadersOf(cs)[(i + 1) - 1] = HeadersOf(bs)[(i + 1) - 1]
        BY <2>1, <2>2, <3>2
      <4> QED
        BY <2>3, <4>1 DEF HeaderAt
    <3> QED
      BY <3>1, <3>2
  <2> QED
    BY <1>1, <1>3, <2>4
<1>7. \A i \in Nat : i \in K
  <2> HIDE DEF K
  <2> QED
    BY <1>5, <1>6, Induction
<1>8. \A i \in 1 .. N : i \in Nat
  BY <1>4
<1>9. \A i \in 1 .. N : HeadersOf(cs)[i] = HeadersOf(bs)[i]
  BY <1>7, <1>8
<1> QED
  BY <1>9 DEF N

-------------------------------------------------------------------------------
(* The two folds over headers: FoldLeft takes the largest index of a set   *)
(* last, so on 1 .. k it is a loop of k rounds.                            *)
LEMMA MaxOfSet ==
  ASSUME NEW n \in Nat, NEW s \in SUBSET (1 .. n), s # {}
  PROVE  Max(s) \in s /\ \A y \in s : Max(s) >= y
<1> DEFINE K == {m \in Nat : \A t \in SUBSET (1 .. m) : t # {} => \E x \in t : \A y \in t : x >= y}
<1>1. 0 \in K
  <2>1. \A t \in SUBSET (1 .. 0) : t = {}
    OBVIOUS
  <2> QED
    BY <2>1
<1>2. ASSUME NEW m \in Nat, m \in K PROVE m + 1 \in K
  <2> SUFFICES ASSUME NEW t \in SUBSET (1 .. m + 1), t # {} PROVE \E x \in t : \A y \in t : x >= y
    OBVIOUS
  <2>1. CASE m + 1 \in t
    <3>1. \A y \in t : m + 1 >= y
      OBVIOUS
    <3> QED
      BY <2>1, <3>1
  <2>2. CASE m + 1 \notin t
    <3>1. t \in SUBSET (1 .. m)
      BY <2>2
    <3> QED
      BY <1>2, <3>1
  <2> QED
    BY <2>1, <2>2
<1>3. \A m \in Nat : m \in K
  <2> HIDE DEF K
  <2> QED
    BY <1>1, <1>2, Induction
<1>4. \E x \in s : \A y \in s : x >= y
  BY <1>3
<1> QED
  BY <1>4 DEF Max

LEMMA MaxOfSegment ==
  ASSUME NEW n \in Nat, NEW s \in SUBSET (1 .. n + 1), n + 1 \in s
  PROVE  Max(s) = n + 1
<1>1. n + 1 \in Nat /\ s # {}
  OBVIOUS
<1>2. Max(s) \in s /\ \A y \in s : Max(s) >= y
  BY <1>1, MaxOfSet
<1>3. Max(s) >= n + 1 /\ Max(s) \in 1 .. n + 1
  BY <1>2
<1> QED
  BY <1>3

(* add, as the round of AddAll. *)
AddStep(acc, h) ==
  IF acc.go /\ AddVerdict(acc.c, h) = "Ok" THEN [acc EXCEPT !.c = Add(@, h)]
  ELSE [acc EXCEPT !.go = FALSE]
AddRounds(c, hs, g, s) ==
  IF s = {} THEN [c |-> c, go |-> TRUE] ELSE AddStep(g[s \ {Max(s)}], hs[Max(s)])
AddFold(c, hs) == CHOOSE g : g = [s \in SUBSET (DOMAIN hs) |-> AddRounds(c, hs, g, s)]

LEMMA AddAllIsFold ==
  ASSUME NEW c, NEW hs
  PROVE  AddAll(c, hs) = AddFold(c, hs)[DOMAIN hs].c
BY DEF AddAll, FoldLeft, MapThenFoldSet, AddFold, AddRounds, AddStep

LEMMA AddFoldExists ==
  ASSUME NEW c, NEW hs, NEW n \in Nat
  PROVE  \E g : g = [s \in SUBSET (1 .. n) |-> AddRounds(c, hs, g, s)]
<1> DEFINE K == {m \in Nat : \E g : g = [s \in SUBSET (1 .. m) |-> AddRounds(c, hs, g, s)]}
<1>1. 0 \in K
  <2> DEFINE g == [s \in SUBSET (1 .. 0) |-> [c |-> c, go |-> TRUE]]
  <2>1. \A s \in SUBSET (1 .. 0) : s = {}
    OBVIOUS
  <2>2. g = [s \in SUBSET (1 .. 0) |-> AddRounds(c, hs, g, s)]
    BY <2>1 DEF AddRounds
  <2> HIDE DEF g
  <2> QED
    BY <2>2
<1>2. ASSUME NEW m \in Nat, m \in K PROVE m + 1 \in K
  <2>1. PICK g : g = [s \in SUBSET (1 .. m) |-> AddRounds(c, hs, g, s)]
    BY <1>2
  <2>0. \A s \in SUBSET (1 .. m) : g[s] = AddRounds(c, hs, g, s)
    BY <2>1
  <2> DEFINE h == [s \in SUBSET (1 .. m + 1) |->
                     IF m + 1 \in s THEN AddStep(g[s \ {m + 1}], hs[m + 1]) ELSE g[s]]
  <2>2. \A s \in SUBSET (1 .. m) : s \in SUBSET (1 .. m + 1) /\ m + 1 \notin s
    OBVIOUS
  <2>3. \A s \in SUBSET (1 .. m) : h[s] = g[s]
    BY <2>2
  <2>4. \A s \in SUBSET (1 .. m + 1) : m + 1 \in s => h[s] = AddStep(g[s \ {m + 1}], hs[m + 1])
    OBVIOUS
  <2>5. h = [s \in SUBSET (1 .. m + 1) |-> h[s]]
    OBVIOUS
  <2> HIDE DEF h
  <2>6. ASSUME NEW s \in SUBSET (1 .. m + 1) PROVE h[s] = AddRounds(c, hs, h, s)
    <3>1. CASE m + 1 \in s
      <4>1. Max(s) = m + 1 /\ s # {}
        BY <3>1, MaxOfSegment
      <4>2. s \ {m + 1} \in SUBSET (1 .. m)
        OBVIOUS
      <4>3. h[s \ {m + 1}] = g[s \ {m + 1}]
        BY <2>3, <4>2
      <4> QED
        BY <2>4, <3>1, <4>1, <4>3 DEF AddRounds
    <3>2. CASE m + 1 \notin s
      <4>1. s \in SUBSET (1 .. m) /\ s \ {Max(s)} \in SUBSET (1 .. m)
        <5>1. \A y \in 1 .. m + 1 : y # m + 1 => y \in 1 .. m
          OBVIOUS
        <5> QED
          BY <3>2, <5>1
      <4>2. h[s] = g[s] /\ h[s \ {Max(s)}] = g[s \ {Max(s)}]
        BY <2>3, <4>1
      <4>3. g[s] = AddRounds(c, hs, g, s)
        BY <2>0, <4>1
      <4> QED
        BY <4>2, <4>3 DEF AddRounds
    <3> QED
      BY <3>1, <3>2
  <2>7. h = [s \in SUBSET (1 .. m + 1) |-> AddRounds(c, hs, h, s)]
    BY <2>5, <2>6
  <2> QED
    BY <2>7
<1> QED
  <2>1. \A m \in Nat : m \in K
    <3> HIDE DEF K
    <3> QED
      BY <1>1, <1>2, Induction
  <2> QED
    BY <2>1

LEMMA AddFoldRounds ==
  ASSUME NEW c, NEW hs, NEW S, hs \in Seq(S)
  PROVE  LET f == AddFold(c, hs)
         IN  /\ f[1 .. 0] = [c |-> c, go |-> TRUE]
             /\ \A k \in Nat : k + 1 \in 1 .. Len(hs) =>
                  f[1 .. k + 1] = AddStep(f[1 .. k], hs[k + 1])
             /\ AddAll(c, hs) = f[1 .. Len(hs)].c
<1> DEFINE f == AddFold(c, hs)
           n == Len(hs)
<1>1. n \in Nat /\ DOMAIN hs = 1 .. n
  OBVIOUS
<1>2. f = [s \in SUBSET (1 .. n) |-> AddRounds(c, hs, f, s)]
  BY <1>1, AddFoldExists DEF AddFold
<1>3. AddAll(c, hs) = f[1 .. n].c
  BY <1>1, AddAllIsFold
<1> HIDE DEF f, n
<1>4. \A s \in SUBSET (1 .. n) : f[s] = AddRounds(c, hs, f, s)
  BY <1>2
<1>5. f[1 .. 0] = [c |-> c, go |-> TRUE]
  <2>1. 1 .. 0 = {} /\ 1 .. 0 \in SUBSET (1 .. n)
    OBVIOUS
  <2> QED
    BY <1>4, <2>1 DEF AddRounds
<1>6. ASSUME NEW k \in Nat, k + 1 \in 1 .. n PROVE f[1 .. k + 1] = AddStep(f[1 .. k], hs[k + 1])
  <2> DEFINE s == 1 .. k + 1
  <2>1. s \in SUBSET (1 .. n) /\ s # {} /\ k + 1 \in s /\ s \in SUBSET (1 .. k + 1)
    BY <1>1, <1>6
  <2>2. s \ {k + 1} = 1 .. k
    OBVIOUS
  <2> HIDE DEF s
  <2>3. Max(s) = k + 1
    BY <2>1, MaxOfSegment
  <2>4. f[s] = AddRounds(c, hs, f, s)
    BY <1>4, <2>1
  <2>5. f[s] = AddStep(f[1 .. k], hs[k + 1])
    BY <2>1, <2>2, <2>3, <2>4 DEF AddRounds
  <2> QED
    BY <2>5 DEF s
<1> QED
  BY <1>3, <1>5, <1>6 DEF f, n

(* The offline client's header_stream: a height it has is pushed. *)
PushStep(c, out, h) == IF h \in DOMAIN c THEN Append(out, c[h]) ELSE out
PushRounds(c, hs, g, s) ==
  IF s = {} THEN <<>> ELSE PushStep(c, g[s \ {Max(s)}], hs[Max(s)])
PushFold(c, hs) == CHOOSE g : g = [s \in SUBSET (DOMAIN hs) |-> PushRounds(c, hs, g, s)]

LEMMA StreamIsFold ==
  ASSUME NEW c, NEW from, NEW count
  PROVE  OfflineStream(c, from, count)
           = PushFold(c, Heights(from, count))[DOMAIN Heights(from, count)]
BY DEF OfflineStream, FoldLeft, MapThenFoldSet, PushFold, PushRounds, PushStep

LEMMA PushFoldExists ==
  ASSUME NEW c, NEW hs, NEW n \in Nat
  PROVE  \E g : g = [s \in SUBSET (1 .. n) |-> PushRounds(c, hs, g, s)]
<1> DEFINE K == {m \in Nat : \E g : g = [s \in SUBSET (1 .. m) |-> PushRounds(c, hs, g, s)]}
<1>1. 0 \in K
  <2> DEFINE g == [s \in SUBSET (1 .. 0) |-> <<>>]
  <2>1. \A s \in SUBSET (1 .. 0) : s = {}
    OBVIOUS
  <2>2. g = [s \in SUBSET (1 .. 0) |-> PushRounds(c, hs, g, s)]
    BY <2>1 DEF PushRounds
  <2> HIDE DEF g
  <2> QED
    BY <2>2
<1>2. ASSUME NEW m \in Nat, m \in K PROVE m + 1 \in K
  <2>1. PICK g : g = [s \in SUBSET (1 .. m) |-> PushRounds(c, hs, g, s)]
    BY <1>2
  <2>0. \A s \in SUBSET (1 .. m) : g[s] = PushRounds(c, hs, g, s)
    BY <2>1
  <2> DEFINE h == [s \in SUBSET (1 .. m + 1) |->
                     IF m + 1 \in s THEN PushStep(c, g[s \ {m + 1}], hs[m + 1]) ELSE g[s]]
  <2>2. \A s \in SUBSET (1 .. m) : s \in SUBSET (1 .. m + 1) /\ m + 1 \notin s
    OBVIOUS
  <2>3. \A s \in SUBSET (1 .. m) : h[s] = g[s]
    BY <2>2
  <2>4. \A s \in SUBSET (1 .. m + 1) : m + 1 \in s => h[s] = PushStep(c, g[s \ {m + 1}], hs[m + 1])
    OBVIOUS
  <2>5. h = [s \in SUBSET (1 .. m + 1) |-> h[s]]
    OBVIOUS
  <2> HIDE DEF h
  <2>6. ASSUME NEW s \in SUBSET (1 .. m + 1) PROVE h[s] = PushRounds(c, hs, h, s)
    <3>1. CASE m + 1 \in s
      <4>1. Max(s) = m + 1 /\ s # {}
        BY <3>1, MaxOfSegment
      <4>2. s \ {m + 1} \in SUBSET (1 .. m)
        OBVIOUS
      <4>3. h[s \ {m + 1}] = g[s \ {m + 1}]
        BY <2>3, <4>2
      <4> QED
        BY <2>4, <3>1, <4>1, <4>3 DEF PushRounds
    <3>2. CASE m + 1 \notin s
      <4>1. s \in SUBSET (1 .. m) /\ s \ {Max(s)} \in SUBSET (1 .. m)
        <5>1. \A y \in 1 .. m + 1 : y # m + 1 => y \in 1 .. m
          OBVIOUS
        <5> QED
          BY <3>2, <5>1
      <4>2. h[s] = g[s] /\ h[s \ {Max(s)}] = g[s \ {Max(s)}]
        BY <2>3, <4>1
      <4>3. g[s] = PushRounds(c, hs, g, s)
        BY <2>0, <4>1
      <4> QED
        BY <4>2, <4>3 DEF PushRounds
    <3> QED
      BY <3>1, <3>2
  <2>7. h = [s \in SUBSET (1 .. m + 1) |-> PushRounds(c, hs, h, s)]
    BY <2>5, <2>6
  <2> QED
    BY <2>7
<1> QED
  <2>1. \A m \in Nat : m \in K
    <3> HIDE DEF K
    <3> QED
      BY <1>1, <1>2, Induction
  <2> QED
    BY <2>1

LEMMA PushFoldRounds ==
  ASSUME NEW c, NEW hs, NEW S, hs \in Seq(S)
  PROVE  LET f == PushFold(c, hs)
         IN  /\ f[1 .. 0] = <<>>
             /\ \A k \in Nat : k + 1 \in 1 .. Len(hs) =>
                  f[1 .. k + 1] = PushStep(c, f[1 .. k], hs[k + 1])
<1> DEFINE f == PushFold(c, hs)
           n == Len(hs)
<1>1. n \in Nat /\ DOMAIN hs = 1 .. n
  OBVIOUS
<1>2. f = [s \in SUBSET (1 .. n) |-> PushRounds(c, hs, f, s)]
  BY <1>1, PushFoldExists DEF PushFold
<1> HIDE DEF f, n
<1>4. \A s \in SUBSET (1 .. n) : f[s] = PushRounds(c, hs, f, s)
  BY <1>2
<1>5. f[1 .. 0] = <<>>
  <2>1. 1 .. 0 = {} /\ 1 .. 0 \in SUBSET (1 .. n)
    OBVIOUS
  <2> QED
    BY <1>4, <2>1 DEF PushRounds
<1>6. ASSUME NEW k \in Nat, k + 1 \in 1 .. n PROVE f[1 .. k + 1] = PushStep(c, f[1 .. k], hs[k + 1])
  <2> DEFINE s == 1 .. k + 1
  <2>1. s \in SUBSET (1 .. n) /\ s # {} /\ k + 1 \in s /\ s \in SUBSET (1 .. k + 1)
    BY <1>1, <1>6
  <2>2. s \ {k + 1} = 1 .. k
    OBVIOUS
  <2> HIDE DEF s
  <2>3. Max(s) = k + 1
    BY <2>1, MaxOfSegment
  <2>4. f[s] = PushRounds(c, hs, f, s)
    BY <1>4, <2>1
  <2>5. f[s] = PushStep(c, f[1 .. k], hs[k + 1])
    BY <2>1, <2>2, <2>3, <2>4 DEF PushRounds
  <2> QED
    BY <2>5 DEF s
<1> QED
  BY <1>5, <1>6 DEF f, n

-------------------------------------------------------------------------------
(* What a node may serve, and what the clients make of it. *)

(* A header of any fields; if it states the network's target, it is one of *)
(* the set G.                                                              *)
HeaderOk(h, G) ==
  /\ h = Header(h.prev, h.root, h.bits, h.nonce)
  /\ h.bits <= NetworkTarget => h \in G

(* What was not worked for either states an easier target or misses its    *)
(* own.                                                                    *)
LEMMA OfferedFacts ==
  ASSUME Len(blocks) \in Nat, NEW h \in Offered
  PROVE  /\ h = Header(h.prev, h.root, h.bits, h.nonce)
         /\ MeetsTarget(h) => HeaderOk(h, Mined)
<1>1. CASE h \in Mined
  <2>1. PICK n \in 1 .. Len(blocks) : h = HeadersOf(blocks)[n]
    BY <1>1, HeaderOfIs DEF Mined
  <2> QED
    BY <1>1, <2>1, HeaderFacts DEF HeaderOk
<1>2. CASE h \in MadeUp
  <2>1. PICK p, r, b : h = Header(p, r, b, MaxTarget) /\ b \in {NetworkTarget, MaxTarget}
    BY <1>2 DEF MadeUp
  <2>2. h = Header(h.prev, h.root, h.bits, h.nonce) /\ h.bits = b /\ h.nonce = MaxTarget
    BY <2>1 DEF Header
  <2>3. MeetsTarget(h) => ~(h.bits <= NetworkTarget)
    BY <2>1, <2>2, AnchorAssumption DEF MeetsTarget
  <2> QED
    BY <2>2, <2>3 DEF HeaderOk
<1> QED
  BY <1>1, <1>2 DEF Offered

(* serialize and parse: whatever parses was offered. *)
LEMMA ServedParses ==
  ASSUME Len(blocks) \in Nat, NEW served \in Served, NEW g \in DOMAIN served,
         Parse(served[g]) # Malformed
  PROVE  Parse(served[g]) \in Offered
<1>1. \/ \E h \in Offered : served[g] = Serialize(h)
      \/ served[g] = Truncated(HeaderOf(1))
  BY DEF Served
<1>2. ASSUME NEW h PROVE Len(Truncated(h)) = 3
  <2> DEFINE raw == <<h.prev, h.root, h.bits, h.nonce>>
             S == {h.prev, h.root, h.bits, h.nonce}
  <2>1. raw \in Seq(S) /\ Len(raw) = 4
    OBVIOUS
  <2> HIDE DEF raw, S
  <2>2. Len(SubSeq(raw, 1, 3)) = 3
    BY <2>1
  <2>3. 4 - 1 = 3
    OBVIOUS
  <2> QED
    BY <2>2, <2>3 DEF Truncated, Serialize, HEADER_LEN, raw
<1>3. served[g] # Truncated(HeaderOf(1))
  BY <1>2 DEF Parse, HEADER_LEN
<1>4. PICK h \in Offered : served[g] = Serialize(h)
  BY <1>1, <1>3
<1>5. Parse(served[g]) = Header(h.prev, h.root, h.bits, h.nonce)
  BY <1>4 DEF Parse, Serialize, HEADER_LEN
<1> QED
  BY <1>4, <1>5, OfferedFacts

LEMMA StreamsOffered ==
  ASSUME Len(blocks) \in Nat, NEW served \in Served, NEW from \in Nat, NEW count \in Nat
  PROVE  /\ TeranodeStream(served, from, count) \in Seq(Offered)
         /\ OfflineStream(Parsed(served), from, count) \in Seq(Offered)
<1>1. TeranodeStream(served, from, count) \in Seq(Offered)
  <2> DEFINE at(i) == HeaderByHeight(served, from + i - 1)
  <2>1. CASE \A i \in 1 .. count : at(i) # Malformed
    <3>1. \A i \in 1 .. count : at(i) \in Offered
      BY <2>1, ServedParses DEF HeaderByHeight
    <3>2. [i \in 1 .. count |-> at(i)] \in [1 .. count -> Offered]
      BY <3>1
    <3>3. [i \in 1 .. count |-> at(i)] \in Seq(Offered)
      <4> HIDE DEF at
      <4> QED
        BY <3>2, FunctionIsSeq
    <3>4. TeranodeStream(served, from, count) = [i \in 1 .. count |-> at(i)]
      BY <2>1 DEF TeranodeStream
    <3> QED
      BY <3>3, <3>4
  <2>2. CASE ~ \A i \in 1 .. count : at(i) # Malformed
    <3>1. TeranodeStream(served, from, count) = <<>>
      BY <2>2 DEF TeranodeStream
    <3> QED
      BY <3>1
  <2> QED
    BY <2>1, <2>2
<1>2. OfflineStream(Parsed(served), from, count) \in Seq(Offered)
  <2> DEFINE by == Parsed(served)
             hs == Heights(from, count)
             f == PushFold(by, hs)
             K == {k \in Nat : k <= count => f[1 .. k] \in Seq(Offered)}
  <2>1. \A g \in DOMAIN by : by[g] \in Offered
    BY ServedParses DEF Parsed
  <2>2. hs \in [1 .. count -> Int] /\ DOMAIN hs = 1 .. count
    BY DEF Heights
  <2>3. hs \in Seq(Int) /\ Len(hs) = count
    <3>1. hs \in Seq(Int)
      <4> HIDE DEF hs
      <4> QED
        BY <2>2, FunctionIsSeq
    <3> QED
      BY <2>2, <3>1
  <2> HIDE DEF by, hs
  <2>4. /\ f[1 .. 0] = <<>>
        /\ \A k \in Nat : k + 1 \in 1 .. count => f[1 .. k + 1] = PushStep(by, f[1 .. k], hs[k + 1])
    BY <2>3, PushFoldRounds
  <2>5. OfflineStream(by, from, count) = f[1 .. count]
    BY <2>2, StreamIsFold DEF hs
  <2> HIDE DEF f
  <2>6. 0 \in K
    <3>1. <<>> \in Seq(Offered)
      OBVIOUS
    <3>2. f[1 .. 0] \in Seq(Offered)
      BY <2>4, <3>1, Zenon
    <3> QED
      BY <3>2
  <2>7. ASSUME NEW k \in Nat, k \in K PROVE k + 1 \in K
    <3> SUFFICES ASSUME k + 1 <= count PROVE f[1 .. k + 1] \in Seq(Offered)
      OBVIOUS
    <3>1. k + 1 \in 1 .. count /\ k <= count
      OBVIOUS
    <3>2. f[1 .. k] \in Seq(Offered)
      BY <2>7, <3>1
    <3>3. f[1 .. k + 1] = PushStep(by, f[1 .. k], hs[k + 1])
      BY <2>4, <3>1
    <3> QED
      BY <2>1, <3>2, <3>3 DEF PushStep
  <2>8. \A k \in Nat : k \in K
    <3> HIDE DEF K
    <3> QED
      BY <2>6, <2>7, Induction
  <2>9. f[1 .. count] \in Seq(Offered)
    <3>1. count \in K
      BY <2>8
    <3> QED
      BY <3>1
  <2> QED
    BY <2>5, <2>9 DEF by
<1> QED
  BY <1>1, <1>2

-------------------------------------------------------------------------------
(* The client's chain: headers each over the one before, those that state  *)
(* the network's target of blocks mined (G), no higher than HeightMax; and *)
(* the map finds every root at the last height that has it.                *)
RootAt(c, i) == c.headers[i].root
ChainOk(c, G) ==
  /\ c = [headers |-> c.headers, start |-> c.start, byRoot |-> c.byRoot]
  /\ c.start \in 0 .. HeightMax /\ c.headers \in Seq(Range(c.headers))
  /\ \A i \in 1 .. Len(c.headers) : HeaderOk(c.headers[i], G)
  /\ c.start + Len(c.headers) <= HeightMax + 1
  /\ \A i \in 2 .. Len(c.headers) : c.headers[i].prev = c.headers[i - 1]
  /\ DOMAIN c.byRoot = {RootAt(c, i) : i \in 1 .. Len(c.headers)}
  /\ \A i \in 1 .. Len(c.headers) :
       \E j \in i .. Len(c.headers) :
         c.byRoot[RootAt(c, i)] = c.start + j - 1 /\ RootAt(c, j) = RootAt(c, i)

LEMMA VerdictOk ==
  ASSUME NEW c, NEW h, AddVerdict(c, h) = "Ok"
  PROVE  /\ HasTip(c) => h.prev = Last(c.headers)
         /\ MeetsTarget(h) /\ ~(NextHeight(c) > HeightMax)
BY DEF AddVerdict

(* add keeps all of it. *)
LEMMA AddKeepsChain ==
  ASSUME NEW G, NEW c, ChainOk(c, G), NEW h, HeaderOk(h, G), AddVerdict(c, h) = "Ok"
  PROVE  ChainOk(Add(c, h), G)
<1> DEFINE n == Len(c.headers)
           hs == Append(c.headers, h)
           height == c.start + n
           d == Add(c, h)
<1>1. /\ c = [headers |-> c.headers, start |-> c.start, byRoot |-> c.byRoot]
      /\ c.headers \in Seq(Range(c.headers)) /\ n \in Nat /\ c.start \in Nat /\ HeightMax \in Nat
  BY AnchorAssumption DEF ChainOk
<1>2. NextHeight(c) = height /\ c.start + n <= HeightMax
  BY <1>1, VerdictOk DEF NextHeight
<1>3. d = [headers |-> hs, start |-> c.start, byRoot |-> InsertRoot(c.byRoot, h.root, height)]
  BY <1>1, <1>2 DEF Add
<1>4. d.headers = hs /\ d.start = c.start /\ d.byRoot = InsertRoot(c.byRoot, h.root, height)
  <2> HIDE DEF d, hs
  <2> QED
    BY <1>3
<1>5. /\ hs \in Seq(Range(hs)) /\ Len(hs) = n + 1 /\ hs[n + 1] = h
      /\ \A i \in 1 .. n : hs[i] = c.headers[i]
  BY <1>1, AppendFacts
<1>6. /\ DOMAIN d.byRoot = DOMAIN c.byRoot \cup {h.root}
      /\ \A r \in DOMAIN d.byRoot : d.byRoot[r] = IF r = h.root THEN height ELSE c.byRoot[r]
  BY <1>4 DEF InsertRoot
<1>7. n # 0 => h.prev = c.headers[n]
  BY <1>1, VerdictOk DEF HasTip, Last
<1>8. /\ c.start \in 0 .. HeightMax
      /\ \A i \in 2 .. n : c.headers[i].prev = c.headers[i - 1]
      /\ DOMAIN c.byRoot = {RootAt(c, i) : i \in 1 .. n}
      /\ \A i \in 1 .. n : \E j \in i .. n :
           c.byRoot[RootAt(c, i)] = c.start + j - 1 /\ RootAt(c, j) = RootAt(c, i)
  BY DEF ChainOk
<1> HIDE DEF n, hs, height, d
<1>9. /\ RootAt(d, n + 1) = h.root
      /\ \A i \in 1 .. n : RootAt(d, i) = RootAt(c, i)
  BY <1>4, <1>5 DEF RootAt
<1>10. d.start + (n + 1) <= HeightMax + 1
  BY <1>1, <1>2, <1>4
<1>11. ASSUME NEW i \in 2 .. n + 1 PROVE d.headers[i].prev = d.headers[i - 1]
  <2>1. CASE i = n + 1
    <3>1. n # 0 /\ i - 1 = n /\ n \in 1 .. n
      BY <1>1, <2>1
    <3>2. hs[i] = h /\ hs[i - 1] = c.headers[n]
      BY <1>5, <2>1, <3>1
    <3> QED
      BY <1>4, <1>7, <3>1, <3>2
  <2>2. CASE i # n + 1
    <3>1. i \in 2 .. n /\ i \in 1 .. n /\ i - 1 \in 1 .. n
      BY <1>1, <2>2
    <3> QED
      BY <1>4, <1>5, <1>8, <3>1
  <2> QED
    BY <2>1, <2>2
<1>12. DOMAIN d.byRoot = {RootAt(d, i) : i \in 1 .. n + 1}
  <2>1. \A i \in 1 .. n + 1 : i \in 1 .. n \/ i = n + 1
    BY <1>1
  <2>2. n + 1 \in 1 .. n + 1 /\ \A i \in 1 .. n : i \in 1 .. n + 1
    BY <1>1
  <2>3. DOMAIN d.byRoot = {RootAt(c, i) : i \in 1 .. n} \cup {h.root}
    BY <1>6, <1>8
  <2>4. {RootAt(c, i) : i \in 1 .. n} = {RootAt(d, i) : i \in 1 .. n}
    BY <1>9
  <2>5. {RootAt(d, i) : i \in 1 .. n + 1} = {RootAt(d, i) : i \in 1 .. n} \cup {RootAt(d, n + 1)}
    BY <2>1, <2>2
  <2> QED
    BY <1>9, <2>3, <2>4, <2>5
<1>13. ASSUME NEW i \in 1 .. n + 1
       PROVE  \E j \in i .. n + 1 :
                d.byRoot[RootAt(d, i)] = d.start + j - 1 /\ RootAt(d, j) = RootAt(d, i)
  <2>1. RootAt(d, i) \in DOMAIN d.byRoot
    BY <1>12
  <2>2. CASE RootAt(d, i) = h.root
    <3>1. d.byRoot[RootAt(d, i)] = height
      BY <1>6, <2>1, <2>2
    <3>2. height = d.start + (n + 1) - 1 /\ n + 1 \in i .. n + 1
      BY <1>1, <1>4 DEF height
    <3> QED
      BY <1>9, <2>2, <3>1, <3>2
  <2>3. CASE RootAt(d, i) # h.root
    <3>1. i \in 1 .. n
      BY <1>1, <1>9, <2>3
    <3>2. PICK j \in i .. n : c.byRoot[RootAt(c, i)] = c.start + j - 1 /\ RootAt(c, j) = RootAt(c, i)
      BY <1>8, <3>1
    <3>3. j \in 1 .. n /\ j \in i .. n + 1
      BY <1>1, <3>1
    <3>4. d.byRoot[RootAt(d, i)] = c.byRoot[RootAt(c, i)]
      BY <1>6, <1>9, <2>1, <2>3, <3>1
    <3> QED
      BY <1>4, <1>9, <3>1, <3>2, <3>3, <3>4
  <2> QED
    BY <2>2, <2>3
<1>14. /\ Len(d.headers) = n + 1 /\ d.headers \in Seq(Range(d.headers))
       /\ d.start \in 0 .. HeightMax
       /\ \A i \in 1 .. n + 1 : HeaderOk(d.headers[i], G)
  <2>1. \A i \in 1 .. n + 1 : i \in 1 .. n \/ i = n + 1
    BY <1>1
  <2>2. \A i \in 1 .. n : HeaderOk(c.headers[i], G)
    BY DEF ChainOk, n
  <2> QED
    BY <1>4, <1>5, <1>8, <2>1, <2>2
<1>15. d = [headers |-> d.headers, start |-> d.start, byRoot |-> d.byRoot]
  BY <1>3, <1>4
<1>16. ChainOk(d, G)
  BY <1>10, <1>11, <1>12, <1>13, <1>14, <1>15 DEF ChainOk
<1> QED
  BY <1>16 DEF d

(* AddAll: header by header, until one is refused. *)
LEMMA AddAllKeepsChain ==
  ASSUME Len(blocks) \in Nat, NEW c, ChainOk(c, Mined), NEW hs \in Seq(Offered)
  PROVE  ChainOk(AddAll(c, hs), Mined)
<1> DEFINE f == AddFold(c, hs)
           n == Len(hs)
           Good(acc) == acc = [c |-> acc.c, go |-> acc.go] /\ ChainOk(acc.c, Mined)
           K == {k \in Nat : k <= n => Good(f[1 .. k])}
<1>1. /\ f[1 .. 0] = [c |-> c, go |-> TRUE]
      /\ \A k \in Nat : k + 1 \in 1 .. n => f[1 .. k + 1] = AddStep(f[1 .. k], hs[k + 1])
      /\ AddAll(c, hs) = f[1 .. n].c
  BY AddFoldRounds
<1>2. n \in Nat /\ \A i \in 1 .. n : hs[i] \in Offered
  OBVIOUS
<1> HIDE DEF f, n
<1>3. 0 \in K
  <2>1. Good([c |-> c, go |-> TRUE])
    OBVIOUS
  <2>2. Good(f[1 .. 0])
    <3> HIDE DEF Good
    <3> QED
      BY <1>1, <2>1, Zenon
  <2> HIDE DEF Good
  <2> QED
    BY <2>2
<1>4. ASSUME NEW k \in Nat, k \in K PROVE k + 1 \in K
  <2> SUFFICES ASSUME k + 1 <= n PROVE Good(f[1 .. k + 1])
    OBVIOUS
  <2>1. k + 1 \in 1 .. n /\ k <= n
    BY <1>2
  <2> DEFINE acc == f[1 .. k]
             h == hs[k + 1]
  <2>2. Good(acc)
    <3> HIDE DEF Good
    <3> QED
      BY <1>4, <2>1
  <2>3. h \in Offered
    BY <1>2, <2>1
  <2>4. f[1 .. k + 1] = AddStep(acc, h)
    BY <1>1, <2>1
  <2> HIDE DEF acc, h
  <2>5. CASE acc.go /\ AddVerdict(acc.c, h) = "Ok"
    <3>1. HeaderOk(h, Mined)
      BY <2>3, <2>5, VerdictOk, OfferedFacts
    <3>2. ChainOk(Add(acc.c, h), Mined)
      BY <2>2, <2>5, <3>1, AddKeepsChain
    <3>3. AddStep(acc, h) = [c |-> Add(acc.c, h), go |-> acc.go]
      BY <2>2, <2>5 DEF AddStep
    <3> QED
      BY <2>4, <3>2, <3>3
  <2>6. CASE ~(acc.go /\ AddVerdict(acc.c, h) = "Ok")
    <3>1. AddStep(acc, h) = [c |-> acc.c, go |-> FALSE]
      BY <2>2, <2>6 DEF AddStep
    <3> QED
      BY <2>2, <2>4, <3>1
  <2> QED
    BY <2>5, <2>6
<1>5. \A k \in Nat : k \in K
  <2> HIDE DEF K
  <2> QED
    BY <1>3, <1>4, Induction
<1>6. Good(f[1 .. n])
  <2>1. n \in K
    BY <1>2, <1>5
  <2> QED
    BY <1>2, <2>1
<1> QED
  BY <1>1, <1>6

ChainInv == blocks \in Seq(Range(blocks)) /\ ChainOk(chain, Mined)

LEMMA ChainOkWidens ==
  ASSUME NEW G, NEW H, G \subseteq H, NEW c, ChainOk(c, G)
  PROVE  ChainOk(c, H)
<1>1. \A i \in 1 .. Len(c.headers) : HeaderOk(c.headers[i], H)
  BY DEF ChainOk, HeaderOk
<1> QED
  BY <1>1 DEF ChainOk

LEMMA ChainInit == Init => ChainInv
<1> SUFFICES ASSUME Init PROVE ChainInv
  OBVIOUS
<1>1. PICK h \in StartHeights : chain = NewChain(h)
  BY DEF Init
<1>2. chain.headers = <<>> /\ chain.start = h /\ chain.byRoot = <<>> /\ h \in 0 .. HeightMax
      /\ chain = [headers |-> chain.headers, start |-> chain.start, byRoot |-> chain.byRoot]
  BY <1>1, AnchorAssumption DEF NewChain
<1>3. Len(chain.headers) = 0 /\ DOMAIN chain.byRoot = {} /\ chain.headers \in Seq(Range(chain.headers))
  BY <1>2
<1>4. h + 0 <= HeightMax + 1
  BY <1>2, AnchorAssumption
<1>5. blocks \in Seq(Range(blocks))
  BY DEF Init
<1>6. {RootAt(chain, i) : i \in 1 .. 0} = {} /\ 2 .. 0 = {} /\ 1 .. 0 = {}
  OBVIOUS
<1> QED
  BY <1>2, <1>3, <1>4, <1>5, <1>6 DEF ChainInv, ChainOk

LEMMA MinedKept ==
  ASSUME blocks' = blocks
  PROVE  Mined' = Mined
BY DEF Mined, HeaderOf

LEMMA NextKeepsChain ==
  ASSUME ChainInv, [Next]_vars
  PROVE  ChainInv'
<1>1. Len(blocks) \in Nat /\ ChainOk(chain, Mined)
  <2>1. blocks \in Seq(Range(blocks))
    BY DEF ChainInv
  <2> QED
    BY <2>1 DEF ChainInv
<1>2. ASSUME UNCHANGED <<blocks, chain>> PROVE ChainInv'
  BY <1>2, MinedKept DEF ChainInv
<1>3. ASSUME blocks' = blocks, ChainOk(chain', Mined) PROVE ChainInv'
  BY <1>3, MinedKept DEF ChainInv
<1>4. CASE Mine
  <2>1. PICK b : blocks' = Append(blocks, b)
    BY <1>4 DEF Mine
  <2>2. /\ blocks' \in Seq(Range(blocks')) /\ Len(blocks') = Len(blocks) + 1
        /\ \A i \in 1 .. Len(blocks) : blocks'[i] = blocks[i]
    BY <2>1, AppendFacts DEF ChainInv
  <2>3. Mined \subseteq Mined'
    <3>1. \A n \in 1 .. Len(blocks) : HeadersOf(blocks')[n] = HeadersOf(blocks)[n]
      BY <1>1, <2>2, HeadersStable
    <3>2. \A n : HeaderOf(n) = HeadersOf(blocks)[n]
      BY HeaderOfIs
    <3>3. \A n : HeaderOf(n)' = HeadersOf(blocks')[n]
      BY DEF HeaderOf, HeadersOf, HeaderAt
    <3>4. \A n \in 1 .. Len(blocks) : n \in 1 .. Len(blocks')
      BY <1>1, <2>2
    <3> QED
      BY <3>1, <3>2, <3>3, <3>4 DEF Mined
  <2>4. chain' = chain
    BY <1>4 DEF Mine
  <2>5. ChainOk(chain', Mined')
    BY <1>1, <2>3, <2>4, ChainOkWidens
  <2> QED
    BY <2>2, <2>5 DEF ChainInv
<1>5. CASE Sync
  <2> DEFINE from == NextHeight(chain)
  <2>1. from \in Nat
    <3>1. chain.start \in Nat /\ Len(chain.headers) \in Nat /\ HeightMax \in Nat
      BY <1>1, AnchorAssumption DEF ChainOk
    <3> QED
      BY <3>1 DEF NextHeight
  <2>2. PICK served \in Served, count \in 1 .. MaxBlocks, offline \in BOOLEAN :
          chain' = AddAll(chain, IF offline THEN OfflineStream(Parsed(served), from, count)
                                 ELSE TeranodeStream(served, from, count))
    BY <1>5 DEF Sync
  <2> HIDE DEF from
  <2>3. count \in Nat
    BY AnchorAssumption
  <2>4. (IF offline THEN OfflineStream(Parsed(served), from, count)
         ELSE TeranodeStream(served, from, count)) \in Seq(Offered)
    BY <1>1, <2>1, <2>3, StreamsOffered
  <2>5. ChainOk(chain', Mined)
    BY <1>1, <2>2, <2>4, AddAllKeepsChain
  <2> QED
    BY <1>3, <1>5, <2>5 DEF Sync
<1>6. CASE AddOne
  <2>1. PICK h \in Offered, expected \in HeightsNear :
          AddAtHeightVerdict(chain, h, expected) = "Ok" /\ chain' = Add(chain, h)
    BY <1>6 DEF AddOne
  <2>2. AddVerdict(chain, h) = "Ok"
    BY <2>1 DEF AddAtHeightVerdict
  <2>3. HeaderOk(h, Mined)
    BY <1>1, <2>2, VerdictOk, OfferedFacts
  <2> QED
    BY <1>1, <1>3, <1>6, <2>1, <2>2, <2>3, AddKeepsChain DEF AddOne
<1>7. ASSUME NEW k, NEW t, Rotate(k, t) PROVE ChainInv'
  BY <1>2, <1>7 DEF Rotate
<1>8. ASSUME NEW t, Revoke(t) PROVE ChainInv'
  BY <1>2, <1>8 DEF Revoke
<1>9. ASSUME NEW t, NEW a, NEW b, AppendRecord(t, a, b) PROVE ChainInv'
  BY <1>2, <1>9 DEF AppendRecord
<1>10. CASE UNCHANGED vars
  BY <1>2, <1>10 DEF vars
<1> QED
  BY <1>4, <1>5, <1>6, <1>7, <1>8, <1>9, <1>10 DEF Next

LEMMA RootsAreFound ==
  ASSUME ChainInv
  PROVE  RootsFound
<1> DEFINE n == Len(chain.headers)
<1>1. /\ chain.start \in Nat /\ n \in Nat /\ HeightMax \in Nat /\ DOMAIN chain.headers = 1 .. n
      /\ chain.start + n <= HeightMax + 1
      /\ DOMAIN chain.byRoot = {RootAt(chain, i) : i \in 1 .. n}
      /\ \A i \in 1 .. n : \E j \in i .. n :
           chain.byRoot[RootAt(chain, i)] = chain.start + j - 1 /\ RootAt(chain, j) = RootAt(chain, i)
  BY AnchorAssumption DEF ChainInv, ChainOk
<1>2. TipHeight(chain) <= HeightMax
  BY <1>1 DEF TipHeight
<1>3. ASSUME NEW i \in 1 .. n
      PROVE  LET root == chain.headers[i].root
                 height == chain.start + i - 1
             IN  /\ HasRoot(chain, root) /\ HeightOfRoot(chain, root) >= height
                 /\ HasHeight(chain, height) /\ MerkleRootAtHeight(chain, height) = root
                 /\ MerkleRootAtHeight(chain, HeightOfRoot(chain, root)) = root
  <2> DEFINE root == chain.headers[i].root
             height == chain.start + i - 1
  <2>1. PICK j \in i .. n : chain.byRoot[root] = chain.start + j - 1 /\ chain.headers[j].root = root
    BY <1>1 DEF RootAt
  <2>2. HasRoot(chain, root)
    BY <1>1 DEF HasRoot, RootAt
  <2>3. HeightOfRoot(chain, root) = chain.start + j - 1
    BY <2>1 DEF HeightOfRoot
  <2>4. HasHeight(chain, height)
    BY <1>1 DEF HasHeight
  <2>5. height - chain.start + 1 = i /\ (chain.start + j - 1) - chain.start + 1 = j
        /\ chain.start + j - 1 >= height
    BY <1>1
  <2>6. MerkleRootAtHeight(chain, height) = root
    BY <2>5 DEF MerkleRootAtHeight
  <2>7. MerkleRootAtHeight(chain, HeightOfRoot(chain, root)) = root
    BY <2>1, <2>3, <2>5 DEF MerkleRootAtHeight
  <2> HIDE DEF root, height
  <2>8. /\ HasRoot(chain, root) /\ HeightOfRoot(chain, root) >= height
        /\ HasHeight(chain, height) /\ MerkleRootAtHeight(chain, height) = root
        /\ MerkleRootAtHeight(chain, HeightOfRoot(chain, root)) = root
    BY <2>2, <2>3, <2>4, <2>5, <2>6, <2>7
  <2> QED
    BY <2>8 DEF root, height
<1> QED
  BY <1>1, <1>2, <1>3 DEF RootsFound

(* A header that states the network's target is a block's, and the header  *)
(* before it is the block's before: it contains it.                        *)
LEMMA HeightsAreTrue ==
  ASSUME ChainInv
  PROVE  HeightsTrue
<1> DEFINE n == Len(chain.headers)
           N == Len(blocks)
           H == HeadersOf(blocks)
           True(j) == Genuine(chain.headers[j], chain.start + j - 1)
           Worked(i) == chain.headers[i].bits <= NetworkTarget
           K == {i \in Nat : i + 1 \in 1 .. n /\ Worked(i + 1) => \A j \in 1 .. i + 1 : True(j)}
<1> SUFFICES ASSUME HasTip(chain), Genuine(chain.headers[1], chain.start),
                    NEW at \in DOMAIN chain.headers, Worked(at)
             PROVE  \A j \in 1 .. at : True(j)
  BY DEF HeightsTrue
<1>1. /\ chain.start \in Nat /\ n \in Nat /\ DOMAIN chain.headers = 1 .. n
      /\ \A i \in 1 .. n : HeaderOk(chain.headers[i], Mined)
      /\ \A i \in 2 .. n : chain.headers[i].prev = chain.headers[i - 1]
  BY AnchorAssumption DEF ChainInv, ChainOk
<1>2. N \in Nat
  <2>1. blocks \in Seq(Range(blocks))
    BY DEF ChainInv
  <2> QED
    BY <2>1
<1>3. \A m : HeaderOf(m) = H[m]
  BY HeaderOfIs
<1>4. \A m \in 1 .. N : /\ H[m].prev = IF m = 1 THEN ZeroHash ELSE H[m - 1]
                        /\ H[m].bits = NetworkTarget
  BY <1>2, HeaderFacts
<1>5. \A i, j \in 1 .. N : H[i] = H[j] => i = j
  BY <1>2, HeadersInjective
<1>6. \A i \in 1 .. n : chain.headers[i] # ZeroHash
  <2> SUFFICES ASSUME NEW i \in 1 .. n PROVE chain.headers[i] # ZeroHash
    OBVIOUS
  <2> DEFINE h == chain.headers[i]
  <2>1. h = Header(h.prev, h.root, h.bits, h.nonce)
    BY <1>1 DEF HeaderOk
  <2>2. DOMAIN Header(h.prev, h.root, h.bits, h.nonce) = {"prev", "root", "bits", "nonce"}
    BY DEF Header
  <2>3. DOMAIN ZeroHash = {"zero"}
    BY DEF ZeroHash
  <2> QED
    BY <2>1, <2>2, <2>3
<1> HIDE DEF n, N, H
<1>7. 0 \in K
  <2>1. chain.start + 1 - 1 = chain.start /\ 0 + 1 = 1 /\ \A j \in 1 .. 1 : j = 1
    BY <1>1
  <2> QED
    BY <2>1
<1>8. ASSUME NEW i \in Nat, i \in K PROVE i + 1 \in K
  <2> DEFINE a == i + 1
             b == a + 1
  <2> SUFFICES ASSUME b \in 1 .. n, Worked(b) PROVE \A j \in 1 .. b : True(j)
    OBVIOUS
  <2>1. a \in 1 .. n /\ b \in 1 .. n /\ b \in 2 .. n /\ b - 1 = a
    BY <1>1
  <2>2. a \in 1 .. n /\ Worked(a) => \A j \in 1 .. a : True(j)
    BY <1>8
  <2>3. \A j \in 1 .. b : j \in 1 .. a \/ j = b
    BY <1>1
  <2>4. a \in 1 .. a /\ a \in Nat /\ b = a + 1
    OBVIOUS
  <2> HIDE DEF a, b
  <2>5. chain.headers[b] \in Mined
    BY <1>1, <2>1 DEF HeaderOk
  <2>6. PICK k \in 1 .. N : chain.headers[b] = H[k]
    BY <1>3, <2>5 DEF Mined, N
  <2>7. chain.headers[b].prev = chain.headers[a]
    BY <1>1, <2>1
  <2>8. k # 1
    BY <1>4, <1>6, <2>1, <2>6, <2>7
  <2>9. k - 1 \in 1 .. N
    BY <1>2, <2>8
  <2>10. chain.headers[a] = H[k - 1]
    BY <1>4, <2>6, <2>7, <2>8
  <2>11. Worked(a)
    <3>1. chain.headers[a].bits = NetworkTarget /\ NetworkTarget <= NetworkTarget
      BY <1>4, <2>9, <2>10, AnchorAssumption
    <3> QED
      BY <3>1
  <2>12. \A j \in 1 .. a : True(j)
    <3> HIDE DEF Worked, True
    <3> QED
      BY <2>1, <2>2, <2>11
  <2>13. PICK m \in 1 .. N : chain.start + a - 1 = FirstHeight + m - 1 /\ chain.headers[a] = H[m]
    <3>1. True(a)
      BY <2>4, <2>12
    <3> QED
      BY <1>3, <3>1 DEF Genuine, N
  <2>14. k - 1 = m
    BY <1>5, <2>9, <2>10, <2>13
  <2>15. chain.start + b - 1 = FirstHeight + k - 1
    <3>1. FirstHeight \in Nat /\ m \in Nat /\ k \in Nat
      BY <1>2, AnchorAssumption
    <3> DEFINE s == chain.start
    <3>2. s \in Nat /\ s + a - 1 = FirstHeight + m - 1
      BY <1>1, <2>13
    <3> HIDE DEF s
    <3>3. s + b - 1 = FirstHeight + k - 1
      BY <2>4, <2>14, <3>1, <3>2
    <3> QED
      BY <3>3 DEF s
  <2>16. True(b)
    BY <1>3, <2>6, <2>15 DEF Genuine, N
  <2> HIDE DEF True
  <2> QED
    BY <2>3, <2>12, <2>16
<1>9. \A i \in Nat : i \in K
  <2> HIDE DEF K
  <2> QED
    BY <1>7, <1>8, Induction
<1>10. at - 1 \in Nat /\ (at - 1) + 1 = at /\ at \in 1 .. n
  BY <1>1
<1> HIDE DEF True, Worked
<1>11. at - 1 \in K
  BY <1>9, <1>10
<1>12. (at - 1) + 1 \in 1 .. n /\ Worked((at - 1) + 1) => \A j \in 1 .. (at - 1) + 1 : True(j)
  BY <1>11
<1> QED
  BY <1>10, <1>12

LEMMA TypesFollow ==
  ASSUME LogsInv, ChainInv
  PROVE  TypeOK
<1>1. /\ \A e \in Range(custodian.events) : e.key \in Keys /\ e.time \in Times
      /\ \A r \in Range(records) : r.time \in Times /\ {r.actor, r.action} \subseteq Strings
  BY DEF LogsInv, LifecycleOk, AuditOk, EventOk, RecordOk
<1>2. /\ chain.start \in Nat /\ Len(chain.headers) \in Nat /\ HeightMax \in Nat
      /\ DOMAIN chain.headers = 1 .. Len(chain.headers)
  BY AnchorAssumption DEF ChainInv, ChainOk
<1>3. NextHeight(chain) \in Nat
  BY <1>2 DEF NextHeight
<1>4. DOMAIN chain.byRoot = {RootAt(chain, i) : i \in DOMAIN chain.headers}
  BY <1>2 DEF ChainInv, ChainOk
<1>5. DOMAIN chain.byRoot = {h.root : h \in Range(chain.headers)}
  BY <1>4 DEF Range, RootAt
<1> QED
  BY <1>1, <1>3, <1>5 DEF TypeOK, LogsInv

(* rotate, revoke, append, verify_lifecycle and verify_audit_chain: for    *)
(* any keys, times, strings and lengths, what legal calls build verifies   *)
(* exactly if its times are in order; no tampered lifecycle log passes for *)
(* it, and a tampered audit log passes exactly if only ends of actors have *)
(* moved, which takes a separator inside a string.                         *)
THEOREM LogsAreExact == Spec => []LogsExact
<1>1. Init => LogsInv /\ ChainInv
  BY LogsInit, ChainInit
<1>2. LogsInv /\ ChainInv /\ [Next]_vars => LogsInv' /\ ChainInv'
  BY NextKeepsLogs, NextKeepsChain
<1>3. LogsInv /\ ChainInv => LogsExact
  BY TypesFollow, BuiltVerifies, LifecycleEvident, AuditEvident DEF LogsExact
<1> QED
  BY <1>1, <1>2, <1>3, PTL DEF Spec

(* verify_lifecycle, for any log whatever: in every reachable state, the   *)
(* custodian's log is the only one that verifies and has its head.         *)
OnlyLog(log) ==
  (/\ log \in Seq(Range(log))
   /\ \A e \in Range(log) : Shaped(e)
   /\ VerifyLifecycle(log)
   /\ HeadHash(log) = HeadHash(custodian.events)) => log = custodian.events

(* A log of any entries at all, made up by anybody, of any length.         *)
THEOREM LifecycleLogUnique == ASSUME NEW log PROVE Spec => []OnlyLog(log)
<1>1. Init => LogsInv
  BY LogsInit
<1>2. LogsInv /\ [Next]_vars => LogsInv'
  BY NextKeepsLogs
<1>3. LogsInv => OnlyLog(log)
  <2> SUFFICES ASSUME LogsInv, log \in Seq(Range(log)), \A e \in Range(log) : Shaped(e),
                      VerifyLifecycle(log), HeadHash(log) = HeadHash(custodian.events)
               PROVE  log = custodian.events
    BY DEF OnlyLog
  <2> DEFINE own == custodian.events
             S == Range(log) \cup Range(own)
  <2>1. LifecycleOk(own)
    BY DEF LogsInv
  <2> HIDE DEF own
  <2>2. \A e \in S : Shaped(e)
    BY <2>1 DEF LifecycleOk, EventOk
  <2>3. Range(log) \subseteq S /\ Range(own) \subseteq S
    OBVIOUS
  <2>4. log \in Seq(S) /\ own \in Seq(S)
    <3> HIDE DEF S
    <3> QED
      BY <2>1, <2>3, SeqWidens DEF LifecycleOk
  <2>5. Linked(log) /\ Linked(own)
    BY <2>1 DEF VerifyLifecycle, Linked, LifecycleOk
  <2>6. HeadHash(log) = HeadHash(own)
    BY DEF own
  <2> HIDE DEF S
  <2>7. log = own
    BY <2>2, <2>4, <2>5, <2>6, HeadDeterminesLog
  <2> QED
    BY <2>7 DEF own
<1> QED
  BY <1>1, <1>2, <1>3, PTL DEF Spec

(* HeaderChain: for any blocks, whatever a node serves at whatever height, *)
(* in a client's chain that starts at a block's own height a header that   *)
(* states the network's target is a block at its own height, with all      *)
(* before it, and every root is found at a height that has it.             *)
THEOREM ChainIsExact == Spec => []ChainExact
<1>1. Init => ChainInv
  BY ChainInit
<1>2. ChainInv /\ [Next]_vars => ChainInv'
  BY NextKeepsChain
<1>3. ChainInv => ChainExact
  BY RootsAreFound, HeightsAreTrue DEF ChainExact
<1> QED
  BY <1>1, <1>2, <1>3, PTL DEF Spec

-------------------------------------------------------------------------------
(* The levels of a merkle tree, one after the other. *)
LevelAt(leaves, l, h) == IF h = 0 THEN leaves ELSE NextLevel(l[h - 1])
LevelsTo(leaves, n) == CHOOSE l : l = [h \in 0 .. n |-> LevelAt(leaves, l, h)]

LEMMA LevelIs ==
  ASSUME NEW leaves, NEW n
  PROVE  Level(leaves, n) = LevelsTo(leaves, n)[n]
BY DEF Level, LevelsTo, LevelAt

LEMMA LevelsExist ==
  ASSUME NEW leaves, NEW m \in Nat
  PROVE  LevelsTo(leaves, m) = [h \in 0 .. m |-> LevelAt(leaves, LevelsTo(leaves, m), h)]
<1> DEFINE K == {n \in Nat : \E l : l = [h \in 0 .. n |-> LevelAt(leaves, l, h)]}
<1>1. 0 \in K
  <2> DEFINE g == [h \in 0 .. 0 |-> leaves]
  <2>1. g = [h \in 0 .. 0 |-> LevelAt(leaves, g, h)]
    BY DEF LevelAt
  <2> HIDE DEF g
  <2> QED
    BY <2>1
<1>2. ASSUME NEW n \in Nat, n \in K PROVE n + 1 \in K
  <2>1. PICK l : l = [h \in 0 .. n |-> LevelAt(leaves, l, h)]
    BY <1>2
  <2>0. \A h \in 0 .. n : l[h] = LevelAt(leaves, l, h)
    BY <2>1
  <2> DEFINE g == [h \in 0 .. n + 1 |-> IF h = n + 1 THEN LevelAt(leaves, l, h) ELSE l[h]]
  <2>2. ASSUME NEW h \in 0 .. n + 1 PROVE g[h] = LevelAt(leaves, g, h)
    <3>1. h # 0 => h - 1 \in 0 .. n + 1 /\ h - 1 # n + 1
      OBVIOUS
    <3>2. h # 0 => g[h - 1] = l[h - 1]
      BY <3>1
    <3>3. g[h] = LevelAt(leaves, l, h)
      <4>1. CASE h = n + 1
        BY <4>1
      <4>2. CASE h # n + 1
        <5>1. h \in 0 .. n /\ g[h] = l[h]
          BY <4>2
        <5> QED
          BY <2>0, <5>1
      <4> QED
        BY <4>1, <4>2
    <3> HIDE DEF g
    <3> QED
      BY <3>2, <3>3 DEF LevelAt
  <2>3. g = [h \in 0 .. n + 1 |-> g[h]]
    OBVIOUS
  <2> HIDE DEF g
  <2>4. g = [h \in 0 .. n + 1 |-> LevelAt(leaves, g, h)]
    BY <2>2, <2>3
  <2> QED
    BY <2>4
<1>3. \E l : l = [h \in 0 .. m |-> LevelAt(leaves, l, h)]
  <2>1. \A n \in Nat : n \in K
    <3> HIDE DEF K
    <3> QED
      BY <1>1, <1>2, Induction
  <2> QED
    BY <2>1
<1> QED
  BY <1>3 DEF LevelsTo

LEMMA LevelSteps ==
  ASSUME NEW leaves, NEW n \in Nat
  PROVE  /\ Level(leaves, 0) = leaves
         /\ Level(leaves, n + 1) = NextLevel(Level(leaves, n))
<1> DEFINE a == LevelsTo(leaves, n)
           b == LevelsTo(leaves, n + 1)
           z == LevelsTo(leaves, 0)
           K == {h \in Nat : h <= n => a[h] = b[h]}
<1>1. a = [h \in 0 .. n |-> LevelAt(leaves, a, h)]
  BY LevelsExist
<1>2. b = [h \in 0 .. n + 1 |-> LevelAt(leaves, b, h)]
  <2>1. n + 1 \in Nat
    OBVIOUS
  <2> QED
    BY <2>1, LevelsExist
<1>3. z = [h \in 0 .. 0 |-> LevelAt(leaves, z, h)]
  <2> DEFINE o == 0
             y == LevelsTo(leaves, o)
  <2>1. o \in Nat
    OBVIOUS
  <2> HIDE DEF o
  <2>2. y = [h \in 0 .. o |-> LevelAt(leaves, y, h)]
    BY <2>1, LevelsExist
  <2> QED
    BY <2>2 DEF o
<1> HIDE DEF a, b, z
<1>4. z[0] = leaves
  <2>1. z[0] = LevelAt(leaves, z, 0)
    BY <1>3
  <2> QED
    BY <2>1 DEF LevelAt
<1>5. \A h \in 0 .. n : a[h] = LevelAt(leaves, a, h)
  BY <1>1
<1>6. \A h \in 0 .. n + 1 : b[h] = LevelAt(leaves, b, h)
  BY <1>2
<1>7. 0 \in K
  <2>1. a[0] = LevelAt(leaves, a, 0) /\ b[0] = LevelAt(leaves, b, 0)
    BY <1>5, <1>6
  <2> QED
    BY <2>1 DEF LevelAt
<1>8. ASSUME NEW h \in Nat, h \in K PROVE h + 1 \in K
  <2> SUFFICES ASSUME h + 1 <= n PROVE a[h + 1] = b[h + 1]
    OBVIOUS
  <2>1. h + 1 \in 0 .. n /\ h + 1 \in 0 .. n + 1 /\ h + 1 # 0 /\ (h + 1) - 1 = h /\ h <= n
    OBVIOUS
  <2>2. a[h] = b[h]
    BY <1>8, <2>1
  <2>3. a[h + 1] = LevelAt(leaves, a, h + 1)
    BY <1>5, <2>1
  <2>4. b[h + 1] = LevelAt(leaves, b, h + 1)
    BY <1>6, <2>1
  <2> QED
    BY <2>1, <2>2, <2>3, <2>4 DEF LevelAt
<1>9. a[n] = b[n]
  <2>1. \A h \in Nat : h \in K
    <3> HIDE DEF K
    <3> QED
      BY <1>7, <1>8, Induction
  <2>2. n \in K
    BY <2>1
  <2> QED
    BY <2>2
<1>10. b[n + 1] = NextLevel(b[n])
  <2>1. n + 1 \in 0 .. n + 1 /\ n + 1 # 0 /\ (n + 1) - 1 = n
    OBVIOUS
  <2>2. b[n + 1] = LevelAt(leaves, b, n + 1)
    BY <1>6, <2>1
  <2> QED
    BY <2>1, <2>2 DEF LevelAt
<1>11. Level(leaves, 0) = z[0] /\ Level(leaves, n) = a[n] /\ Level(leaves, n + 1) = b[n + 1]
  BY LevelIs DEF a, b, z
<1> QED
  BY <1>4, <1>9, <1>10, <1>11

(* The index, shifted once a level. *)
ShiftAt(index, at, h) == IF h = 0 THEN index ELSE at[h - 1] \div 2
ShiftsTo(index, n) == CHOOSE at : at = [h \in 0 .. n |-> ShiftAt(index, at, h)]
LEMMA ShiftIs ==
  ASSUME NEW index, NEW n
  PROVE  Shifted(index, n) = ShiftsTo(index, n)[n]
BY DEF Shifted, ShiftsTo, ShiftAt

LEMMA ShiftsExist ==
  ASSUME NEW index, NEW m \in Nat
  PROVE  ShiftsTo(index, m) = [h \in 0 .. m |-> ShiftAt(index, ShiftsTo(index, m), h)]
<1> DEFINE K == {n \in Nat : \E l : l = [h \in 0 .. n |-> ShiftAt(index, l, h)]}
<1>1. 0 \in K
  <2> DEFINE g == [h \in 0 .. 0 |-> index]
  <2>1. g = [h \in 0 .. 0 |-> ShiftAt(index, g, h)]
    BY DEF ShiftAt
  <2> HIDE DEF g
  <2> QED
    BY <2>1
<1>2. ASSUME NEW n \in Nat, n \in K PROVE n + 1 \in K
  <2>1. PICK l : l = [h \in 0 .. n |-> ShiftAt(index, l, h)]
    BY <1>2
  <2>0. \A h \in 0 .. n : l[h] = ShiftAt(index, l, h)
    BY <2>1
  <2> DEFINE g == [h \in 0 .. n + 1 |-> IF h = n + 1 THEN ShiftAt(index, l, h) ELSE l[h]]
  <2>2. ASSUME NEW h \in 0 .. n + 1 PROVE g[h] = ShiftAt(index, g, h)
    <3>1. h # 0 => h - 1 \in 0 .. n + 1 /\ h - 1 # n + 1
      OBVIOUS
    <3>2. h # 0 => g[h - 1] = l[h - 1]
      BY <3>1
    <3>3. g[h] = ShiftAt(index, l, h)
      <4>1. CASE h = n + 1
        BY <4>1
      <4>2. CASE h # n + 1
        <5>1. h \in 0 .. n /\ g[h] = l[h]
          BY <4>2
        <5> QED
          BY <2>0, <5>1
      <4> QED
        BY <4>1, <4>2
    <3> HIDE DEF g
    <3> QED
      BY <3>2, <3>3 DEF ShiftAt
  <2>3. g = [h \in 0 .. n + 1 |-> g[h]]
    OBVIOUS
  <2> HIDE DEF g
  <2>4. g = [h \in 0 .. n + 1 |-> ShiftAt(index, g, h)]
    BY <2>2, <2>3
  <2> QED
    BY <2>4
<1>3. \E l : l = [h \in 0 .. m |-> ShiftAt(index, l, h)]
  <2>1. \A n \in Nat : n \in K
    <3> HIDE DEF K
    <3> QED
      BY <1>1, <1>2, Induction
  <2> QED
    BY <2>1
<1> QED
  BY <1>3 DEF ShiftsTo

LEMMA ShiftSteps ==
  ASSUME NEW index, NEW n \in Nat
  PROVE  /\ Shifted(index, 0) = index
         /\ Shifted(index, n + 1) = Shifted(index, n) \div 2
<1> DEFINE a == ShiftsTo(index, n)
           b == ShiftsTo(index, n + 1)
           z == ShiftsTo(index, 0)
           K == {h \in Nat : h <= n => a[h] = b[h]}
<1>1. a = [h \in 0 .. n |-> ShiftAt(index, a, h)]
  BY ShiftsExist
<1>2. b = [h \in 0 .. n + 1 |-> ShiftAt(index, b, h)]
  <2>1. n + 1 \in Nat
    OBVIOUS
  <2> QED
    BY <2>1, ShiftsExist
<1>3. z = [h \in 0 .. 0 |-> ShiftAt(index, z, h)]
  <2> DEFINE o == 0
             y == ShiftsTo(index, o)
  <2>1. o \in Nat
    OBVIOUS
  <2> HIDE DEF o
  <2>2. y = [h \in 0 .. o |-> ShiftAt(index, y, h)]
    BY <2>1, ShiftsExist
  <2> QED
    BY <2>2 DEF o
<1> HIDE DEF a, b, z
<1>4. z[0] = index
  <2>1. z[0] = ShiftAt(index, z, 0)
    BY <1>3
  <2> QED
    BY <2>1 DEF ShiftAt
<1>5. \A h \in 0 .. n : a[h] = ShiftAt(index, a, h)
  BY <1>1
<1>6. \A h \in 0 .. n + 1 : b[h] = ShiftAt(index, b, h)
  BY <1>2
<1>7. 0 \in K
  <2>1. a[0] = ShiftAt(index, a, 0) /\ b[0] = ShiftAt(index, b, 0)
    BY <1>5, <1>6
  <2> QED
    BY <2>1 DEF ShiftAt
<1>8. ASSUME NEW h \in Nat, h \in K PROVE h + 1 \in K
  <2> SUFFICES ASSUME h + 1 <= n PROVE a[h + 1] = b[h + 1]
    OBVIOUS
  <2>1. h + 1 \in 0 .. n /\ h + 1 \in 0 .. n + 1 /\ h + 1 # 0 /\ (h + 1) - 1 = h /\ h <= n
    OBVIOUS
  <2>2. a[h] = b[h]
    BY <1>8, <2>1
  <2>3. a[h + 1] = ShiftAt(index, a, h + 1)
    BY <1>5, <2>1
  <2>4. b[h + 1] = ShiftAt(index, b, h + 1)
    BY <1>6, <2>1
  <2> QED
    BY <2>1, <2>2, <2>3, <2>4 DEF ShiftAt
<1>9. a[n] = b[n]
  <2>1. \A h \in Nat : h \in K
    <3> HIDE DEF K
    <3> QED
      BY <1>7, <1>8, Induction
  <2>2. n \in K
    BY <2>1
  <2> QED
    BY <2>2
<1>10. b[n + 1] = b[n] \div 2
  <2>1. n + 1 \in 0 .. n + 1 /\ n + 1 # 0 /\ (n + 1) - 1 = n
    OBVIOUS
  <2>2. b[n + 1] = ShiftAt(index, b, n + 1)
    BY <1>6, <2>1
  <2> QED
    BY <2>1, <2>2 DEF ShiftAt
<1>11. Shifted(index, 0) = z[0] /\ Shifted(index, n) = a[n] /\ Shifted(index, n + 1) = b[n + 1]
  BY ShiftIs DEF a, b, z
<1> QED
  BY <1>4, <1>9, <1>10, <1>11

LEMMA ShiftedNat ==
  ASSUME NEW index \in Nat, NEW n \in Nat
  PROVE  Shifted(index, n) \in Nat
<1> DEFINE K == {h \in Nat : Shifted(index, h) \in Nat}
<1>1. 0 \in K
  BY ShiftSteps
<1>2. ASSUME NEW h \in Nat, h \in K PROVE h + 1 \in K
  <2>1. Shifted(index, h + 1) = Shifted(index, h) \div 2
    BY ShiftSteps
  <2> QED
    BY <1>2, <2>1
<1> QED
  <2>1. \A h \in Nat : h \in K
    <3> HIDE DEF K
    <3> QED
      BY <1>1, <1>2, Induction
  <2> QED
    BY <2>1

(* To shift once more is to shift the half. *)
LEMMA ShiftHalf ==
  ASSUME NEW index \in Nat, NEW n \in Nat
  PROVE  Shifted(index, n + 1) = Shifted(index \div 2, n)
<1> DEFINE K == {h \in Nat : Shifted(index, h + 1) = Shifted(index \div 2, h)}
           half == index \div 2
<1>0. half \in Nat
  OBVIOUS
<1>1. 0 \in K
  <2>1. Shifted(index, 0) = index /\ Shifted(index, 0 + 1) = Shifted(index, 0) \div 2
    BY ShiftSteps
  <2>2. Shifted(half, 0) = half
    <3> HIDE DEF half
    <3> QED
      BY <1>0, ShiftSteps
  <2> QED
    BY <2>1, <2>2
<1>2. ASSUME NEW h \in Nat, h \in K PROVE h + 1 \in K
  <2>1. h + 1 \in Nat
    OBVIOUS
  <2>2. Shifted(index, (h + 1) + 1) = Shifted(index, h + 1) \div 2
    BY <2>1, ShiftSteps
  <2>3. Shifted(half, h + 1) = Shifted(half, h) \div 2
    <3> HIDE DEF half
    <3> QED
      BY ShiftSteps
  <2> QED
    BY <1>2, <2>2, <2>3
<1> QED
  <2>1. \A h \in Nat : h \in K
    <3> HIDE DEF K
    <3> QED
      BY <1>1, <1>2, Induction
  <2> QED
    BY <2>1

-------------------------------------------------------------------------------
(* next_level: half as many nodes, each the pair of the two below it or of *)
(* the last with itself.                                                   *)
Mate(x, i) == x[IF 2 * i <= Len(x) THEN 2 * i ELSE 2 * i - 1]
LevelOk(x) == Len(x) \in Nat \ {0} /\ DOMAIN x = 1 .. Len(x) /\ x \in Seq(Range(x))

LEMMA NextLevelFacts ==
  ASSUME NEW x, LevelOk(x)
  PROVE  /\ LevelOk(NextLevel(x)) /\ Len(NextLevel(x)) = (Len(x) + 1) \div 2
         /\ \A i \in 1 .. Len(NextLevel(x)) : NextLevel(x)[i] = HashPair(x[2 * i - 1], Mate(x, i))
<1> DEFINE n == (Len(x) + 1) \div 2
           y == NextLevel(x)
           S == {y[i] : i \in 1 .. n}
<1>1. n \in Nat \ {0}
  BY DEF LevelOk
<1>2. y = [i \in 1 .. n |-> HashPair(x[2 * i - 1], Mate(x, i))]
  BY DEF NextLevel, Mate
<1> HIDE DEF n, y
<1>3. y \in [1 .. n -> S]
  BY <1>2
<1> HIDE DEF S
<1>4. y \in Seq(S)
  BY <1>1, <1>3, FunctionIsSeq
<1>5. Len(y) = n /\ DOMAIN y = 1 .. n
  BY <1>1, <1>3, <1>4
<1>6. y \in Seq(Range(y))
  BY <1>4, SeqOverRange
<1>7. \A i \in 1 .. n : y[i] = HashPair(x[2 * i - 1], Mate(x, i))
  BY <1>2
<1> QED
  BY <1>1, <1>5, <1>6, <1>7 DEF LevelOk, y, n

LEMMA LevelsOk ==
  ASSUME NEW leaves, LevelOk(leaves), NEW n \in Nat
  PROVE  LevelOk(Level(leaves, n))
<1> DEFINE K == {h \in Nat : LevelOk(Level(leaves, h))}
<1>1. 0 \in K
  BY LevelSteps
<1>2. ASSUME NEW h \in Nat, h \in K PROVE h + 1 \in K
  <2>1. Level(leaves, h + 1) = NextLevel(Level(leaves, h))
    BY LevelSteps
  <2> QED
    BY <1>2, <2>1, NextLevelFacts
<1> QED
  <2>1. \A h \in Nat : h \in K
    <3> HIDE DEF K
    <3> QED
      BY <1>1, <1>2, Induction
  <2> QED
    BY <2>1

LEMMA LevelUp ==
  ASSUME NEW leaves, LevelOk(leaves), NEW n \in Nat
  PROVE  LET x == Level(leaves, n)
             y == Level(leaves, n + 1)
         IN  /\ LevelOk(x) /\ LevelOk(y) /\ Len(y) = (Len(x) + 1) \div 2
             /\ \A i \in 1 .. Len(y) : y[i] = HashPair(x[2 * i - 1], Mate(x, i))
<1>1. LevelOk(Level(leaves, n))
  BY LevelsOk
<1>2. Level(leaves, n + 1) = NextLevel(Level(leaves, n))
  BY LevelSteps
<1> QED
  BY <1>1, <1>2, NextLevelFacts

LEMMA LeastNumber ==
  ASSUME NEW T, T \subseteq Nat, T # {}
  PROVE  \E x \in T : \A y \in T : x <= y
<1> DEFINE R == {p \in Nat \X Nat : p[1] < p[2]}
<1>1. IsWellFoundedOn(R, Nat)
  BY NatLessThanWellFounded DEF OpToRel
<1>2. PICK x \in T : \A y \in T : <<y, x>> \notin R
  <2> HIDE DEF R
  <2> QED
    BY <1>1, WFMin
<1>3. ASSUME NEW y \in T PROVE x <= y
  <2>1. x \in Nat /\ y \in Nat /\ <<y, x>> \notin R
    BY <1>2
  <2>2. ~(y < x)
    BY <2>1
  <2> QED
    BY <2>1, <2>2
<1> QED
  BY <1>3

(* The loop of merkle_root ends, and the height of the tree is that of its *)
(* first level of one node.                                                *)
LEMMA HeightOfTree ==
  ASSUME NEW leaves, LevelOk(leaves)
  PROVE  /\ TreeHeight(leaves) \in 0 .. Len(leaves)
         /\ Len(Level(leaves, TreeHeight(leaves))) = 1
         /\ \A g \in 0 .. TreeHeight(leaves) - 1 : Len(Level(leaves, g)) > 1
<1> DEFINE n == Len(leaves)
           L(h) == Len(Level(leaves, h))
           K == {h \in Nat : L(h) = 1 \/ L(h) <= n - h}
           T == {h \in Nat : L(h) = 1}
<1>1. n \in Nat \ {0} /\ L(0) = n
  BY LevelSteps DEF LevelOk
<1>2. \A h \in Nat : L(h) \in Nat \ {0}
  BY LevelsOk DEF LevelOk
<1>3. \A h \in Nat : L(h + 1) = (L(h) + 1) \div 2
  BY LevelUp
<1> HIDE DEF n, L
<1>4. 0 \in K
  BY <1>1
<1>5. ASSUME NEW h \in Nat, h \in K PROVE h + 1 \in K
  <2> DEFINE a == L(h)
             b == L(h + 1)
  <2>1. a \in Nat \ {0} /\ b = (a + 1) \div 2 /\ (a = 1 \/ a <= n - h)
    BY <1>2, <1>3, <1>5
  <2> HIDE DEF a, b
  <2>2. b = 1 \/ b <= n - (h + 1)
    <3>1. CASE a = 1
      BY <2>1, <3>1
    <3>2. CASE a # 1
      <4>1. b <= a - 1
        BY <2>1, <3>2
      <4>2. b \in Nat
        BY <2>1
      <4> QED
        BY <1>1, <2>1, <3>2, <4>1, <4>2
    <3> QED
      BY <3>1, <3>2
  <2> QED
    BY <2>2 DEF b
<1>6. n \in T
  <2>1. \A h \in Nat : h \in K
    <3> HIDE DEF K
    <3> QED
      BY <1>4, <1>5, Induction
  <2>2. n \in Nat /\ n - n = 0 /\ n \in K
    BY <1>1, <2>1
  <2>3. L(n) \in Nat \ {0}
    BY <1>2, <2>2
  <2> QED
    BY <2>2, <2>3
<1>7. PICK x \in T : \A y \in T : x <= y
  <2>1. T \subseteq Nat /\ T # {}
    BY <1>6
  <2> HIDE DEF T
  <2> QED
    BY <2>1, LeastNumber
<1>8. x \in 0 .. n /\ L(x) = 1
  <2>1. x \in Nat /\ x <= n
    BY <1>6, <1>7
  <2> QED
    BY <1>1, <1>7, <2>1
<1>9. ASSUME NEW g \in 0 .. x - 1 PROVE L(g) > 1
  <2>1. g \in Nat /\ x \in Nat /\ ~(x <= g)
    BY <1>7
  <2>2. g \notin T
    BY <1>7, <2>1
  <2>3. L(g) \in Nat \ {0} /\ L(g) # 1
    BY <1>2, <2>1, <2>2
  <2> QED
    BY <2>3
<1>10. \E h \in 0 .. Len(leaves) :
         Len(Level(leaves, h)) = 1 /\ \A g \in 0 .. h - 1 : Len(Level(leaves, g)) > 1
  BY <1>8, <1>9 DEF n, L
<1> QED
  BY <1>10 DEF TreeHeight

-------------------------------------------------------------------------------
(* compute_root_from_proof, sibling by sibling. *)
UpAt(leaf, proof, up, h) ==
  IF h = 0 THEN leaf
  ELSE IF Side(proof.index, h - 1) = 0 THEN HashPair(up[h - 1], proof.siblings[h])
  ELSE HashPair(proof.siblings[h], up[h - 1])
UpOf(leaf, proof) ==
  CHOOSE up : up = [h \in 0 .. Len(proof.siblings) |-> UpAt(leaf, proof, up, h)]

LEMMA RootIsUp ==
  ASSUME NEW leaf, NEW proof
  PROVE  ComputeRootFromProof(leaf, proof) = UpOf(leaf, proof)[Len(proof.siblings)]
BY DEF ComputeRootFromProof, UpOf, UpAt

LEMMA UpExists ==
  ASSUME NEW leaf, NEW proof, Len(proof.siblings) \in Nat
  PROVE  UpOf(leaf, proof)
           = [h \in 0 .. Len(proof.siblings) |-> UpAt(leaf, proof, UpOf(leaf, proof), h)]
<1> DEFINE K == {n \in Nat : \E up : up = [h \in 0 .. n |-> UpAt(leaf, proof, up, h)]}
<1>1. 0 \in K
  <2> DEFINE g == [h \in 0 .. 0 |-> leaf]
  <2>1. g = [h \in 0 .. 0 |-> UpAt(leaf, proof, g, h)]
    BY DEF UpAt
  <2> HIDE DEF g
  <2> QED
    BY <2>1
<1>2. ASSUME NEW n \in Nat, n \in K PROVE n + 1 \in K
  <2>1. PICK up : up = [h \in 0 .. n |-> UpAt(leaf, proof, up, h)]
    BY <1>2
  <2>0. \A h \in 0 .. n : up[h] = UpAt(leaf, proof, up, h)
    BY <2>1
  <2> DEFINE g == [h \in 0 .. n + 1 |-> IF h = n + 1 THEN UpAt(leaf, proof, up, h) ELSE up[h]]
  <2>2. ASSUME NEW h \in 0 .. n + 1 PROVE g[h] = UpAt(leaf, proof, g, h)
    <3>1. h # 0 => h - 1 \in 0 .. n + 1 /\ h - 1 # n + 1
      OBVIOUS
    <3>2. h # 0 => g[h - 1] = up[h - 1]
      BY <3>1
    <3>3. g[h] = UpAt(leaf, proof, up, h)
      <4>1. CASE h = n + 1
        BY <4>1
      <4>2. CASE h # n + 1
        <5>1. h \in 0 .. n /\ g[h] = up[h]
          BY <4>2
        <5> QED
          BY <2>0, <5>1
      <4> QED
        BY <4>1, <4>2
    <3> HIDE DEF g
    <3> QED
      BY <3>2, <3>3 DEF UpAt
  <2>3. g = [h \in 0 .. n + 1 |-> g[h]]
    OBVIOUS
  <2> HIDE DEF g
  <2>4. g = [h \in 0 .. n + 1 |-> UpAt(leaf, proof, g, h)]
    BY <2>2, <2>3
  <2> QED
    BY <2>4
<1>3. \E up : up = [h \in 0 .. Len(proof.siblings) |-> UpAt(leaf, proof, up, h)]
  <2>1. \A n \in Nat : n \in K
    <3> HIDE DEF K
    <3> QED
      BY <1>1, <1>2, Induction
  <2> QED
    BY <2>1
<1> QED
  BY <1>3 DEF UpOf

LEMMA UpSteps ==
  ASSUME NEW leaf, NEW proof, Len(proof.siblings) \in Nat
  PROVE  LET up == UpOf(leaf, proof)
         IN  /\ up[0] = leaf
             /\ \A h \in 0 .. Len(proof.siblings) - 1 :
                  up[h + 1] = IF Side(proof.index, h) = 0 THEN HashPair(up[h], proof.siblings[h + 1])
                              ELSE HashPair(proof.siblings[h + 1], up[h])
<1> DEFINE up == UpOf(leaf, proof)
           m == Len(proof.siblings)
<1>1. up = [h \in 0 .. m |-> UpAt(leaf, proof, up, h)]
  BY UpExists
<1>2. m \in Nat
  OBVIOUS
<1> HIDE DEF up, m
<1>3. \A h \in 0 .. m : up[h] = UpAt(leaf, proof, up, h)
  BY <1>1
<1>4. up[0] = leaf
  <2>1. 0 \in 0 .. m
    BY <1>2
  <2> QED
    BY <1>3, <2>1 DEF UpAt
<1>5. ASSUME NEW h \in 0 .. m - 1
      PROVE  up[h + 1] = IF Side(proof.index, h) = 0 THEN HashPair(up[h], proof.siblings[h + 1])
                         ELSE HashPair(proof.siblings[h + 1], up[h])
  <2>1. h + 1 \in 0 .. m /\ h + 1 # 0 /\ (h + 1) - 1 = h
    BY <1>2
  <2>2. up[h + 1] = UpAt(leaf, proof, up, h + 1)
    BY <1>3, <2>1
  <2> QED
    BY <2>1, <2>2 DEF UpAt
<1> QED
  BY <1>4, <1>5 DEF up, m

(* hash_pair: no two pairs have one hash, and no transaction has that of a *)
(* pair.                                                                   *)
LEMMA PairFacts ==
  ASSUME NEW a, NEW b, NEW c, NEW d
  PROVE  /\ HashPair(a, b) = HashPair(c, d) => a = c /\ b = d
         /\ HashPair(a, b) # AnchorTx(c)
<1>1. DOMAIN HashPair(a, b) = {"l", "r"} /\ DOMAIN AnchorTx(c) = {"tx"}
  BY DEF HashPair, AnchorTx
<1>2. HashPair(a, b) # AnchorTx(c)
  BY <1>1
<1>3. HashPair(a, b).l = a /\ HashPair(a, b).r = b /\ HashPair(c, d).l = c /\ HashPair(c, d).r = d
  BY DEF HashPair
<1> QED
  BY <1>2, <1>3

IsTx(x) == \E head : x = AnchorTx(head)
IsPair(x) == \E a, b : x = HashPair(a, b)

LEMMA PairNoTx ==
  ASSUME NEW x, IsTx(x)
  PROVE  ~IsPair(x)
BY PairFacts DEF IsTx, IsPair

LEMMA MateIn ==
  ASSUME NEW x, LevelOk(x), NEW i \in 1 .. (Len(x) + 1) \div 2
  PROVE  x[2 * i - 1] \in Range(x) /\ Mate(x, i) \in Range(x)
<1> DEFINE j == IF 2 * i <= Len(x) THEN 2 * i ELSE 2 * i - 1
<1>1. 2 * i - 1 \in DOMAIN x /\ j \in DOMAIN x
  BY DEF LevelOk
<1>2. Mate(x, i) = x[j]
  BY DEF Mate
<1> HIDE DEF j
<1> QED
  BY <1>1, <1>2 DEF Range

(* A proof that ends in the root goes down through the levels of the tree, *)
(* whatever its siblings: it has one for each level, and the transaction   *)
(* is a leaf.                                                              *)
LEMMA Descends ==
  ASSUME NEW leaves, LevelOk(leaves), \A x \in Range(leaves) : IsTx(x),
         NEW leaf, IsTx(leaf), NEW proof, Len(proof.siblings) \in Nat,
         ComputeRootFromProof(leaf, proof) = MerkleRoot(leaves)
  PROVE  Len(proof.siblings) = TreeHeight(leaves)
<1> DEFINE H == TreeHeight(leaves)
           m == Len(proof.siblings)
           up == UpOf(leaf, proof)
           K == {k \in Nat : k <= H /\ k <= m => up[m - k] \in Range(Level(leaves, H - k))}
<1>1. /\ H \in Nat /\ Len(Level(leaves, H)) = 1
  BY HeightOfTree DEF LevelOk
<1>2. m \in Nat /\ up[m] = Level(leaves, H)[1]
  BY RootIsUp DEF MerkleRoot
<1>3. up[0] = leaf /\ \A h \in 0 .. m - 1 : \E s :
        up[h + 1] = HashPair(up[h], s) \/ up[h + 1] = HashPair(s, up[h])
  <2>1. /\ up[0] = leaf
        /\ \A h \in 0 .. m - 1 :
             up[h + 1] = IF Side(proof.index, h) = 0 THEN HashPair(up[h], proof.siblings[h + 1])
                         ELSE HashPair(proof.siblings[h + 1], up[h])
    BY UpSteps
  <2> HIDE DEF up, m
  <2>2. ASSUME NEW h \in 0 .. m - 1
        PROVE  \E s : up[h + 1] = HashPair(up[h], s) \/ up[h + 1] = HashPair(s, up[h])
    <3>1. \/ up[h + 1] = HashPair(up[h], proof.siblings[h + 1])
          \/ up[h + 1] = HashPair(proof.siblings[h + 1], up[h])
      BY <2>1
    <3> QED
      BY <3>1
  <2> QED
    BY <2>1, <2>2
<1>4. \A h \in Nat : LevelOk(Level(leaves, h))
  BY LevelsOk
<1>5. \A h \in Nat : \A x \in Range(Level(leaves, h + 1)) :
        \E a, b \in Range(Level(leaves, h)) : x = HashPair(a, b)
  <2> SUFFICES ASSUME NEW h \in Nat, NEW x \in Range(Level(leaves, h + 1))
               PROVE  \E a, b \in Range(Level(leaves, h)) : x = HashPair(a, b)
    OBVIOUS
  <2> DEFINE y == Level(leaves, h)
             z == Level(leaves, h + 1)
  <2>1. /\ LevelOk(y) /\ LevelOk(z) /\ Len(z) = (Len(y) + 1) \div 2
        /\ \A i \in 1 .. Len(z) : z[i] = HashPair(y[2 * i - 1], Mate(y, i))
    BY LevelUp
  <2> HIDE DEF y, z
  <2>2. PICK i \in 1 .. Len(z) : x = z[i]
    BY <2>1 DEF Range, LevelOk, z
  <2>3. y[2 * i - 1] \in Range(y) /\ Mate(y, i) \in Range(y)
    BY <2>1, MateIn
  <2> QED
    BY <2>1, <2>2, <2>3 DEF y
<1> HIDE DEF H, m, up
<1>6. 0 \in K
  <2>1. H - 0 = H /\ m - 0 = m
    BY <1>1, <1>2
  <2>2. 1 \in DOMAIN Level(leaves, H)
    BY <1>1, <1>4 DEF LevelOk
  <2>3. up[m] \in Range(Level(leaves, H))
    BY <1>2, <2>2 DEF Range
  <2> QED
    BY <2>1, <2>3
<1>7. ASSUME NEW k \in Nat, k \in K PROVE k + 1 \in K
  <2> SUFFICES ASSUME k + 1 <= H, k + 1 <= m PROVE up[m - (k + 1)] \in Range(Level(leaves, H - (k + 1)))
    OBVIOUS
  <2> DEFINE h == m - (k + 1)
             g == H - (k + 1)
  <2>1. /\ h \in 0 .. m - 1 /\ h + 1 = m - k /\ g \in Nat /\ g + 1 = H - k /\ k <= H /\ k <= m
    BY <1>1, <1>2
  <2>2. up[h + 1] \in Range(Level(leaves, g + 1))
    BY <1>7, <2>1
  <2> HIDE DEF h, g
  <2>3. PICK a \in Range(Level(leaves, g)), b \in Range(Level(leaves, g)) : up[h + 1] = HashPair(a, b)
    BY <1>5, <2>1, <2>2
  <2>4. up[h] = a \/ up[h] = b
    BY <1>3, <2>1, <2>3, PairFacts
  <2>5. up[h] \in Range(Level(leaves, g))
    BY <2>3, <2>4
  <2> QED
    BY <2>5 DEF h, g
<1>8. \A k \in Nat : k \in K
  <2> HIDE DEF K
  <2> QED
    BY <1>6, <1>7, Induction
<1>9. CASE m < H
  <2>1. up[m - m] \in Range(Level(leaves, H - m))
    <3>1. m \in K /\ m <= H /\ m <= m
      BY <1>1, <1>2, <1>8, <1>9
    <3> QED
      BY <3>1
  <2>2. m - m = 0 /\ (H - m) - 1 \in Nat /\ ((H - m) - 1) + 1 = H - m
    BY <1>1, <1>2, <1>9
  <2>3. IsPair(leaf)
    BY <1>3, <1>5, <2>1, <2>2 DEF IsPair
  <2> QED
    BY <2>3, PairNoTx
<1>10. CASE H < m
  <2>1. up[m - H] \in Range(Level(leaves, H - H))
    <3>1. H \in K /\ H <= m /\ H <= H
      BY <1>1, <1>2, <1>8, <1>10
    <3> QED
      BY <3>1
  <2>2. H - H = 0 /\ (m - H) - 1 \in 0 .. m - 1 /\ ((m - H) - 1) + 1 = m - H
    BY <1>1, <1>2, <1>10
  <2>3. Level(leaves, 0) = leaves
    BY LevelSteps
  <2>4. IsPair(up[m - H])
    BY <1>3, <2>2 DEF IsPair
  <2>5. IsTx(up[m - H])
    BY <2>1, <2>2, <2>3
  <2> DEFINE x == up[m - H]
  <2>6. IsTx(x) /\ IsPair(x)
    BY <2>4, <2>5
  <2> HIDE DEF x
  <2> QED
    BY <2>6, PairNoTx
<1>11. m < H \/ H < m \/ m = H
  BY <1>1, <1>2
<1> QED
  BY <1>9, <1>10, <1>11 DEF m, H

(* A node and the one of its children that a side chooses: the other child *)
(* is the same if the level is odd and this is its end.                    *)
Matches(side, j, len) == side = j % 2 \/ (j % 2 = 0 /\ j + 1 = len)

LEMMA ChildOf ==
  ASSUME NEW x, LevelOk(x), NEW i \in 1 .. (Len(x) + 1) \div 2, NEW side \in {0, 1}
  PROVE  \E j \in 1 .. Len(x) :
           /\ (j - 1) \div 2 = i - 1 /\ Matches(side, j - 1, Len(x))
           /\ x[j] = IF side = 0 THEN x[2 * i - 1] ELSE Mate(x, i)
<1> DEFINE n == Len(x)
           j == IF side = 1 /\ 2 * i <= n THEN 2 * i ELSE 2 * i - 1
<1>1. n \in Nat \ {0} /\ i \in 1 .. (n + 1) \div 2
  BY DEF LevelOk
<1>2. x[j] = IF side = 0 THEN x[2 * i - 1] ELSE Mate(x, i)
  BY DEF Mate
<1> HIDE DEF n
<1>3. j \in 1 .. n
  BY <1>1
<1>4. (j - 1) \div 2 = i - 1
  BY <1>1
<1>5. Matches(side, j - 1, n)
  BY <1>1 DEF Matches
<1> HIDE DEF j
<1> QED
  BY <1>2, <1>3, <1>4, <1>5 DEF n

(* The same, from level to level: a proof that ends in the root starts at  *)
(* the leaf its index leads to.                                            *)
LEMMA Leads ==
  ASSUME NEW leaves, LevelOk(leaves), NEW leaf, NEW proof, proof.index \in Nat,
         Len(proof.siblings) = TreeHeight(leaves),
         ComputeRootFromProof(leaf, proof) = MerkleRoot(leaves)
  PROVE  \E i \in DOMAIN leaves : LeadsTo(leaves, proof.index, i) /\ leaf = leaves[i]
<1> DEFINE H == TreeHeight(leaves)
           up == UpOf(leaf, proof)
           side(h) == Side(proof.index, h)
           L(h) == Len(Level(leaves, h))
           P(k, j) == \A d \in 0 .. k - 1 : Matches(side(H - k + d), Shifted(j - 1, d), L(H - k + d))
           K == {k \in Nat : k <= H => \E j \in 1 .. L(H - k) :
                               up[H - k] = Level(leaves, H - k)[j] /\ P(k, j)}
<1>1. H \in Nat /\ L(H) = 1
  BY HeightOfTree DEF LevelOk
<1>2. up[H] = Level(leaves, H)[1]
  BY RootIsUp DEF MerkleRoot
<1>3. /\ up[0] = leaf
      /\ \A h \in 0 .. H - 1 :
           up[h + 1] = IF side(h) = 0 THEN HashPair(up[h], proof.siblings[h + 1])
                       ELSE HashPair(proof.siblings[h + 1], up[h])
  BY <1>1, UpSteps
<1>4. \A h \in Nat : side(h) \in {0, 1}
  <2> SUFFICES ASSUME NEW h \in Nat PROVE side(h) \in {0, 1}
    OBVIOUS
  <2>1. Shifted(proof.index, h) \in Nat
    BY ShiftedNat
  <2> DEFINE s == Shifted(proof.index, h)
  <2> HIDE DEF s
  <2>2. s % 2 \in {0, 1}
    BY <2>1 DEF s
  <2> QED
    BY <2>2 DEF Side, s
<1>5. \A h \in Nat : LET x == Level(leaves, h)
                         y == Level(leaves, h + 1)
                     IN  /\ LevelOk(x) /\ LevelOk(y) /\ Len(y) = (Len(x) + 1) \div 2
                         /\ \A i \in 1 .. Len(y) : y[i] = HashPair(x[2 * i - 1], Mate(x, i))
  BY LevelUp
<1> HIDE DEF H, up, side
<1>6. 0 \in K
  <2>1. H - 0 = H /\ 1 \in 1 .. L(H - 0)
    BY <1>1
  <2>2. P(0, 1)
    OBVIOUS
  <2> HIDE DEF P, L
  <2> QED
    BY <1>2, <2>1, <2>2
<1>7. ASSUME NEW k \in Nat, k \in K PROVE k + 1 \in K
  <2> SUFFICES ASSUME k + 1 <= H
               PROVE  \E j \in 1 .. L(H - (k + 1)) :
                        up[H - (k + 1)] = Level(leaves, H - (k + 1))[j] /\ P(k + 1, j)
    BY DEF K
  <2> DEFINE h == H - (k + 1)
             x == Level(leaves, h)
             y == Level(leaves, h + 1)
  <2>1. h \in 0 .. H - 1 /\ h \in Nat /\ h + 1 = H - k /\ k <= H
    BY <1>1
  <2>2. PICK i \in 1 .. L(h + 1) : up[h + 1] = y[i] /\ P(k, i)
    <3> HIDE DEF L, P
    <3> QED
      BY <1>7, <2>1 DEF K
  <2> HIDE DEF h
  <2>3. LevelOk(x) /\ L(h + 1) = (Len(x) + 1) \div 2 /\ y[i] = HashPair(x[2 * i - 1], Mate(x, i))
    BY <1>5, <2>1, <2>2
  <2>4. up[h] = IF side(h) = 0 THEN x[2 * i - 1] ELSE Mate(x, i)
    <3> DEFINE a == x[2 * i - 1]
               b == Mate(x, i)
    <3>1. up[h + 1] = HashPair(a, b)
      BY <2>2, <2>3
    <3>2. up[h + 1] = IF side(h) = 0 THEN HashPair(up[h], proof.siblings[h + 1])
                      ELSE HashPair(proof.siblings[h + 1], up[h])
      BY <1>3, <2>1
    <3> HIDE DEF a, b
    <3>3. up[h] = IF side(h) = 0 THEN a ELSE b
      <4> DEFINE c == up[h]
                 s == proof.siblings[h + 1]
      <4>1. HashPair(a, b) = IF side(h) = 0 THEN HashPair(c, s) ELSE HashPair(s, c)
        BY <3>1, <3>2
      <4> HIDE DEF c, s
      <4>2. c = IF side(h) = 0 THEN a ELSE b
        <5>1. CASE side(h) = 0
          BY <4>1, <5>1, PairFacts
        <5>2. CASE side(h) # 0
          BY <4>1, <5>2, PairFacts
        <5> QED
          BY <5>1, <5>2
      <4> QED
        BY <4>2 DEF c
    <3> QED
      BY <3>3 DEF a, b
  <2>5. PICK j \in 1 .. Len(x) : /\ (j - 1) \div 2 = i - 1 /\ Matches(side(h), j - 1, Len(x))
                                 /\ x[j] = IF side(h) = 0 THEN x[2 * i - 1] ELSE Mate(x, i)
    <3>1. i \in 1 .. (Len(x) + 1) \div 2 /\ side(h) \in {0, 1}
      BY <1>4, <2>1, <2>2, <2>3
    <3> HIDE DEF x
    <3> QED
      BY <2>3, <3>1, ChildOf
  <2>6. up[h] = x[j]
    BY <2>4, <2>5
  <2>7. P(k + 1, j)
    <3> SUFFICES ASSUME NEW d \in 0 .. (k + 1) - 1
                 PROVE  Matches(side(H - (k + 1) + d), Shifted(j - 1, d), L(H - (k + 1) + d))
      OBVIOUS
    <3>0. j \in Nat \ {0} /\ j - 1 \in Nat
      BY <2>3, <2>5 DEF LevelOk
    <3>1. CASE d = 0
      <4>1. H - (k + 1) + d = h
        BY <1>1, <3>1 DEF h
      <4>2. Shifted(j - 1, d) = j - 1
        BY <3>0, <3>1, ShiftSteps
      <4>3. Matches(side(h), j - 1, L(h))
        BY <2>5
      <4> HIDE DEF L
      <4> QED
        BY <4>1, <4>2, <4>3
    <3>2. CASE d # 0
      <4> DEFINE e == d - 1
      <4>1. e \in 0 .. k - 1 /\ e \in Nat /\ e + 1 = d /\ H - (k + 1) + d = H - k + e
        BY <1>1, <3>2
      <4>2. Matches(side(H - k + e), Shifted(i - 1, e), L(H - k + e))
        BY <2>2, <4>1
      <4> HIDE DEF e, L
      <4>3. Shifted(j - 1, e + 1) = Shifted((j - 1) \div 2, e)
        <5> DEFINE q == j - 1
        <5>1. q \in Nat
          BY <3>0
        <5> HIDE DEF q
        <5>2. Shifted(q, e + 1) = Shifted(q \div 2, e)
          BY <4>1, <5>1, ShiftHalf
        <5> QED
          BY <5>2 DEF q
      <4>4. Shifted(j - 1, d) = Shifted(i - 1, e)
        BY <2>5, <4>1, <4>3
      <4> QED
        BY <4>1, <4>2, <4>4
    <3> QED
      BY <3>1, <3>2
  <2> HIDE DEF P
  <2> QED
    BY <2>5, <2>6, <2>7 DEF h
<1>8. H \in K
  <2>1. \A k \in Nat : k \in K
    <3> HIDE DEF K
    <3> QED
      BY <1>6, <1>7, Induction
  <2> QED
    BY <1>1, <2>1
<1>9. PICK j \in 1 .. L(H - H) : up[H - H] = Level(leaves, H - H)[j] /\ P(H, j)
  <2>1. H <= H
    BY <1>1
  <2> HIDE DEF P, L
  <2> QED
    BY <1>8, <2>1 DEF K
<1>10. H - H = 0 /\ Level(leaves, 0) = leaves
  BY <1>1, LevelSteps
<1>11. j \in DOMAIN leaves /\ leaf = leaves[j]
  BY <1>3, <1>9, <1>10 DEF LevelOk
<1>12. LeadsTo(leaves, proof.index, j)
  <2> SUFFICES ASSUME NEW h \in 0 .. H - 1
               PROVE  \/ Side(proof.index, h) = Side(j - 1, h)
                      \/ Side(j - 1, h) = 0 /\ Shifted(j - 1, h) + 1 = Len(Level(leaves, h))
    BY DEF LeadsTo, H
  <2>1. H - H + h = h
    BY <1>1
  <2>2. Matches(side(h), Shifted(j - 1, h), L(h))
    BY <1>9, <2>1
  <2> QED
    BY <2>2 DEF Matches, Side, side
<1> QED
  BY <1>11, <1>12

-------------------------------------------------------------------------------
(* The branch a node keeps leads up through the nodes above its leaf. *)
LEMMA MinOfTwo ==
  ASSUME NEW a \in Int, NEW b \in Int
  PROVE  Min({a, b}) = IF a <= b THEN a ELSE b
<1> DEFINE c == IF a <= b THEN a ELSE b
<1>1. c \in {a, b} /\ \A y \in {a, b} : c <= y
  OBVIOUS
<1>2. \A x \in {a, b} : (\A y \in {a, b} : x <= y) => x = c
  OBVIOUS
<1> HIDE DEF c
<1>3. Min({a, b}) \in {a, b} /\ \A y \in {a, b} : Min({a, b}) <= y
  BY <1>1 DEF Min
<1>4. Min({a, b}) = c
  BY <1>2, <1>3
<1> QED
  BY <1>4 DEF c

SiblingAt(x, at) == x[Min({(IF at % 2 = 0 THEN at + 1 ELSE at - 1) + 1, Len(x)})]

(* One step of the branch: the node at a place and its sibling make the    *)
(* node above.                                                             *)
LEMMA SiblingPairs ==
  ASSUME NEW x, LevelOk(x), NEW at \in Nat, at + 1 <= Len(x)
  PROVE  LET i == at \div 2 + 1
         IN  /\ i <= (Len(x) + 1) \div 2
             /\ HashPair(x[2 * i - 1], Mate(x, i))
                  = IF at % 2 = 0 THEN HashPair(x[at + 1], SiblingAt(x, at))
                    ELSE HashPair(SiblingAt(x, at), x[at + 1])
<1> DEFINE n == Len(x)
           i == at \div 2 + 1
           o == (IF at % 2 = 0 THEN at + 1 ELSE at - 1) + 1
<1>1. n \in Nat \ {0} /\ at + 1 <= n
  BY DEF LevelOk
<1>2. o \in Int /\ SiblingAt(x, at) = x[IF o <= n THEN o ELSE n]
  <2>1. o \in Int
    OBVIOUS
  <2> HIDE DEF o
  <2>2. Min({o, n}) = IF o <= n THEN o ELSE n
    BY <1>1, <2>1, MinOfTwo
  <2>3. SiblingAt(x, at) = x[Min({o, n})]
    BY DEF SiblingAt, o
  <2> QED
    BY <2>1, <2>2, <2>3
<1>3. Mate(x, i) = x[IF 2 * i <= n THEN 2 * i ELSE 2 * i - 1]
  BY DEF Mate
<1> HIDE DEF n
<1>4. i <= (n + 1) \div 2
  BY <1>1
<1>5. CASE at % 2 = 0
  <2>1. 2 * i - 1 = at + 1 /\ 2 * i = at + 2 /\ o = at + 2
    BY <1>5
  <2>2. (IF 2 * i <= n THEN 2 * i ELSE 2 * i - 1) = IF o <= n THEN o ELSE n
    BY <1>1, <2>1
  <2> HIDE DEF i, o
  <2>3. Mate(x, i) = SiblingAt(x, at)
    BY <1>2, <1>3, <2>2
  <2>4. x[2 * i - 1] = x[at + 1]
    BY <2>1
  <2> QED
    BY <1>4, <1>5, <2>3, <2>4 DEF i, n
<1>6. CASE at % 2 # 0
  <2>1. 2 * i - 1 = at /\ 2 * i = at + 1 /\ o = at
    BY <1>6
  <2>2. (IF 2 * i <= n THEN 2 * i ELSE 2 * i - 1) = at + 1 /\ (IF o <= n THEN o ELSE n) = at
    BY <1>1, <2>1
  <2> HIDE DEF i, o
  <2>3. Mate(x, i) = x[at + 1] /\ SiblingAt(x, at) = x[at] /\ x[2 * i - 1] = x[at]
    BY <1>2, <1>3, <2>1, <2>2
  <2> QED
    BY <1>4, <1>6, <2>3 DEF i, n
<1> QED
  BY <1>5, <1>6

(* Whatever has the index and the siblings of the branch is accepted. *)
LEMMA BranchAscends ==
  ASSUME NEW leaves, LevelOk(leaves), NEW i \in DOMAIN leaves, NEW proof,
         proof.index = i - 1, Len(proof.siblings) = TreeHeight(leaves),
         \A h \in 1 .. TreeHeight(leaves) : proof.siblings[h] = Branch(leaves, i - 1).siblings[h]
  PROVE  ComputeRootFromProof(leaves[i], proof) = MerkleRoot(leaves)
<1> DEFINE H == TreeHeight(leaves)
           p == i - 1
           up == UpOf(leaves[i], proof)
           L(h) == Len(Level(leaves, h))
           at(h) == Shifted(p, h)
           K == {h \in Nat : h <= H => at(h) + 1 <= L(h) /\ up[h] = Level(leaves, h)[at(h) + 1]}
<1>1. H \in Nat /\ L(H) = 1
  BY HeightOfTree DEF LevelOk
<1>2. p \in Nat /\ p + 1 = i /\ i <= Len(leaves)
  BY DEF LevelOk
<1>3. /\ up[0] = leaves[i]
      /\ \A h \in 0 .. H - 1 :
           up[h + 1] = IF Side(p, h) = 0 THEN HashPair(up[h], proof.siblings[h + 1])
                       ELSE HashPair(proof.siblings[h + 1], up[h])
  <2>0. proof.index = p /\ Len(proof.siblings) = H /\ Len(proof.siblings) \in Nat
    BY <1>1
  <2>1. /\ up[0] = leaves[i]
        /\ \A h \in 0 .. Len(proof.siblings) - 1 :
             up[h + 1] = IF Side(proof.index, h) = 0 THEN HashPair(up[h], proof.siblings[h + 1])
                         ELSE HashPair(proof.siblings[h + 1], up[h])
    BY <2>0, UpSteps
  <2> HIDE DEF up, H, p
  <2> QED
    BY <2>0, <2>1
<1>4. \A h \in 1 .. H : proof.siblings[h] = SiblingAt(Level(leaves, h - 1), Shifted(p, h - 1))
  BY DEF Branch, SiblingAt
<1>5. ComputeRootFromProof(leaves[i], proof) = up[H]
  BY RootIsUp
<1> HIDE DEF H, up, p
<1>6. \A h \in Nat : at(h) \in Nat /\ at(h + 1) = at(h) \div 2 /\ at(0) = p
  BY <1>2, ShiftedNat, ShiftSteps
<1>7. 0 \in K
  <2>1. Level(leaves, 0) = leaves /\ at(0) = p
    BY <1>6, LevelSteps
  <2> HIDE DEF at
  <2> QED
    BY <1>2, <1>3, <2>1
<1>8. ASSUME NEW h \in Nat, h \in K PROVE h + 1 \in K
  <2> SUFFICES ASSUME h + 1 <= H
               PROVE  at(h + 1) + 1 <= L(h + 1) /\ up[h + 1] = Level(leaves, h + 1)[at(h + 1) + 1]
    BY DEF K
  <2> DEFINE x == Level(leaves, h)
             y == Level(leaves, h + 1)
             a == at(h)
             j == a \div 2 + 1
  <2>1. h \in 0 .. H - 1 /\ h + 1 \in 1 .. H /\ (h + 1) - 1 = h /\ h <= H
    BY <1>1
  <2>2. a \in Nat /\ a + 1 <= Len(x) /\ up[h] = x[a + 1] /\ at(h + 1) = a \div 2
    BY <1>6, <1>8, <2>1
  <2>3. /\ LevelOk(x) /\ LevelOk(y) /\ Len(y) = (Len(x) + 1) \div 2
        /\ \A k \in 1 .. Len(y) : y[k] = HashPair(x[2 * k - 1], Mate(x, k))
    BY LevelUp
  <2>4. proof.siblings[h + 1] = SiblingAt(x, a)
    BY <1>4, <2>1
  <2>5. Side(p, h) = a % 2
    BY DEF Side
  <2> HIDE DEF x, y, a, at
  <2>6. /\ j <= (Len(x) + 1) \div 2
        /\ HashPair(x[2 * j - 1], Mate(x, j))
             = IF a % 2 = 0 THEN HashPair(x[a + 1], SiblingAt(x, a))
               ELSE HashPair(SiblingAt(x, a), x[a + 1])
    BY <2>2, <2>3, SiblingPairs
  <2>7. j \in 1 .. Len(y) /\ j = at(h + 1) + 1
    <3>1. j \in Nat \ {0}
      BY <2>2
    <3> QED
      BY <2>2, <2>3, <2>6, <3>1 DEF LevelOk
  <2> HIDE DEF j
  <2>8. up[h + 1] = IF a % 2 = 0 THEN HashPair(x[a + 1], SiblingAt(x, a))
                    ELSE HashPair(SiblingAt(x, a), x[a + 1])
    BY <1>3, <2>1, <2>2, <2>4, <2>5
  <2>9. up[h + 1] = y[j]
    BY <2>3, <2>6, <2>7, <2>8
  <2>10. at(h + 1) + 1 <= Len(y)
    BY <2>3, <2>7 DEF LevelOk
  <2> QED
    BY <2>7, <2>9, <2>10 DEF y
<1>9. at(H) + 1 <= L(H) /\ up[H] = Level(leaves, H)[at(H) + 1]
  <2>1. \A h \in Nat : h \in K
    <3> HIDE DEF K
    <3> QED
      BY <1>7, <1>8, Induction
  <2>2. H \in K /\ H <= H
    BY <1>1, <2>1
  <2> HIDE DEF L, at
  <2> QED
    BY <2>2 DEF K
<1>10. at(H) + 1 = 1
  <2>1. at(H) \in Nat
    BY <1>1, <1>6
  <2> HIDE DEF at, L
  <2> QED
    BY <1>1, <1>9, <2>1
<1> QED
  BY <1>5, <1>9, <1>10 DEF MerkleRoot, H

-------------------------------------------------------------------------------
(* parse_branch: the lines that are not empty, pushed one by one. *)
KeepStep(out, l) == IF l = EmptyLine THEN out ELSE Append(out, l)
KeepRounds(ls, g, s) == IF s = {} THEN <<>> ELSE KeepStep(g[s \ {Max(s)}], ls[Max(s)])
KeepFold(ls) == CHOOSE g : g = [s \in SUBSET (DOMAIN ls) |-> KeepRounds(ls, g, s)]

LEMMA SiblingsAreFold ==
  ASSUME NEW ls
  PROVE  Siblings(ls) = KeepFold(ls)[DOMAIN ls]
BY DEF Siblings, FoldLeft, MapThenFoldSet, KeepFold, KeepRounds, KeepStep

LEMMA KeepFoldExists ==
  ASSUME NEW ls, NEW n \in Nat
  PROVE  \E g : g = [s \in SUBSET (1 .. n) |-> KeepRounds(ls, g, s)]
<1> DEFINE K == {m \in Nat : \E g : g = [s \in SUBSET (1 .. m) |-> KeepRounds(ls, g, s)]}
<1>1. 0 \in K
  <2> DEFINE g == [s \in SUBSET (1 .. 0) |-> <<>>]
  <2>1. \A s \in SUBSET (1 .. 0) : s = {}
    OBVIOUS
  <2>2. g = [s \in SUBSET (1 .. 0) |-> KeepRounds(ls, g, s)]
    BY <2>1 DEF KeepRounds
  <2> HIDE DEF g
  <2> QED
    BY <2>2
<1>2. ASSUME NEW m \in Nat, m \in K PROVE m + 1 \in K
  <2>1. PICK g : g = [s \in SUBSET (1 .. m) |-> KeepRounds(ls, g, s)]
    BY <1>2
  <2>0. \A s \in SUBSET (1 .. m) : g[s] = KeepRounds(ls, g, s)
    BY <2>1
  <2> DEFINE h == [s \in SUBSET (1 .. m + 1) |->
                     IF m + 1 \in s THEN KeepStep(g[s \ {m + 1}], ls[m + 1]) ELSE g[s]]
  <2>2. \A s \in SUBSET (1 .. m) : s \in SUBSET (1 .. m + 1) /\ m + 1 \notin s
    OBVIOUS
  <2>3. \A s \in SUBSET (1 .. m) : h[s] = g[s]
    BY <2>2
  <2>4. \A s \in SUBSET (1 .. m + 1) : m + 1 \in s => h[s] = KeepStep(g[s \ {m + 1}], ls[m + 1])
    OBVIOUS
  <2>5. h = [s \in SUBSET (1 .. m + 1) |-> h[s]]
    OBVIOUS
  <2> HIDE DEF h
  <2>6. ASSUME NEW s \in SUBSET (1 .. m + 1) PROVE h[s] = KeepRounds(ls, h, s)
    <3>1. CASE m + 1 \in s
      <4>1. Max(s) = m + 1 /\ s # {}
        BY <3>1, MaxOfSegment
      <4>2. s \ {m + 1} \in SUBSET (1 .. m)
        OBVIOUS
      <4>3. h[s \ {m + 1}] = g[s \ {m + 1}]
        BY <2>3, <4>2
      <4> QED
        BY <2>4, <3>1, <4>1, <4>3 DEF KeepRounds
    <3>2. CASE m + 1 \notin s
      <4>1. s \in SUBSET (1 .. m) /\ s \ {Max(s)} \in SUBSET (1 .. m)
        <5>1. \A y \in 1 .. m + 1 : y # m + 1 => y \in 1 .. m
          OBVIOUS
        <5> QED
          BY <3>2, <5>1
      <4>2. h[s] = g[s] /\ h[s \ {Max(s)}] = g[s \ {Max(s)}]
        BY <2>3, <4>1
      <4>3. g[s] = KeepRounds(ls, g, s)
        BY <2>0, <4>1
      <4> QED
        BY <4>2, <4>3 DEF KeepRounds
    <3> QED
      BY <3>1, <3>2
  <2>7. h = [s \in SUBSET (1 .. m + 1) |-> KeepRounds(ls, h, s)]
    BY <2>5, <2>6
  <2> QED
    BY <2>7
<1> QED
  <2>1. \A m \in Nat : m \in K
    <3> HIDE DEF K
    <3> QED
      BY <1>1, <1>2, Induction
  <2> QED
    BY <2>1

LEMMA KeepFoldRounds ==
  ASSUME NEW ls, NEW S, ls \in Seq(S)
  PROVE  LET f == KeepFold(ls)
         IN  /\ f[1 .. 0] = <<>>
             /\ \A k \in Nat : k + 1 \in 1 .. Len(ls) =>
                  f[1 .. k + 1] = KeepStep(f[1 .. k], ls[k + 1])
<1> DEFINE f == KeepFold(ls)
           n == Len(ls)
<1>1. n \in Nat /\ DOMAIN ls = 1 .. n
  OBVIOUS
<1>2. f = [s \in SUBSET (1 .. n) |-> KeepRounds(ls, f, s)]
  BY <1>1, KeepFoldExists DEF KeepFold
<1> HIDE DEF f, n
<1>4. \A s \in SUBSET (1 .. n) : f[s] = KeepRounds(ls, f, s)
  BY <1>2
<1>5. f[1 .. 0] = <<>>
  <2>1. 1 .. 0 = {} /\ 1 .. 0 \in SUBSET (1 .. n)
    OBVIOUS
  <2> QED
    BY <1>4, <2>1 DEF KeepRounds
<1>6. ASSUME NEW k \in Nat, k + 1 \in 1 .. n PROVE f[1 .. k + 1] = KeepStep(f[1 .. k], ls[k + 1])
  <2> DEFINE s == 1 .. k + 1
  <2>1. s \in SUBSET (1 .. n) /\ s # {} /\ k + 1 \in s /\ s \in SUBSET (1 .. k + 1)
    BY <1>1, <1>6
  <2>2. s \ {k + 1} = 1 .. k
    OBVIOUS
  <2> HIDE DEF s
  <2>3. Max(s) = k + 1
    BY <2>1, MaxOfSegment
  <2>4. f[s] = KeepRounds(ls, f, s)
    BY <1>4, <2>1
  <2>5. f[s] = KeepStep(f[1 .. k], ls[k + 1])
    BY <2>1, <2>2, <2>3, <2>4 DEF KeepRounds
  <2> QED
    BY <2>5 DEF s
<1> QED
  BY <1>5, <1>6 DEF f, n


(* What is kept of lines that end in empty ones is what is before these. *)
LEMMA SiblingsKept ==
  ASSUME NEW S, NEW ls \in Seq(S), NEW n \in 0 .. Len(ls),
         \A i \in 1 .. n : ls[i] # EmptyLine,
         \A i \in n + 1 .. Len(ls) : ls[i] = EmptyLine
  PROVE  /\ Siblings(ls) \in Seq(S) /\ Len(Siblings(ls)) = n
         /\ \A i \in 1 .. n : Siblings(ls)[i] = ls[i]
<1> DEFINE f == KeepFold(ls)
           m == Len(ls)
           Upto(k) == IF k <= n THEN k ELSE n
           Kept(out, k) == out \in Seq(S) /\ Len(out) = k /\ \A i \in 1 .. k : out[i] = ls[i]
           K == {k \in Nat : k <= m => Kept(f[1 .. k], Upto(k))}
<1>1. m \in Nat /\ DOMAIN ls = 1 .. m /\ n \in Nat /\ n <= m /\ \A i \in 1 .. m : ls[i] \in S
  OBVIOUS
<1>2. /\ f[1 .. 0] = <<>>
      /\ \A k \in Nat : k + 1 \in 1 .. m => f[1 .. k + 1] = KeepStep(f[1 .. k], ls[k + 1])
  BY KeepFoldRounds
<1>3. Siblings(ls) = f[1 .. m]
  BY <1>1, SiblingsAreFold
<1> HIDE DEF f, m
<1>4. 0 \in K
  <2>1. Upto(0) = 0
    BY <1>1
  <2>2. Kept(<<>>, 0)
    OBVIOUS
  <2> HIDE DEF Kept, Upto
  <2>3. Kept(f[1 .. 0], Upto(0))
    BY <1>2, <2>1, <2>2, Zenon
  <2> QED
    BY <2>3
<1>5. ASSUME NEW k \in Nat, k \in K PROVE k + 1 \in K
  <2> SUFFICES ASSUME k + 1 <= m PROVE Kept(f[1 .. k + 1], Upto(k + 1))
    BY DEF K
  <2> DEFINE out == f[1 .. k]
             l == ls[k + 1]
  <2>1. k + 1 \in 1 .. m /\ k <= m
    BY <1>1
  <2>2. Kept(out, Upto(k)) /\ f[1 .. k + 1] = KeepStep(out, l)
    BY <1>2, <1>5, <2>1
  <2> HIDE DEF out
  <2>3. CASE k + 1 <= n
    <3>1. Upto(k) = k /\ Upto(k + 1) = k + 1 /\ l # EmptyLine /\ l \in S
      BY <1>1, <2>1, <2>3
    <3>2. KeepStep(out, l) = Append(out, l)
      BY <3>1 DEF KeepStep
    <3>3. out \in Seq(S) /\ Len(out) = k /\ \A i \in 1 .. k : out[i] = ls[i]
      BY <2>2, <3>1
    <3> HIDE DEF l, Upto
    <3>4. /\ Append(out, l) \in Seq(S) /\ Len(Append(out, l)) = k + 1 /\ Append(out, l)[k + 1] = l
          /\ \A i \in 1 .. k : Append(out, l)[i] = out[i]
      BY <3>1, <3>3
    <3>5. \A i \in 1 .. k + 1 : Append(out, l)[i] = ls[i]
      <4>1. \A i \in 1 .. k + 1 : i = k + 1 \/ i \in 1 .. k
        OBVIOUS
      <4> QED
        BY <3>3, <3>4, <4>1 DEF l
    <3>6. Kept(Append(out, l), k + 1)
      BY <3>4, <3>5
    <3> QED
      BY <2>2, <3>1, <3>2, <3>6
  <2>4. CASE ~(k + 1 <= n)
    <3>1. Upto(k) = n /\ Upto(k + 1) = n /\ l = EmptyLine
      BY <1>1, <2>1, <2>4 DEF m
    <3>2. KeepStep(out, l) = out
      BY <3>1 DEF KeepStep
    <3> HIDE DEF Kept, Upto
    <3> QED
      BY <2>2, <3>1, <3>2
  <2> QED
    BY <2>3, <2>4
<1>6. Kept(f[1 .. m], n)
  <2>1. \A k \in Nat : k \in K
    <3> HIDE DEF K
    <3> QED
      BY <1>4, <1>5, Induction
  <2>2. m \in K /\ m <= m /\ Upto(m) = n
    BY <1>1, <2>1
  <2> HIDE DEF Kept, Upto
  <2> QED
    BY <2>2 DEF K
<1> QED
  BY <1>3, <1>6

IsConcat(c, a, b, S) ==
  /\ c \in Seq(S) /\ Len(c) = Len(a) + Len(b)
  /\ \A i \in 1 .. Len(a) : c[i] = a[i]
  /\ \A i \in 1 .. Len(b) : c[Len(a) + i] = b[i]

LEMMA ConcatFacts ==
  ASSUME NEW S, NEW a \in Seq(S), NEW b \in Seq(S)
  PROVE  IsConcat(a \o b, a, b, S)
<1>1. Len(a) \in Nat /\ Len(b) \in Nat /\ a \o b \in Seq(S) /\ Len(a \o b) = Len(a) + Len(b)
  OBVIOUS
<1>2. \A i \in 1 .. Len(a) + Len(b) : (a \o b)[i] = IF i <= Len(a) THEN a[i] ELSE b[i - Len(a)]
  OBVIOUS
<1>3. ASSUME NEW i \in 1 .. Len(b) PROVE (a \o b)[Len(a) + i] = b[i]
  <2> DEFINE n == Len(a)
             k == n + i
  <2>1. k \in 1 .. n + Len(b) /\ ~(k <= n) /\ k - n = i
    BY <1>1
  <2> HIDE DEF n, k
  <2>2. (a \o b)[k] = b[k - n]
    BY <1>2, <2>1 DEF n
  <2> QED
    BY <2>1, <2>2 DEF k, n
<1> QED
  BY <1>1, <1>2, <1>3 DEF IsConcat

(* parse_branch reads what was written, an empty line at the end or not. *)
Ends == {<<>>, <<EmptyLine>>}
ReadBack(b, height, pr) ==
  /\ b # Malformed /\ b.height = height /\ b.proof.index = pr.index
  /\ Len(b.proof.siblings) = Len(pr.siblings)
  /\ \A h \in 1 .. Len(pr.siblings) : b.proof.siblings[h] = pr.siblings[h]

LEMMA ParsesBack ==
  ASSUME NEW height, NEW pr, NEW T, pr.siblings \in Seq(T), NEW end \in Ends
  PROVE  ReadBack(ParseBranch(BranchText(height, pr) \o end), height, pr)
<1> DEFINE sib == pr.siblings
           n == Len(sib)
           first == <<Number(height), Number(pr.index)>>
           hashes == [i \in DOMAIN sib |-> Hash(sib[i])]
           S == {Number(height), Number(pr.index), EmptyLine} \cup {Hash(t) : t \in T}
           lines == (first \o hashes) \o end
           tail == SubSeq(lines, 3, Len(lines))
           rest == Siblings(tail)
<1>1. n \in Nat /\ DOMAIN sib = 1 .. n /\ \A i \in 1 .. n : sib[i] \in T
  OBVIOUS
<1>2. hashes \in Seq(S) /\ Len(hashes) = n /\ \A i \in 1 .. n : hashes[i] = Hash(sib[i])
  <2> HIDE DEF n, sib
  <2>1. hashes \in [1 .. n -> S]
    BY <1>1
  <2>2. hashes \in Seq(S)
    <3> HIDE DEF hashes, S
    <3> QED
      BY <1>1, <2>1, FunctionIsSeq
  <2>3. DOMAIN hashes = 1 .. n
    BY <1>1
  <2>4. Len(hashes) = n
    <3> HIDE DEF hashes, S
    <3> QED
      BY <1>1, <2>2, <2>3
  <2>5. \A i \in 1 .. n : hashes[i] = Hash(sib[i])
    BY <1>1
  <2> QED
    BY <2>2, <2>4, <2>5
<1>3. first \in Seq(S) /\ Len(first) = 2 /\ first[1] = Number(height) /\ first[2] = Number(pr.index)
  OBVIOUS
<1>4. end \in Seq(S) /\ Len(end) \in 0 .. 1 /\ \A i \in 1 .. Len(end) : end[i] = EmptyLine
  <2>1. EmptyLine \in S
    OBVIOUS
  <2> HIDE DEF S
  <2>2. CASE end = <<>>
    BY <2>2
  <2>3. CASE end = << EmptyLine >>
    <3> DEFINE e == EmptyLine
    <3>1. e \in S /\ end = <<e>>
      BY <2>1, <2>3
    <3> HIDE DEF e
    <3>2. end \in Seq(S) /\ Len(end) = 1 /\ end[1] = e
      BY <3>1
    <3> QED
      BY <3>2 DEF e
  <2> QED
    BY <2>2, <2>3 DEF Ends
<1> HIDE DEF first, hashes, S, n, sib
<1>5. /\ first \o hashes \in Seq(S) /\ Len(first \o hashes) = 2 + n
      /\ (first \o hashes)[1] = first[1] /\ (first \o hashes)[2] = first[2]
      /\ \A i \in 1 .. n : (first \o hashes)[i + 2] = hashes[i]
  <2>1. /\ first \o hashes \in Seq(S) /\ Len(first \o hashes) = 2 + n
        /\ \A i \in 1 .. 2 : (first \o hashes)[i] = first[i]
        /\ \A i \in 1 .. n : (first \o hashes)[2 + i] = hashes[i]
    <3>1. first \in Seq(S) /\ hashes \in Seq(S) /\ Len(first) = 2 /\ Len(hashes) = n
      BY <1>2, <1>3
    <3>2. IsConcat(first \o hashes, first, hashes, S)
      BY <3>1, ConcatFacts
    <3> QED
      BY <3>1, <3>2 DEF IsConcat
  <2> DEFINE body == first \o hashes
  <2> HIDE DEF body
  <2>2. \A i \in 1 .. n : body[i + 2] = hashes[i]
    <3>1. \A i \in 1 .. n : i + 2 = 2 + i
      BY <1>1
    <3> QED
      BY <2>1, <3>1 DEF body
  <2>3. 1 \in 1 .. 2 /\ 2 \in 1 .. 2
    OBVIOUS
  <2>4. body[1] = first[1] /\ body[2] = first[2]
    BY <2>1, <2>3 DEF body
  <2> QED
    BY <2>1, <2>2, <2>4 DEF body
<1> DEFINE body == first \o hashes
<1> HIDE DEF body
<1>6. /\ lines \in Seq(S) /\ Len(lines) = 2 + n + Len(end)
      /\ \A i \in 1 .. 2 + n : lines[i] = body[i]
      /\ \A i \in 3 + n .. Len(lines) : lines[i] = EmptyLine
  <2>1. body \in Seq(S) /\ Len(body) = 2 + n /\ lines = body \o end
    BY <1>5 DEF body
  <2>2. /\ body \o end \in Seq(S) /\ Len(body \o end) = 2 + n + Len(end)
        /\ \A i \in 1 .. 2 + n : (body \o end)[i] = body[i]
        /\ \A i \in 1 .. Len(end) : (body \o end)[2 + n + i] = end[i]
    <3>1. IsConcat(body \o end, body, end, S)
      BY <1>4, <2>1, ConcatFacts
    <3> QED
      BY <2>1, <3>1 DEF IsConcat
  <2>3. \A i \in 1 .. 2 + n : (body \o end)[i] = body[i]
    BY <2>2
  <2>4. ASSUME NEW i \in 3 + n .. 2 + n + Len(end) PROVE (body \o end)[i] = EmptyLine
    <3>1. i = 2 + n + 1 /\ 1 \in 1 .. Len(end)
      BY <1>1, <1>4
    <3>2. (body \o end)[2 + n + 1] = end[1]
      BY <2>2, <3>1
    <3> QED
      BY <1>4, <3>1, <3>2
  <2> HIDE DEF lines
  <2> QED
    BY <2>1, <2>2, <2>3, <2>4
<1> HIDE DEF lines
<1>7. /\ tail \in Seq(S) /\ Len(tail) = n + Len(end)
      /\ \A i \in 1 .. n + Len(end) : tail[i] = lines[i + 2]
  <2>1. Len(lines) \in Nat /\ Len(lines) >= 2
    BY <1>1, <1>4, <1>6
  <2>2. tail \in Seq(S)
    <3>1. \A i \in 3 .. Len(lines) : i \in 1 .. Len(lines)
      BY <2>1
    <3> QED
      BY <1>6, <2>1, <3>1
  <2>3. Len(tail) = n + Len(end)
    <3>1. Len(tail) = Len(lines) - 2
      BY <1>6, <2>1
    <3> QED
      BY <1>1, <1>4, <1>6, <3>1
  <2>4. ASSUME NEW i \in 1 .. n + Len(end) PROVE tail[i] = lines[i + 2]
    <3>1. i \in 1 .. (Len(lines) - 3 + 1) /\ 3 + i - 1 = i + 2
      BY <1>1, <1>4, <1>6
    <3> QED
      BY <1>6, <2>1, <3>1
  <2> QED
    BY <2>2, <2>3, <2>4
<1> HIDE DEF tail
<1>8. \A i \in 1 .. n : tail[i] = Hash(sib[i]) /\ tail[i] # EmptyLine
  <2> SUFFICES ASSUME NEW i \in 1 .. n PROVE tail[i] = Hash(sib[i]) /\ tail[i] # EmptyLine
    OBVIOUS
  <2>1. i \in 1 .. n + Len(end) /\ i + 2 \in 1 .. 2 + n
    BY <1>1, <1>4
  <2>2. tail[i] = Hash(sib[i])
    BY <1>2, <1>5, <1>6, <1>7, <2>1 DEF body
  <2>3. DOMAIN Hash(sib[i]) = {"hash"} /\ DOMAIN EmptyLine = {}
    BY DEF Hash, EmptyLine
  <2> QED
    BY <2>2, <2>3
<1>9. \A i \in n + 1 .. Len(tail) : tail[i] = EmptyLine
  <2> SUFFICES ASSUME NEW i \in n + 1 .. Len(tail) PROVE tail[i] = EmptyLine
    OBVIOUS
  <2>1. i \in 1 .. n + Len(end) /\ i + 2 \in 3 + n .. Len(lines)
    BY <1>1, <1>4, <1>6, <1>7
  <2> QED
    BY <1>6, <1>7, <2>1
<1>10. rest \in Seq(S) /\ Len(rest) = n /\ \A i \in 1 .. n : rest[i] = tail[i]
  <2>1. n \in 0 .. Len(tail)
    BY <1>1, <1>4, <1>7
  <2> QED
    BY <1>7, <1>8, <1>9, <2>1, SiblingsKept
<1> HIDE DEF rest
<1>11. DOMAIN rest = 1 .. n /\ \A i \in 1 .. n : rest[i] = Hash(sib[i])
  BY <1>8, <1>10
<1>12. /\ Len(lines) >= 2 /\ lines[1] = Number(height) /\ lines[2] = Number(pr.index)
  <2>1. 1 \in 1 .. 2 + n /\ 2 \in 1 .. 2 + n /\ Len(lines) >= 2
    BY <1>1, <1>4, <1>6
  <2> QED
    BY <1>3, <1>5, <1>6, <2>1 DEF body
<1>13. \A x : DOMAIN Number(x) = {"number"} /\ Number(x).number = x
              /\ DOMAIN Hash(x) = {"hash"} /\ Hash(x).hash = x
  BY DEF Number, Hash
<1> DEFINE read == [i \in DOMAIN rest |-> rest[i].hash]
           b == [height |-> height, proof |-> [index |-> pr.index, siblings |-> read]]
<1>14. ParseBranch(lines) = b
  <2>1. \A i \in 1 .. 2 : DOMAIN lines[i] = {"number"}
    <3>1. \A i \in 1 .. 2 : i = 1 \/ i = 2
      OBVIOUS
    <3> QED
      BY <1>12, <1>13, <3>1
  <2>2. \A i \in DOMAIN rest : DOMAIN rest[i] = {"hash"}
    BY <1>11, <1>13
  <2>3. lines[1].number = height /\ lines[2].number = pr.index
    BY <1>12, <1>13
  <2> QED
    BY <1>12, <2>1, <2>2, <2>3 DEF ParseBranch, rest, tail
<1>15. read \in Seq({sib[i] : i \in 1 .. n}) /\ Len(read) = n /\ \A i \in 1 .. n : read[i] = sib[i]
  <2> DEFINE R == {sib[i] : i \in 1 .. n}
  <2>1. \A i \in 1 .. n : read[i] = sib[i]
    BY <1>11, <1>13
  <2>2. read \in [1 .. n -> R]
    BY <1>11, <1>13
  <2>3. DOMAIN read = 1 .. n
    BY <1>11
  <2> HIDE DEF read, R
  <2>4. read \in Seq(R)
    BY <1>1, <2>2, FunctionIsSeq
  <2>5. Len(read) = n
    BY <1>1, <2>3, <2>4
  <2> QED
    BY <2>1, <2>4, <2>5 DEF R
<1> HIDE DEF read
<1>16. b # Malformed /\ b.height = height /\ b.proof.index = pr.index /\ b.proof.siblings = read
  <2>1. DOMAIN b = {"height", "proof"} /\ DOMAIN Malformed = {"malformed"}
    BY DEF Malformed
  <2>2. b.height = height /\ b.proof = [index |-> pr.index, siblings |-> read]
    OBVIOUS
  <2> QED
    BY <2>1, <2>2
<1> HIDE DEF b
<1>17. BranchText(height, pr) \o end = lines
  BY DEF BranchText, lines, first, hashes, sib
<1> QED
  BY <1>14, <1>15, <1>16, <1>17 DEF sib, n, ReadBack

-------------------------------------------------------------------------------
(* The blocks mined: transactions with heads the two logs have had. *)
KnownHead(x) ==
  \/ x = ZeroHash
  \/ \E k \in DOMAIN custodian.events : x = custodian.events[k].hash
  \/ \E k \in DOMAIN records : x = records[k].hash
BlockOk(b) ==
  /\ LevelOk(b)
  /\ \A x \in Range(b) : \E head : x = AnchorTx(head) /\ KnownHead(head)
BlocksInv == \A n \in 1 .. Len(blocks) : BlockOk(blocks[n])

LEMMA BlocksInit == Init => BlocksInv
<1> SUFFICES ASSUME Init PROVE BlocksInv
  OBVIOUS
<1>1. blocks = <<>>
  BY DEF Init
<1>2. 1 .. Len(blocks) = {}
  BY <1>1
<1> QED
  BY <1>2 DEF BlocksInv

LEMMA HeadsKept ==
  ASSUME LogsInv, BlocksInv, blocks' = blocks,
         \/ UNCHANGED <<custodian, records>>
         \/ records' = records /\ \E e : custodian'.events = Append(custodian.events, e)
         \/ custodian' = custodian /\ \E r : records' = Append(records, r)
  PROVE  BlocksInv'
<1>1. ASSUME NEW x, KnownHead(x) PROVE KnownHead(x)'
  <2>1. CASE UNCHANGED <<custodian, records>>
    BY <1>1, <2>1 DEF KnownHead
  <2>2. CASE records' = records /\ \E e : custodian'.events = Append(custodian.events, e)
    <3>1. PICK e : custodian'.events = Append(custodian.events, e)
      BY <2>2
    <3>2. custodian.events \in Seq(Range(custodian.events))
      BY DEF LogsInv, LifecycleOk
    <3> DEFINE s == custodian.events
               t == Append(s, e)
    <3> HIDE DEF s
    <3>3. s \in Seq(Range(s))
      BY <3>2 DEF s
    <3>4. /\ DOMAIN s = 1 .. Len(s) /\ DOMAIN t = 1 .. Len(s) + 1 /\ Len(s) \in Nat
          /\ \A i \in 1 .. Len(s) : t[i] = s[i]
      BY <3>3, AppendFacts
    <3> HIDE DEF t
    <3>5. \A k \in DOMAIN s : k \in DOMAIN t /\ t[k] = s[k]
      BY <3>4
    <3>6. custodian'.events = t /\ custodian.events = s
      BY <3>1 DEF s, t
    <3> QED
      BY <1>1, <2>2, <3>5, <3>6 DEF KnownHead
  <2>3. CASE custodian' = custodian /\ \E r : records' = Append(records, r)
    <3>1. PICK r : records' = Append(records, r)
      BY <2>3
    <3>2. records \in Seq(Range(records))
      BY DEF LogsInv, AuditOk
    <3> DEFINE t == Append(records, r)
    <3>4. /\ DOMAIN records = 1 .. Len(records) /\ DOMAIN t = 1 .. Len(records) + 1 /\ Len(records) \in Nat
          /\ \A i \in 1 .. Len(records) : t[i] = records[i]
      BY <3>2, AppendFacts
    <3> HIDE DEF t
    <3>5. \A k \in DOMAIN records : k \in DOMAIN t /\ t[k] = records[k]
      BY <3>4
    <3>6. records' = t
      BY <3>1 DEF t
    <3> QED
      BY <1>1, <2>3, <3>5, <3>6 DEF KnownHead
  <2> QED
    BY <2>1, <2>2, <2>3
<1>2. ASSUME NEW b, BlockOk(b) PROVE BlockOk(b)'
  BY <1>1, <1>2 DEF BlockOk
<1> QED
  BY <1>2 DEF BlocksInv

LEMMA HeadsKnown ==
  ASSUME LogsInv, NEW x \in Heads
  PROVE  KnownHead(x)
<1>1. custodian.events \in Seq(Range(custodian.events)) /\ custodian.events # <<>>
      /\ records \in Seq(Range(records))
  BY DEF LogsInv, LifecycleOk, AuditOk, Linked
<1>2. ASSUME NEW s, s \in Seq(Range(s)), s # <<>>
      PROVE  Len(s) \in DOMAIN s /\ HeadHash(s) = s[Len(s)].hash
  BY <1>2 DEF HeadHash, Last
<1>3. CASE x = HeadHash(custodian.events)
  BY <1>1, <1>2, <1>3 DEF KnownHead
<1>4. CASE x = HeadHash(records)
  <2>1. CASE records = <<>>
    BY <1>4, <2>1 DEF KnownHead, HeadHash
  <2>2. CASE records # <<>>
    BY <1>1, <1>2, <1>4, <2>2 DEF KnownHead
  <2> QED
    BY <2>1, <2>2
<1>5. CASE x = ZeroHash
  BY <1>5 DEF KnownHead
<1> QED
  BY <1>3, <1>4, <1>5 DEF Heads

LEMMA MineKeepsBlocks ==
  ASSUME LogsInv, ChainInv, BlocksInv, Mine
  PROVE  BlocksInv'
<1>1. PICK n \in 1 .. MaxLeaves : \E leaves \in [1 .. n -> Heads] :
        blocks' = Append(blocks, [i \in 1 .. n |-> AnchorTx(leaves[i])])
  BY DEF Mine
<1>2. PICK leaves \in [1 .. n -> Heads] :
        blocks' = Append(blocks, [i \in 1 .. n |-> AnchorTx(leaves[i])])
  BY <1>1
<1> DEFINE b == [i \in 1 .. n |-> AnchorTx(leaves[i])]
           S == {b[i] : i \in 1 .. n}
<1>3. n \in Nat \ {0}
  BY AnchorAssumption
<1>4. LevelOk(b)
  <2>1. b \in [1 .. n -> S] /\ DOMAIN b = 1 .. n
    OBVIOUS
  <2> HIDE DEF b, S
  <2>2. b \in Seq(S)
    BY <1>3, <2>1, FunctionIsSeq
  <2>3. Len(b) = n
    BY <1>3, <2>1, <2>2
  <2>4. b \in Seq(Range(b))
    BY <2>2, SeqOverRange
  <2> QED
    BY <1>3, <2>1, <2>3, <2>4 DEF LevelOk
<1>5. ASSUME NEW x \in Range(b) PROVE \E head : x = AnchorTx(head) /\ KnownHead(head)
  <2>1. PICK i \in 1 .. n : x = AnchorTx(leaves[i])
    BY DEF Range
  <2>2. KnownHead(leaves[i])
    BY HeadsKnown
  <2> QED
    BY <2>1, <2>2
<1>6. UNCHANGED <<custodian, records>>
  BY DEF Mine
<1>7. ASSUME NEW x, KnownHead(x) PROVE KnownHead(x)'
  BY <1>6, <1>7 DEF KnownHead
<1>8. BlockOk(b)
  BY <1>4, <1>5 DEF BlockOk
<1>9. blocks' = Append(blocks, b)
  BY <1>2
<1> HIDE DEF b
<1>10. /\ Len(Append(blocks, b)) = Len(blocks) + 1 /\ Len(blocks) \in Nat
       /\ Append(blocks, b)[Len(blocks) + 1] = b
       /\ \A i \in 1 .. Len(blocks) : Append(blocks, b)[i] = blocks[i]
  <2>1. blocks \in Seq(Range(blocks))
    BY DEF ChainInv
  <2> QED
    BY <2>1, AppendFacts
<1>11. ASSUME NEW i \in 1 .. Len(blocks) + 1 PROVE BlockOk(Append(blocks, b)[i])
  <2>1. i \in 1 .. Len(blocks) \/ i = Len(blocks) + 1
    BY <1>10
  <2> QED
    BY <1>8, <1>10, <2>1 DEF BlocksInv
<1>12. \A i \in 1 .. Len(blocks') :
         /\ LevelOk(blocks'[i])
         /\ \A x \in Range(blocks'[i]) : \E head : x = AnchorTx(head) /\ KnownHead(head)
  BY <1>9, <1>10, <1>11 DEF BlockOk
<1>13. \A i \in 1 .. Len(blocks') :
         /\ LevelOk(blocks'[i])
         /\ \A x \in Range(blocks'[i]) : \E head : x = AnchorTx(head) /\ KnownHead(head)'
  BY <1>7, <1>12
<1> QED
  BY <1>13 DEF BlocksInv, BlockOk

LEMMA NextKeepsBlocks ==
  ASSUME LogsInv, ChainInv, BlocksInv, [Next]_vars
  PROVE  BlocksInv'
<1>1. ASSUME NEW k \in Keys, NEW t \in Times, Rotate(k, t) PROVE BlocksInv'
  <2>1. custodian'.events
          = Append(custodian.events, Event("Rotation", k, t, HeadHash(custodian.events)))
    BY <1>1 DEF Rotate, LogsInv
  <2> QED
    BY <1>1, <2>1, HeadsKept DEF Rotate
<1>2. ASSUME NEW t \in Times, Revoke(t) PROVE BlocksInv'
  <2>1. custodian'.events
          = Append(custodian.events, Event("Revocation", custodian.key, t, HeadHash(custodian.events)))
    BY <1>2 DEF Revoke, LogsInv
  <2> QED
    BY <1>2, <2>1, HeadsKept DEF Revoke
<1>3. ASSUME NEW t \in Times, NEW actor \in Strings, NEW action \in Strings,
             AppendRecord(t, actor, action)
      PROVE  BlocksInv'
  BY <1>3, HeadsKept DEF AppendRecord
<1>4. CASE Mine
  BY <1>4, MineKeepsBlocks
<1>5. CASE Sync
  BY <1>5, HeadsKept DEF Sync
<1>6. CASE AddOne
  BY <1>6, HeadsKept DEF AddOne
<1>7. CASE UNCHANGED vars
  BY <1>7, HeadsKept DEF vars
<1> QED
  BY <1>1, <1>2, <1>3, <1>4, <1>5, <1>6, <1>7 DEF Next

(* A header at its own height has the root of its block. *)
LEMMA RootAtHeight ==
  ASSUME ChainInv, NEW height \in Int,
         Genuine(chain.headers[height - chain.start + 1], height)
  PROVE  \E m \in 1 .. Len(blocks) : /\ height = FirstHeight + m - 1
                                     /\ MerkleRootAtHeight(chain, height) = MerkleRoot(blocks[m])
<1>1. PICK m \in 1 .. Len(blocks) : /\ height = FirstHeight + m - 1
                                    /\ chain.headers[height - chain.start + 1] = HeaderOf(m)
  BY DEF Genuine
<1>2. Len(blocks) \in Nat
  <2>1. blocks \in Seq(Range(blocks))
    BY DEF ChainInv
  <2> QED
    BY <2>1
<1>3. HeaderOf(m).root = MerkleRoot(blocks[m])
  BY <1>2, HeaderOfIs, HeaderFacts
<1> QED
  BY <1>1, <1>3 DEF MerkleRootAtHeight

(* Of a block whose root the chain has at a height, whatever is accepted   *)
(* there is a leaf, at the place the index leads to.                       *)
LEMMA AcceptedIsLeaf ==
  ASSUME NEW b, BlockOk(b), NEW leaf, IsTx(leaf), NEW proof, proof.index \in Nat,
         Len(proof.siblings) \in Nat, NEW height,
         MerkleRootAtHeight(chain, height) = MerkleRoot(b),
         VerifyAgainstChain(leaf, proof, height, chain)
  PROVE  /\ Len(proof.siblings) = TreeHeight(b)
         /\ \E i \in DOMAIN b : LeadsTo(b, proof.index, i) /\ leaf = b[i]
<1>1. LevelOk(b) /\ \A x \in Range(b) : IsTx(x)
  BY DEF BlockOk, IsTx
<1>2. ComputeRootFromProof(leaf, proof) = MerkleRoot(b)
  BY DEF VerifyAgainstChain
<1>3. Len(proof.siblings) = TreeHeight(b)
  BY <1>1, <1>2, Descends
<1> QED
  BY <1>1, <1>2, <1>3, Leads

LEMMA BranchAccepted ==
  ASSUME NEW b, BlockOk(b), TreeHeight(b) <= MAX_TREE_HEIGHT, NEW i \in DOMAIN b,
         NEW end \in {<<>>, <<EmptyLine>>}, NEW height, HasHeight(chain, height),
         MerkleRootAtHeight(chain, height) = MerkleRoot(b)
  PROVE  LET r == ParseBranch(BranchText(height, Branch(b, i - 1)) \o end)
         IN  r # Malformed /\ VerifyAgainstChain(b[i], r.proof, r.height, chain)
<1> DEFINE H == TreeHeight(b)
           pr == Branch(b, i - 1)
           sib == pr.siblings
           T == {sib[h] : h \in 1 .. H}
           r == ParseBranch(BranchText(height, pr) \o end)
<1>1. LevelOk(b)
  BY DEF BlockOk
<1>2. H \in Nat
  BY <1>1, HeightOfTree DEF LevelOk
<1>3. pr.index = i - 1 /\ DOMAIN sib = 1 .. H /\ sib = [h \in 1 .. H |-> sib[h]]
  BY DEF Branch
<1> HIDE DEF H, pr, sib
<1>4. sib \in [1 .. H -> T]
  BY <1>3
<1> HIDE DEF T
<1>5. sib \in Seq(T) /\ Len(sib) = H
  <2>1. sib \in Seq(T)
    BY <1>2, <1>4, FunctionIsSeq
  <2> QED
    BY <1>2, <1>3, <2>1
<1>6. pr.siblings \in Seq(T) /\ Len(pr.siblings) = H
  BY <1>5 DEF sib
<1>7. /\ r # Malformed /\ r.height = height /\ r.proof.index = pr.index
      /\ Len(r.proof.siblings) = Len(pr.siblings)
      /\ \A h \in 1 .. Len(pr.siblings) : r.proof.siblings[h] = pr.siblings[h]
  <2>1. end \in Ends
    BY DEF Ends
  <2>2. ReadBack(r, height, pr)
    BY <1>6, <2>1, ParsesBack
  <2> HIDE DEF r
  <2> QED
    BY <2>2 DEF ReadBack
<1> DEFINE proof == r.proof
<1> HIDE DEF r
<1>8. /\ proof.index = i - 1 /\ Len(proof.siblings) = H
      /\ \A h \in 1 .. H : proof.siblings[h] = pr.siblings[h]
  BY <1>3, <1>6, <1>7
<1> HIDE DEF proof
<1>9. ComputeRootFromProof(b[i], proof) = MerkleRoot(b)
  BY <1>1, <1>8, BranchAscends DEF H, pr
<1>10. VerifyAgainstChain(b[i], proof, height, chain)
  BY <1>8, <1>9 DEF VerifyAgainstChain, H
<1> QED
  BY <1>7, <1>10 DEF r, proof, pr

LEMMA InclusionIsExact ==
  ASSUME LogsInv, ChainInv, BlocksInv
  PROVE  InclusionExact
<1> SUFFICES ASSUME NEW n \in 1 .. Len(blocks), NEW height \in {FirstHeight + n - 1},
                    HasHeight(chain, height),
                    Genuine(chain.headers[height - chain.start + 1], height)
             PROVE  LET leaves == blocks[n]
                        nodes == UNION {Range(Level(leaves, h)) : h \in 0 .. TreeHeight(leaves)}
                    IN /\ TreeHeight(leaves) <= MAX_TREE_HEIGHT =>
                            \A i \in DOMAIN leaves : \A end \in {<<>>, <<EmptyLine>>} :
                              LET b == ParseBranch(BranchText(height, Branch(leaves, i - 1)) \o end)
                              IN b # Malformed /\ VerifyAgainstChain(leaves[i], b.proof, b.height, chain)
                       /\ \A leaf \in Range(leaves) \cup {AnchorTx(head) : head \in Heads} :
                            \A index \in 0 .. 2 * MaxLeaves, len \in 0 .. MaxLeaves - 1 :
                              \A siblings \in [1 .. len -> nodes] :
                                VerifyAgainstChain(leaf, [index |-> index, siblings |-> siblings], height, chain)
                                  => /\ len = TreeHeight(leaves)
                                     /\ \E i \in DOMAIN leaves : LeadsTo(leaves, index, i) /\ leaf = leaves[i]
  BY DEF InclusionExact
<1> DEFINE leaves == blocks[n]
           nodes == UNION {Range(Level(leaves, h)) : h \in 0 .. TreeHeight(leaves)}
<1>1. Len(blocks) \in Nat /\ FirstHeight \in Nat /\ MaxLeaves \in Nat
  <2>1. blocks \in Seq(Range(blocks))
    BY DEF ChainInv
  <2> QED
    BY <2>1, AnchorAssumption
<1>2. BlockOk(leaves)
  BY DEF BlocksInv
<1>3. MerkleRootAtHeight(chain, height) = MerkleRoot(leaves)
  <2>1. height \in Int
    BY <1>1
  <2>2. PICK m \in 1 .. Len(blocks) : /\ height = FirstHeight + m - 1
                                      /\ MerkleRootAtHeight(chain, height) = MerkleRoot(blocks[m])
    BY <2>1, RootAtHeight
  <2>3. m = n
    BY <1>1, <2>2
  <2> QED
    BY <2>2, <2>3
<1> HIDE DEF leaves, nodes
<1>4. ASSUME TreeHeight(leaves) <= MAX_TREE_HEIGHT, NEW i \in DOMAIN leaves,
             NEW end \in {<<>>, <<EmptyLine>>}
      PROVE  LET b == ParseBranch(BranchText(height, Branch(leaves, i - 1)) \o end)
             IN b # Malformed /\ VerifyAgainstChain(leaves[i], b.proof, b.height, chain)
  BY <1>2, <1>3, <1>4, BranchAccepted
<1>5. ASSUME NEW leaf \in Range(leaves) \cup {AnchorTx(head) : head \in Heads},
             NEW index \in 0 .. 2 * MaxLeaves, NEW len \in 0 .. MaxLeaves - 1,
             NEW siblings \in [1 .. len -> nodes],
             VerifyAgainstChain(leaf, [index |-> index, siblings |-> siblings], height, chain)
      PROVE  /\ len = TreeHeight(leaves)
             /\ \E i \in DOMAIN leaves : LeadsTo(leaves, index, i) /\ leaf = leaves[i]
  <2> DEFINE proof == [index |-> index, siblings |-> siblings]
  <2>1. IsTx(leaf)
    BY <1>2 DEF BlockOk, IsTx
  <2>2. len \in Nat /\ index \in Nat
    BY <1>1
  <2>3. Len(siblings) = len
    <3>1. siblings \in Seq(nodes) /\ DOMAIN siblings = 1 .. len
      BY <2>2, FunctionIsSeq
    <3> QED
      BY <2>2, <3>1
  <2>4. proof.index = index /\ proof.siblings = siblings
    OBVIOUS
  <2>5. VerifyAgainstChain(leaf, proof, height, chain)
    BY <1>5
  <2> HIDE DEF proof
  <2>6. proof.index \in Nat /\ Len(proof.siblings) \in Nat
    BY <2>2, <2>3, <2>4
  <2>7. /\ Len(proof.siblings) = TreeHeight(leaves)
        /\ \E i \in DOMAIN leaves : LeadsTo(leaves, proof.index, i) /\ leaf = leaves[i]
    BY <1>2, <1>3, <2>1, <2>5, <2>6, AcceptedIsLeaf
  <2> QED
    BY <2>3, <2>4, <2>7
<1> QED
  BY <1>4, <1>5 DEF leaves, nodes

-------------------------------------------------------------------------------
(* A log that verifies and has a head some block has is a beginning of the *)
(* custodian's: no other hash has the fields of an event's.                *)
LEMMA HeadOfEvent ==
  ASSUME LogsInv, NEW log, log \in Seq(Range(log)), VerifyLifecycle(log), KnownHead(HeadHash(log))
  PROVE  \E k \in DOMAIN custodian.events : HeadHash(log) = custodian.events[k].hash
<1> DEFINE e == Last(log)
<1>1. e \in Range(log) /\ HeadHash(log) = e.hash /\ Rehashes(e)
  BY DEF VerifyLifecycle, HeadHash, Last, Range
<1> HIDE DEF e
<1>2. DOMAIN HeadHash(log) = {"kind", "key", "time", "prev"}
  BY <1>1 DEF Rehashes, EventHash
<1>3. HeadHash(log) # ZeroHash
  <2>1. DOMAIN ZeroHash = {"zero"}
    BY DEF ZeroHash
  <2> QED
    BY <1>2, <2>1
<1>4. ASSUME NEW k \in DOMAIN records PROVE HeadHash(log) # records[k].hash
  <2>1. Rehashed(records[k])
    BY DEF LogsInv, AuditOk, VerifyAuditChain
  <2> DEFINE g == records[k].hash
             d == HeadHash(log)
  <2>2. DOMAIN g = {"time", "text", "prev"}
    BY <2>1 DEF Rehashed, RecordHash
  <2>3. DOMAIN d = {"kind", "key", "time", "prev"}
    BY <1>2
  <2> HIDE DEF g, d
  <2>4. "text" \in DOMAIN g /\ "text" \notin DOMAIN d
    BY <2>2, <2>3
  <2>5. g # d
    BY <2>4
  <2> QED
    BY <2>5 DEF g, d
<1> QED
  BY <1>3, <1>4 DEF KnownHead

LEMMA PrefixLinked ==
  ASSUME NEW ev, LifecycleOk(ev), NEW k \in DOMAIN ev
  PROVE  LET pre == SubSeq(ev, 1, k)
         IN  pre \in Seq(Range(ev)) /\ Linked(pre) /\ HeadHash(pre) = ev[k].hash /\ IsPrefix(pre, ev)
<1> DEFINE pre == SubSeq(ev, 1, k)
           S == Range(ev)
<1>1. ev \in Seq(S) /\ Linked(ev) /\ DOMAIN ev = 1 .. Len(ev) /\ Len(ev) \in Nat
  <2>1. ev \in Seq(S) /\ Linked(ev)
    BY DEF LifecycleOk
  <2> HIDE DEF S
  <2> QED
    BY <2>1
<1> HIDE DEF S
<1>2. k \in 1 .. Len(ev) /\ k \in Nat /\ k <= Len(ev) /\ k >= 1
  BY <1>1
<1>3. pre \in Seq(S) /\ Len(pre) = k /\ \A i \in 1 .. k : pre[i] = ev[i]
  BY <1>1, <1>2
<1> HIDE DEF pre
<1>4. DOMAIN pre = 1 .. k /\ pre # <<>>
  BY <1>2, <1>3
<1>5. Linked(pre)
  <2>1. 1 \in 1 .. k
    BY <1>2
  <2>2. ASSUME NEW i \in DOMAIN pre
        PROVE  Rehashes(pre[i]) /\ (i > 1 => pre[i].kind # "Genesis" /\ LinksAt(pre, i))
    <3>1. i \in DOMAIN ev /\ pre[i] = ev[i]
      BY <1>1, <1>2, <1>3, <1>4
    <3>2. i > 1 => pre[i - 1] = ev[i - 1]
      <4>1. i > 1 => i - 1 \in 1 .. k
        BY <1>2, <1>4
      <4> QED
        BY <1>3, <4>1
    <3> QED
      BY <1>1, <3>1, <3>2 DEF Linked, LinksAt
  <2> QED
    BY <1>1, <1>3, <1>4, <2>1, <2>2 DEF Linked
<1>6. HeadHash(pre) = ev[k].hash
  BY <1>2, <1>3, <1>4 DEF HeadHash, Last
<1>7. IsPrefix(pre, ev)
  <2>1. SubSeq(pre, 1, Len(pre)) = pre
    BY <1>2, <1>3
  <2> QED
    BY <1>2, <1>3, <2>1 DEF IsPrefix, pre
<1> QED
  BY <1>3, <1>5, <1>6, <1>7 DEF pre, S

LEMMA KnownHeadPrefix ==
  ASSUME LogsInv, NEW log, log \in Seq(Range(log)), \A e \in Range(log) : Shaped(e),
         VerifyLifecycle(log), KnownHead(HeadHash(log))
  PROVE  IsPrefix(log, custodian.events)
<1> DEFINE own == custodian.events
           S == Range(log) \cup Range(own)
<1>1. LifecycleOk(own)
  BY DEF LogsInv
<1>2. PICK k \in DOMAIN own : HeadHash(log) = own[k].hash
  BY HeadOfEvent
<1> HIDE DEF own
<1> DEFINE pre == SubSeq(own, 1, k)
<1>3. pre \in Seq(Range(own)) /\ Linked(pre) /\ HeadHash(pre) = own[k].hash /\ IsPrefix(pre, own)
  BY <1>1, PrefixLinked
<1> HIDE DEF pre
<1>4. \A e \in S : Shaped(e)
  BY <1>1 DEF LifecycleOk, EventOk
<1>5. Range(log) \subseteq S /\ Range(own) \subseteq S
  OBVIOUS
<1> HIDE DEF S
<1>6. log \in Seq(S) /\ pre \in Seq(S)
  BY <1>3, <1>5, SeqWidens
<1>7. Linked(log)
  BY DEF VerifyLifecycle, Linked
<1>8. log = pre
  BY <1>2, <1>3, <1>4, <1>6, <1>7, HeadDeterminesLog
<1> QED
  BY <1>3, <1>8 DEF own

(* verify_lifecycle and verify_against_chain together, for any log, any    *)
(* proof and any height at which the client's header is the block's.       *)
OnlyAnchored(log, proof, height) ==
  (/\ log \in Seq(Range(log)) /\ \A e \in Range(log) : Shaped(e)
   /\ proof.index \in Nat /\ Len(proof.siblings) \in Nat /\ height \in Nat
   /\ Genuine(chain.headers[height - chain.start + 1], height)
   /\ VerifyLifecycle(log)
   /\ VerifyAgainstChain(AnchorTx(HeadHash(log)), proof, height, chain))
  => IsPrefix(log, custodian.events)

LEMMA AnchoredOnly ==
  ASSUME LogsInv, ChainInv, BlocksInv, NEW log, NEW proof, NEW height
  PROVE  OnlyAnchored(log, proof, height)
<1> SUFFICES ASSUME log \in Seq(Range(log)), \A e \in Range(log) : Shaped(e),
                    proof.index \in Nat, Len(proof.siblings) \in Nat, height \in Nat,
                    Genuine(chain.headers[height - chain.start + 1], height),
                    VerifyLifecycle(log),
                    VerifyAgainstChain(AnchorTx(HeadHash(log)), proof, height, chain)
             PROVE  IsPrefix(log, custodian.events)
  BY DEF OnlyAnchored
<1> DEFINE leaf == AnchorTx(HeadHash(log))
<1>1. PICK m \in 1 .. Len(blocks) : MerkleRootAtHeight(chain, height) = MerkleRoot(blocks[m])
  <2>1. height \in Int
    OBVIOUS
  <2> QED
    BY <2>1, RootAtHeight
<1> DEFINE b == blocks[m]
<1>2. BlockOk(b)
  BY DEF BlocksInv
<1>3. IsTx(leaf) /\ VerifyAgainstChain(leaf, proof, height, chain)
  BY DEF IsTx
<1> HIDE DEF leaf, b
<1>4. PICK i \in DOMAIN b : leaf = b[i]
  BY <1>1, <1>2, <1>3, AcceptedIsLeaf DEF b
<1>5. leaf \in Range(b)
  BY <1>4 DEF Range
<1>6. PICK head : leaf = AnchorTx(head) /\ KnownHead(head)
  BY <1>2, <1>5 DEF BlockOk
<1>7. head = HeadHash(log)
  <2>1. \A x : AnchorTx(x).tx = x
    BY DEF AnchorTx
  <2> QED
    BY <1>6, <2>1 DEF leaf
<1> QED
  BY <1>6, <1>7, KnownHeadPrefix

LEMMA AnchoredGenuine ==
  ASSUME LogsInv, ChainInv, BlocksInv
  PROVE  AnchoredIsGenuine
<1> DEFINE entries == Range(custodian.events) \cup MadeUpEvents
<1> SUFFICES ASSUME NEW height \in HeightsNear, NEW n \in 1 .. Len(blocks),
                    HasHeight(chain, height),
                    Genuine(chain.headers[height - chain.start + 1], height),
                    NEW log \in Tampered(custodian.events, entries), VerifyLifecycle(log),
                    NEW i \in 0 .. MaxLeaves - 1,
                    VerifyAgainstChain(AnchorTx(HeadHash(log)), Branch(blocks[n], i), height, chain)
             PROVE  IsPrefix(log, custodian.events)
  BY DEF AnchoredIsGenuine
<1>1. entries \subseteq ForgedEvents /\ \A e \in entries : Shaped(e) /\ Range(custodian.events) \subseteq entries
  BY ForgedShaped DEF ForgedEvents
<1>2. custodian.events \in Seq(Range(custodian.events))
  BY DEF LogsInv, LifecycleOk
<1> HIDE DEF entries
<1>3. log \in Seq(entries)
  <2>1. custodian.events \in Seq(entries)
    <3>1. Range(custodian.events) \subseteq entries
      BY DEF entries
    <3> QED
      BY <1>2, <3>1, SeqWidens
  <2> QED
    BY <2>1, TamperedSeqs
<1>4. log \in Seq(Range(log)) /\ \A e \in Range(log) : Shaped(e)
  BY <1>1, <1>3, SeqOverRange
<1>5. height \in Nat /\ i \in Nat
  BY AnchorAssumption DEF HeightsNear
<1> DEFINE b == blocks[n]
           proof == Branch(b, i)
           H == TreeHeight(b)
<1>6. LevelOk(b)
  BY DEF BlocksInv, BlockOk
<1> HIDE DEF b
<1>7. H \in Nat
  BY <1>6, HeightOfTree DEF LevelOk
<1>8. proof.index = i /\ DOMAIN proof.siblings = 1 .. H /\ proof.siblings = [h \in 1 .. H |-> proof.siblings[h]]
  BY DEF Branch
<1>9. VerifyAgainstChain(AnchorTx(HeadHash(log)), proof, height, chain)
  BY DEF b
<1> HIDE DEF proof, H
<1>10. Len(proof.siblings) \in Nat
  <2> DEFINE sib == proof.siblings
             T == {sib[h] : h \in 1 .. H}
  <2>1. sib \in [1 .. H -> T] /\ DOMAIN sib = 1 .. H
    BY <1>8
  <2> HIDE DEF sib, T
  <2>2. sib \in Seq(T)
    BY <1>7, <2>1, FunctionIsSeq
  <2>3. Len(sib) \in Nat
    BY <2>2
  <2> QED
    BY <2>3 DEF sib
<1>11. OnlyAnchored(log, proof, height)
  BY AnchoredOnly
<1> QED
  BY <1>4, <1>5, <1>8, <1>9, <1>10, <1>11 DEF OnlyAnchored

AllInv == LogsInv /\ ChainInv /\ BlocksInv

LEMMA AllInvariant ==
  /\ Init => AllInv
  /\ AllInv /\ [Next]_vars => AllInv'
<1>1. Init => AllInv
  BY LogsInit, ChainInit, BlocksInit DEF AllInv
<1>2. AllInv /\ [Next]_vars => AllInv'
  BY NextKeepsLogs, NextKeepsChain, NextKeepsBlocks DEF AllInv
<1> QED
  BY <1>1, <1>2

(* compute_root_from_proof, verify_against_chain and parse_branch: for     *)
(* blocks of any number of leaves and any index, the branch of a leaf is   *)
(* accepted, and what is accepted is a leaf at the place its index leads   *)
(* to.                                                                     *)
THEOREM InclusionProofsExact == Spec => []InclusionExact
<1>1. AllInv => InclusionExact
  BY InclusionIsExact DEF AllInv
<1> QED
  BY <1>1, AllInvariant, PTL DEF Spec

(* verify_lifecycle with verify_against_chain: what was tampered with is   *)
(* not anchored, and what is anchored began the custodian's own log.       *)
THEOREM AnchoredLogsGenuine == Spec => []AnchoredIsGenuine
<1>1. AllInv => AnchoredIsGenuine
  BY AnchoredGenuine DEF AllInv
<1> QED
  BY <1>1, AllInvariant, PTL DEF Spec

(* The same for any log and any proof, whoever made them up.               *)
THEOREM AnyAnchoredLogGenuine ==
  ASSUME NEW log, NEW proof, NEW height PROVE Spec => []OnlyAnchored(log, proof, height)
<1>1. AllInv => OnlyAnchored(log, proof, height)
  BY AnchoredOnly DEF AllInv
<1> QED
  BY <1>1, AllInvariant, PTL DEF Spec
===============================================================================
