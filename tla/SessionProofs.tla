---------------------------- MODULE SessionProofs ----------------------------
(***************************************************************************)
(* Sessions for every set of sub-sessions, members and payloads: what      *)
(* signatures protect, what a shutdown leaves behind, how often the node   *)
(* is called, and what a restart rebuilds.                                 *)
(***************************************************************************)
EXTENDS Session, FiniteSetTheorems, SequenceTheorems, WellFoundedInduction, TLAPS

-----------------------------------------------------------------------------
(* Sequences and records that are only known by their shape. *)
LEMMA SequenceOfLength ==
  ASSUME NEW q, NEW n \in Nat, q = [i \in 1 .. n |-> q[i]]
  PROVE  Len(q) = n /\ DOMAIN q = 1 .. n
<1>1. q \in [1 .. n -> {q[i] : i \in 1 .. n}]
  OBVIOUS
<1>2. q \in Seq({q[i] : i \in 1 .. n})
  BY <1>1
<1> QED
  BY <1>1, <1>2

LEMMA TxUpdate ==
  ASSUME NEW t, t \in [inputs : {t.inputs}, outputs : {t.outputs}], NEW x
  PROVE  /\ [t EXCEPT !.inputs = x] = [inputs |-> x, outputs |-> t.outputs]
         /\ [t EXCEPT !.outputs = x] = [inputs |-> t.inputs, outputs |-> x]
OBVIOUS

InputShape(x) == x \in [outpoint : {x.outpoint}, unlock : {x.unlock}, sequence : {SEQ_FINAL}]
OutputShape(x) == x \in [value : {x.value}, script : {x.script}]

LEMMA InputUpdate ==
  ASSUME NEW x, InputShape(x), NEW v
  PROVE  /\ [x EXCEPT !.unlock = v] = [outpoint |-> x.outpoint, unlock |-> v, sequence |-> SEQ_FINAL]
         /\ [x EXCEPT !.outpoint = v] = [outpoint |-> v, unlock |-> x.unlock, sequence |-> SEQ_FINAL]
BY DEF InputShape

LEMMA OutputUpdate ==
  ASSUME NEW x, OutputShape(x), NEW v
  PROVE  OutputShape([x EXCEPT !.value = v])
BY DEF OutputShape

LEMMA NewInput ==
  ASSUME NEW o, NEW v
  PROVE  InputShape([outpoint |-> o, unlock |-> v, sequence |-> SEQ_FINAL])
BY DEF InputShape

-----------------------------------------------------------------------------
(* The transaction of a sub-session with n members, whatever was altered:  *)
(* n + 1 inputs, n + 2 outputs, the members' inputs spend their own        *)
(* funding, the last spends a coin of the broadcaster.                     *)
Size(s) == Len(MembersOf[s])

TxShape(t, n) ==
  /\ t \in [inputs : {t.inputs}, outputs : {t.outputs}]
  /\ t.inputs = [i \in 1 .. n + 1 |-> t.inputs[i]]
  /\ t.outputs = [i \in 1 .. n + 2 |-> t.outputs[i]]
  /\ \A i \in 1 .. n + 1 : InputShape(t.inputs[i])
  /\ \A i \in 1 .. n + 2 : OutputShape(t.outputs[i])

FundedBy(t, s) ==
  /\ \A i \in 1 .. Size(s) : t.inputs[i].outpoint = Funding(MembersOf[s][i], s)
  /\ t.inputs[Size(s) + 1].outpoint \in {Funding(Broadcaster, s), Spare(s)}

TxOk(t, s) == TxShape(t, Size(s)) /\ FundedBy(t, s)

LEMMA Sizes ==
  ASSUME NEW s \in Sessions
  PROVE  /\ Size(s) \in Nat /\ DOMAIN MembersOf[s] = 1 .. Size(s)
         /\ \A i \in 1 .. Size(s) : MembersOf[s][i] \in Members
BY SessionAssumption DEF Size

LEMMA ShapeLengths ==
  ASSUME NEW t, NEW n \in Nat, TxShape(t, n)
  PROVE  /\ Len(t.inputs) = n + 1 /\ DOMAIN t.inputs = 1 .. n + 1
         /\ Len(t.outputs) = n + 2 /\ DOMAIN t.outputs = 1 .. n + 2
<1>1. t.inputs = [i \in 1 .. n + 1 |-> t.inputs[i]] /\ n + 1 \in Nat
  BY DEF TxShape
<1>2. t.outputs = [i \in 1 .. n + 2 |-> t.outputs[i]] /\ n + 2 \in Nat
  BY DEF TxShape
<1>3. Len(t.inputs) = n + 1 /\ DOMAIN t.inputs = 1 .. n + 1
  <2> DEFINE q == t.inputs  N == n + 1
  <2>1. q = [i \in 1 .. N |-> q[i]] /\ N \in Nat
    BY <1>1
  <2> HIDE DEF q, N
  <2>2. Len(q) = N /\ DOMAIN q = 1 .. N
    BY <2>1, SequenceOfLength
  <2> QED
    BY <2>2 DEF q, N
<1>4. Len(t.outputs) = n + 2 /\ DOMAIN t.outputs = 1 .. n + 2
  <2> DEFINE q == t.outputs  N == n + 2
  <2>1. q = [i \in 1 .. N |-> q[i]] /\ N \in Nat
    BY <1>2
  <2> HIDE DEF q, N
  <2>2. Len(q) = N /\ DOMAIN q = 1 .. N
    BY <2>1, SequenceOfLength
  <2> QED
    BY <2>2 DEF q, N
<1> QED
  BY <1>3, <1>4

(* Another input in the place of one of them. *)
LEMMA InputReplaced ==
  ASSUME NEW t, NEW n \in Nat, TxShape(t, n), NEW i \in 1 .. n + 1, NEW x, InputShape(x)
  PROVE  LET q == [t EXCEPT !.inputs = [t.inputs EXCEPT ![i] = x]]
         IN  /\ TxShape(q, n) /\ q.outputs = t.outputs
             /\ q.inputs = [j \in 1 .. n + 1 |-> IF j = i THEN x ELSE t.inputs[j]]
<1> DEFINE ins == [t.inputs EXCEPT ![i] = x]
           q == [t EXCEPT !.inputs = ins]
<1>1. ins = [j \in 1 .. n + 1 |-> IF j = i THEN x ELSE t.inputs[j]]
  BY DEF TxShape
<1> HIDE DEF ins
<1>2. q = [inputs |-> ins, outputs |-> t.outputs]
  BY TxUpdate DEF TxShape
<1> HIDE DEF q
<1>3. TxShape(q, n)
  BY <1>1, <1>2 DEF TxShape
<1>4. q.outputs = t.outputs /\ q.inputs = ins
  BY <1>2
<1> QED
  BY <1>1, <1>3, <1>4 DEF q, ins

(* Another output in the place of one of them. *)
LEMMA OutputReplaced ==
  ASSUME NEW t, NEW n \in Nat, TxShape(t, n), NEW i \in 1 .. n + 2, NEW x, OutputShape(x)
  PROVE  LET q == [t EXCEPT !.outputs = [t.outputs EXCEPT ![i] = x]]
         IN  TxShape(q, n) /\ q.inputs = t.inputs
<1> DEFINE outs == [t.outputs EXCEPT ![i] = x]
           q == [t EXCEPT !.outputs = outs]
<1>1. outs = [j \in 1 .. n + 2 |-> IF j = i THEN x ELSE t.outputs[j]]
  BY DEF TxShape
<1> HIDE DEF outs
<1>2. q = [inputs |-> t.inputs, outputs |-> outs]
  BY TxUpdate DEF TxShape
<1> HIDE DEF q
<1>3. TxShape(q, n)
  BY <1>1, <1>2 DEF TxShape
<1> QED
  BY <1>2, <1>3 DEF q, outs

(* apply_unlock changes one unlocking script and nothing else. *)
LEMMA ApplyUnlockOk ==
  ASSUME NEW t, NEW s \in Sessions, TxOk(t, s), NEW i \in 1 .. Size(s) + 1, NEW u
  PROVE  LET q == ApplyUnlock(t, i, u)
         IN  /\ TxOk(q, s) /\ q.outputs = t.outputs /\ Prevouts(q) = Prevouts(t)
             /\ q.inputs[i].unlock = u
             /\ \A j \in 1 .. Size(s) + 1 : j # i => q.inputs[j].unlock = t.inputs[j].unlock
<1> DEFINE x == [t.inputs[i] EXCEPT !.unlock = u]
           q == [t EXCEPT !.inputs = [t.inputs EXCEPT ![i] = x]]
           n == Size(s)
<1>1. ApplyUnlock(t, i, u) = q
  BY DEF ApplyUnlock
<1>2. n \in Nat /\ TxShape(t, n) /\ InputShape(t.inputs[i])
  BY Sizes DEF TxOk, TxShape
<1>3. x = [outpoint |-> t.inputs[i].outpoint, unlock |-> u, sequence |-> SEQ_FINAL]
  BY <1>2, InputUpdate
<1>4. InputShape(x) /\ x.outpoint = t.inputs[i].outpoint /\ x.unlock = u
  BY <1>3, NewInput
<1> HIDE DEF x
<1>5. /\ TxShape(q, n) /\ q.outputs = t.outputs
      /\ q.inputs = [j \in 1 .. n + 1 |-> IF j = i THEN x ELSE t.inputs[j]]
  BY <1>2, <1>4, InputReplaced
<1> HIDE DEF q
<1>6. \A j \in 1 .. n + 1 : q.inputs[j].outpoint = t.inputs[j].outpoint
  BY <1>4, <1>5
<1>7. Prevouts(q) = Prevouts(t)
  <2>1. DOMAIN t.inputs = 1 .. n + 1 /\ DOMAIN q.inputs = 1 .. n + 1
    BY <1>2, <1>5, ShapeLengths
  <2> QED
    BY <1>6, <2>1 DEF Prevouts
<1>8. FundedBy(q, s)
  BY <1>2, <1>6 DEF TxOk, FundedBy
<1> QED
  BY <1>1, <1>4, <1>5, <1>7, <1>8 DEF TxOk

(* One sequence after another. *)
LEMMA Concatenated ==
  ASSUME NEW S, NEW a \in Seq(S), NEW b \in Seq(S)
  PROVE  a \o b = [i \in 1 .. Len(a) + Len(b) |-> IF i <= Len(a) THEN a[i] ELSE b[i - Len(a)]]
<1> DEFINE c == a \o b
           n == Len(a) + Len(b)
<1>1. /\ c \in Seq(S) /\ Len(c) = n
      /\ \A i \in 1 .. n : c[i] = IF i <= Len(a) THEN a[i] ELSE b[i - Len(a)]
  BY ConcatProperties
<1> HIDE DEF c
<1>2. c \in [1 .. n -> S]
  BY <1>1, LenProperties
<1>3. c = [i \in 1 .. n |-> c[i]]
  BY <1>2
<1>4. [i \in 1 .. n |-> c[i]] = [i \in 1 .. n |-> IF i <= Len(a) THEN a[i] ELSE b[i - Len(a)]]
  BY <1>1
<1> QED
  BY <1>3, <1>4 DEF c

(* build_session: the draft has the shape, and no signature. *)
LEMMA DraftOk ==
  ASSUME NEW s \in Sessions, Draft(s) # Err
  PROVE  /\ TxOk(Draft(s), s)
         /\ \A i \in 1 .. Size(s) + 1 : Draft(s).inputs[i].unlock = NoUnlock
<1> DEFINE n == Size(s)
           party == [i \in DOMAIN MembersOf[s] |-> PartySpec(MembersOf[s][i], s)]
           last == PartySpec(Broadcaster, s)
           ins == [i \in 1 .. n |-> InputFor(party[i].funding)]
           outs == [i \in 1 .. n |-> [value |-> party[i].output,
                                      script |-> BareMultisig(party[i].key, last.key)]]
           change == [value |-> last.output, script |-> P2pkh(last.key)]
           allIns == ins \o <<InputFor(last.funding)>>
           allOuts == outs \o <<change, DataCarrier(Placeholder)>>
<1>1. n \in Nat /\ DOMAIN MembersOf[s] = 1 .. n /\ DOMAIN party = 1 .. n
  BY Sizes
<1>2. Draft(s) = [inputs |-> allIns, outputs |-> allOuts]
  BY <1>1 DEF Draft, BuildSession
<1>3. \A i \in 1 .. n : ins[i] = InputFor(Funding(MembersOf[s][i], s))
  BY <1>1 DEF PartySpec
<1>4. InputFor(last.funding) = InputFor(Funding(Broadcaster, s))
  BY DEF PartySpec
<1>5. \A o : InputShape(InputFor(o)) /\ InputFor(o).outpoint = o /\ InputFor(o).unlock = NoUnlock
  BY NewInput DEF InputFor
<1>6. \A i \in 1 .. n : OutputShape(outs[i])
  BY DEF OutputShape
<1>7. OutputShape(change) /\ OutputShape(DataCarrier(Placeholder))
  BY DEF OutputShape, DataCarrier
<1> HIDE DEF party, last, change
<1>8. allIns = [i \in 1 .. n + 1 |-> IF i <= n THEN ins[i] ELSE InputFor(last.funding)]
  <2> DEFINE I == {ins[i] : i \in 1 .. n} \cup {InputFor(last.funding)}
             x == InputFor(last.funding)
  <2>1. ins \in [1 .. n -> I] /\ x \in I
    OBVIOUS
  <2>2. ins \in Seq(I) /\ <<x>> \in Seq(I) /\ Len(ins) = n /\ Len(<<x>>) = 1
    <3> HIDE DEF ins, I, x
    <3> QED
      BY <1>1, <2>1
  <2> HIDE DEF ins, I, x
  <2>3. ins \o <<x>> = [i \in 1 .. n + 1 |-> IF i <= n THEN ins[i] ELSE <<x>>[i - n]]
    BY <2>2, Concatenated
  <2>4. \A i \in 1 .. n + 1 : ~(i <= n) => <<x>>[i - n] = x
    BY <1>1
  <2> QED
    BY <2>3, <2>4 DEF x
<1>9. allOuts = [i \in 1 .. n + 2 |-> IF i <= n THEN outs[i]
                                      ELSE IF i = n + 1 THEN change ELSE DataCarrier(Placeholder)]
  <2> DEFINE carrier == DataCarrier(Placeholder)
             O == {outs[i] : i \in 1 .. n} \cup {change, carrier}
             two == <<change, carrier>>
  <2>1. outs \in [1 .. n -> O] /\ change \in O /\ carrier \in O
    OBVIOUS
  <2>2. /\ outs \in Seq(O) /\ two \in Seq(O) /\ Len(outs) = n /\ Len(two) = 2
        /\ two[1] = change /\ two[2] = carrier
    <3> HIDE DEF outs, O, carrier
    <3> QED
      BY <1>1, <2>1
  <2> HIDE DEF outs, O, carrier, two
  <2>3. outs \o two = [i \in 1 .. n + 2 |-> IF i <= n THEN outs[i] ELSE two[i - n]]
    <3>1. outs \in Seq(O) /\ two \in Seq(O)
      BY <2>2
    <3>2. outs \o two = [i \in 1 .. Len(outs) + Len(two) |->
                           IF i <= Len(outs) THEN outs[i] ELSE two[i - Len(outs)]]
      BY <3>1, Concatenated
    <3> QED
      BY <2>2, <3>2
  <2>4. ASSUME NEW i \in 1 .. n + 2, ~(i <= n)
        PROVE  two[i - n] = IF i = n + 1 THEN change ELSE carrier
    <3>1. i = n + 1 \/ i = n + 2
      BY <1>1, <2>4
    <3>2. (n + 1) - n = 1 /\ (n + 2) - n = 2 /\ n + 2 # n + 1
      BY <1>1
    <3> QED
      BY <2>2, <3>1, <3>2
  <2>5. outs \o two = [i \in 1 .. n + 2 |-> IF i <= n THEN outs[i]
                                             ELSE IF i = n + 1 THEN change ELSE carrier]
    BY <2>3, <2>4
  <2> QED
    BY <2>5 DEF carrier, two
<1> DEFINE d == [inputs |-> allIns, outputs |-> allOuts]
<1> HIDE DEF allIns, allOuts
<1>10. d \in [inputs : {d.inputs}, outputs : {d.outputs}] /\ d.inputs = allIns /\ d.outputs = allOuts
  OBVIOUS
<1> HIDE DEF d, ins, outs
<1>11. \A i \in 1 .. n + 1 :
         /\ InputShape(d.inputs[i]) /\ d.inputs[i].unlock = NoUnlock
         /\ d.inputs[i].outpoint = IF i <= n THEN Funding(MembersOf[s][i], s)
                                   ELSE Funding(Broadcaster, s)
  BY <1>1, <1>3, <1>4, <1>5, <1>8, <1>10
<1>12. \A i \in 1 .. n + 2 : OutputShape(d.outputs[i])
  BY <1>1, <1>6, <1>7, <1>9, <1>10
<1>13. TxShape(d, n)
  BY <1>8, <1>9, <1>10, <1>11, <1>12 DEF TxShape
<1>14. FundedBy(d, s)
  BY <1>1, <1>11 DEF FundedBy
<1> QED
  BY <1>2, <1>11, <1>13, <1>14 DEF TxOk, d

(* The broadcaster sets the data carrier. *)
LEMMA CarrierOk ==
  ASSUME NEW t, NEW s \in Sessions, TxOk(t, s), NEW p
  PROVE  LET q == [t EXCEPT !.outputs[CarrierIndex(t)] = DataCarrier(p)]
         IN  TxOk(q, s) /\ q.inputs = t.inputs
<1> DEFINE n == Size(s)
<1>1. n \in Nat /\ TxShape(t, n) /\ CarrierIndex(t) = n + 2 /\ n + 2 \in 1 .. n + 2
  BY Sizes, ShapeLengths DEF TxOk, CarrierIndex
<1>2. OutputShape(DataCarrier(p))
  BY DEF OutputShape, DataCarrier
<1> DEFINE q == [t EXCEPT !.outputs = [t.outputs EXCEPT ![n + 2] = DataCarrier(p)]]
<1>3. TxShape(q, n) /\ q.inputs = t.inputs
  BY <1>1, <1>2, OutputReplaced
<1>4. [t EXCEPT !.outputs[CarrierIndex(t)] = DataCarrier(p)] = q
  BY <1>1
<1> HIDE DEF q
<1> QED
  BY <1>3, <1>4 DEF TxOk, FundedBy

-----------------------------------------------------------------------------
(* What the two kinds of signature cover. *)
MemberFields(prevouts, own, m, s) ==
  [prevouts |-> prevouts, sequences |-> Zero, outpoint |-> Funding(m, s),
   script |-> P2pkh(m), value |-> Value, sequence |-> SEQ_FINAL,
   outputs |-> <<own>>, flag |-> MEMBER_FLAG]

LEMMA MemberDigestFields ==
  ASSUME NEW t, NEW s \in Sessions, TxOk(t, s), NEW i \in 1 .. Size(s)
  PROVE  MemberDigest(t, i, MembersOf[s][i], Value)
           = MemberFields(Prevouts(t), t.outputs[i], MembersOf[s][i], s)
<1>1. /\ Size(s) \in Nat /\ i \in DOMAIN t.inputs /\ ~(i > Len(t.outputs))
  BY Sizes, ShapeLengths DEF TxOk
<1>2. t.inputs[i].outpoint = Funding(MembersOf[s][i], s) /\ t.inputs[i].sequence = SEQ_FINAL
  BY <1>1 DEF TxOk, TxShape, FundedBy, InputShape
<1>3. MEMBER_FLAG.base = "SINGLE" /\ MEMBER_FLAG.anyone = FALSE
  BY DEF MEMBER_FLAG, FlagSingle, Flag
<1>4. /\ HashPrevouts(t, MEMBER_FLAG) = Prevouts(t)
      /\ HashSequence(t, MEMBER_FLAG) = Zero
      /\ OutputsHash(t, MEMBER_FLAG, i) = <<t.outputs[i]>>
  BY <1>3 DEF HashPrevouts, HashSequence, OutputsHash
<1> QED
  BY <1>1, <1>2, <1>4 DEF MemberDigest, Sighash, MemberFields

LEMMA BroadcasterDigestFields ==
  ASSUME NEW t, NEW s \in Sessions, TxOk(t, s)
  PROVE  LET d == BroadcasterDigest(t, Broadcaster, Value)
         IN  d.flag = FlagAll /\ d.outputs = t.outputs /\ d.prevouts = Prevouts(t)
<1>1. /\ Size(s) \in Nat /\ BroadcasterIndex(t) = Size(s) + 1
      /\ Size(s) + 1 \in DOMAIN t.inputs
  BY Sizes, ShapeLengths DEF TxOk, BroadcasterIndex
<1>2. FlagAll.base = "ALL" /\ FlagAll.anyone = FALSE
  BY DEF FlagAll, Flag
<1>3. \A i : /\ HashPrevouts(t, FlagAll) = Prevouts(t)
             /\ OutputsHash(t, FlagAll, i) = t.outputs
  BY <1>2 DEF HashPrevouts, OutputsHash
<1> QED
  BY <1>1, <1>2, <1>3 DEF BroadcasterDigest, Sighash, BROADCASTER_FLAG

(* A recorded consent: the signature covers what the member saw.           *)
Consent(a) ==
  /\ a.session \in Sessions /\ a.key \in Members
  /\ a.view \in [own : {a.view.own}, prevouts : {a.view.prevouts}]
  /\ a.unlock = Unlock(a.key, MemberFields(a.view.prevouts, a.view.own, a.key, a.session))

(* Nobody else can make a signature: an unlocking script is empty, or a    *)
(* recorded consent of a member, or over something the broadcaster sealed, *)
(* or the stranger's own.                                                  *)
Genuine(u, consents, seals) ==
  \/ u = NoUnlock
  \/ \E a \in consents : u = a.unlock
  \/ /\ u.by = Broadcaster /\ u.digest.flag = FlagAll
     /\ \E x \in seals : x.outputs = u.digest.outputs /\ x.prevouts = u.digest.prevouts
  \/ u.by = Stranger

SignaturesOk(t, s, consents, seals) ==
  \A i \in 1 .. Size(s) + 1 : Genuine(t.inputs[i].unlock, consents, seals)

SignedAs(t, consents, seals) ==
  /\ \E x \in seals : x.outputs = t.outputs /\ x.prevouts = Prevouts(t)
  /\ \A i \in 1 .. Len(t.inputs) - 1 :
       \E a \in consents : a.key = t.inputs[i].unlock.by /\ a.view = View(t, i)

(* A member's signature is one of its recorded consents.                   *)
LEMMA MembersOwn ==
  ASSUME NEW consents, NEW seals, NEW u, Genuine(u, consents, seals), u # NoUnlock,
         u.by \in Members, \A a \in consents : Consent(a)
  PROVE  \E a \in consents : a.unlock = u /\ a.key = u.by
<1>1. u.by # Broadcaster /\ u.by # Stranger
  BY SessionAssumption
<1>2. PICK a \in consents : u = a.unlock
  BY <1>1 DEF Genuine
<1>3. u = Unlock(a.key, MemberFields(a.view.prevouts, a.view.own, a.key, a.session))
  BY <1>2 DEF Consent
<1>4. u.by = a.key
  BY <1>3 DEF Unlock
<1> QED
  BY <1>2, <1>4

(* The broadcaster's is over something it sealed.                          *)
LEMMA BroadcastersOwn ==
  ASSUME NEW consents, NEW seals, NEW u, Genuine(u, consents, seals), u # NoUnlock,
         u.by = Broadcaster, \A a \in consents : Consent(a)
  PROVE  /\ u.digest.flag = FlagAll
         /\ \E x \in seals : x.outputs = u.digest.outputs /\ x.prevouts = u.digest.prevouts
<1>1. Broadcaster # Stranger /\ Broadcaster \notin Members
  BY SessionAssumption
<1>2. ASSUME NEW a \in consents, u = a.unlock
      PROVE  FALSE
  <2>1. u = Unlock(a.key, MemberFields(a.view.prevouts, a.view.own, a.key, a.session)) /\ a.key \in Members
    BY <1>2 DEF Consent
  <2>2. u.by = a.key
    BY <2>1 DEF Unlock
  <2> QED
    BY <1>1, <2>1, <2>2
<1> QED
  BY <1>1, <1>2 DEF Genuine

(* What the node accepts is what the broadcaster and the members signed.   *)
LEMMA AcceptedOnlyAsSigned ==
  ASSUME NEW t, NEW s \in Sessions, NEW consents, NEW seals, TxOk(t, s),
         SignaturesOk(t, s, consents, seals), \A a \in consents : Consent(a), Accepts(t)
  PROVE  SignedAs(t, consents, seals)
<1> DEFINE n == Size(s)
<1>1. /\ n \in Nat /\ DOMAIN t.inputs = 1 .. n + 1 /\ Len(t.inputs) = n + 1
      /\ Len(t.outputs) = n + 2
  BY Sizes, ShapeLengths DEF TxOk
<1>2. ASSUME NEW i \in 1 .. n + 1
      PROVE  LET u == t.inputs[i].unlock
                 lock == LockOf(t.inputs[i].outpoint)
             IN  /\ u # NoUnlock /\ u.by = t.inputs[i].outpoint[1]
                 /\ u.digest = Sighash(t, i, lock, Value, u.digest.flag)
  BY <1>1, <1>2 DEF Accepts, NodeAccepts, LockOf, P2pkh
<1>3. \E x \in seals : x.outputs = t.outputs /\ x.prevouts = Prevouts(t)
  <2> DEFINE u == t.inputs[n + 1].unlock
             lock == LockOf(t.inputs[n + 1].outpoint)
  <2>1. /\ u.digest.flag = FlagAll
        /\ \E x \in seals : x.outputs = u.digest.outputs /\ x.prevouts = u.digest.prevouts
        /\ u.digest = Sighash(t, n + 1, lock, Value, FlagAll)
    <3>1. n + 1 \in 1 .. n + 1
      BY <1>1
    <3>2. u # NoUnlock /\ u.digest = Sighash(t, n + 1, lock, Value, u.digest.flag)
      BY <1>2, <3>1
    <3>3. u.by = Broadcaster
      BY <1>2, <3>1 DEF TxOk, FundedBy, Funding, Spare
    <3>4. Genuine(u, consents, seals)
      BY <3>1 DEF SignaturesOk
    <3> HIDE DEF u
    <3>5. /\ u.digest.flag = FlagAll
          /\ \E x \in seals : x.outputs = u.digest.outputs /\ x.prevouts = u.digest.prevouts
      BY <3>2, <3>3, <3>4, BroadcastersOwn
    <3> QED
      BY <3>2, <3>5
  <2>2. FlagAll.base = "ALL" /\ FlagAll.anyone = FALSE
    BY DEF FlagAll, Flag
  <2>3. HashPrevouts(t, FlagAll) = Prevouts(t) /\ OutputsHash(t, FlagAll, n + 1) = t.outputs
    BY <2>2 DEF HashPrevouts, OutputsHash
  <2>4. LET d == Sighash(t, n + 1, lock, Value, FlagAll)
        IN  d.outputs = t.outputs /\ d.prevouts = Prevouts(t)
    BY <1>1, <2>2, <2>3 DEF Sighash
  <2> QED
    BY <2>1, <2>4
<1>4. ASSUME NEW i \in 1 .. n
      PROVE  \E a \in consents : a.key = t.inputs[i].unlock.by /\ a.view = View(t, i)
  <2> DEFINE u == t.inputs[i].unlock
             lock == LockOf(t.inputs[i].outpoint)
  <2>1. i \in 1 .. n + 1 /\ ~(i > Len(t.outputs))
    BY <1>1
  <2>2. PICK a \in consents : a.unlock = u /\ a.key = u.by
    <3>1. u # NoUnlock /\ u.by = MembersOf[s][i] /\ MembersOf[s][i] \in Members
      BY <1>2, <2>1, Sizes DEF TxOk, FundedBy, Funding
    <3>2. Genuine(u, consents, seals)
      BY <2>1 DEF SignaturesOk
    <3> HIDE DEF u
    <3> QED
      BY <3>1, <3>2, MembersOwn
  <2>3. /\ u = Unlock(a.key, MemberFields(a.view.prevouts, a.view.own, a.key, a.session))
        /\ a.view \in [own : {a.view.own}, prevouts : {a.view.prevouts}]
    BY <2>2 DEF Consent
  <2>4. u.digest = MemberFields(a.view.prevouts, a.view.own, a.key, a.session)
    BY <2>3 DEF Unlock
  <2>5. /\ u.digest.flag = MEMBER_FLAG /\ u.digest.prevouts = a.view.prevouts
        /\ u.digest.outputs = <<a.view.own>>
    BY <2>4 DEF MemberFields
  <2>6. MEMBER_FLAG.base = "SINGLE" /\ MEMBER_FLAG.anyone = FALSE
    BY DEF MEMBER_FLAG, FlagSingle, Flag
  <2>7. /\ HashPrevouts(t, MEMBER_FLAG) = Prevouts(t)
        /\ OutputsHash(t, MEMBER_FLAG, i) = <<t.outputs[i]>>
    BY <2>6 DEF HashPrevouts, OutputsHash
  <2>8. LET d == Sighash(t, i, lock, Value, MEMBER_FLAG)
        IN  d.prevouts = Prevouts(t) /\ d.outputs = <<t.outputs[i]>>
    BY <1>1, <2>1, <2>6, <2>7 DEF Sighash
  <2>9. u.digest = Sighash(t, i, lock, Value, MEMBER_FLAG)
    BY <1>2, <2>1, <2>5
  <2>10. a.view.prevouts = Prevouts(t) /\ a.view.own = t.outputs[i]
    BY <2>5, <2>8, <2>9
  <2>11. a.view = View(t, i)
    BY <2>3, <2>10 DEF View
  <2> QED
    BY <2>2, <2>11
<1>5. Len(t.inputs) - 1 = n
  BY <1>1
<1> QED
  BY <1>3, <1>4, <1>5 DEF SignedAs

(* More consents and seals take nothing back. *)
LEMMA SignaturesGrow ==
  ASSUME NEW A, NEW B, A \subseteq B, NEW Y, NEW Z, Y \subseteq Z, NEW t, NEW s
  PROVE  /\ SignaturesOk(t, s, A, Y) => SignaturesOk(t, s, B, Z)
         /\ SignedAs(t, A, Y) => SignedAs(t, B, Z)
         /\ \A u : Genuine(u, A, Y) => Genuine(u, B, Z)
<1>1. \A u : Genuine(u, A, Y) => Genuine(u, B, Z)
  BY DEF Genuine
<1> QED
  BY <1>1 DEF SignaturesOk, SignedAs

(* One unlocking script is replaced by a genuine one. *)
LEMMA UnlockReplaced ==
  ASSUME NEW t, NEW s \in Sessions, TxOk(t, s), NEW i \in 1 .. Size(s) + 1, NEW u,
         NEW A, NEW Z, SignaturesOk(t, s, A, Z), Genuine(u, A, Z)
  PROVE  TxOk(ApplyUnlock(t, i, u), s) /\ SignaturesOk(ApplyUnlock(t, i, u), s, A, Z)
<1> DEFINE q == ApplyUnlock(t, i, u)
<1>1. /\ TxOk(q, s) /\ q.inputs[i].unlock = u
      /\ \A j \in 1 .. Size(s) + 1 : j # i => q.inputs[j].unlock = t.inputs[j].unlock
  BY ApplyUnlockOk
<1> HIDE DEF q
<1>2. ASSUME NEW j \in 1 .. Size(s) + 1 PROVE Genuine(q.inputs[j].unlock, A, Z)
  <2>1. CASE j = i
    BY <1>1, <2>1
  <2>2. CASE j # i
    BY <1>1, <2>2 DEF SignaturesOk
  <2> QED
    BY <2>1, <2>2
<1> QED
  BY <1>1, <1>2 DEF SignaturesOk, q

(* The inductive invariant of the drafts and of what the node has. *)
DraftInv ==
  /\ tx = [s \in Sessions |-> tx[s]]
  /\ \A s \in Sessions : tx[s] = NoTx \/ (TxOk(tx[s], s) /\ SignaturesOk(tx[s], s, agreed, sealed))
  /\ \A a \in agreed : Consent(a)
  /\ \A e \in mail : Genuine(e.component.unlock, agreed, sealed)

NodeInv == \A t \in mempool \cup mined : SignedAs(t, agreed, sealed)

(* What anybody puts into an input is genuine: copied, or the stranger's.  *)
LEMMA ForgedIsGenuine ==
  ASSUME DraftInv, NEW t, NEW s \in Sessions, NEW i, NEW u \in Forged(t, s, i)
  PROVE  Genuine(u, agreed, sealed)
<1>1. CASE u \in {a.unlock : a \in agreed}
  BY <1>1 DEF Genuine
<1>2. CASE \E r \in Sessions : \E j \in DOMAIN tx[r].inputs : u = tx[r].inputs[j].unlock
  <2>1. PICK r \in Sessions : \E j \in DOMAIN tx[r].inputs : u = tx[r].inputs[j].unlock
    BY <1>2
  <2>2. PICK j \in DOMAIN tx[r].inputs : u = tx[r].inputs[j].unlock
    BY <2>1
  <2>3. tx[r] # NoTx
    BY <2>2 DEF NoTx
  <2>4. TxOk(tx[r], r) /\ SignaturesOk(tx[r], r, agreed, sealed)
    BY <2>3 DEF DraftInv
  <2>5. j \in 1 .. Size(r) + 1
    BY <2>2, <2>4, Sizes, ShapeLengths DEF TxOk
  <2> QED
    BY <2>2, <2>4, <2>5 DEF SignaturesOk
<1>3. CASE \E d : u = Unlock(Stranger, d)
  BY <1>3 DEF Unlock, Genuine
<1> QED
  BY <1>1, <1>2, <1>3 DEF Forged, Seen

(* What anybody can alter leaves the shape, and no signature but genuine   *)
(* ones.                                                                   *)
LEMMA AlteredOk ==
  ASSUME DraftInv, NEW t, NEW s \in Sessions, TxOk(t, s), SignaturesOk(t, s, agreed, sealed),
         NEW q \in Altered(t, s)
  PROVE  TxOk(q, s) /\ SignaturesOk(q, s, agreed, sealed)
<1> DEFINE n == Size(s)
<1>1. n \in Nat /\ TxShape(t, n) /\ BroadcasterIndex(t) = n + 1
      /\ n + 1 \in 1 .. n + 1 /\ 1 \in 1 .. n + 2
  BY Sizes, ShapeLengths DEF TxOk, BroadcasterIndex
<1>2. CASE q = [t EXCEPT !.outputs[CarrierIndex(t)] = DataCarrier("other")]
  BY <1>2, CarrierOk DEF SignaturesOk
<1>3. CASE q = [t EXCEPT !.outputs[1].value = 0]
  <2> DEFINE x == [t.outputs[1] EXCEPT !.value = 0]
  <2>1. OutputShape(x)
    BY <1>1, OutputUpdate DEF TxShape
  <2>2. q = [t EXCEPT !.outputs = [t.outputs EXCEPT ![1] = x]]
    BY <1>3
  <2> HIDE DEF x
  <2>3. TxShape(q, n) /\ q.inputs = t.inputs
    BY <1>1, <2>1, <2>2, OutputReplaced
  <2> QED
    BY <2>3 DEF TxOk, FundedBy, SignaturesOk
<1>4. CASE q = [t EXCEPT !.inputs[BroadcasterIndex(t)].outpoint = Spare(s)]
  <2> DEFINE x == [t.inputs[n + 1] EXCEPT !.outpoint = Spare(s)]
  <2>1. x = [outpoint |-> Spare(s), unlock |-> t.inputs[n + 1].unlock, sequence |-> SEQ_FINAL]
    BY <1>1, InputUpdate DEF TxShape
  <2>2. InputShape(x) /\ x.outpoint = Spare(s) /\ x.unlock = t.inputs[n + 1].unlock
    BY <2>1, NewInput
  <2>3. q = [t EXCEPT !.inputs = [t.inputs EXCEPT ![n + 1] = x]]
    BY <1>1, <1>4
  <2> HIDE DEF x
  <2>4. /\ TxShape(q, n)
        /\ q.inputs = [j \in 1 .. n + 1 |-> IF j = n + 1 THEN x ELSE t.inputs[j]]
    BY <1>1, <2>2, <2>3, InputReplaced
  <2>5. FundedBy(q, s)
    BY <1>1, <2>2, <2>4 DEF TxOk, FundedBy
  <2>6. \A j \in 1 .. n + 1 : q.inputs[j].unlock = t.inputs[j].unlock
    BY <2>2, <2>4
  <2> QED
    BY <2>4, <2>5, <2>6 DEF TxOk, SignaturesOk
<1>5. CASE \E i \in DOMAIN t.inputs : \E u \in Forged(t, s, i) : q = ApplyUnlock(t, i, u)
  <2>1. PICK i \in DOMAIN t.inputs : \E u \in Forged(t, s, i) : q = ApplyUnlock(t, i, u)
    BY <1>5
  <2>2. PICK u \in Forged(t, s, i) : q = ApplyUnlock(t, i, u)
    BY <2>1
  <2>3. i \in 1 .. n + 1 /\ Genuine(u, agreed, sealed)
    BY <1>1, <2>1, <2>2, ShapeLengths, ForgedIsGenuine
  <2> QED
    BY <2>2, <2>3, UnlockReplaced
<1> QED
  BY <1>2, <1>3, <1>4, <1>5 DEF Altered

(* A step that changes one transaction, and may add consents and seals.    *)
LEMMA OneTxChanges ==
  ASSUME DraftInv, NEW s \in Sessions, NEW t, tx' = [tx EXCEPT ![s] = t],
         t = NoTx \/ (TxOk(t, s) /\ SignaturesOk(t, s, agreed', sealed')),
         agreed \subseteq agreed', sealed \subseteq sealed', mail' = mail,
         \A a \in agreed' : Consent(a)
  PROVE  DraftInv'
<1>1. tx'[s] = t /\ \A r \in Sessions : r # s => tx'[r] = tx[r]
  BY DEF DraftInv
<1>2. tx' = [r \in Sessions |-> tx'[r]]
  BY DEF DraftInv
<1>3. ASSUME NEW r \in Sessions
      PROVE  tx'[r] = NoTx \/ (TxOk(tx'[r], r) /\ SignaturesOk(tx'[r], r, agreed', sealed'))
  <2>1. CASE r = s
    BY <1>1, <2>1
  <2>2. CASE r # s
    BY <1>1, <2>2, SignaturesGrow DEF DraftInv
  <2> QED
    BY <2>1, <2>2
<1>4. \A e \in mail' : Genuine(e.component.unlock, agreed', sealed')
  BY SignaturesGrow DEF DraftInv
<1> QED
  BY <1>2, <1>3, <1>4 DEF DraftInv, TxOk, FundedBy, Consent

(* build_session. *)
LEMMA BuildKeepsDrafts ==
  ASSUME DraftInv, NEW s \in Sessions, Build(s)
  PROVE  DraftInv'
<1>1. /\ Draft(s) # Err /\ tx' = [tx EXCEPT ![s] = Draft(s)]
      /\ UNCHANGED <<mail, agreed, sealed>>
  BY DEF Build
<1>2. TxOk(Draft(s), s) /\ \A i \in 1 .. Size(s) + 1 : Draft(s).inputs[i].unlock = NoUnlock
  BY <1>1, DraftOk
<1>3. SignaturesOk(Draft(s), s, agreed', sealed')
  BY <1>2 DEF SignaturesOk, Genuine
<1> QED
  BY <1>1, <1>2, <1>3, OneTxChanges DEF DraftInv

(* sign_member: the consent that is recorded covers what the member saw.   *)
LEMMA MemberSignsConsent ==
  ASSUME DraftInv, NEW s \in Sessions, NEW i \in DOMAIN MembersOf[s], tx[s] # NoTx
  PROVE  LET m == MembersOf[s][i]
             d == MemberDigest(tx[s], i, m, Value)
         IN  Consent([key |-> m, session |-> s, view |-> View(tx[s], i), unlock |-> Unlock(m, d)])
<1>1. i \in 1 .. Size(s) /\ MembersOf[s][i] \in Members /\ TxOk(tx[s], s)
  BY Sizes DEF DraftInv
<1>2. MemberDigest(tx[s], i, MembersOf[s][i], Value)
        = MemberFields(Prevouts(tx[s]), tx[s].outputs[i], MembersOf[s][i], s)
  BY <1>1, MemberDigestFields
<1> DEFINE v == View(tx[s], i)
<1>3. /\ v.own = tx[s].outputs[i] /\ v.prevouts = Prevouts(tx[s])
      /\ v \in [own : {v.own}, prevouts : {v.prevouts}]
  BY DEF View
<1> HIDE DEF v
<1> QED
  BY <1>1, <1>2, <1>3 DEF Consent, v

LEMMA MemberSignsKeepsDrafts ==
  ASSUME DraftInv, NEW s \in Sessions, NEW i \in DOMAIN MembersOf[s], MemberSigns(s, i)
  PROVE  DraftInv'
<1> DEFINE m == MembersOf[s][i]
           u == Unlock(m, MemberDigest(tx[s], i, m, Value))
           a == [key |-> m, session |-> s, view |-> View(tx[s], i), unlock |-> u]
           c == [index |-> i, unlock |-> u]
           e == Seal(c, Binding(s))
<1>1. /\ tx[s] # NoTx /\ mail' = mail \cup {e} /\ agreed' = agreed \cup {a}
      /\ tx' = tx /\ sealed' = sealed
  BY DEF MemberSigns
<1>2. Consent(a)
  BY <1>1, MemberSignsConsent
<1>3. a.unlock = u /\ a.session = s
  OBVIOUS
<1>4. e.component.unlock = u
  BY DEF Seal
<1> HIDE DEF a, e, u
<1>5. \A b \in agreed' : Consent(b)
  BY <1>1, <1>2 DEF DraftInv
<1>6. \A r \in Sessions : tx[r] = NoTx \/ (TxOk(tx[r], r) /\ SignaturesOk(tx[r], r, agreed', sealed'))
  BY <1>1, SignaturesGrow DEF DraftInv
<1>7. \A f \in mail' : Genuine(f.component.unlock, agreed', sealed')
  <2>1. Genuine(u, agreed', sealed')
    BY <1>1, <1>3 DEF Genuine
  <2>2. \A f \in mail : Genuine(f.component.unlock, agreed', sealed')
    BY <1>1, SignaturesGrow DEF DraftInv
  <2> QED
    BY <1>1, <1>4, <2>1, <2>2
<1> QED
  BY <1>1, <1>5, <1>6, <1>7 DEF DraftInv, TxOk, FundedBy, Consent

(* SecureChannel::open: whoever sealed the component, its unlocking script *)
(* is genuine.                                                             *)
LEMMA ReceivedIsGenuine ==
  ASSUME DraftInv, NEW s \in Sessions, NEW e \in mail \cup OtherMail(s)
  PROVE  Genuine(e.component.unlock, agreed, sealed)
<1>1. CASE e \in mail
  BY <1>1 DEF DraftInv
<1>2. CASE e \in OtherMail(s)
  <2>1. tx[s] # NoTx
    BY <1>2 DEF OtherMail
  <2>2. PICK i \in DOMAIN MembersOf[s] :
          e \in {Seal([index |-> i, unlock |-> u], Binding(s)) : u \in Forged(tx[s], s, i)}
    BY <1>2, <2>1 DEF OtherMail
  <2>3. PICK u \in Forged(tx[s], s, i) : e = Seal([index |-> i, unlock |-> u], Binding(s))
    BY <2>2
  <2>4. e.component.unlock = u
    BY <2>3 DEF Seal
  <2> QED
    BY <2>3, <2>4, ForgedIsGenuine
<1> QED
  BY <1>1, <1>2

LEMMA ReceiveKeepsDrafts ==
  ASSUME DraftInv, NEW s \in Sessions, NEW e \in mail \cup OtherMail(s), Receive(s, e)
  PROVE  DraftInv'
<1> DEFINE i == e.component.index
           u == e.component.unlock
           t == ApplyUnlock(tx[s], i, u)
<1>1. /\ tx[s] # NoTx /\ i \in DOMAIN MembersOf[s]
      /\ tx' = [tx EXCEPT ![s] = ApplyUnlock(tx[s], i, u)]
      /\ UNCHANGED <<mail, agreed, sealed>>
  BY DEF Receive, DraftInv
<1>2. Size(s) \in Nat /\ i \in 1 .. Size(s) + 1
  BY <1>1, Sizes
<1>3. TxOk(tx[s], s) /\ SignaturesOk(tx[s], s, agreed, sealed) /\ Genuine(u, agreed, sealed)
  BY <1>1, ReceivedIsGenuine DEF DraftInv
<1> HIDE DEF u, i
<1>4. TxOk(t, s) /\ SignaturesOk(t, s, agreed, sealed)
  BY <1>2, <1>3, UnlockReplaced
<1> HIDE DEF t
<1> QED
  BY <1>1, <1>4, OneTxChanges DEF DraftInv, t

(* The broadcaster seals exactly what it signs. *)
LEMMA BroadcasterSignsKeepsDrafts ==
  ASSUME DraftInv, NEW s \in Sessions, NEW p, BroadcasterSigns(s, p), tx[s] # NoTx
  PROVE  DraftInv'
<1> DEFINE c == [tx[s] EXCEPT !.outputs[CarrierIndex(tx[s])] = DataCarrier(p)]
           d == BroadcasterDigest(c, Broadcaster, Value)
           t == SignBroadcaster(c, Broadcaster, Value)
           z == [session |-> s, life |-> shutdowns, outputs |-> c.outputs, prevouts |-> Prevouts(c)]
           n == Size(s)
<1>1. /\ tx' = [tx EXCEPT ![s] = t] /\ sealed' = sealed \cup {z}
      /\ UNCHANGED <<mail, agreed>>
  BY DEF BroadcasterSigns
<1>2. TxOk(tx[s], s) /\ SignaturesOk(tx[s], s, agreed, sealed)
  BY DEF DraftInv
<1>3. TxOk(c, s) /\ c.inputs = tx[s].inputs
  BY <1>2, CarrierOk
<1> HIDE DEF c
<1>4. d.flag = FlagAll /\ d.outputs = c.outputs /\ d.prevouts = Prevouts(c)
  BY <1>3, BroadcasterDigestFields
<1>5. n \in Nat /\ BroadcasterIndex(c) = n + 1 /\ n + 1 \in 1 .. n + 1
  BY <1>3, Sizes, ShapeLengths DEF TxOk, BroadcasterIndex
<1>6. t = ApplyUnlock(c, n + 1, Unlock(Broadcaster, d))
  BY <1>5 DEF SignBroadcaster
<1> HIDE DEF d, t
<1>7. Genuine(Unlock(Broadcaster, d), agreed, sealed')
  <2> DEFINE u == Unlock(Broadcaster, d)
  <2>1. u.digest = d /\ u.by = Broadcaster
    BY DEF Unlock
  <2>2. z \in sealed' /\ z.outputs = d.outputs /\ z.prevouts = d.prevouts
    BY <1>1, <1>4
  <2> HIDE DEF u, z
  <2>3. Genuine(u, agreed, sealed')
    BY <1>4, <2>1, <2>2 DEF Genuine
  <2> QED
    BY <2>3 DEF u
<1>8. TxOk(t, s) /\ SignaturesOk(t, s, agreed, sealed')
  <2>1. SignaturesOk(c, s, agreed, sealed')
    BY <1>1, <1>2, <1>3, SignaturesGrow DEF SignaturesOk
  <2> QED
    BY <1>3, <1>5, <1>6, <1>7, <2>1, UnlockReplaced
<1>9. agreed' = agreed /\ sealed \subseteq sealed' /\ mail' = mail
  BY <1>1
<1> HIDE DEF z
<1> QED
  BY <1>1, <1>8, <1>9, OneTxChanges DEF DraftInv

(* What anybody alters before the commit. *)
LEMMA TamperKeepsDrafts ==
  ASSUME DraftInv, NEW s \in Sessions, Tamper(s)
  PROVE  DraftInv'
<1>1. PICK t \in Altered(tx[s], s) : tx' = [tx EXCEPT ![s] = t]
  BY DEF Tamper
<1>2. tx[s] # NoTx /\ UNCHANGED <<mail, agreed, sealed>>
  BY DEF Tamper
<1>3. TxOk(tx[s], s) /\ SignaturesOk(tx[s], s, agreed, sealed)
  BY <1>2 DEF DraftInv
<1>4. TxOk(t, s) /\ SignaturesOk(t, s, agreed, sealed)
  BY <1>3, AlteredOk
<1> QED
  BY <1>1, <1>2, <1>4, OneTxChanges DEF DraftInv

-----------------------------------------------------------------------------
(* The in-flight flags of one sub-session and its transaction: member      *)
(* signatures are only counted on a draft, a commit is of a verified       *)
(* transaction, and the broadcaster's flag is of a signature it has made   *)
(* since the last shutdown.                                                *)
Verified(t, s) ==
  /\ \A i \in DOMAIN MembersOf[s] : VerifyMember(t, i, MembersOf[s][i], Value)
  /\ VerifyBroadcaster(t, Broadcaster, Value)

Flags == [member : BOOLEAN, broadcaster : BOOLEAN, committed : BOOLEAN]

SealedSince(s, seals, life) == \E x \in seals : x.session = s /\ x.life = life

FlightOk(f, t, s, seals, life) ==
  /\ f.member => t # NoTx
  /\ f.committed => f.member /\ Verified(t, s)
  /\ f.broadcaster /\ ~f.committed => SealedSince(s, seals, life)

FlightInv ==
  /\ flight \in [Sessions -> Flags] /\ stopped \in BOOLEAN
  /\ \A s \in Sessions : FlightOk(flight[s], tx[s], s, sealed, shutdowns)

LEMMA FlagUpdates ==
  ASSUME NEW f \in Flags
  PROVE  /\ InFlightSignMember(f) \in Flags /\ InFlightSignMember(f).member = TRUE
         /\ InFlightSignMember(f).committed = f.committed
         /\ InFlightSignMember(f).broadcaster = f.broadcaster
         /\ InFlightSignBroadcaster(f) \in Flags
         /\ InFlightSignBroadcaster(f).member = f.member
         /\ InFlightSignBroadcaster(f).committed = f.committed
         /\ InFlightCommit(f) \in Flags /\ InFlightCommit(f).member = f.member
         /\ InFlightCommit(f).broadcaster = f.broadcaster
         /\ InFlightCommit(f).committed => f.committed \/ (f.member /\ f.broadcaster)
         /\ GracefulShutdown(f) \in Flags
         /\ GracefulShutdown(f).committed = f.committed
         /\ f.committed => GracefulShutdown(f) = f
         /\ ~f.committed => GracefulShutdown(f) = NewInFlight
BY DEF Flags, InFlightSignMember, InFlightSignBroadcaster, InFlightCommit,
       GracefulShutdown, NewInFlight

LEMMA NotNoTx ==
  ASSUME NEW t, NEW s \in Sessions, TxOk(t, s)
  PROVE  t # NoTx
<1>1. Len(t.inputs) = Size(s) + 1 /\ Size(s) \in Nat
  BY Sizes, ShapeLengths DEF TxOk
<1>2. Len(NoTx.inputs) = 0
  BY DEF NoTx
<1> QED
  BY <1>1, <1>2

(* A step that concerns one sub-session. *)
LEMMA OneFlightChanges ==
  ASSUME FlightInv, NEW s \in Sessions, stopped' = stopped, shutdowns' = shutdowns,
         sealed \subseteq sealed', flight' \in [Sessions -> Flags],
         \A r \in Sessions : r # s => flight'[r] = flight[r] /\ tx'[r] = tx[r],
         FlightOk(flight'[s], tx'[s], s, sealed', shutdowns)
  PROVE  FlightInv'
<1>1. ASSUME NEW r \in Sessions PROVE FlightOk(flight'[r], tx'[r], r, sealed', shutdowns')
  <2>1. CASE r = s
    BY <2>1
  <2>2. CASE r # s
    BY <2>2 DEF FlightInv, FlightOk, SealedSince
  <2> QED
    BY <2>1, <2>2
<1> QED
  BY <1>1 DEF FlightInv, FlightOk, Verified, VerifyMember, VerifyBroadcaster

(* A step that concerns none. *)
LEMMA NoFlightChanges ==
  ASSUME FlightInv, UNCHANGED <<tx, flight, sealed, stopped, shutdowns>>
  PROVE  FlightInv'
<1>1. ASSUME NEW r \in Sessions PROVE FlightOk(flight'[r], tx'[r], r, sealed', shutdowns')
  BY DEF FlightInv
<1> QED
  BY <1>1 DEF FlightInv

(* The drafts and their flags together. *)
SessionInv == DraftInv /\ FlightInv

(* A step that replaces one uncommitted transaction, its flags aside.      *)
LEMMA OneDraftKeepsFlags ==
  ASSUME SessionInv, NEW s \in Sessions, NEW t, tx' = [tx EXCEPT ![s] = t], t # NoTx,
         ~flight[s].committed, stopped' = stopped, shutdowns' = shutdowns,
         sealed \subseteq sealed', NEW f \in Flags,
         flight' = [flight EXCEPT ![s] = f], ~f.committed,
         f.broadcaster => flight[s].broadcaster \/ SealedSince(s, sealed', shutdowns)
  PROVE  FlightInv'
<1>1. tx'[s] = t /\ \A r \in Sessions : r # s => tx'[r] = tx[r]
  BY DEF SessionInv, DraftInv
<1>2. /\ flight' \in [Sessions -> Flags] /\ flight'[s] = f
      /\ \A r \in Sessions : r # s => flight'[r] = flight[r]
  BY DEF SessionInv, FlightInv
<1>3. FlightOk(f, t, s, sealed', shutdowns)
  BY DEF FlightOk, SealedSince, SessionInv, FlightInv
<1> QED
  BY <1>1, <1>2, <1>3, OneFlightChanges DEF SessionInv

(* What a quiet step, one of the Resubmitter, the breaker or the node,     *)
(* leaves alone.                                                           *)
LEMMA QuietKeepsSession ==
  ASSUME SessionInv, UNCHANGED <<tx, flight, mail, agreed, sealed, stopped, shutdowns>>
  PROVE  SessionInv'
<1>1. DraftInv'
  BY DEF SessionInv, DraftInv
<1>2. FlightInv'
  BY NoFlightChanges DEF SessionInv
<1> QED
  BY <1>1, <1>2 DEF SessionInv

LEMMA BuildKeepsSession ==
  ASSUME SessionInv, NEW s \in Sessions, Build(s)
  PROVE  SessionInv'
<1>1. /\ Draft(s) # Err /\ tx' = [tx EXCEPT ![s] = Draft(s)] /\ tx[s] = NoTx
      /\ UNCHANGED <<flight, stopped, shutdowns, sealed>>
  BY DEF Build, runVars
<1>2. Draft(s) # NoTx
  BY <1>1, DraftOk, NotNoTx
<1>3. flight[s] \in Flags /\ flight' = [flight EXCEPT ![s] = flight[s]]
  BY <1>1 DEF SessionInv, FlightInv
<1>4. ~flight[s].member /\ ~flight[s].committed
  BY <1>1, <1>3 DEF SessionInv, FlightInv, FlightOk
<1>5. FlightInv'
  BY <1>1, <1>2, <1>3, <1>4, OneDraftKeepsFlags
<1> QED
  BY <1>5, BuildKeepsDrafts DEF SessionInv

LEMMA MemberSignsKeepsSession ==
  ASSUME SessionInv, NEW s \in Sessions, NEW i \in DOMAIN MembersOf[s], MemberSigns(s, i)
  PROVE  SessionInv'
<1>1. UNCHANGED <<tx, flight, sealed, stopped, shutdowns>>
  BY DEF MemberSigns, runVars
<1> QED
  BY <1>1, MemberSignsKeepsDrafts, NoFlightChanges DEF SessionInv

LEMMA ReceiveKeepsSession ==
  ASSUME SessionInv, NEW s \in Sessions, NEW e \in mail \cup OtherMail(s), Receive(s, e)
  PROVE  SessionInv'
<1> DEFINE i == e.component.index
           t == ApplyUnlock(tx[s], i, e.component.unlock)
<1>1. /\ tx[s] # NoTx /\ i \in DOMAIN MembersOf[s] /\ tx' = [tx EXCEPT ![s] = t]
      /\ ~flight[s].member /\ UNCHANGED <<flight, stopped, shutdowns, sealed>>
  BY DEF Receive, runVars, SessionInv, DraftInv
<1>2. Size(s) \in Nat /\ i \in 1 .. Size(s) + 1 /\ TxOk(tx[s], s)
  BY <1>1, Sizes DEF SessionInv, DraftInv
<1>3. t # NoTx
  BY <1>2, ApplyUnlockOk, NotNoTx
<1> HIDE DEF t
<1>4. flight[s] \in Flags /\ flight' = [flight EXCEPT ![s] = flight[s]]
  BY <1>1 DEF SessionInv, FlightInv
<1>5. ~flight[s].committed
  BY <1>1, <1>4 DEF SessionInv, FlightInv, FlightOk
<1>6. FlightInv'
  BY <1>1, <1>3, <1>4, <1>5, OneDraftKeepsFlags
<1> QED
  BY <1>6, ReceiveKeepsDrafts DEF SessionInv

LEMMA MembersDoneKeepsSession ==
  ASSUME SessionInv, NEW s \in Sessions, MembersDone(s)
  PROVE  SessionInv'
<1> DEFINE f == InFlightSignMember(flight[s])
<1>1. /\ tx[s] # NoTx /\ ~flight[s].member /\ flight' = [flight EXCEPT ![s] = f]
      /\ UNCHANGED <<tx, mail, agreed, sealed, stopped, shutdowns>>
  BY DEF MembersDone, runVars, SessionInv, FlightInv
<1>2. flight[s] \in Flags /\ ~flight[s].committed
  BY <1>1 DEF SessionInv, FlightInv, FlightOk
<1>3. f \in Flags /\ ~f.committed /\ f.broadcaster = flight[s].broadcaster
  BY <1>2, FlagUpdates
<1> HIDE DEF f
<1>4. tx' = [tx EXCEPT ![s] = tx[s]]
  BY <1>1 DEF SessionInv, DraftInv
<1>5. FlightInv'
  BY <1>1, <1>2, <1>3, <1>4, OneDraftKeepsFlags
<1>6. DraftInv'
  BY <1>1 DEF SessionInv, DraftInv
<1> QED
  BY <1>5, <1>6 DEF SessionInv

LEMMA BroadcasterSignsKeepsSession ==
  ASSUME SessionInv, NEW s \in Sessions, NEW p, BroadcasterSigns(s, p)
  PROVE  SessionInv'
<1> DEFINE f == InFlightSignBroadcaster(flight[s])
           c == [tx[s] EXCEPT !.outputs[CarrierIndex(tx[s])] = DataCarrier(p)]
           t == SignBroadcaster(c, Broadcaster, Value)
<1>1. /\ flight[s].member /\ ~flight[s].committed /\ tx' = [tx EXCEPT ![s] = t]
      /\ flight' = [flight EXCEPT ![s] = f] /\ stopped' = stopped /\ shutdowns' = shutdowns
      /\ sealed' = sealed \cup {[session |-> s, life |-> shutdowns,
                                 outputs |-> c.outputs, prevouts |-> Prevouts(c)]}
  BY DEF BroadcasterSigns, runVars, SessionInv, FlightInv
<1>2. flight[s] \in Flags /\ tx[s] # NoTx
  BY <1>1 DEF SessionInv, FlightInv, FlightOk
<1>3. f \in Flags /\ ~f.committed
  BY <1>1, <1>2, FlagUpdates
<1>4. DraftInv'
  BY <1>2, BroadcasterSignsKeepsDrafts DEF SessionInv
<1>5. t # NoTx
  <2>1. TxOk(c, s)
    BY <1>2, CarrierOk DEF SessionInv, DraftInv
  <2> HIDE DEF c
  <2>2. Size(s) \in Nat /\ BroadcasterIndex(c) = Size(s) + 1 /\ Size(s) + 1 \in 1 .. Size(s) + 1
    BY <2>1, Sizes, ShapeLengths DEF TxOk, BroadcasterIndex
  <2>3. TxOk(t, s)
    BY <2>1, <2>2, ApplyUnlockOk DEF SignBroadcaster
  <2> QED
    BY <2>3, NotNoTx
<1>6. SealedSince(s, sealed', shutdowns) /\ sealed \subseteq sealed'
  <2> DEFINE z == [session |-> s, life |-> shutdowns, outputs |-> c.outputs, prevouts |-> Prevouts(c)]
  <2>1. z.session = s /\ z.life = shutdowns /\ z \in sealed' /\ sealed \subseteq sealed'
    BY <1>1
  <2> HIDE DEF z
  <2> QED
    BY <2>1 DEF SealedSince
<1> HIDE DEF f, t, c
<1>7. FlightInv'
  BY <1>1, <1>3, <1>5, <1>6, OneDraftKeepsFlags
<1> QED
  BY <1>4, <1>7 DEF SessionInv

LEMMA CommitKeepsSession ==
  ASSUME SessionInv, NEW s \in Sessions, Commit(s)
  PROVE  SessionInv'
<1> DEFINE f == InFlightCommit(flight[s])
<1>1. /\ tx[s] # NoTx /\ ~flight[s].committed /\ Verified(tx[s], s)
      /\ flight' = [flight EXCEPT ![s] = f]
      /\ UNCHANGED <<tx, mail, agreed, sealed, stopped, shutdowns>>
  BY DEF Commit, runVars, MembersVerified, Verified, SessionInv, FlightInv
<1>2. flight[s] \in Flags
  BY DEF SessionInv, FlightInv
<1>3. f \in Flags /\ f.member = flight[s].member /\ f.broadcaster = flight[s].broadcaster
      /\ (f.committed => f.member)
  <2>1. f \in Flags /\ f.member = flight[s].member /\ f.broadcaster = flight[s].broadcaster
    BY <1>2, FlagUpdates
  <2>2. f.committed => flight[s].committed \/ (flight[s].member /\ flight[s].broadcaster)
    BY <1>2, FlagUpdates
  <2> HIDE DEF f
  <2> QED
    BY <1>1, <2>1, <2>2
<1> HIDE DEF f
<1>4. FlightOk(f, tx[s], s, sealed', shutdowns)
  BY <1>1, <1>3 DEF FlightOk, SessionInv, FlightInv
<1>5. /\ flight' \in [Sessions -> Flags] /\ flight'[s] = f
      /\ \A r \in Sessions : r # s => flight'[r] = flight[r]
  BY <1>1, <1>3 DEF SessionInv, FlightInv
<1>6. FlightInv'
  BY <1>1, <1>4, <1>5, OneFlightChanges DEF SessionInv
<1>7. DraftInv'
  BY <1>1 DEF SessionInv, DraftInv
<1> QED
  BY <1>6, <1>7 DEF SessionInv

LEMMA TamperKeepsSession ==
  ASSUME SessionInv, NEW s \in Sessions, Tamper(s)
  PROVE  SessionInv'
<1>1. PICK t \in Altered(tx[s], s) : tx' = [tx EXCEPT ![s] = t]
  BY DEF Tamper
<1>2. tx[s] # NoTx /\ ~flight[s].committed /\ UNCHANGED <<flight, sealed, stopped, shutdowns>>
  BY DEF Tamper, runVars
<1>3. DraftInv /\ TxOk(tx[s], s) /\ SignaturesOk(tx[s], s, agreed, sealed)
  BY <1>2 DEF SessionInv, DraftInv
<1>4. t # NoTx
  BY <1>3, AlteredOk, NotNoTx
<1>5. flight[s] \in Flags /\ flight' = [flight EXCEPT ![s] = flight[s]]
  BY <1>2 DEF SessionInv, FlightInv
<1>6. FlightInv'
  BY <1>1, <1>2, <1>4, <1>5, OneDraftKeepsFlags
<1> QED
  BY <1>6, TamperKeepsDrafts DEF SessionInv

(* graceful_shutdown: the flags of what is not committed are reset; some   *)
(* drafts are lost.                                                        *)
LEMMA ShutdownKeepsSession ==
  ASSUME SessionInv, Shutdown
  PROVE  SessionInv'
<1>1. /\ stopped' = TRUE /\ flight' = [s \in Sessions |-> GracefulShutdown(flight[s])]
      /\ UNCHANGED <<mail, agreed, sealed>>
  BY DEF Shutdown
<1>2. PICK lost \in SUBSET {s \in Sessions : ~flight[s].committed} :
        tx' = [s \in Sessions |-> IF s \in lost THEN NoTx ELSE tx[s]]
  BY DEF Shutdown
<1>3. DraftInv'
  <2>1. \A s \in Sessions : tx'[s] = NoTx \/ (TxOk(tx'[s], s) /\ SignaturesOk(tx'[s], s, agreed', sealed'))
    BY <1>1, <1>2 DEF SessionInv, DraftInv
  <2>2. tx' = [s \in Sessions |-> tx'[s]]
    BY <1>2
  <2> QED
    BY <1>1, <2>1, <2>2 DEF SessionInv, DraftInv, TxOk, FundedBy, Consent
<1>4. flight' \in [Sessions -> Flags]
  BY <1>1, FlagUpdates DEF SessionInv, FlightInv
<1>5. ASSUME NEW s \in Sessions
      PROVE  FlightOk(flight'[s], tx'[s], s, sealed', shutdowns')
  <2>1. flight[s] \in Flags /\ FlightOk(flight[s], tx[s], s, sealed, shutdowns)
    BY DEF SessionInv, FlightInv
  <2>2. CASE flight[s].committed
    <3>1. flight'[s] = flight[s] /\ tx'[s] = tx[s]
      BY <1>1, <1>2, <2>1, <2>2, FlagUpdates
    <3> QED
      BY <2>1, <2>2, <3>1 DEF FlightOk
  <2>3. CASE ~flight[s].committed
    <3>1. flight'[s] = NewInFlight
      BY <1>1, <2>1, <2>3, FlagUpdates
    <3> QED
      BY <3>1 DEF FlightOk, NewInFlight
  <2> QED
    BY <2>2, <2>3
<1> QED
  BY <1>1, <1>3, <1>4, <1>5 DEF SessionInv, FlightInv

LEMMA RestartKeepsSession ==
  ASSUME SessionInv, Restart
  PROVE  SessionInv'
<1>1. UNCHANGED <<tx, flight, mail, agreed, sealed, shutdowns>> /\ stopped' = FALSE
  BY DEF Restart, draftVars
<1>2. DraftInv'
  BY <1>1 DEF SessionInv, DraftInv
<1>3. \A s \in Sessions : FlightOk(flight'[s], tx'[s], s, sealed', shutdowns')
  BY <1>1 DEF SessionInv, FlightInv
<1> QED
  BY <1>1, <1>2, <1>3 DEF SessionInv, FlightInv

(* The steps that leave drafts, flags and mail alone. *)
QuietStep ==
  \/ \E s \in Sessions : \/ ShowAltered(s) \/ Upload(s) \/ UploadFails(s)
                         \/ DetectEviction(s) \/ DetectUpload(s)
  \/ HalfOpenTrial \/ Release \/ \E t \in mempool : Evict(t) \/ Mine(t)

LEMMA QuietLeaves ==
  ASSUME QuietStep \/ UNCHANGED vars
  PROVE  UNCHANGED <<tx, flight, mail, contribution, renewed, agreed, sealed, stopped, shutdowns>>
BY DEF QuietStep, vars, ShowAltered, Upload, UploadFails, Calling, DetectEviction, DetectUpload,
       HalfOpenTrial, Release, Evict, Mine, draftVars, runVars

LEMMA SessionStep ==
  ASSUME SessionInv, [Next]_vars
  PROVE  SessionInv'
<1>1. CASE QuietStep \/ UNCHANGED vars
  BY <1>1, QuietLeaves, QuietKeepsSession
<1>2. CASE \E s \in Sessions :
             \/ Build(s) \/ \E i \in DOMAIN MembersOf[s] : MemberSigns(s, i)
             \/ \E e \in mail \cup OtherMail(s) : Receive(s, e)
             \/ MembersDone(s) \/ \E p \in Payloads : BroadcasterSigns(s, p)
             \/ Commit(s) \/ Tamper(s)
  BY <1>2, BuildKeepsSession, MemberSignsKeepsSession, ReceiveKeepsSession,
     MembersDoneKeepsSession, BroadcasterSignsKeepsSession, CommitKeepsSession, TamperKeepsSession
<1>3. CASE Shutdown \/ Restart
  BY <1>3, ShutdownKeepsSession, RestartKeepsSession
<1> QED
  BY <1>1, <1>2, <1>3 DEF Next, QuietStep

LEMMA SessionInit ==
  ASSUME Init
  PROVE  SessionInv
<1>1. DraftInv
  BY DEF Init, DraftInv
<1>2. FlightInv
  BY DEF Init, FlightInv, FlightOk, Flags, NewInFlight
<1> QED
  BY <1>1, <1>2 DEF SessionInv

LEMMA SessionInvariant == Spec => []SessionInv
BY SessionInit, SessionStep, PTL DEF Spec

-----------------------------------------------------------------------------
(* A committed transaction stays as it is. *)
LEMMA CommittedStays ==
  ASSUME SessionInv, [Next]_vars, NEW s \in Sessions, flight[s].committed
  PROVE  tx'[s] = tx[s] /\ flight'[s].committed
<1>0. flight[s].member /\ tx[s] # NoTx
  BY DEF SessionInv, FlightInv, FlightOk
<1> USE DEF SessionInv, FlightInv, DraftInv
<1>1. CASE QuietStep \/ UNCHANGED vars
  BY <1>1, QuietLeaves
<1>2. ASSUME NEW r \in Sessions,
             \/ Build(r) \/ \E i \in DOMAIN MembersOf[r] : MemberSigns(r, i)
             \/ \E e \in mail \cup OtherMail(r) : Receive(r, e)
             \/ MembersDone(r) \/ \E p \in Payloads : BroadcasterSigns(r, p)
             \/ Commit(r) \/ Tamper(r)
      PROVE  tx'[s] = tx[s] /\ flight'[s].committed
  <2>1. CASE Build(r)
    BY <1>0, <2>1 DEF Build
  <2>2. CASE \E i \in DOMAIN MembersOf[r] : MemberSigns(r, i)
    BY <2>2 DEF MemberSigns
  <2>3. CASE \E e \in mail \cup OtherMail(r) : Receive(r, e)
    BY <1>0, <2>3 DEF Receive
  <2>4. CASE MembersDone(r)
    BY <1>0, <2>4 DEF MembersDone
  <2>5. CASE \E p \in Payloads : BroadcasterSigns(r, p)
    BY <1>0, <2>5 DEF BroadcasterSigns
  <2>6. CASE Commit(r)
    BY <2>6 DEF Commit
  <2>7. CASE Tamper(r)
    BY <2>7 DEF Tamper
  <2> QED
    BY <1>2, <2>1, <2>2, <2>3, <2>4, <2>5, <2>6, <2>7
<1>3. CASE Shutdown
  <2>1. flight'[s] = GracefulShutdown(flight[s]) /\ flight[s] \in Flags
    BY <1>3 DEF Shutdown
  <2>2. tx'[s] = tx[s]
    BY <1>3 DEF Shutdown
  <2> QED
    BY <2>1, <2>2, FlagUpdates
<1>4. CASE Restart
  BY <1>4 DEF Restart, draftVars
<1> QED
  BY <1>1, <1>2, <1>3, <1>4 DEF Next, QuietStep

(* Consents and seals are only added. *)
LEMMA HistoryGrows ==
  ASSUME [Next]_vars
  PROVE  agreed \subseteq agreed' /\ sealed \subseteq sealed'
<1>1. CASE QuietStep \/ UNCHANGED vars
  BY <1>1, QuietLeaves
<1>2. ASSUME NEW s \in Sessions,
             \/ Build(s) \/ \E i \in DOMAIN MembersOf[s] : MemberSigns(s, i)
             \/ \E e \in mail \cup OtherMail(s) : Receive(s, e)
             \/ MembersDone(s) \/ \E p \in Payloads : BroadcasterSigns(s, p)
             \/ Commit(s) \/ Tamper(s)
      PROVE  agreed \subseteq agreed' /\ sealed \subseteq sealed'
  BY <1>2 DEF Build, MemberSigns, Receive, MembersDone, BroadcasterSigns, Commit, Tamper
<1>3. CASE Shutdown \/ Restart
  BY <1>3 DEF Shutdown, Restart, draftVars
<1> QED
  BY <1>1, <1>2, <1>3 DEF Next, QuietStep

(* A step after which the node has nothing that was not signed as it is.   *)
LEMMA NodeGrows ==
  ASSUME NodeInv, [Next]_vars,
         \A t \in mempool' \cup mined' : t \in mempool \cup mined \/ SignedAs(t, agreed, sealed)
  PROVE  NodeInv'
<1>1. \A t \in mempool' \cup mined' : SignedAs(t, agreed, sealed)
  BY DEF NodeInv
<1>2. \A t \in mempool' \cup mined' : SignedAs(t, agreed', sealed')
  BY <1>1, HistoryGrows, SignaturesGrow
<1> QED
  BY <1>2 DEF NodeInv

(* An altered copy is only taken if what was altered is not signed.        *)
LEMMA ShowAlteredKeepsNode ==
  ASSUME SessionInv, NodeInv, NEW s \in Sessions, ShowAltered(s), [Next]_vars
  PROVE  NodeInv'
<1>1. PICK t \in Altered(tx[s], s) :
        mempool' = IF Accepts(t) THEN mempool \cup {t} ELSE mempool
  BY DEF ShowAltered
<1>2. flight[s].committed /\ mined' = mined
  BY DEF ShowAltered
<1>3. TxOk(tx[s], s) /\ SignaturesOk(tx[s], s, agreed, sealed) /\ \A a \in agreed : Consent(a)
  BY <1>2 DEF SessionInv, DraftInv, FlightInv, FlightOk
<1>4. TxOk(t, s) /\ SignaturesOk(t, s, agreed, sealed)
  BY <1>3, AlteredOk DEF SessionInv
<1>6. Accepts(t) => SignedAs(t, agreed, sealed)
  BY <1>3, <1>4, AcceptedOnlyAsSigned
<1>7. \A q \in mempool' \cup mined' : q \in mempool \cup mined \/ SignedAs(q, agreed, sealed)
  BY <1>1, <1>2, <1>6
<1> QED
  BY <1>7, NodeGrows

LEMMA UploadKeepsNode ==
  ASSUME SessionInv, NodeInv, NEW s \in Sessions, Upload(s) \/ UploadFails(s), [Next]_vars
  PROVE  NodeInv'
<1>1. /\ flight[s].committed /\ mined' = mined
      /\ mempool' \in {mempool, IF Accepts(tx[s]) /\ tx[s] \notin mined
                                THEN mempool \cup {tx[s]} ELSE mempool}
  BY DEF Upload, UploadFails, Calling, Taken
<1>2. TxOk(tx[s], s) /\ SignaturesOk(tx[s], s, agreed, sealed) /\ \A a \in agreed : Consent(a)
  BY <1>1 DEF SessionInv, DraftInv, FlightInv, FlightOk
<1>3. Accepts(tx[s]) => SignedAs(tx[s], agreed, sealed)
  BY <1>2, AcceptedOnlyAsSigned
<1>4. \A q \in mempool' \cup mined' : q \in mempool \cup mined \/ SignedAs(q, agreed, sealed)
  BY <1>1, <1>3
<1> QED
  BY <1>4, NodeGrows

LEMMA NodeStep ==
  ASSUME SessionInv, NodeInv, [Next]_vars
  PROVE  NodeInv'
<1>1. CASE \E s \in Sessions : ShowAltered(s) \/ Upload(s) \/ UploadFails(s)
  BY <1>1, ShowAlteredKeepsNode, UploadKeepsNode
<1>2. ASSUME mempool' \cup mined' \subseteq mempool \cup mined
      PROVE  NodeInv'
  BY <1>2, NodeGrows
<1>3. CASE \E s \in Sessions : DetectEviction(s) \/ DetectUpload(s)
  BY <1>2, <1>3 DEF DetectEviction, DetectUpload, nodeVars
<1>4. CASE HalfOpenTrial \/ Release \/ Shutdown \/ Restart \/ UNCHANGED vars
  BY <1>2, <1>4 DEF HalfOpenTrial, Release, Shutdown, Restart, nodeVars, vars
<1>5. CASE \E t \in mempool : Evict(t) \/ Mine(t)
  <2>1. mempool' \cup mined' \subseteq mempool \cup mined
    BY <1>5 DEF Evict, Mine
  <2> QED
    BY <1>2, <2>1
<1>6. ASSUME NEW s \in Sessions,
             \/ Build(s) \/ \E i \in DOMAIN MembersOf[s] : MemberSigns(s, i)
             \/ \E e \in mail \cup OtherMail(s) : Receive(s, e)
             \/ MembersDone(s) \/ \E p \in Payloads : BroadcasterSigns(s, p)
             \/ Commit(s) \/ Tamper(s)
      PROVE  NodeInv'
  <2>1. UNCHANGED nodeVars
    BY <1>6 DEF Build, MemberSigns, Receive, MembersDone, BroadcasterSigns, Commit, Tamper
  <2> QED
    BY <1>2, <2>1 DEF nodeVars
<1> QED
  BY <1>1, <1>3, <1>4, <1>5, <1>6 DEF Next

-----------------------------------------------------------------------------
(* subscription.rs: a renewal is counted for every sub-session the member  *)
(* signed for, and only while its contribution pays for it.                *)
SignedFor(m, consents) == {a.session : a \in {b \in consents : b.key = m}}

RenewalInv ==
  /\ contribution \in [Members -> Nat] /\ renewed \in [Members -> Nat]
  /\ \A m \in Members : /\ renewed[m] <= SessionsFunded(m)
                        /\ IsFiniteSet(SignedFor(m, agreed))
                        /\ Cardinality(SignedFor(m, agreed)) = renewed[m]

LEMMA FundedType ==
  ASSUME NEW c \in Nat
  PROVE  c \div MemFee \in Nat /\ (c \div MemFee) * MemFee <= c
<1>1. MemFee \in Nat /\ MemFee > 0
  BY SessionAssumption
<1> QED
  BY <1>1

LEMMA MemberSignsKeepsRenewals ==
  ASSUME RenewalInv, NEW s \in Sessions, NEW i \in DOMAIN MembersOf[s], MemberSigns(s, i)
  PROVE  RenewalInv'
<1> DEFINE m == MembersOf[s][i]
           a == [key |-> m, session |-> s, view |-> View(tx[s], i),
                 unlock |-> Unlock(m, MemberDigest(tx[s], i, m, Value))]
<1>1. /\ HasSigned(m, s) \/ CanRenew(m)
      /\ renewed' = [renewed EXCEPT ![m] = IF HasSigned(m, s) THEN renewed[m] ELSE renewed[m] + 1]
      /\ agreed' = agreed \cup {a} /\ contribution' = contribution
  BY DEF MemberSigns, RenewalInv
<1>2. m \in Members
  BY Sizes
<1>3. a.key = m /\ a.session = s
  OBVIOUS
<1>4. HasSigned(m, s) <=> s \in SignedFor(m, agreed)
  BY DEF HasSigned, SignedFor
<1> HIDE DEF a, m
<1>5. SignedFor(m, agreed') = SignedFor(m, agreed) \cup {s}
  BY <1>1, <1>3 DEF SignedFor
<1>6. \A k \in Members : k # m => SignedFor(k, agreed') = SignedFor(k, agreed)
  BY <1>1, <1>3 DEF SignedFor
<1>7. contribution' \in [Members -> Nat] /\ renewed' \in [Members -> Nat]
  BY <1>1, <1>2 DEF RenewalInv
<1>8. ASSUME NEW k \in Members
      PROVE  /\ renewed'[k] <= contribution'[k] \div MemFee
             /\ IsFiniteSet(SignedFor(k, agreed'))
             /\ Cardinality(SignedFor(k, agreed')) = renewed'[k]
  <2>1. CASE k # m
    BY <1>1, <1>6, <2>1 DEF RenewalInv, SessionsFunded
  <2>2. CASE k = m /\ HasSigned(m, s)
    <3>1. SignedFor(m, agreed') = SignedFor(m, agreed) /\ renewed'[m] = renewed[m]
      BY <1>1, <1>2, <1>4, <1>5, <2>2 DEF RenewalInv
    <3> QED
      BY <1>1, <2>2, <3>1 DEF RenewalInv, SessionsFunded
  <2>3. CASE k = m /\ ~HasSigned(m, s)
    <3>1. renewed'[m] = renewed[m] + 1 /\ renewed[m] < contribution[m] \div MemFee
      BY <1>1, <1>2, <2>3 DEF RenewalInv, CanRenew, SessionsFunded
    <3>2. /\ IsFiniteSet(SignedFor(m, agreed) \cup {s})
          /\ Cardinality(SignedFor(m, agreed) \cup {s}) = Cardinality(SignedFor(m, agreed)) + 1
      BY <1>2, <1>4, <2>3, FS_AddElement DEF RenewalInv
    <3>3. contribution[m] \div MemFee \in Nat /\ renewed[m] \in Nat
      BY <1>2, FundedType DEF RenewalInv
    <3>4. renewed'[m] <= contribution'[m] \div MemFee
      BY <1>1, <3>1, <3>3
    <3>5. Cardinality(SignedFor(m, agreed')) = renewed'[m]
      BY <1>2, <1>5, <3>1, <3>2 DEF RenewalInv
    <3> QED
      BY <1>5, <2>3, <3>2, <3>4, <3>5
  <2> QED
    BY <2>1, <2>2, <2>3
<1> QED
  BY <1>7, <1>8 DEF RenewalInv, SessionsFunded

LEMMA RenewalStep ==
  ASSUME RenewalInv, [Next]_vars
  PROVE  RenewalInv'
<1>1. ASSUME UNCHANGED <<contribution, renewed, agreed>>
      PROVE  RenewalInv'
  BY <1>1 DEF RenewalInv, SessionsFunded
<1>2. CASE QuietStep \/ UNCHANGED vars
  BY <1>1, <1>2, QuietLeaves
<1>3. CASE Shutdown \/ Restart
  BY <1>1, <1>3 DEF Shutdown, Restart, draftVars
<1>4. CASE \E s \in Sessions : \E i \in DOMAIN MembersOf[s] : MemberSigns(s, i)
  BY <1>4, MemberSignsKeepsRenewals
<1>5. CASE \E s \in Sessions :
             \/ Build(s) \/ \E e \in mail \cup OtherMail(s) : Receive(s, e)
             \/ MembersDone(s) \/ \E p \in Payloads : BroadcasterSigns(s, p)
             \/ Commit(s) \/ Tamper(s)
  BY <1>1, <1>5 DEF Build, Receive, MembersDone, BroadcasterSigns, Commit, Tamper
<1> QED
  BY <1>2, <1>3, <1>4, <1>5 DEF Next, QuietStep

LEMMA RenewalInit ==
  ASSUME Init
  PROVE  RenewalInv
<1>1. \A m \in Members : SignedFor(m, agreed) = {}
  BY DEF Init, SignedFor
<1>2. contribution \in [Members -> Nat] /\ renewed = [m \in Members |-> 0]
  BY SessionAssumption DEF Init
<1>3. \A m \in Members : 0 <= contribution[m] \div MemFee
  BY <1>2, FundedType
<1> QED
  BY <1>1, <1>2, <1>3, FS_EmptySet DEF RenewalInv, SessionsFunded

(* Nobody takes part in what it did not agree to, whatever is altered,     *)
(* copied or sealed again on the way: transactions are accepted as signed, *)
(* a member's component counts only where it was meant, and members renew  *)
(* no more than they paid for.                                             *)
THEOREM ConsentHonoured == Spec => []ConsentSound
<1>1. Spec => [](NodeInv /\ RenewalInv)
  <2>1. Init => NodeInv /\ RenewalInv
    BY RenewalInit DEF Init, NodeInv
  <2>2. SessionInv /\ NodeInv /\ RenewalInv /\ [Next]_vars => NodeInv' /\ RenewalInv'
    BY NodeStep, RenewalStep
  <2> QED
    BY <2>1, <2>2, SessionInvariant, PTL DEF Spec
<1>2. NodeInv => AcceptedAsSigned
  BY DEF NodeInv, SignedAs, AcceptedAsSigned
<1>3. SessionInv => NoLifting
  <2> SUFFICES ASSUME SessionInv, NEW s \in Sessions, NEW i \in DOMAIN MembersOf[s], tx[s] # NoTx,
                      VerifyMember(tx[s], i, MembersOf[s][i], Value),
                      tx[s].inputs[i].unlock.by = MembersOf[s][i]
               PROVE  \E a \in agreed : /\ a.key = MembersOf[s][i] /\ a.session = s
                                        /\ a.view = View(tx[s], i)
                                        /\ a.unlock = tx[s].inputs[i].unlock
    BY DEF NoLifting
  <2> DEFINE u == tx[s].inputs[i].unlock
             m == MembersOf[s][i]
  <2>1. /\ i \in 1 .. Size(s) /\ i \in 1 .. Size(s) + 1 /\ m \in Members
        /\ TxOk(tx[s], s) /\ SignaturesOk(tx[s], s, agreed, sealed)
    BY Sizes DEF SessionInv, DraftInv
  <2>2. u # NoUnlock /\ u.digest = MemberDigest(tx[s], i, m, Value)
    BY DEF VerifyMember, VerifyUnlock
  <2>3. u.digest = MemberFields(Prevouts(tx[s]), tx[s].outputs[i], m, s)
    BY <2>1, <2>2, MemberDigestFields
  <2>4. Genuine(u, agreed, sealed) /\ u.by = m
    BY <2>1 DEF SignaturesOk
  <2> HIDE DEF u, m
  <2>5. PICK a \in agreed : a.unlock = u /\ a.key = m
    BY <2>1, <2>2, <2>4, MembersOwn DEF SessionInv, DraftInv
  <2>6. /\ u = Unlock(m, MemberFields(a.view.prevouts, a.view.own, m, a.session))
        /\ a.view \in [own : {a.view.own}, prevouts : {a.view.prevouts}]
    BY <2>5 DEF SessionInv, DraftInv, Consent
  <2>7. u.digest = MemberFields(a.view.prevouts, a.view.own, m, a.session)
    BY <2>6 DEF Unlock
  <2>8. /\ Prevouts(tx[s]) = a.view.prevouts /\ <<tx[s].outputs[i]>> = <<a.view.own>>
        /\ Funding(m, s) = Funding(m, a.session)
    BY <2>3, <2>7 DEF MemberFields
  <2>9. a.view = View(tx[s], i) /\ a.session = s
    BY <2>6, <2>8 DEF View, Funding
  <2> QED
    BY <2>5, <2>9 DEF u, m
<1>4. RenewalInv => FundedRenewals
  <2> SUFFICES ASSUME RenewalInv, NEW m \in Members
               PROVE  LET part == Cardinality(SignedFor(m, agreed))
                      IN  /\ part * MemFee <= contribution[m]
                          /\ \A n \in 0 .. Cardinality(Sessions) : IsRevoked(m, n) <=> part < n
    BY DEF FundedRenewals, SignedFor
  <2>1. /\ Cardinality(SignedFor(m, agreed)) = renewed[m] /\ renewed[m] \in Nat
        /\ renewed[m] <= contribution[m] \div MemFee /\ contribution[m] \in Nat
    BY DEF RenewalInv, SessionsFunded
  <2>2. (contribution[m] \div MemFee) * MemFee <= contribution[m] /\ contribution[m] \div MemFee \in Nat
    BY <2>1, FundedType
  <2>3. renewed[m] * MemFee <= (contribution[m] \div MemFee) * MemFee
    BY <2>1, <2>2, SessionAssumption
  <2>4. renewed[m] * MemFee <= contribution[m]
    BY <2>1, <2>2, <2>3, SessionAssumption
  <2> QED
    BY <2>1, <2>4 DEF IsRevoked
<1> QED
  BY <1>1, <1>2, <1>3, <1>4, SessionInvariant, PTL DEF ConsentSound

(* MEMBER_FLAG: a member's signature keeps standing while its own output   *)
(* and the inputs are those it saw, whatever else of the draft changes.    *)
THEOREM SignatureStands == Spec => []MemberSignatureStands
<1>1. SessionInv => MemberSignatureStands
  <2> SUFFICES ASSUME SessionInv, NEW s \in Sessions, NEW a \in agreed, NEW i \in DOMAIN MembersOf[s],
                      tx[s] # NoTx, a.session = s, a.key = MembersOf[s][i], a.view = View(tx[s], i)
               PROVE  VerifyMember(ApplyUnlock(tx[s], i, a.unlock), i, a.key, Value)
    BY DEF MemberSignatureStands
  <2> DEFINE q == ApplyUnlock(tx[s], i, a.unlock)
             m == MembersOf[s][i]
  <2>1. /\ i \in 1 .. Size(s) /\ Size(s) \in Nat /\ i \in 1 .. Size(s) + 1
        /\ TxOk(tx[s], s) /\ Consent(a)
    BY Sizes DEF SessionInv, DraftInv
  <2>2. /\ TxOk(q, s) /\ q.outputs = tx[s].outputs /\ Prevouts(q) = Prevouts(tx[s])
        /\ q.inputs[i].unlock = a.unlock
    BY <2>1, ApplyUnlockOk
  <2> HIDE DEF q
  <2>3. MemberDigest(q, i, m, Value) = MemberFields(Prevouts(tx[s]), tx[s].outputs[i], m, s)
    BY <2>1, <2>2, MemberDigestFields
  <2>4. a.view.prevouts = Prevouts(tx[s]) /\ a.view.own = tx[s].outputs[i]
    BY DEF View
  <2>5. a.unlock = Unlock(m, MemberDigest(q, i, m, Value))
    BY <2>1, <2>3, <2>4 DEF Consent
  <2>6. a.unlock # NoUnlock /\ a.unlock.by = a.unlock.pubkey
        /\ a.unlock.digest = MemberDigest(q, i, m, Value)
    BY <2>5 DEF Unlock, NoUnlock
  <2>7. VerifyMember(q, i, m, Value)
    BY <2>2, <2>6 DEF VerifyMember, VerifyUnlock
  <2> QED
    BY <2>7 DEF q
<1> QED
  BY <1>1, SessionInvariant, PTL

-----------------------------------------------------------------------------
(* backoff.rs: shifts of one.  Induction by the least counterexample.      *)
LEMMA SetInduction ==
  ASSUME NEW S, 0 \in S, \A n \in Nat : n \in S => n + 1 \in S
  PROVE  Nat \subseteq S
<1> SUFFICES ASSUME Nat \ S # {} PROVE FALSE
  OBVIOUS
<1> DEFINE T == Nat \ S
           R == {p \in Nat \X Nat : p[1] < p[2]}
<1>1. IsWellFoundedOn(R, Nat)
  BY NatLessThanWellFounded DEF OpToRel
<1>2. PICK x \in T : \A y \in T : <<y, x>> \notin R
  <2>1. T \subseteq Nat /\ T # {}
    OBVIOUS
  <2> HIDE DEF T, R
  <2> QED
    BY <1>1, <2>1, WFMin
<1>3. x \in Nat /\ x - 1 \in Nat /\ x - 1 + 1 = x /\ <<x - 1, x>> \in R
  OBVIOUS
<1> QED
  BY <1>2, <1>3

IsDoubling(g, N) == /\ g \in [0 .. N -> Nat] /\ g[0] = 1
                    /\ \A n \in 1 .. N : g[n] = 2 * g[n - 1]

LEMMA DoublingExists ==
  ASSUME NEW N \in Nat
  PROVE  \E g : IsDoubling(g, N)
<1> DEFINE S == {n \in Nat : \E g : IsDoubling(g, n)}
<1>1. 0 \in S
  <2>1. IsDoubling([k \in 0 .. 0 |-> 1], 0)
    BY DEF IsDoubling
  <2> QED
    BY <2>1
<1>2. ASSUME NEW n \in Nat, n \in S PROVE n + 1 \in S
  <2>1. PICK g : IsDoubling(g, n)
    BY <1>2
  <2> DEFINE h == [k \in 0 .. n + 1 |-> IF k = n + 1 THEN 2 * g[n] ELSE g[k]]
  <2>2. h \in [0 .. n + 1 -> Nat] /\ h[0] = 1
    BY <2>1 DEF IsDoubling
  <2>3. \A k \in 1 .. n + 1 : h[k] = 2 * h[k - 1]
    BY <2>1 DEF IsDoubling
  <2> HIDE DEF h
  <2>4. IsDoubling(h, n + 1)
    BY <2>2, <2>3 DEF IsDoubling
  <2> QED
    BY <2>4
<1>3. Nat \subseteq S
  <2> HIDE DEF S
  <2> QED
    BY <1>1, <1>2, SetInduction
<1> QED
  BY <1>3

LEMMA Pow2Doubles == IsDoubling(Pow2, Width)
<1> DEFINE Solves(f) == f = [n \in 0 .. Width |-> IF n = 0 THEN 1 ELSE 2 * f[n - 1]]
<1>1. Width \in Nat
  BY ResilienceAssumption
<1>2. PICK g : IsDoubling(g, Width)
  BY <1>1, DoublingExists
<1>3. Solves(g)
  BY <1>1, <1>2 DEF IsDoubling
<1>4. Pow2 = CHOOSE f : Solves(f)
  BY DEF Pow2
<1>5. Solves(Pow2)
  BY <1>3, <1>4
<1> DEFINE P == Pow2
<1>6. P = [n \in 0 .. Width |-> IF n = 0 THEN 1 ELSE 2 * P[n - 1]]
  BY <1>5
<1> HIDE DEF P
<1>7. P[0] = 1 /\ \A n \in 1 .. Width : P[n] = 2 * P[n - 1]
  BY <1>1, <1>6
<1> DEFINE S == {n \in Nat : n \in 0 .. Width => P[n] \in Nat}
<1>8. 0 \in S
  BY <1>7
<1>9. ASSUME NEW n \in Nat, n \in S PROVE n + 1 \in S
  <2>1. CASE n + 1 \in 0 .. Width
    <3>1. n + 1 \in 1 .. Width /\ n \in 0 .. Width /\ (n + 1) - 1 = n
      BY <1>1, <2>1
    <3>2. P[n] \in Nat /\ P[n + 1] = 2 * P[n]
      BY <1>7, <1>9, <3>1
    <3> QED
      BY <3>2
  <2> QED
    BY <2>1
<1>10. Nat \subseteq S
  <2> HIDE DEF S
  <2> QED
    BY <1>8, <1>9, SetInduction
<1>11. \A n \in 0 .. Width : P[n] \in Nat
  BY <1>1, <1>10
<1>12. IsDoubling(P, Width)
  BY <1>6, <1>7, <1>11 DEF IsDoubling
<1> QED
  BY <1>12 DEF P

LEMMA Pow2Grows ==
  /\ \A n \in 0 .. Width : Pow2[n] \in Nat /\ Pow2[n] >= 1
  /\ \A n \in 1 .. Width : Pow2[n] = 2 * Pow2[n - 1]
  /\ \A n \in 0 .. Width : n < Width => Pow2[n] < Pow2[Width]
<1> DEFINE P == Pow2
<1>1. Width \in Nat
  BY ResilienceAssumption
<1>2. /\ P \in [0 .. Width -> Nat] /\ P[0] = 1
      /\ \A n \in 1 .. Width : P[n] = 2 * P[n - 1]
  BY Pow2Doubles DEF IsDoubling
<1> HIDE DEF P
<1> DEFINE S == {n \in Nat : n \in 0 .. Width => P[n] >= 1}
<1>3. 0 \in S
  BY <1>2
<1>4. ASSUME NEW n \in Nat, n \in S PROVE n + 1 \in S
  <2>1. CASE n + 1 \in 0 .. Width
    <3>1. n + 1 \in 1 .. Width /\ n \in 0 .. Width /\ (n + 1) - 1 = n
      BY <1>1, <2>1
    <3>2. P[n] >= 1 /\ P[n] \in Nat /\ P[n + 1] = 2 * P[n]
      BY <1>2, <1>4, <3>1
    <3> QED
      BY <3>2
  <2> QED
    BY <2>1
<1>5. Nat \subseteq S
  <2> HIDE DEF S
  <2> QED
    BY <1>3, <1>4, SetInduction
<1>6. \A n \in 0 .. Width : P[n] \in Nat /\ P[n] >= 1
  BY <1>1, <1>2, <1>5
<1> DEFINE U == {k \in Nat : k + 1 <= Width => P[Width - (k + 1)] < P[Width]}
<1>7. 0 \in U
  <2>1. CASE 1 <= Width
    <3>1. Width \in 1 .. Width /\ Width - 1 \in 0 .. Width /\ Width \in 0 .. Width
      BY <1>1, <2>1
    <3>2. P[Width] = 2 * P[Width - 1] /\ P[Width - 1] \in Nat /\ P[Width - 1] >= 1
      BY <1>2, <1>6, <3>1
    <3> QED
      BY <3>2
  <2> QED
    BY <2>1
<1>8. ASSUME NEW k \in Nat, k \in U PROVE k + 1 \in U
  <2>1. CASE (k + 1) + 1 <= Width
    <3> DEFINE n == Width - (k + 1)
    <3>1. n \in 1 .. Width /\ n - 1 \in 0 .. Width /\ n - 1 = Width - ((k + 1) + 1) /\ k + 1 <= Width
      BY <1>1, <2>1
    <3>2. P[n] < P[Width]
      BY <1>8, <3>1
    <3>3. P[n] = 2 * P[n - 1] /\ P[n - 1] \in Nat /\ P[n - 1] >= 1 /\ P[Width] \in Nat
      BY <1>1, <1>2, <1>6, <3>1
    <3> HIDE DEF n
    <3>4. P[n - 1] < P[Width]
      BY <3>2, <3>3
    <3> QED
      BY <3>1, <3>4
  <2> QED
    BY <2>1
<1>9. Nat \subseteq U
  <2> HIDE DEF U
  <2> QED
    BY <1>7, <1>8, SetInduction
<1>10. ASSUME NEW n \in 0 .. Width, n < Width PROVE P[n] < P[Width]
  <2> DEFINE k == Width - n - 1
  <2>1. k \in Nat /\ k + 1 <= Width /\ Width - (k + 1) = n
    BY <1>1, <1>10
  <2> QED
    BY <1>9, <2>1
<1> QED
  BY <1>2, <1>6, <1>10 DEF P

(* The delay: at least the base or the maximum, at most the maximum, never *)
(* decreasing.                                                             *)
LEMMA BackoffBounds ==
  ASSUME NEW n \in Nat
  PROVE  /\ DelayMillis(n) \in Least(BaseMillis, MaxMillis) .. MaxMillis
         /\ n > 0 => DelayMillis(n - 1) <= DelayMillis(n)
<1>1. /\ Width \in Nat \ {0} /\ BaseMillis \in Nat /\ MaxMillis \in Nat
      /\ Pow2[Width] \in Nat /\ MaxMillis <= WordMax
      /\ WordMax \in Nat /\ WordMax >= 1
  <2>1. Width \in 0 .. Width /\ Width \in Nat
    BY ResilienceAssumption
  <2>2. Width \in 1 .. Width /\ Width - 1 \in 0 .. Width
    BY ResilienceAssumption
  <2>3. /\ Pow2[Width] \in Nat /\ Pow2[Width] = 2 * Pow2[Width - 1]
        /\ Pow2[Width - 1] \in Nat /\ Pow2[Width - 1] >= 1
    BY <2>1, <2>2, Pow2Grows
  <2>4. WordMax \in Nat /\ WordMax >= 1
    BY <2>3 DEF WordMax
  <2> QED
    BY <2>3, <2>4, ResilienceAssumption DEF WordMax
<1>2. ASSUME NEW k \in Nat
      PROVE  Factor(k) \in Nat /\ Factor(k) >= 1 /\ Factor(k) <= WordMax
  <2>1. CASE k < Width
    <3>1. k \in 0 .. Width
      BY <1>1, <2>1
    <3>2. Pow2[k] \in Nat /\ Pow2[k] >= 1 /\ Pow2[k] < Pow2[Width]
      BY <2>1, <3>1, Pow2Grows
    <3> QED
      BY <1>1, <2>1, <3>2 DEF Factor, WordMax
  <2>2. CASE ~(k < Width)
    BY <1>1, <2>2 DEF Factor
  <2> QED
    BY <2>1, <2>2
<1>3. ASSUME NEW k \in Nat
      PROVE  DelayMillis(k) = Least(BaseMillis * Factor(k), MaxMillis)
  <2>1. BaseMillis * Factor(k) \in Nat
    BY <1>1, <1>2
  <2> QED
    BY <1>1, <2>1 DEF DelayMillis, Least
<1>4. ASSUME NEW k \in Nat
      PROVE  BaseMillis * Factor(k) \in Nat /\ BaseMillis * Factor(k) >= BaseMillis
  BY <1>1, <1>2
<1>5. DelayMillis(n) \in Least(BaseMillis, MaxMillis) .. MaxMillis
  <2> DEFINE x == BaseMillis * Factor(n)
  <2>1. x \in Nat /\ x >= BaseMillis /\ DelayMillis(n) = Least(x, MaxMillis)
    BY <1>3, <1>4
  <2> HIDE DEF x
  <2> QED
    BY <1>1, <2>1 DEF Least
<1>6. ASSUME n > 0
      PROVE  DelayMillis(n - 1) <= DelayMillis(n)
  <2>1. n - 1 \in Nat
    BY <1>6
  <2>2. Factor(n - 1) <= Factor(n)
    <3>1. CASE n < Width
      <4>1. n \in 1 .. Width /\ n - 1 \in 0 .. Width /\ n - 1 < Width
        BY <1>1, <1>6, <3>1
      <4>2. Pow2[n] = 2 * Pow2[n - 1] /\ Pow2[n - 1] \in Nat
        BY <4>1, Pow2Grows
      <4> QED
        BY <3>1, <4>1, <4>2 DEF Factor
    <3>2. CASE ~(n < Width)
      BY <1>2, <2>1, <3>2 DEF Factor
    <3> QED
      BY <3>1, <3>2
  <2> DEFINE x == BaseMillis * Factor(n - 1)
             y == BaseMillis * Factor(n)
  <2>3. x <= y
    <3>1. Factor(n - 1) \in Nat /\ Factor(n) \in Nat
      BY <1>2, <2>1
    <3> QED
      BY <1>1, <2>2, <3>1
  <2>4. /\ x \in Nat /\ y \in Nat
        /\ DelayMillis(n - 1) = Least(x, MaxMillis) /\ DelayMillis(n) = Least(y, MaxMillis)
    BY <1>3, <1>4, <2>1
  <2> HIDE DEF x, y
  <2> QED
    BY <1>1, <2>3, <2>4 DEF Least
<1> QED
  BY <1>5, <1>6

-----------------------------------------------------------------------------
(* The breaker counts the failures in a row, and nothing else. *)
Breakers == [threshold : Nat \ {0}, failures : Nat, state : {"Closed", "Open", "HalfOpen"}]
Exact(b, n) == (b.state = "Closed" <=> n < b.threshold) /\ b.failures = n
BreakerInv == breaker \in Breakers /\ streak \in Nat /\ Exact(breaker, streak)

LEMMA BreakerMethods ==
  ASSUME NEW b \in Breakers, NEW n \in Nat, Exact(b, n)
  PROVE  /\ RecordSuccess(b) \in Breakers /\ Exact(RecordSuccess(b), 0)
         /\ RecordFailure(b) \in Breakers /\ Exact(RecordFailure(b), n + 1)
         /\ Trial(b) \in Breakers /\ Exact(Trial(b), n)
<1>0. ASSUME NEW k, NEW x
      PROVE  [[b EXCEPT !.failures = k] EXCEPT !.state = x]
               = [threshold |-> b.threshold, failures |-> k, state |-> x]
  <2> DEFINE c == [threshold |-> b.threshold, failures |-> k, state |-> b.state]
  <2>1. [b EXCEPT !.failures = k] = c
    BY DEF Breakers
  <2>2. [c EXCEPT !.state = x] = [threshold |-> b.threshold, failures |-> k, state |-> x]
    OBVIOUS
  <2> QED
    BY <2>1, <2>2
<1>1. /\ RecordSuccess(b) = [threshold |-> b.threshold, failures |-> 0, state |-> "Closed"]
      /\ b.threshold \in Nat \ {0}
  BY <1>0 DEF Breakers, RecordSuccess
<1>2. RecordFailure(b) = [threshold |-> b.threshold, failures |-> b.failures + 1,
                          state |-> IF b.failures + 1 >= b.threshold THEN "Open" ELSE b.state]
  BY <1>0 DEF RecordFailure
<1>3. Trial(b) = [threshold |-> b.threshold, failures |-> b.failures,
                  state |-> IF b.state = "Open" THEN "HalfOpen" ELSE b.state]
  BY DEF Breakers, Trial
<1>4. RecordSuccess(b) \in Breakers /\ Exact(RecordSuccess(b), 0)
  BY <1>1 DEF Breakers, Exact
<1>5. RecordFailure(b) \in Breakers /\ Exact(RecordFailure(b), n + 1)
  BY <1>2 DEF Breakers, Exact
<1>6. Trial(b) \in Breakers /\ Exact(Trial(b), n)
  BY <1>3 DEF Breakers, Exact
<1> QED
  BY <1>4, <1>5, <1>6

LEMMA NewBreakerExact == NewBreaker \in Breakers /\ Exact(NewBreaker, 0)
BY ResilienceAssumption DEF NewBreaker, Breakers, Exact

LEMMA BreakerStep ==
  ASSUME BreakerInv, [Next]_vars
  PROVE  BreakerInv'
<1>0. breaker \in Breakers /\ streak \in Nat /\ Exact(breaker, streak)
  BY DEF BreakerInv
<1>1. ASSUME NEW b, NEW n \in Nat, b \in Breakers, Exact(b, n), breaker' = b, streak' = n
      PROVE  BreakerInv'
  BY <1>1 DEF BreakerInv
<1>2. ASSUME UNCHANGED <<breaker, streak>>
      PROVE  BreakerInv'
  BY <1>2 DEF BreakerInv
<1>3. CASE \E s \in Sessions : Upload(s)
  BY <1>0, <1>1, <1>3, BreakerMethods DEF Upload
<1>4. CASE \E s \in Sessions : UploadFails(s)
  <2>1. breaker' = RecordFailure(breaker) /\ streak' = streak + 1
    BY <1>4 DEF UploadFails
  <2> QED
    BY <1>0, <1>1, <2>1, BreakerMethods
<1>5. CASE HalfOpenTrial
  BY <1>0, <1>1, <1>5, BreakerMethods DEF HalfOpenTrial
<1>6. CASE Restart
  BY <1>1, <1>6, NewBreakerExact DEF Restart
<1>7. CASE \/ \E s \in Sessions : ShowAltered(s) \/ DetectEviction(s) \/ DetectUpload(s)
           \/ Release \/ Shutdown \/ (\E t \in mempool : Evict(t) \/ Mine(t)) \/ UNCHANGED vars
  BY <1>2, <1>7 DEF ShowAltered, DetectEviction, DetectUpload, Release, Shutdown, Evict, Mine,
                    submitVars, vars
<1>8. CASE \E s \in Sessions :
             \/ Build(s) \/ \E i \in DOMAIN MembersOf[s] : MemberSigns(s, i)
             \/ \E e \in mail \cup OtherMail(s) : Receive(s, e)
             \/ MembersDone(s) \/ \E p \in Payloads : BroadcasterSigns(s, p)
             \/ Commit(s) \/ Tamper(s)
  BY <1>2, <1>8 DEF Build, MemberSigns, Receive, MembersDone, BroadcasterSigns, Commit, Tamper,
                    submitVars
<1> QED
  BY <1>3, <1>4, <1>5, <1>6, <1>7, <1>8 DEF Next

-----------------------------------------------------------------------------
(* rebuild_from_chain over the snapshot: one status for each member.       *)
IsRenewed(m) == \E t \in mined, s \in Sessions : Spends(t, Funding(m, s))
Entry(m) == [id |-> m, expiry |-> Expiry, spent |-> IsRenewed(m)]

LEMMA RebuildIsExact ==
  ASSUME NEW time \in Nat
  PROVE  RebuildFromChain(Snapshot, time) = [m \in Members |-> StatusOf(Entry(m), time)]
<1> DEFINE N == Cardinality(Members)
           Listing(q) == \A i, j \in DOMAIN q : q[i] = q[j] => i = j
           ms == CHOOSE q \in [1 .. N -> Members] : Listing(q)
<1>1. IsFiniteSet(Members) /\ N \in Nat /\ ExistsBijection(1 .. N, Members)
  BY SessionAssumption, FS_CardinalityType
<1>2. \E q \in [1 .. N -> Members] : Listing(q)
  BY <1>1 DEF ExistsBijection, Bijection, Injection, IsInjective
<1>3. ms \in [1 .. N -> Members] /\ Listing(ms)
  <2> HIDE DEF Listing
  <2> QED
    BY <1>2
<1>4. Snapshot = [i \in 1 .. N |-> Entry(ms[i])]
  BY <1>3 DEF Snapshot, Entry, IsRenewed
<1> HIDE DEF ms
<1>5. \A m \in Members : \E i \in 1 .. N : ms[i] = m
  <2>1. ms \in Injection(1 .. N, Members)
    BY <1>3 DEF Injection, IsInjective
  <2>2. Cardinality(1 .. N) = N
    BY <1>1, FS_Interval
  <2>3. ms \in Surjection(1 .. N, Members)
    BY <1>1, <2>1, <2>2, FS_Injection
  <2> QED
    BY <2>3 DEF Surjection
<1> HIDE DEF N, Listing
<1> DEFINE q == Snapshot
           ids == {q[i].id : i \in DOMAIN q}
           entries == {q[i] : i \in DOMAIN q}
           recordOf(id) == CHOOSE m \in entries : m.id = id
<1>6. DOMAIN q = 1 .. N /\ \A i \in 1 .. N : q[i] = Entry(ms[i])
  BY <1>4
<1>7. \A m : Entry(m).id = m
  BY DEF Entry
<1> HIDE DEF q
<1>8. entries = {Entry(m) : m \in Members}
  BY <1>3, <1>5, <1>6
<1>9. ids = Members
  BY <1>3, <1>5, <1>6, <1>7
<1> HIDE DEF entries
<1>10. ASSUME NEW m \in Members PROVE recordOf(m) = Entry(m)
  <2>1. Entry(m) \in entries /\ Entry(m).id = m
    BY <1>7, <1>8
  <2>2. recordOf(m) \in entries /\ recordOf(m).id = m
    BY <2>1
  <2> HIDE DEF recordOf
  <2> QED
    BY <1>7, <1>8, <2>2
<1>11. RebuildFromChain(q, time) = [id \in ids |-> StatusOf(recordOf(id), time)]
  BY DEF RebuildFromChain, entries
<1> HIDE DEF recordOf, ids
<1>12. RebuildFromChain(q, time) = [m \in Members |-> StatusOf(Entry(m), time)]
  BY <1>9, <1>10, <1>11
<1> QED
  BY <1>12 DEF q

LEMMA Statuses ==
  ASSUME NEW m \in Members, NEW time \in Nat
  PROVE  LET status == StatusOf(Entry(m), time)
         IN  /\ status \in {"Renewed", "Active", "Revoked"}
             /\ status = "Renewed" <=> IsRenewed(m)
             /\ status = "Revoked" => Expiry < time
             /\ status = "Active" => ~(Expiry < time)
<1>1. Entry(m).spent = IsRenewed(m) /\ Entry(m).expiry = Expiry
  BY DEF Entry
<1>2. IsRenewed(m) \in BOOLEAN
  BY DEF IsRenewed
<1> QED
  BY <1>1, <1>2 DEF StatusOf

(* The statuses are those of an earlier start, and the chain only grows.   *)
CacheInv ==
  /\ now \in Nat
  /\ cache \in [Members -> {"Renewed", "Active", "Revoked"}]
  /\ \A m \in Members : /\ cache[m] = "Renewed" => IsRenewed(m)
                        /\ cache[m] = "Revoked" => Expiry < now

LEMMA CacheStep ==
  ASSUME CacheInv, [Next]_vars
  PROVE  /\ CacheInv'
         /\ \A m \in Members : /\ cache[m] = "Renewed" => cache'[m] = "Renewed"
                               /\ cache[m] = "Revoked" => cache'[m] # "Active"
<1>1. ASSUME UNCHANGED <<cache, now>>, mined \subseteq mined'
      PROVE  /\ CacheInv'
             /\ \A m \in Members : /\ cache[m] = "Renewed" => cache'[m] = "Renewed"
                                   /\ cache[m] = "Revoked" => cache'[m] # "Active"
  BY <1>1 DEF CacheInv, IsRenewed
<1>2. CASE Restart
  <2>1. now' = now + 1 /\ now' \in Nat /\ mined' = mined
        /\ cache' = RebuildFromChain(Snapshot, now + 1)
    BY <1>2 DEF Restart, CacheInv
  <2>2. cache' = [m \in Members |-> StatusOf(Entry(m), now + 1)]
    BY <2>1, RebuildIsExact DEF CacheInv
  <2>3. Expiry \in Nat /\ now \in Nat /\ now + 1 \in Nat
    BY SessionAssumption DEF CacheInv
  <2>4. ASSUME NEW m \in Members
        PROVE  /\ cache'[m] \in {"Renewed", "Active", "Revoked"}
               /\ cache'[m] = "Renewed" <=> IsRenewed(m)
               /\ cache'[m] = "Revoked" => Expiry < now + 1
               /\ cache'[m] = "Active" => ~(Expiry < now + 1)
    BY <2>2, <2>3, Statuses
  <2>5. \A m \in Members : IsRenewed(m)' <=> IsRenewed(m)
    BY <2>1 DEF IsRenewed
  <2>6. CacheInv'
    BY <2>1, <2>2, <2>4, <2>5 DEF CacheInv
  <2>7. ASSUME NEW m \in Members
        PROVE  /\ cache[m] = "Renewed" => cache'[m] = "Renewed"
               /\ cache[m] = "Revoked" => cache'[m] # "Active"
    BY <2>3, <2>4 DEF CacheInv
  <2> QED
    BY <2>6, <2>7
<1>3. CASE \/ \E s \in Sessions : \/ ShowAltered(s) \/ Upload(s) \/ UploadFails(s)
                                  \/ DetectEviction(s) \/ DetectUpload(s)
           \/ HalfOpenTrial \/ Release \/ Shutdown \/ UNCHANGED vars
  BY <1>1, <1>3 DEF ShowAltered, Upload, UploadFails, Calling, DetectEviction, DetectUpload,
                    HalfOpenTrial, Release, Shutdown, runVars, nodeVars, vars
<1>4. CASE \E t \in mempool : Evict(t) \/ Mine(t)
  BY <1>1, <1>4 DEF Evict, Mine, runVars
<1>5. CASE \E s \in Sessions :
             \/ Build(s) \/ \E i \in DOMAIN MembersOf[s] : MemberSigns(s, i)
             \/ \E e \in mail \cup OtherMail(s) : Receive(s, e)
             \/ MembersDone(s) \/ \E p \in Payloads : BroadcasterSigns(s, p)
             \/ Commit(s) \/ Tamper(s)
  BY <1>1, <1>5 DEF Build, MemberSigns, Receive, MembersDone, BroadcasterSigns, Commit, Tamper,
                    runVars, nodeVars
<1> QED
  BY <1>2, <1>3, <1>4, <1>5 DEF Next

LEMMA CacheInvariant == Spec => []CacheInv
<1>1. Init => CacheInv
  BY DEF Init, CacheInv
<1>2. CacheInv /\ [Next]_vars => CacheInv'
  BY CacheStep
<1> QED
  BY <1>1, <1>2, PTL DEF Spec

(* recovery.rs: from one start to the next a renewed member stays renewed, *)
(* and a revoked one does not become active again.                         *)
THEOREM RecoveryKeeps == Spec => RecoveryMonotone
<1>1. CacheInv /\ [Next]_vars =>
        [\A m \in Members : /\ cache[m] = "Renewed" => cache'[m] = "Renewed"
                            /\ cache[m] = "Revoked" => cache'[m] # "Active"]_vars
  BY CacheStep
<1> QED
  BY <1>1, CacheInvariant, PTL DEF Spec, RecoveryMonotone

-----------------------------------------------------------------------------
(* Transactions of different sub-sessions differ: the broadcaster spends a *)
(* coin of its own in each.                                                *)
LEMMA DifferentSessions ==
  ASSUME NEW s \in Sessions, NEW r \in Sessions, NEW t, TxOk(t, s), TxOk(t, r)
  PROVE  s = r
<1>1. Size(s) \in Nat /\ Size(r) \in Nat
  BY Sizes
<1>2. Len(t.inputs) = Size(s) + 1 /\ Len(t.inputs) = Size(r) + 1
  BY <1>1, ShapeLengths DEF TxOk
<1>3. Size(s) = Size(r)
  BY <1>1, <1>2
<1>4. ASSUME NEW k \in Sessions, TxOk(t, k)
      PROVE  t.inputs[Size(k) + 1].outpoint[2] = k
  BY <1>4 DEF TxOk, FundedBy, Funding, Spare
<1> QED
  BY <1>3, <1>4

(* A commit is the only step after which a sub-session is newly committed, *)
(* and it needs the broadcaster's flag.                                    *)
LEMMA NewlyCommitted ==
  ASSUME SessionInv, [Next]_vars, NEW s \in Sessions, ~flight[s].committed, flight'[s].committed
  PROVE  tx'[s] = tx[s] /\ SealedSince(s, sealed, shutdowns)
<1> USE DEF SessionInv, FlightInv
<1>0. flight[s] \in Flags
  OBVIOUS
<1>1. CASE \/ QuietStep \/ UNCHANGED vars \/ Restart
           \/ \E r \in Sessions : \E i \in DOMAIN MembersOf[r] : MemberSigns(r, i)
  BY <1>1, QuietLeaves DEF Restart, draftVars, MemberSigns
<1>2. CASE \E r \in Sessions : \/ Build(r) \/ Tamper(r)
                               \/ \E e \in mail \cup OtherMail(r) : Receive(r, e)
  BY <1>2 DEF Build, Receive, Tamper
<1>3. CASE \E r \in Sessions : MembersDone(r) \/ \E p \in Payloads : BroadcasterSigns(r, p)
  <2>1. PICK r \in Sessions : \/ flight' = [flight EXCEPT ![r] = InFlightSignMember(flight[r])]
                             \/ flight' = [flight EXCEPT ![r] = InFlightSignBroadcaster(flight[r])]
    BY <1>3 DEF MembersDone, BroadcasterSigns
  <2>2. flight'[s] \in {flight[s], InFlightSignMember(flight[s]), InFlightSignBroadcaster(flight[s])}
    BY <2>1
  <2>3. /\ InFlightSignMember(flight[s]).committed = flight[s].committed
        /\ InFlightSignBroadcaster(flight[s]).committed = flight[s].committed
    BY <1>0, FlagUpdates
  <2> QED
    BY <2>2, <2>3
<1>4. CASE \E r \in Sessions : Commit(r)
  <2>1. PICK r \in Sessions : Commit(r)
    BY <1>4
  <2>2. tx' = tx /\ flight' = [flight EXCEPT ![r] = InFlightCommit(flight[r])]
    BY <2>1 DEF Commit
  <2>3. r = s /\ InFlightCommit(flight[s]).committed
    BY <2>2
  <2>4. flight[s].broadcaster
    BY <1>0, <2>3, FlagUpdates
  <2> QED
    BY <2>2, <2>4 DEF FlightOk
<1>5. CASE Shutdown
  BY <1>0, <1>5, FlagUpdates DEF Shutdown
<1> QED
  BY <1>1, <1>2, <1>3, <1>4, <1>5 DEF Next, QuietStep

(* graceful_shutdown and commit: what was rolled back is committed only    *)
(* after the broadcaster has signed it again in this run of the service.   *)
THEOREM RollbackIsHonoured == Spec => RollbackHonoured
<1>1. SessionInv /\ [Next]_vars =>
        [\A s \in Sessions : flight'[s].committed /\ ~flight[s].committed =>
                              \E x \in sealed : x.session = s /\ x.life = shutdowns]_vars
  BY NewlyCommitted DEF SealedSince
<1> QED
  BY <1>1, SessionInvariant, PTL DEF Spec, RollbackHonoured

(* The Resubmitter: what it knows are committed transactions, and a call   *)
(* is due exactly for those it does not know or has found evicted.         *)
Due(s) == IF flight[s].committed /\ tx[s] \in resub.known \ resub.evicted THEN 0 ELSE 1

CallInv ==
  /\ resub \in [known : {resub.known}, evicted : {resub.evicted}]
  /\ resub.evicted \subseteq resub.known
  /\ \A t \in resub.known : \E s \in Sessions : flight[s].committed /\ tx[s] = t
  /\ credit = [s \in Sessions |-> Due(s)]

LEMMA UnknownBeforeCommit ==
  ASSUME SessionInv, CallInv, NEW s \in Sessions, ~flight[s].committed, tx[s] # NoTx
  PROVE  tx[s] \notin resub.known
<1> SUFFICES ASSUME NEW r \in Sessions, flight[r].committed, tx[r] = tx[s] PROVE FALSE
  BY DEF CallInv
<1>1. TxOk(tx[s], s) /\ TxOk(tx[r], r)
  BY DEF SessionInv, DraftInv
<1> QED
  BY <1>1, DifferentSessions

(* Steps that do not go through the Resubmitter. *)
LEMMA NoCall ==
  ASSUME SessionInv, SessionInv', CallInv, [Next]_vars, UNCHANGED <<resub, credit>>
  PROVE  CallInv'
<1>1. \A t \in resub'.known : \E s \in Sessions : flight'[s].committed /\ tx'[s] = t
  BY CommittedStays DEF CallInv
<1>2. ASSUME NEW s \in Sessions PROVE Due(s)' = Due(s)
  <2>1. CASE flight[s].committed
    BY <2>1, CommittedStays DEF Due
  <2>2. CASE ~flight[s].committed /\ ~flight'[s].committed
    BY <2>2 DEF Due
  <2>3. CASE ~flight[s].committed /\ flight'[s].committed
    <3>1. tx'[s] = tx[s]
      BY <2>3, NewlyCommitted
    <3>2. tx'[s] # NoTx
      BY <2>3 DEF SessionInv, FlightInv, FlightOk
    <3>3. tx[s] \notin resub.known
      BY <2>3, <3>1, <3>2, UnknownBeforeCommit
    <3> QED
      BY <2>3, <3>1, <3>3 DEF Due
  <2> QED
    BY <2>1, <2>2, <2>3
<1>3. credit' = [s \in Sessions |-> Due(s)']
  BY <1>2 DEF CallInv
<1> QED
  BY <1>1, <1>3 DEF CallInv

(* A step that changes the Resubmitter's record of one committed           *)
(* transaction and the credit of its sub-session.                          *)
LEMMA OneCall ==
  ASSUME SessionInv, CallInv, NEW s \in Sessions, flight[s].committed,
         UNCHANGED <<tx, flight>>, NEW K, NEW E, resub' = [known |-> K, evicted |-> E],
         E \subseteq K, K \subseteq resub.known \cup {tx[s]},
         \A t : t # tx[s] => (t \in K \ E <=> t \in resub.known \ resub.evicted),
         credit' = [credit EXCEPT ![s] = IF tx[s] \in K \ E THEN 0 ELSE 1]
  PROVE  CallInv'
<1>1. /\ resub' \in [known : {resub'.known}, evicted : {resub'.evicted}]
      /\ resub'.known = K /\ resub'.evicted = E
  OBVIOUS
<1>2. \A t \in K : \E r \in Sessions : flight'[r].committed /\ tx'[r] = t
  BY DEF CallInv
<1>3. ASSUME NEW r \in Sessions
      PROVE  credit'[r] = IF flight[r].committed /\ tx[r] \in K \ E THEN 0 ELSE 1
  <2>1. CASE r = s
    BY <2>1 DEF CallInv
  <2>2. CASE r # s /\ flight[r].committed
    <3>1. TxOk(tx[s], s) /\ TxOk(tx[r], r)
      BY <2>2 DEF SessionInv, DraftInv, FlightInv, FlightOk
    <3>2. tx[r] # tx[s]
      BY <2>2, <3>1, DifferentSessions
    <3>3. tx[r] \in K \ E <=> tx[r] \in resub.known \ resub.evicted
      BY <3>2
    <3> QED
      BY <2>2, <3>3 DEF CallInv, Due
  <2>3. CASE r # s /\ ~flight[r].committed
    BY <2>3 DEF CallInv, Due
  <2> QED
    BY <2>1, <2>2, <2>3
<1>4. credit' = [r \in Sessions |-> IF flight[r].committed /\ tx[r] \in K \ E THEN 0 ELSE 1]
  <2>1. credit' = [r \in Sessions |-> credit'[r]]
    BY DEF CallInv
  <2> QED
    BY <1>3, <2>1
<1>5. \A r \in Sessions : Due(r)' = IF flight[r].committed /\ tx[r] \in K \ E THEN 0 ELSE 1
  BY <1>1 DEF Due
<1>6. credit' = [r \in Sessions |-> Due(r)']
  BY <1>4, <1>5
<1> QED
  BY <1>1, <1>2, <1>6 DEF CallInv

(* submit and resubmit_evicted. *)
LEMMA CallingKeepsCredit ==
  ASSUME SessionInv, CallInv, NEW s \in Sessions, Calling(s)
  PROVE  CallInv'
<1>1. /\ flight[s].committed /\ UNCHANGED <<tx, flight>>
      /\ Attempt(s).outcome \in {"Broadcast", "Rebroadcast"}
      /\ resub' = Attempt(s).state /\ credit' = [credit EXCEPT ![s] = credit[s] - 1]
  BY DEF Calling, draftVars, CallInv
<1>2. credit[s] = Due(s)
  BY DEF CallInv
<1>3. resub \in [known : {resub.known}, evicted : {resub.evicted}] /\ resub.evicted \subseteq resub.known
  BY DEF CallInv
<1>4. CASE tx[s] \in resub.evicted
  <2> DEFINE E == resub.evicted \ {tx[s]}
  <2>1. resub' = [known |-> resub.known, evicted |-> E]
    BY <1>1, <1>3, <1>4 DEF Attempt, ResubmitEvicted
  <2>2. credit' = [credit EXCEPT ![s] = 0]
    <3>1. credit[s] = 1 /\ 1 - 1 = 0
      BY <1>2, <1>4 DEF Due
    <3> QED
      BY <1>1, <3>1
  <2>3. tx[s] \in resub.known \ E /\ E \subseteq resub.known
    BY <1>3, <1>4
  <2>4. \A t : t # tx[s] => (t \in resub.known \ E <=> t \in resub.known \ resub.evicted)
    OBVIOUS
  <2> HIDE DEF E
  <2> QED
    BY <1>1, <2>1, <2>2, <2>3, <2>4, OneCall
<1>5. CASE tx[s] \notin resub.evicted
  <2> DEFINE K == resub.known \cup {tx[s]}
  <2>1. tx[s] \notin resub.known
    BY <1>1, <1>5 DEF Attempt, Submit
  <2>2. resub' = [known |-> K, evicted |-> resub.evicted]
    BY <1>1, <1>3, <1>5, <2>1 DEF Attempt, Submit
  <2>3. credit' = [credit EXCEPT ![s] = 0]
    <3>1. credit[s] = 1 /\ 1 - 1 = 0
      BY <1>2, <2>1 DEF Due
    <3> QED
      BY <1>1, <3>1
  <2>4. tx[s] \in K \ resub.evicted /\ resub.evicted \subseteq K
    BY <1>3, <1>5
  <2>5. \A t : t # tx[s] => (t \in K \ resub.evicted <=> t \in resub.known \ resub.evicted)
    OBVIOUS
  <2>6. K \subseteq resub.known \cup {tx[s]}
    OBVIOUS
  <2> HIDE DEF K
  <2> QED
    BY <1>1, <2>2, <2>3, <2>4, <2>5, <2>6, OneCall
<1> QED
  BY <1>4, <1>5

(* mark_evicted. *)
LEMMA DetectEvictionKeepsCredit ==
  ASSUME SessionInv, CallInv, NEW s \in Sessions, DetectEviction(s)
  PROVE  CallInv'
<1> DEFINE E == resub.evicted \cup {tx[s]}
<1>1. /\ flight[s].committed /\ tx[s] \in resub.known /\ UNCHANGED <<tx, flight>>
      /\ resub' = MarkEvicted(resub, tx[s])
      /\ credit' = [credit EXCEPT ![s] = IF tx[s] \in resub.evicted THEN credit[s] ELSE credit[s] + 1]
  BY DEF DetectEviction, draftVars, CallInv
<1>2. credit[s] = (IF tx[s] \in resub.evicted THEN 1 ELSE 0) /\ 0 + 1 = 1
  BY <1>1 DEF CallInv, Due
<1>3. resub \in [known : {resub.known}, evicted : {resub.evicted}] /\ resub.evicted \subseteq resub.known
  BY DEF CallInv
<1>4. resub' = [known |-> resub.known, evicted |-> E]
  BY <1>1, <1>3 DEF MarkEvicted
<1>5. credit' = [credit EXCEPT ![s] = 1] /\ tx[s] \notin resub.known \ E /\ E \subseteq resub.known
  BY <1>1, <1>2, <1>3
<1>6. \A t : t # tx[s] => (t \in resub.known \ E <=> t \in resub.known \ resub.evicted)
  OBVIOUS
<1> HIDE DEF E
<1> QED
  BY <1>1, <1>4, <1>5, <1>6, OneCall

LEMMA CallStep ==
  ASSUME SessionInv, CallInv, [Next]_vars
  PROVE  CallInv'
<1>0. SessionInv'
  BY SessionStep
<1>1. CASE \E s \in Sessions : Upload(s) \/ UploadFails(s)
  BY <1>1, CallingKeepsCredit DEF Upload, UploadFails
<1>2. CASE \E s \in Sessions : DetectEviction(s)
  BY <1>2, DetectEvictionKeepsCredit
<1>3. CASE Restart
  <2>1. /\ resub' = NewResubmitter /\ credit' = [s \in Sessions |-> 1]
    BY <1>3 DEF Restart
  <2>2. resub'.known = {} /\ resub'.evicted = {}
        /\ resub' \in [known : {resub'.known}, evicted : {resub'.evicted}]
    BY <2>1 DEF NewResubmitter
  <2>3. \A s \in Sessions : Due(s)' = 1
    BY <2>2 DEF Due
  <2> QED
    BY <2>1, <2>2, <2>3 DEF CallInv
<1>4. CASE \/ \E s \in Sessions : ShowAltered(s) \/ DetectUpload(s)
           \/ HalfOpenTrial \/ Release \/ Shutdown \/ (\E t \in mempool : Evict(t) \/ Mine(t))
           \/ UNCHANGED vars
  BY <1>0, <1>4, NoCall DEF ShowAltered, DetectUpload, HalfOpenTrial, Release, Shutdown, Evict, Mine,
                            submitVars, vars
<1>5. CASE \E s \in Sessions :
             \/ Build(s) \/ \E i \in DOMAIN MembersOf[s] : MemberSigns(s, i)
             \/ \E e \in mail \cup OtherMail(s) : Receive(s, e)
             \/ MembersDone(s) \/ \E p \in Payloads : BroadcasterSigns(s, p)
             \/ Commit(s) \/ Tamper(s)
  <2>1. UNCHANGED <<resub, credit>>
    BY <1>5 DEF Build, MemberSigns, Receive, MembersDone, BroadcasterSigns, Commit, Tamper, submitVars
  <2> QED
    BY <1>0, <2>1, NoCall
<1> QED
  BY <1>1, <1>2, <1>3, <1>4, <1>5 DEF Next

-----------------------------------------------------------------------------
(* What was uploaded is still there, unless the node evicted something.    *)
Kept(s) == flight[s].committed /\ (evictions > 0 \/ tx[s] \in mempool \cup mined)

UploadInv ==
  /\ evictions \in Nat /\ released \in BOOLEAN /\ uploaded \in [Sessions -> BOOLEAN]
  /\ \A s \in Sessions : uploaded[s] \/ released => Kept(s)

LEMMA NodeKeeps ==
  ASSUME [Next]_vars, evictions \in Nat
  PROVE  /\ evictions' \in Nat /\ evictions' >= evictions
         /\ evictions' > 0 \/ mempool \cup mined \subseteq mempool' \cup mined'
<1>1. CASE \E t \in mempool : Evict(t)
  BY <1>1 DEF Evict
<1>2. CASE \E t \in mempool : Mine(t)
  BY <1>2 DEF Mine
<1>3. CASE \E s \in Sessions : ShowAltered(s) \/ Upload(s) \/ UploadFails(s)
  BY <1>3 DEF ShowAltered, Upload, UploadFails, Calling, Taken
<1>4. CASE \/ \E s \in Sessions : DetectEviction(s) \/ DetectUpload(s)
           \/ HalfOpenTrial \/ Release \/ Shutdown \/ Restart \/ UNCHANGED vars
  <2>1. UNCHANGED <<mempool, mined, evictions>>
    BY <1>4 DEF DetectEviction, DetectUpload, HalfOpenTrial, Release, Shutdown, Restart, nodeVars, vars
  <2> QED
    BY <2>1
<1>5. CASE \E s \in Sessions :
             \/ Build(s) \/ \E i \in DOMAIN MembersOf[s] : MemberSigns(s, i)
             \/ \E e \in mail \cup OtherMail(s) : Receive(s, e)
             \/ MembersDone(s) \/ \E p \in Payloads : BroadcasterSigns(s, p)
             \/ Commit(s) \/ Tamper(s)
  <2>1. UNCHANGED <<mempool, mined, evictions>>
    BY <1>5 DEF Build, MemberSigns, Receive, MembersDone, BroadcasterSigns, Commit, Tamper, nodeVars
  <2> QED
    BY <2>1
<1> QED
  BY <1>1, <1>2, <1>3, <1>4, <1>5 DEF Next

LEMMA KeptStays ==
  ASSUME SessionInv, [Next]_vars, evictions \in Nat, NEW s \in Sessions, Kept(s)
  PROVE  Kept(s)'
<1>1. tx'[s] = tx[s] /\ flight'[s].committed
  BY CommittedStays DEF Kept
<1> QED
  BY <1>1, NodeKeeps DEF Kept

LEMMA UploadStep ==
  ASSUME SessionInv, UploadInv, [Next]_vars
  PROVE  UploadInv'
<1>0. evictions' \in Nat /\ \A s \in Sessions : Kept(s) => Kept(s)'
  BY NodeKeeps, KeptStays DEF UploadInv
<1>1. ASSUME uploaded' \in [Sessions -> BOOLEAN], released' \in BOOLEAN,
             \A s \in Sessions : uploaded'[s] \/ released' => uploaded[s] \/ released \/ Kept(s)'
      PROVE  UploadInv'
  BY <1>0, <1>1 DEF UploadInv
<1>2. CASE \E s \in Sessions : Upload(s)
  <2>1. PICK s \in Sessions : Upload(s)
    BY <1>2
  <2>2. /\ uploaded' = [uploaded EXCEPT ![s] = Accepts(tx[s])] /\ released' = released
        /\ flight[s].committed /\ UNCHANGED <<tx, flight, mined>>
        /\ mempool' = IF Accepts(tx[s]) /\ tx[s] \notin mined THEN mempool \cup {tx[s]} ELSE mempool
    BY <2>1 DEF Upload, Calling, Taken, runVars, draftVars
  <2>3. Accepts(tx[s]) \in BOOLEAN
    BY DEF Accepts
  <2>4. Accepts(tx[s]) => Kept(s)'
    BY <2>2 DEF Kept
  <2>5. uploaded' \in [Sessions -> BOOLEAN]
    BY <2>2, <2>3 DEF UploadInv
  <2>6. \A r \in Sessions : uploaded'[r] => uploaded[r] \/ Kept(r)'
    BY <2>2, <2>4 DEF UploadInv
  <2> QED
    BY <1>1, <2>2, <2>5, <2>6 DEF UploadInv
<1>3. CASE \E s \in Sessions : DetectEviction(s)
  BY <1>1, <1>3 DEF DetectEviction, runVars, UploadInv
<1>4. CASE \E s \in Sessions : DetectUpload(s)
  <2>1. PICK s \in Sessions : DetectUpload(s)
    BY <1>4
  <2>2. /\ uploaded' = [uploaded EXCEPT ![s] = TRUE] /\ released' = released
        /\ flight[s].committed /\ tx[s] \in mempool \cup mined
    BY <2>1 DEF DetectUpload, runVars
  <2>3. Kept(s)'
    BY <1>0, <2>2 DEF Kept
  <2> QED
    BY <1>1, <2>2, <2>3 DEF UploadInv
<1>5. CASE Release
  <2>1. uploaded' = uploaded /\ released' = TRUE /\ \A s \in DOMAIN uploaded : uploaded[s]
    BY <1>5 DEF Release, submitVars, ReadyToRelease
  <2> QED
    BY <1>1, <2>1 DEF UploadInv
<1>6. CASE Restart
  <2>1. uploaded' = [s \in Sessions |-> FALSE] /\ released' = released
    BY <1>6 DEF Restart
  <2> QED
    BY <1>1, <2>1 DEF UploadInv
<1>7. CASE UNCHANGED <<uploaded, released>>
  BY <1>1, <1>7 DEF UploadInv
<1>8. CASE \/ \E s \in Sessions : UploadFails(s) \/ ShowAltered(s)
           \/ HalfOpenTrial \/ Shutdown \/ (\E t \in mempool : Evict(t) \/ Mine(t)) \/ UNCHANGED vars
  BY <1>7, <1>8 DEF UploadFails, Calling, ShowAltered, HalfOpenTrial, Shutdown, Evict, Mine,
                    submitVars, runVars, vars
<1>9. CASE \E s \in Sessions :
             \/ Build(s) \/ \E i \in DOMAIN MembersOf[s] : MemberSigns(s, i)
             \/ \E e \in mail \cup OtherMail(s) : Receive(s, e)
             \/ MembersDone(s) \/ \E p \in Payloads : BroadcasterSigns(s, p)
             \/ Commit(s) \/ Tamper(s)
  BY <1>7, <1>9 DEF Build, MemberSigns, Receive, MembersDone, BroadcasterSigns, Commit, Tamper,
                    submitVars, runVars
<1> QED
  BY <1>2, <1>3, <1>4, <1>5, <1>6, <1>8, <1>9 DEF Next

(* From commit to release, for any number of sub-sessions, failures,       *)
(* evictions and restarts: the node is called once per transaction and     *)
(* eviction found, the breaker is exact, delays grow within their bounds,  *)
(* what is committed is whole, and the broadcast is released when          *)
(* everything was uploaded.                                                *)
THEOREM SubmissionIsSound == Spec => []SubmissionSound
<1> DEFINE Inv == BreakerInv /\ CallInv /\ UploadInv /\ RenewalInv
<1>1. Init => Inv
  <2> SUFFICES ASSUME Init PROVE Inv
    OBVIOUS
  <2>1. BreakerInv
    BY NewBreakerExact DEF Init, BreakerInv
  <2>2. CallInv
    BY DEF Init, CallInv, Due, NewResubmitter
  <2>3. UploadInv
    BY DEF Init, UploadInv
  <2> QED
    BY <2>1, <2>2, <2>3, RenewalInit
<1>2. SessionInv /\ Inv /\ [Next]_vars => Inv'
  BY BreakerStep, CallStep, UploadStep, RenewalStep
<1>3. SessionInv /\ CacheInv /\ Inv => SubmissionSound
  <2> SUFFICES ASSUME SessionInv, CacheInv, BreakerInv, CallInv, UploadInv, RenewalInv
               PROVE  SubmissionSound
    OBVIOUS
  <2>1. TypeOK
    <3>1. ASSUME NEW s \in Sessions, tx[s] # NoTx
          PROVE  /\ Len(tx[s].inputs) = Len(MembersOf[s]) + 1
                 /\ Len(tx[s].outputs) = Len(tx[s].inputs) + 1
      <4>1. Size(s) \in Nat /\ TxShape(tx[s], Size(s))
        BY <3>1, Sizes DEF SessionInv, DraftInv, TxOk
      <4> QED
        BY <4>1, ShapeLengths DEF Size
    <3>2. flight \in [Sessions -> [member : BOOLEAN, broadcaster : BOOLEAN, committed : BOOLEAN]]
          /\ stopped \in BOOLEAN
      BY DEF SessionInv, FlightInv, Flags
    <3>3. renewed \in [Members -> Nat] /\ resub.evicted \subseteq resub.known
      BY DEF RenewalInv, CallInv
    <3>4. breaker \in [threshold : Nat \ {0}, failures : Nat, state : {"Closed", "Open", "HalfOpen"}]
      BY DEF BreakerInv, Breakers
    <3>5. /\ uploaded \in [Sessions -> BOOLEAN] /\ released \in BOOLEAN
          /\ cache \in [Members -> {"Renewed", "Active", "Revoked"}]
      BY DEF UploadInv, CacheInv
    <3> QED
      BY <3>1, <3>2, <3>3, <3>4, <3>5 DEF TypeOK
  <2>2. OneCallPerEviction
    BY DEF OneCallPerEviction, CallInv, Due
  <2>3. BreakerExact
    BY DEF BreakerInv, Exact, BreakerExact
  <2>4. BackoffGrows
    <3>1. breaker.failures \in Nat
      BY DEF BreakerInv, Breakers
    <3> QED
      BY <3>1, BackoffBounds DEF BackoffGrows
  <2>5. ReleasedIsUploaded
    BY DEF UploadInv, Kept, ReleasedIsUploaded
  <2>6. CommittedIsWhole
    BY DEF SessionInv, FlightInv, FlightOk, Verified, MembersVerified, CommittedIsWhole
  <2> QED
    BY <2>1, <2>2, <2>3, <2>4, <2>5, <2>6 DEF SubmissionSound
<1> QED
  BY <1>1, <1>2, <1>3, SessionInvariant, CacheInvariant, PTL DEF Spec
==============================================================================
