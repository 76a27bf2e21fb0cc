--------------------------------- MODULE Gg20 --------------------------------
(***************************************************************************)
(* Threshold ECDSA with identifiable abort: crates/custody gg20.rs, the    *)
(* echo round before it (echo.rs) and the check of the final shares after  *)
(* it (type7.rs).                                                          *)
(*                                                                         *)
(* One signing by a quorum: the round-one messages are echoed; every       *)
(* Paillier modulus proof is checked; nonces are drawn; each ordered pair  *)
(* of parties turns the products k_i gamma_j and k_i w_j into sums, with   *)
(* two proofs per exchange; and the shares are combined.  One party may    *)
(* cheat: it shows the modulus proof of another, or sends a ciphertext its *)
(* proof is not about.  A party is named by its position in the quorum,    *)
(* from 1.                                                                 *)
(*                                                                         *)
(* The curve is a cyclic group of prime order Q, a point its discrete      *)
(* logarithm; XCoord is the abscissa of a point reduced modulo Q, equal    *)
(* for a point and its negation.                                           *)
(***************************************************************************)
EXTENDS Paillier, FiniteSetsExt, SequencesExt

CONSTANTS
  Setups,        \* the thresholds and quorums: records [t, quorum]
  N,             \* the number of shares
  Primes, Bases, Moduli,  \* per share: Paillier primes, ring-Pedersen base and modulus
  Secrets, Coeffs, KDraws, GammaDraws, BetaDraws,  \* what random_scalar may draw
  Draws,         \* what one proof attempt may draw, with a Paillier nonce r
  XCoord(_),     \* point_x_as_scalar
  Hashes,        \* scalar_from_hash of the messages
  Payloads       \* round-one messages

ASSUME Gg20Assumption ==
  /\ Q \in Nat /\ Q > 2 /\ \A d \in 2 .. Q - 1 : Q % d # 0
  /\ \A s \in Setups : s.t \in 1 .. N /\ s.quorum \in Seq(1 .. N) /\ IsInjective(s.quorum)
  /\ Secrets \cup Coeffs \cup KDraws \cup GammaDraws \cup BetaDraws \subseteq 1 .. Q - 1
  /\ \A p \in 1 .. N :   \* generate: n > q^2 and both inverses exist
       LET k == Generate(Primes[p][1], Primes[p][2]) IN
       /\ k.n > Q * Q /\ Coprime(k.lambda, k.n)
       /\ \A d \in Draws : Coprime(d.r, k.n) /\ Coprime(d.beta, k.n)
  /\ \A x \in 1 .. Q - 1 : XCoord(x) \in 0 .. Q - 1 /\ XCoord(Q - x) = XCoord(x)

VARIABLES
  stage,     \* how far the signing has come
  setup,     \* the threshold, and the parties given to sign
  views,     \* the echo round: PartyView.messages of each receiver
  key,       \* the dealer's polynomial (history)
  cheat,     \* the party that cheats, and how
  k, gamma,  \* the parties' nonce shares
  call,      \* the exchanges made so far
  delta, sigma,
  m, outcome, \* the message's scalar; what sign_identifiable returned
  attrib     \* the final shares published, and what type7 made of them

vars == <<stage, setup, views, key, cheat, k, gamma, call, delta, sigma, m, outcome, attrib>>

AddQ(a, b) == (a + b) % Q
SubQ(a, b) == (a + Q - b) % Q
MulQ(a, b) == (a * b) % Q
InvQ(a) == IF a = 0 THEN 0 ELSE InverseMod(a, Q)
F == INSTANCE Shamir WITH Add <- AddQ, Sub <- SubQ, Mul <- MulQ, Inv <- InvQ
SumQ(f) == FoldLeft(AddQ, 0, f)

Count == Len(setup.quorum)
Index == 1 .. Count
NoCheat == [party |-> 0, how |-> "none"]
Pending == [kind |-> "pending", party |-> 0, r |-> 0, s |-> 0]
Fault(i, what) == [kind |-> what, party |-> i, r |-> 0, s |-> 0]
Internal(what) == [kind |-> what, party |-> 0, r |-> 0, s |-> 0]
NoAttrib == [sent |-> <<>>, verdict |-> "none", party |-> 0]

(* Gg20Party::new, for the i-th of the quorum. *)
PaillierOf(i) == LET p == Primes[setup.quorum[i]] IN Generate(p[1], p[2])
PedersenOf(i) == LET p == setup.quorum[i] IN RingPedersen(Moduli[p], Bases[p][1], Bases[p][2])
ModulusProofOf(i) ==
  IF cheat.how = "modulus" /\ cheat.party = i
  THEN ProveModulus(PaillierOf(IF i = 1 THEN 2 ELSE 1)) ELSE ProveModulus(PaillierOf(i))

(* dealer_keygen; w_i is the party's share of the key in this quorum. *)
Share(p) == F!Eval(key, p)
Weight(i) == MulQ(F!AtZero(setup.quorum, i), Share(setup.quorum[i]))
QuorumKey == SumQ([i \in Index |-> Weight(i)])

-------------------------------------------------------------------------------
(* run_echo_round: equal transcripts, or the first sender two receivers    *)
(* disagree about, or else the last one.                                   *)
EchoSuspect(vs) ==
  LET senders == 1 .. Max({Len(vs[v]) : v \in DOMAIN vs})
      differs(s) == \E v, w \in DOMAIN vs :
        s \in DOMAIN vs[v] \cap DOMAIN vs[w] /\ vs[v][s] # vs[w][s]
      named == {s \in senders : differs(s)}
  IN Fault(IF named = {} THEN Max(senders) ELSE Min(named), "Equivocation")
EchoRound(vs) == IF \A v, w \in DOMAIN vs : vs[v] = vs[w] THEN Pending ELSE EchoSuspect(vs)

(* Each receiver's view; one of them may miss the last message. *)
Views ==
  LET full == [Index -> [Index -> Payloads]]
  IN full \cup {[v EXCEPT ![r] = SubSeq(@, 1, Count - 1)] : v \in full, r \in Index}

Echo ==
  /\ stage = "echo"
  /\ \E vs \in Views :
       /\ views' = vs
       /\ outcome' = EchoRound(vs)
       /\ stage' = IF EchoRound(vs) = Pending THEN "sign" ELSE "done"
  /\ UNCHANGED <<setup, key, cheat, k, gamma, call, delta, sigma, m, attrib>>

-------------------------------------------------------------------------------
(* sign_identifiable until the exchanges: the quorum's size, the modulus   *)
(* proofs in order, then the nonces and their local products.              *)
BadModuli == {i \in Index : ~VerifyModulus(PaillierOf(i).n, ModulusProofOf(i))}
Fails(o) == /\ outcome' = o /\ stage' = "done"
            /\ UNCHANGED <<k, gamma, call, delta, sigma, m>>
Begin ==
  /\ stage = "sign" /\ views' = <<>>
  /\ \/ Count < 2 /\ Fails(Internal("InsufficientShares"))
     \/ Count >= 2 /\ BadModuli # {} /\ Fails(Fault(Min(BadModuli), "ModulusProof"))
     \/ /\ Count >= 2 /\ BadModuli = {}
        /\ \E ks \in [Index -> KDraws], gs \in [Index -> GammaDraws], h \in Hashes :
             /\ k' = ks /\ gamma' = gs /\ m' = h
             /\ delta' = [i \in Index |-> MulQ(ks[i], gs[i])]
             /\ sigma' = [i \in Index |-> MulQ(ks[i], Weight(i))]
        /\ stage' = "mta" /\ UNCHANGED <<call, outcome>>
  /\ UNCHANGED <<setup, key, cheat, attrib>>

(* The exchanges in the order of mta_accumulate: for every ordered pair    *)
(* one for delta and one for sigma.                                        *)
Calls == LET pairs == SelectSeq([n \in 1 .. Count * Count |->
                                   <<((n - 1) \div Count) + 1, ((n - 1) % Count) + 1>>],
                                LAMBDA p : p[1] # p[2])
         IN [n \in 1 .. 2 * Len(pairs) |->
               [i |-> pairs[(n + 1) \div 2][1], j |-> pairs[(n + 1) \div 2][2],
                what |-> IF n % 2 = 1 THEN "delta" ELSE "sigma"]]

(* A cheating initiator or responder sends an encryption of one more than  *)
(* its proof is about.                                                     *)
Sent(pk, c, role, i) ==
  IF cheat.how = role /\ cheat.party = i THEN AddCipher(pk, c, EncryptWith(pk, 1, 1)) ELSE c

(* mta: Pending with the two shares, or the party at fault, or no proof    *)
(* with s1 <= q^3 in 32 attempts.                                          *)
Shares(alpha, beta) == [outcome |-> Pending, alpha |-> alpha, beta |-> beta]
Refuse(o) == [outcome |-> o, alpha |-> 0, beta |-> 0]
NegKeeps(b) == b       \* mutant: the mask is not negated
NegQ(b) == SubQ(0, b)
FaultSwapped(c, what) == Fault(IF what = "ResponderProof" THEN c.i ELSE c.j, what)   \* mutant
FaultOf(c, what) == Fault(IF what = "ResponderProof" THEN c.j ELSE c.i, what)
Mta(c, a, b, betaPrime, d1, d2) ==
  LET pk == PaillierOf(c.i)
      honestA == EncryptWith(pk, a, d1.r)
      proofA == Prove(pk, PedersenOf(c.j), honestA, a, d1.r, d1)
      ca == Sent(pk, honestA, "initiator", c.i)
      honestB == AddCipher(pk, MulConst(pk, ca, b), EncryptWith(pk, betaPrime, d2.r))
      proofB == ProveResponder(pk, PedersenOf(c.i), ca, honestB, b, betaPrime, d2.r, d2)
      cb == Sent(pk, honestB, "responder", c.j)
  IN IF proofA.s1 > Q3 THEN Refuse(Internal("Signing"))
     ELSE IF ~VerifyRange(pk, PedersenOf(c.j), ca, proofA)
       THEN Refuse(FaultOf(c, "InitiatorRangeProof"))
     ELSE IF proofB.s1 > Q3 THEN Refuse(Internal("Signing"))
     ELSE IF ~VerifyResponder(pk, PedersenOf(c.i), ca, cb, proofB)
       THEN Refuse(FaultOf(c, "ResponderProof"))
     ELSE Shares(Decrypt(pk, cb) % Q, NegQ(betaPrime))

AddTo(f, c, r) == [f EXCEPT ![c.i] = AddQ(@, r.alpha), ![c.j] = AddQ(@, r.beta)]
Exchange ==
  /\ stage = "mta" /\ call < Len(Calls)
  /\ \E betaPrime \in BetaDraws, d1, d2 \in Draws :
       LET c == Calls[call + 1]
           r == Mta(c, k[c.i], IF c.what = "delta" THEN gamma[c.j] ELSE Weight(c.j),
                    betaPrime, d1, d2)
       IN /\ outcome' = r.outcome
          /\ IF r.outcome = Pending
             THEN /\ call' = call + 1
                  /\ delta' = IF c.what = "delta" THEN AddTo(delta, c, r) ELSE delta
                  /\ sigma' = IF c.what = "sigma" THEN AddTo(sigma, c, r) ELSE sigma
                  /\ UNCHANGED stage
             ELSE stage' = "done" /\ UNCHANGED <<call, delta, sigma>>
  /\ UNCHANGED <<setup, views, key, cheat, k, gamma, m, attrib>>

(* The combination, and assemble_der with its normalize_s. *)
LowS(s) == IF s > Q \div 2 THEN Q - s ELSE s
NoncePoint == MulQ(SumQ(gamma), InvQ(SumQ(delta)))
SShare(r, i) == AddQ(MulQ(m, k[i]), MulQ(r, sigma[i]))
Combine ==
  LET r == XCoord(NoncePoint)
      s == SumQ([i \in Index |-> SShare(r, i)])
  IN IF SumQ(delta) = 0 \/ NoncePoint = 0 \/ r = 0 \/ s = 0 THEN Internal("Signing")
     ELSE [kind |-> "signed", party |-> 0, r |-> r, s |-> LowS(s)]
Finish ==
  /\ stage = "mta" /\ call = Len(Calls)
  /\ outcome' = Combine /\ stage' = "done"
  /\ UNCHANGED <<setup, views, key, cheat, k, gamma, call, delta, sigma, m, attrib>>

-------------------------------------------------------------------------------
(* type7.rs: each party commits to k_i and sigma_i and sends its final     *)
(* share; the parties in liars send another.                               *)
ConsistentShare(i, s, r) == s = AddQ(MulQ(m, k[i]), MulQ(r, sigma[i]))
VerifyFinalShares(sent, r) ==
  LET bad == {i \in Index : ~ConsistentShare(i, sent[i], r)}
  IN IF bad = {} THEN [sent |-> sent, verdict |-> "Consistent", party |-> 0]
     ELSE [sent |-> sent, verdict |-> "Faulty", party |-> Min(bad)]
Attribute ==
  /\ stage = "done" /\ outcome.kind = "signed" /\ attrib = NoAttrib
  /\ \E liars \in SUBSET Index :
       attrib' = VerifyFinalShares(
         [i \in Index |-> IF i \in liars THEN AddQ(SShare(outcome.r, i), i) ELSE SShare(outcome.r, i)],
         outcome.r)
  /\ UNCHANGED <<stage, setup, views, key, cheat, k, gamma, call, delta, sigma, m, outcome>>

Init ==
  /\ stage = "echo" /\ setup \in Setups /\ views = <<>>
  /\ key \in {<<x>> \o c : x \in Secrets, c \in [1 .. setup.t - 1 -> Coeffs]}
  /\ cheat \in {NoCheat} \cup
       (IF Count < 2 THEN {} ELSE [party : Index, how : {"modulus", "initiator", "responder"}])
  /\ k = <<>> /\ gamma = <<>> /\ call = 0 /\ delta = <<>> /\ sigma = <<>>
  /\ m = 0 /\ outcome = Pending /\ attrib = NoAttrib

Next == Echo \/ Begin \/ Exchange \/ Finish \/ Attribute
Spec == Init /\ [][Next]_vars
-------------------------------------------------------------------------------
(* Every variable has its type: shares are scalars, reduced modulo Q, and  *)
(* one outcome per signing.                                                *)
TypeOK ==
  /\ stage \in {"echo", "sign", "mta", "done"} /\ setup \in Setups
  /\ cheat.party \in 0 .. Count /\ call \in 0 .. 2 * Count * (Count - 1)
  /\ \A f \in {k, gamma, delta, sigma, attrib.sent} : \A i \in DOMAIN f : f[i] \in 0 .. Q - 1
  /\ outcome.party \in 0 .. Count /\ outcome.r \in 0 .. Q - 1 /\ outcome.s \in 0 .. Q - 1
  /\ outcome.kind = "pending" <=> stage # "done"

(* run_echo_round: it aborts exactly if two receivers have different       *)
(* views, and names a sender that told two receivers different things      *)
(* whenever there is one.  If there is none, a view is short, and the last *)
(* sender is named though it told nobody anything different.               *)
EchoExact ==
  LET equivocators == {s \in Index : \E v, w \in DOMAIN views :
        s \in DOMAIN views[v] \cap DOMAIN views[w] /\ views[v][s] # views[w][s]}
      uneven == \E v, w \in DOMAIN views : Len(views[v]) < Len(views[w])
  IN /\ outcome.kind = "Equivocation" <=> equivocators # {} \/ uneven
     /\ outcome.kind = "Equivocation" =>
          IF equivocators # {} THEN outcome.party \in equivocators ELSE outcome.party = Count

(* FaultKind of sign_identifiable: an abort names the party that cheated   *)
(* and the check it failed, never an honest one; and without a cheat no    *)
(* proof fails, whatever was drawn.                                        *)
FaultsNameCheaters ==
  /\ outcome.kind = "ModulusProof" =>
       cheat = [party |-> outcome.party, how |-> "modulus"]
  /\ outcome.kind = "InitiatorRangeProof" =>
       cheat = [party |-> outcome.party, how |-> "initiator"]
  /\ outcome.kind = "ResponderProof" =>
       cheat = [party |-> outcome.party, how |-> "responder"]

Made(what) == {<<Calls[n].i, Calls[n].j>> : n \in {n \in 1 .. call : Calls[n].what = what}}
Products(a, b, pairs) ==
  (MapThenSumSet(LAMBDA p : a[p[1]] * b[p[2]], pairs)
   + MapThenSumSet(LAMBDA i : a[i] * b[i], Index)) % Q

(* mta_accumulate: after every exchange the shares add up to the products  *)
(* exchanged so far, so in the end to k gamma and k x; the encrypted       *)
(* a b + beta' never wraps modulo n.                                       *)
SharesAddUp ==
  stage = "mta" /\ cheat.how \in {"none", "modulus"} =>
    /\ SumQ(delta) = Products(k, gamma, Made("delta"))
    /\ SumQ(sigma) = Products(k, [i \in Index |-> Weight(i)], Made("sigma"))

(* ECDSA verification, with the point 1 / s (m G + r key G). *)
Verifies(pub, sig) == LET p == MulQ(InvQ(sig.s), AddQ(m, MulQ(sig.r, pub)))
                      IN p # 0 /\ XCoord(p) = sig.r

(* sign: with nobody tampering, what is returned verifies under the key    *)
(* of the quorum, with s in the lower half; that key is the group's        *)
(* exactly if the quorum has the threshold, which sign does not compare.   *)
HonestSignatureVerifies ==
  /\ outcome.kind = "signed" /\ cheat.how \in {"none", "modulus"} =>
       Verifies(QuorumKey, outcome) /\ outcome.s <= Q \div 2
  /\ stage = "sign" => (QuorumKey = key[1] <=> Count >= setup.t)

(* verify_final_shares: the verdict is Consistent exactly if the shares    *)
(* sent give the signature back, and otherwise names the first party whose *)
(* share differs from what its commitments require.                        *)
Type7Exact ==
  LET true == [i \in Index |-> SShare(outcome.r, i)]
      liars == {i \in Index : attrib.sent[i] # true[i]}
  IN /\ attrib.verdict = "Consistent" =>
          liars = {} /\ LowS(SumQ(attrib.sent)) = outcome.s
     /\ attrib.verdict = "Faulty" => liars # {} /\ attrib.party = Min(liars)

(* Identifiable abort, in each place a party can be named: the echo round, *)
(* the proofs of sign_identifiable and verify_final_shares name parties    *)
(* that cheated, and no others; only the echo round names an honest last   *)
(* sender when a view is short and nobody equivocated.                     *)
BlameExact ==
  /\ EchoExact
  /\ FaultsNameCheaters
  /\ Type7Exact

(* The shares of sign_identifiable add up after every exchange, and what   *)
(* it returns in the end is a signature under the key of the quorum.       *)
SigningExact ==
  /\ TypeOK
  /\ SharesAddUp
  /\ HonestSignatureVerifies
==============================================================================
