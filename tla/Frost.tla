-------------------------------- MODULE Frost --------------------------------
(***************************************************************************)
(* Threshold Schnorr signing (crates/custody threshold.rs), the fallback   *)
(* that signs with the reconstructed key (reconstruction.rs) and the       *)
(* availability rule of crates/res quorum.rs.                              *)
(*                                                                         *)
(* A dealer splits the group secret.  Signing sessions run at the same     *)
(* time over the same parties: each party commits to a nonce, reveals its  *)
(* point, and gives a partial signature; but a party has one nonce slot,   *)
(* which commit overwrites and partial_sign does not clear.                *)
(*                                                                         *)
(* The scalar field is the integers modulo the prime Q.  The group is      *)
(* cyclic of order Q, so a point is represented by its discrete logarithm: *)
(* the generator is 1.  Challenge is the hash, any function.               *)
(***************************************************************************)
EXTENDS Naturals, Sequences, FiniteSets

CONSTANTS
  Q,                    \* the order of the group, a prime
  Threshold, Parties,   \* t and n
  Secrets, Coeffs, Nonces,  \* the scalars random_scalar may draw in the model
  Challenge(_, _, _),   \* challenge_scalar
  Sessions, Messages,   \* signing sessions and what they sign
  SigningSets           \* the sets of signers a session may be opened for

ASSUME FrostAssumption ==
  /\ Q \in Nat /\ \A d \in 2 .. Q - 1 : Q % d # 0
  /\ Parties \in Nat /\ Threshold \in 1 .. Parties /\ Parties < Q
  /\ Secrets \cup Coeffs \cup Nonces \subseteq 1 .. Q - 1   \* random_scalar is never zero
  /\ SigningSets \subseteq (SUBSET (1 .. Parties)) \ {{}}
  /\ \A r, p \in 0 .. Q - 1, m \in Messages : Challenge(r, p, m) \in 0 .. Q - 1

VARIABLES
  secret,   \* history: the dealer's secret, which it discards
  share,    \* Share.y of each party
  nonce,    \* ThresholdParty.nonce (and nonce_point); 0 is None
  sess      \* what the coordinator of each session holds

frostVars == <<secret, share, nonce, sess>>

AddQ(a, b) == (a + b) % Q
SubQ(a, b) == (a + Q - b) % Q
MulQ(a, b) == (a * b) % Q
InvQ(a) == IF a = 0 THEN 0 ELSE CHOOSE b \in 1 .. Q - 1 : (a * b) % Q = 1
F == INSTANCE Shamir WITH Add <- AddQ, Sub <- SubQ, Mul <- MulQ, Inv <- InvQ

Party == 1 .. Parties
(* The fold of aggregated_nonce and aggregate. *)
SumQ(f, S) == F!Loop(LAMBDA acc, p : IF p \in S THEN AddQ(acc, f[p]) ELSE acc, 0, Parties)

(* quorum.rs *)
CheckQuorum(available, threshold, n) ==
  CASE threshold = 0 \/ threshold > n -> "BadParams"
    [] threshold \in 1 .. n /\ available < threshold -> "BelowQuorum"
    [] OTHER -> "Ok"
TolerableUnavailable(threshold, n) == IF n > threshold THEN n - threshold ELSE 0

(* lagrange_coefficient over a signing set without repetitions. *)
ProductQ(f, S) == F!Loop(LAMBDA acc, m : IF m \in S THEN MulQ(acc, f[m]) ELSE acc, 1, Parties)
LambdaKeepsOwn(S, j) ==   \* mutant: the party's own point is not skipped in the numerator
  MulQ(ProductQ([m \in Party |-> m], S), InvQ(ProductQ([m \in Party |-> SubQ(m, j)], S \ {j})))
LagrangeCoefficient(S, j) ==
  MulQ(ProductQ([m \in Party |-> m], S \ {j}),
       InvQ(ProductQ([m \in Party |-> SubQ(m, j)], S \ {j})))

Idle == [signers |-> {}, message |-> 0, commitments |-> <<>>, reveals |-> <<>>,
         partials |-> <<>>, used |-> <<>>, result |-> "none"]
Put(f, p, v) == [q \in DOMAIN f \cup {p} |-> IF q = p THEN v ELSE f[q]]

(* hash_commitment, injective on points. *)
HashCommitment(point) == <<"custody/nonce-commitment/v1", point>>

VerifyCommitments(s) ==
  /\ DOMAIN s.commitments = DOMAIN s.reveals
  /\ \A p \in DOMAIN s.reveals : s.commitments[p] = HashCommitment(s.reveals[p])

GroupPublic == secret
AggregatedNonce(s) == SumQ(s.reveals, DOMAIN s.reveals)
Aggregate(s) == [r |-> AggregatedNonce(s), s |-> SumQ(s.partials, DOMAIN s.partials)]
Verify(message, sig) ==
  sig.s = AddQ(sig.r, MulQ(GroupPublic, Challenge(sig.r, GroupPublic, message)))

(* keygen: the polynomial has the secret and Threshold - 1 random terms. *)
FrostInit ==
  \E x \in Secrets, tail \in [1 .. Threshold - 1 -> Coeffs] :
    /\ secret = x
    /\ share = [p \in Party |-> F!Split(<<x>> \o tail, Parties)[p].y]
    /\ nonce = [p \in Party |-> 0]
    /\ sess = [s \in Sessions |-> Idle]

OpenSession(s, S, m) ==
  /\ sess[s] = Idle
  /\ sess' = [sess EXCEPT ![s].signers = S, ![s].message = m]
  /\ UNCHANGED <<secret, share, nonce>>

(* ThresholdParty::commit *)
CommitNonce(s, p) ==
  /\ p \in sess[s].signers \ DOMAIN sess[s].commitments
  /\ \E k \in Nonces :
       /\ nonce' = [nonce EXCEPT ![p] = k]
       /\ sess' = [sess EXCEPT ![s].commitments = Put(@, p, HashCommitment(k))]
  /\ UNCHANGED <<secret, share>>

(* ThresholdParty::reveal, once every signer has committed. *)
Reveal(s, p) ==
  /\ DOMAIN sess[s].commitments = sess[s].signers
  /\ p \in sess[s].signers \ DOMAIN sess[s].reveals
  /\ nonce[p] # 0
  /\ sess' = [sess EXCEPT ![s].reveals = Put(@, p, nonce[p])]
  /\ UNCHANGED <<secret, share, nonce>>

(* A reveal that does not match its commitment ends the session. *)
AllRevealed(s) == sess[s].signers # {} /\ DOMAIN sess[s].reveals = sess[s].signers
Abort(s) ==
  /\ AllRevealed(s) /\ sess[s].result = "none"
  /\ ~VerifyCommitments(sess[s])
  /\ sess' = [sess EXCEPT ![s].result = "BadCommitment"]
  /\ UNCHANGED <<secret, share, nonce>>

(* ThresholdParty::partial_sign *)
PartialSign(s, p) ==
  LET e == Challenge(AggregatedNonce(sess[s]), GroupPublic, sess[s].message)
      lambda == LagrangeCoefficient(sess[s].signers, p)
  IN /\ AllRevealed(s) /\ sess[s].result = "none" /\ VerifyCommitments(sess[s])
     /\ p \in sess[s].signers \ DOMAIN sess[s].partials
     /\ nonce[p] # 0
     /\ sess' = [sess EXCEPT
          ![s].partials = Put(@, p, AddQ(nonce[p], MulQ(MulQ(e, lambda), share[p]))),
          ![s].used = Put(@, p, nonce[p])]
     /\ UNCHANGED <<secret, share, nonce>>

(* aggregate and verify *)
Finish(s) ==
  /\ AllRevealed(s) /\ sess[s].result = "none"
  /\ DOMAIN sess[s].partials = sess[s].signers
  /\ sess' = [sess EXCEPT ![s].result =
       IF Verify(sess[s].message, Aggregate(sess[s])) THEN "valid" ELSE "invalid"]
  /\ UNCHANGED <<secret, share, nonce>>

(* reconstruction.rs public_key and sign_prehash recover a scalar from the *)
(* shares they are given, which may repeat.  Zero, when the shares         *)
(* interpolate nothing, is refused by both: it is no private key, and its  *)
(* point has no 33-byte encoding.                                          *)
EnoughAlways(indices) == TRUE   \* mutant: the threshold is not compared
EnoughShares(indices) == Len(indices) >= Threshold
Recovered(indices) ==
  F!Reconstruct([i \in DOMAIN indices |-> [x |-> indices[i], y |-> share[indices[i]]]])
Refused == Q   \* InsufficientShares, BadShare or Signing
SigningKey(indices) ==
  IF EnoughShares(indices) /\ Recovered(indices) # 0 THEN Recovered(indices) ELSE Refused

FrostNext ==
  \E s \in Sessions :
    \/ \E S \in SigningSets, m \in Messages : OpenSession(s, S, m)
    \/ \E p \in Party : CommitNonce(s, p) \/ Reveal(s, p) \/ PartialSign(s, p)
    \/ Abort(s) \/ Finish(s)

FrostSpec == FrostInit /\ [][FrostNext]_frostVars
-------------------------------------------------------------------------------
(* Every variable has its type; a session holds messages of its signers    *)
(* only.                                                                   *)
FrostTypeOK ==
  /\ share \in [Party -> 0 .. Q - 1] /\ nonce \in [Party -> {0} \cup Nonces]
  /\ \A s \in Sessions :
       /\ sess[s].signers \subseteq Party
       /\ DOMAIN sess[s].commitments \subseteq sess[s].signers
       /\ \A f \in {sess[s].reveals, sess[s].partials, sess[s].used} :
            DOMAIN f \subseteq sess[s].signers /\ \A p \in DOMAIN f : f[p] \in 0 .. Q - 1

HasQuorum(s) == CheckQuorum(Cardinality(sess[s].signers), Threshold, Parties) = "Ok"

(* partial_sign, aggregate and verify: a session of any quorum, whatever   *)
(* ran at the same time, ends in a valid signature exactly if its signers  *)
(* still held the nonces they had revealed; a nonce that another session's *)
(* commit overwrote is never passed off as a valid signature.              *)
SignsExactly ==
  \A s \in Sessions :
    sess[s].result \in {"valid", "invalid"} /\ HasQuorum(s) =>
      (sess[s].result = "valid" <=>
         SumQ(sess[s].used, sess[s].signers) = SumQ(sess[s].reveals, sess[s].signers))

(* verify_commitments: nobody signs in a session in which a nonce changed  *)
(* between commitment and reveal.                                          *)
CommitmentsBind ==
  \A s \in Sessions, p \in Party :
    sess[s].partials # <<>> /\ p \in sess[s].signers =>
      sess[s].commitments[p] = HashCommitment(sess[s].reveals[p])

(* A set of one party less than the threshold does not sign, though it     *)
(* runs every round (a smaller one does so only by coincidence of the      *)
(* random coefficients); and a set has quorum exactly if no more than      *)
(* tolerable_unavailable parties are missing.                              *)
BelowQuorumNeverSigns ==
  \A s \in Sessions : sess[s].signers # {} =>
    /\ HasQuorum(s) <=> Cardinality(Party \ sess[s].signers)
                          <= TolerableUnavailable(Threshold, Parties)
    /\ /\ Cardinality(sess[s].signers) = Threshold - 1 /\ sess[s].result = "valid"
       => \/ Challenge(AggregatedNonce(sess[s]), GroupPublic, sess[s].message) = 0
          \/ sess[s].used # sess[s].reveals

(* reconstruction.rs: threshold-many or more different shares give the     *)
(* group's key, in any order; too few are refused, and so are shares none  *)
(* of which is given once only.  (Shares do not change after keygen, so it *)
(* is enough to look before the first session.)                            *)
ReconstructionSound ==
  (\A s \in Sessions : sess[s] = Idle) =>
  \A n \in 0 .. Parties : \A indices \in [1 .. n -> Party] :
    LET distinct == \A i, j \in 1 .. n : indices[i] = indices[j] => i = j
        repeated == \A i \in 1 .. n : \E j \in 1 .. n : i # j /\ indices[i] = indices[j]
    IN /\ distinct /\ n >= Threshold => SigningKey(indices) = secret
       /\ n < Threshold \/ repeated => SigningKey(indices) = Refused

(* A signing session ends well exactly if it should: nobody signs over a   *)
(* changed nonce, and a signature is valid exactly if the nonces survived. *)
SessionsExact ==
  /\ FrostTypeOK
  /\ CommitmentsBind
  /\ SignsExactly
==============================================================================
