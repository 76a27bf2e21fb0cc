------------------------------ MODULE Messaging -------------------------------
(***************************************************************************)
(* Who seals what for whom with crates/cipher: an AeadCipher, which counts *)
(* its own nonces and may be made again for the same key (a restart), and  *)
(* messages of seal_for to a symmetric key or to a public key.             *)
(***************************************************************************)
EXTENDS Cipher, FiniteSets

CONSTANTS
  AeadKeys, Epochs,     \* keys (some of a wrong length) and epochs of AeadCipher::new
  N,                    \* the order of the curve's group, a prime
  Privates,             \* recipients' private keys, in 1 .. N - 1
  Ephemerals,           \* draws of ephemeral_keypair
  Aads,                 \* associated data
  MaxCiphers, MaxSealed, MaxMail     \* bounds of the model

ASSUME MessagingAssumption ==
  /\ N \in Nat /\ N > 1 /\ \A d \in 2 .. N - 1 : N % d # 0
  /\ Privates \cup Ephemerals \subseteq 1 .. N - 1

VARIABLES
  cipher,   \* the AeadCipher in use; NoCipher if none
  made,     \* how many were made
  log,      \* what they sealed, in order
  mail      \* messages of seal_for

msgVars == <<cipher, made, log, mail>>

NoCipher == NewCipher(<<>>, 0)

MInit == cipher = NoCipher /\ made = 0 /\ log = <<>> /\ mail = {}

(* AeadCipher::new *)
MakeCipher(key, epoch) ==
  /\ made < MaxCiphers
  /\ Len(key) = KeyLen
  /\ cipher' = NewCipher(key, epoch)
  /\ made' = made + 1
  /\ UNCHANGED <<log, mail>>

(* AeadCipher::encrypt *)
Encrypt(aad) ==
  /\ cipher # NoCipher /\ Len(log) < MaxSealed
  /\ NonceLeft(cipher)
  /\ log' = Append(log, [maker |-> made, epoch |-> cipher.epoch,
                         sealed |-> Seal(cipher.key, NextNonce(cipher), <<Len(log)>>, aad)])
  /\ cipher' = Counts(cipher)
  /\ UNCHANGED <<made, mail>>

(* seal_for: a symmetric key, or the public key of a private one. *)
SealFor(mode, r, eph, aad) ==
  /\ Cardinality(mail) < MaxMail
  /\ mode = "Symmetric" => Len(r) = KeyLen
  /\ mail' = mail \cup
       {[mode |-> mode, to |-> r,
         body |-> IF mode = "Symmetric"
                  THEN [eph |-> 0, sealed |-> Seal(r, Random, <<1>>, aad)]
                  ELSE EciesEncrypt(N, r[1], eph, <<1>>, aad)]}
  /\ UNCHANGED <<cipher, made, log>>

(* open_for: either key may be missing (<<>>). *)
OpenFor(symmetric, private, m, aad) ==
  IF m.mode = "Symmetric"
  THEN IF symmetric = <<>> THEN Err("Aead") ELSE Open(symmetric, Random, m.body.sealed, aad)
  ELSE IF private = <<>> THEN Err("Aead") ELSE EciesDecrypt(N, private[1], m.body, aad)

MNext ==
  \/ \E key \in AeadKeys, e \in Epochs : MakeCipher(key, e)
  \/ Encrypt(CHOOSE aad \in Aads : TRUE)    \* one stands for all: it is only compared
  \/ \E key \in AeadKeys, aad \in Aads : SealFor("Symmetric", key, 0, aad)
  \/ \E d \in Privates, eph \in Ephemerals, aad \in Aads : SealFor("Asymmetric", <<d>>, eph, aad)
-------------------------------------------------------------------------------
(* aead.rs ("Nonces are provably unique per key"): a nonce is used twice   *)
(* under one key only by two ciphers that were made for that key with the  *)
(* same epoch, never by one, however long it runs; and what a cipher has   *)
(* sealed opens with its nonce and its associated data alone.              *)
NoncesUnique ==
  \A i, j \in DOMAIN log :
    LET a == log[i].sealed  b == log[j].sealed
    IN /\ i < j /\ a.key = b.key /\ a.nonce = b.nonce
            => log[i].maker # log[j].maker /\ log[i].epoch = log[j].epoch
       /\ \A aad \in Aads :
            IsOk(Decrypt(NewCipher(a.key, 0), b.nonce, a, aad)) <=> a.nonce = b.nonce /\ aad = a.aad

(* seal_for and open_for: a message opens for the holder of its key, with  *)
(* its associated data and in its mode, and for no other key, except that  *)
(* a private key and its negative open the same ECIES messages.            *)
OpensForRecipient ==
  \A m \in mail : \A s \in AeadKeys \cup {<<>>}, p \in {<<d>> : d \in 1 .. N - 1} \cup {<<>>} :
    \A aad \in Aads :
      IsOk(OpenFor(s, p, m, aad)) <=>
        /\ aad = m.body.sealed.aad
        /\ IF m.mode = "Symmetric" THEN s = m.to
           ELSE p # <<>> /\ p[1] \in {m.to[1], N - m.to[1]}

(* What is sealed opens for those it was sealed for and for no others, and *)
(* one cipher never uses a nonce twice.                                    *)
MessagesSound ==
  /\ NoncesUnique
  /\ OpensForRecipient
===============================================================================
