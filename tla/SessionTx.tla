------------------------------ MODULE SessionTx ------------------------------
(***************************************************************************)
(* Session transactions and what a signature over one covers               *)
(* (crates/session builder.rs and channel.rs, crates/bsv sighash.rs,       *)
(* script.rs and datacarrier.rs).                                          *)
(*                                                                         *)
(* Keys, outpoints, values and payloads are opaque.  A hash is the tuple   *)
(* of what is hashed, so two digests are equal exactly when the hashed     *)
(* fields are; a public key stands for its hash160.  Serialisation, the    *)
(* push encodings and the signature bytes are left out: parse_script gives *)
(* back the pushes that apply_unlock wrote.                                *)
(***************************************************************************)
EXTENDS Naturals, Sequences

Err == [error |-> TRUE]   \* any SesError or BsvError
Zero == <<>>              \* the zero hash of sighash.rs: no serialisation is empty

(* sighash.rs: a flag is a base and the ANYONECANPAY bit. *)
Flag(base, anyone) == [base |-> base, anyone |-> anyone]

FlagAll == Flag("ALL", FALSE)
FlagSingle == Flag("SINGLE", FALSE)
MEMBER_FLAG == FlagSingle
BROADCASTER_FLAG == FlagAll

(* script.rs and datacarrier.rs: the three locking scripts of a session. *)
P2pkh(key) == [type |-> "p2pkh", keys |-> <<key>>]
BareMultisig(a, b) == [type |-> "multisig", keys |-> <<a, b>>]
DataCarrier(payload) == [value |-> 0, script |-> [type |-> "data", payload |-> payload]]

SEQ_FINAL == "final"
NoUnlock == [by |-> "nobody"]
InputFor(funding) == [outpoint |-> funding, unlock |-> NoUnlock, sequence |-> SEQ_FINAL]

(* build_session: member pairs first, then the broadcaster's, then the     *)
(* data carrier.  A member is [key, funding, output]; the broadcaster too. *)
BuildSession(members, broadcaster, payload) ==
  IF members = <<>> THEN Err
  ELSE [inputs |-> [i \in DOMAIN members |-> InputFor(members[i].funding)]
                     \o <<InputFor(broadcaster.funding)>>,
        outputs |-> [i \in DOMAIN members |->
                       [value |-> members[i].output,
                        script |-> BareMultisig(members[i].key, broadcaster.key)]]
                      \o <<[value |-> broadcaster.output, script |-> P2pkh(broadcaster.key)],
                           DataCarrier(payload)>>]

BroadcasterIndex(tx) == Len(tx.inputs)
CarrierIndex(tx) == Len(tx.outputs)

Prevouts(tx) == [i \in DOMAIN tx.inputs |-> tx.inputs[i].outpoint]
Sequences(tx) == [i \in DOMAIN tx.inputs |-> tx.inputs[i].sequence]

HashPrevouts(tx, flag) == IF flag.anyone THEN Zero ELSE Prevouts(tx)

HashSequence(tx, flag) ==
  IF flag.anyone \/ flag.base \in {"SINGLE", "NONE"} THEN Zero ELSE Sequences(tx)

(* Mutants of outputs_hash: SINGLE commits to every output; ALL leaves the *)
(* last one, the data carrier, out.                                        *)
OutputsAlways(tx, flag, i) == tx.outputs
OutputsButLast(tx, flag, i) ==
  IF flag.base = "SINGLE" THEN <<tx.outputs[i]>> ELSE SubSeq(tx.outputs, 1, Len(tx.outputs) - 1)
OutputsHash(tx, flag, i) ==
  CASE flag.base = "SINGLE" -> <<tx.outputs[i]>>
    [] flag.base = "NONE" -> Zero
    [] OTHER -> tx.outputs

(* sighash: the fields a signature of input i commits to. *)
Sighash(tx, i, script, value, flag) ==
  IF \/ i \notin DOMAIN tx.inputs
     \/ flag.base = "SINGLE" /\ i > Len(tx.outputs)
  THEN Err
  ELSE [prevouts |-> HashPrevouts(tx, flag), sequences |-> HashSequence(tx, flag),
        outpoint |-> tx.inputs[i].outpoint, script |-> script, value |-> value,
        sequence |-> tx.inputs[i].sequence, outputs |-> OutputsHash(tx, flag, i),
        flag |-> flag]

(* The digests of sign_member / verify_member and of the broadcaster: both *)
(* take the spent output to be locked with P2PKH to the signer.            *)
MemberDigest(tx, i, key, value) == Sighash(tx, i, P2pkh(key), value, MEMBER_FLAG)
BroadcasterDigest(tx, key, value) ==
  Sighash(tx, BroadcasterIndex(tx), P2pkh(key), value, BROADCASTER_FLAG)

(* sign_prehash_der by the holder of a key, pushed with its public key.    *)
Unlock(key, digest) == [by |-> key, pubkey |-> key, digest |-> digest]
ApplyUnlock(tx, i, unlock) == [tx EXCEPT !.inputs[i].unlock = unlock]

(* verify_unlock takes the public key from the unlocking script. *)
VerifyUnlock(tx, i, digest) ==
  LET u == tx.inputs[i].unlock
  IN u # NoUnlock /\ u.by = u.pubkey /\ u.digest = digest

SignBroadcaster(tx, key, value) ==
  ApplyUnlock(tx, BroadcasterIndex(tx), Unlock(key, BroadcasterDigest(tx, key, value)))
VerifyMember(tx, i, key, value) == VerifyUnlock(tx, i, MemberDigest(tx, i, key, value))
VerifyBroadcaster(tx, key, value) ==
  VerifyUnlock(tx, BroadcasterIndex(tx), BroadcasterDigest(tx, key, value))

(* channel.rs: an envelope carries a component and a tag over component    *)
(* and session binding; it opens under that binding only.                  *)
Bind(component, binding) == <<component, binding>>
Seal(component, binding) == [component |-> component, tag |-> Bind(component, binding)]
Opens(envelope, binding) == envelope.tag = Bind(envelope.component, binding)

(* External: what the node checks of an input that spends an output locked *)
(* with `lock`.  A bare multisig runs on a lone signature, and its digest  *)
(* names the multisig script itself.                                       *)
NodeAccepts(tx, i, lock, value) ==
  LET u == tx.inputs[i].unlock
      digest == Sighash(tx, i, lock, value, u.digest.flag)
  IN /\ u # NoUnlock
     /\ lock.type = "p2pkh"
     /\ u.pubkey = lock.keys[1] /\ u.by = u.pubkey
     /\ u.digest = digest
==============================================================================
