------------------------------- MODULE KeyStore -------------------------------
(***************************************************************************)
(* The encrypted key store (crates/kst file_store.rs, behind the KeyStore  *)
(* trait of store.rs): seeds sealed under a key-encryption key that is     *)
(* derived from a passphrase and a salt, with Shamir backups whose shares  *)
(* are wrapped under the same key.  The store is a process: when it is     *)
(* opened again, with the salt it had or with a new one, its entries are   *)
(* gone, and the shares and wraps it handed out are all that is left.      *)
(*                                                                         *)
(* Secrets live in locked pages (crates/secmem bytes.rs, lock.rs): the     *)
(* allocator places them, several on a page if it likes, and mlock does    *)
(* not count, so one munlock unlocks the page.                             *)
(***************************************************************************)
EXTENDS Cipher, Shamir256, FiniteSetsExt, TLC

CONSTANTS
  Passphrases, Salts,   \* numbers from 1; the first store is opened with 1 and 1
  Ids,                  \* the names of entries
  Drawn,                \* seeds random_private_key may draw in the model
  Imported,             \* seeds an operator imports, of any length and value
  Plaintexts,           \* what a caller of wrap wraps
  Order,                \* the group order: a seed is a key below it
  MinLen,               \* from_slice takes shorter seeds too, down to 24 bytes
  Params,               \* <<threshold, shares>> of backups
  Draws, Coefficient(_, _, _),  \* the random coefficients
  Pages,                \* memory pages
  Indices,              \* the indices a caller gives to a wrap it passes as a share
  MaxCalls              \* bound: calls that store, open, wrap or back up

Lengths == {KeyLen} \cup {Len(m) : m \in Plaintexts}   \* of everything the store seals

ASSUME KeyStoreAssumption ==
  /\ 1 \in Passphrases /\ 1 \in Salts /\ Pages \subseteq Nat \ {0}
  /\ Drawn \cup Imported \cup Plaintexts \subseteq Seq(Byte) /\ Indices \subseteq Byte
  /\ MinLen \in 1 .. KeyLen /\ \A s \in Drawn : Len(s) = KeyLen
  /\ \A p \in Params : p[1] \in Byte /\ p[2] \in Byte
  /\ \A d \in Draws, n \in Lengths : \A b \in 1 .. n, k \in 1 .. 2^W - 1 :
       Coefficient(d, b, k) \in Byte

VARIABLES
  pass, salt, kekPage,  \* the open store: the key-encryption key and its page
  entries,              \* EncryptedFileKeyStore.entries; None if absent
  shares,               \* wrapped shares and wraps in the callers' hands
  held,                 \* a SecretBytes a caller holds (exported or unwrapped)
  locked,               \* the locked pages
  put,                  \* history: the seed last stored under each id
  fate,                 \* history: what happened to each generated key
  calls                 \* how much of MaxCalls is used up

vars == <<pass, salt, kekPage, entries, shares, held, locked, put, fate, calls>>
memory == <<kekPage, locked>>

-------------------------------------------------------------------------------
(* secmem.  A page number, or 0 when locking failed: Drop unlocks only     *)
(* what the secret locked itself.                                          *)
LockRegion(pages, p) == pages \cup ({p} \ {0})
UnlockRegion(pages, p) == pages \ {p}
(* The secrets an operation makes and drops before it returns, at most n:  *)
(* their pages P are locked, and unlocked whoever else has locked them.    *)
Temporaries(pages, n) ==
  {(pages \cup P) \ P : P \in {P \in SUBSET Pages : Cardinality(P) <= n}}
Free == [page |-> -1, bytes |-> <<>>]    \* no caller holds a secret

-------------------------------------------------------------------------------
None == [sealed |-> <<>>, exportable |-> FALSE]
(* derive_kek: Argon2id, injective, for a key of the cipher's length. *)
DeriveKek(p, s) == [i \in 1 .. KeyLen |-> <<p, s>>]
Kek == DeriveKek(pass, salt)

(* encrypt_seed / decrypt_seed: the id is the associated data. *)
EncryptSeedFor(id, seed, exportable) ==    \* mutant: sealed under the first id
  [sealed |-> <<Seal(Kek, Random, seed, CHOOSE i \in Ids : TRUE)>>, exportable |-> exportable]
EncryptSeed(id, seed, exportable) ==
  [sealed |-> <<Seal(Kek, Random, seed, id)>>, exportable |-> exportable]
DecryptSeed(id) ==
  IF entries[id] = None THEN Err("NotFound")
  ELSE LET o == Open(Kek, Random, entries[id].sealed[1], id)
       IN IF IsOk(o) THEN o ELSE Err("WrongKey")

(* SigningKey::from_slice, which puts zeros before a seed that is short    *)
(* but not too short; public_key_compressed; key_array, which takes no     *)
(* short seed.                                                             *)
Value(seed) == FoldLeft(LAMBDA acc, b : 2^W * acc + b, 0, seed)
ValidKey(seed) == Len(seed) \in MinLen .. KeyLen /\ Value(seed) \in 1 .. Order - 1
PublicKeyOf(seed) == IF ValidKey(seed) THEN Ok(<<Value(seed)>>) ELSE Err("WrongKey")
SignatureOf(seed) ==
  IF Len(seed) # KeyLen THEN Err("BadParams")
  ELSE IF ValidKey(seed) THEN Ok(<<Value(seed)>>) ELSE Err("Crypto")

(* public_key and sign_prehash: the key that answers. *)
PublicKey(id) == IF IsOk(DecryptSeed(id)) THEN PublicKeyOf(DecryptSeed(id).out) ELSE DecryptSeed(id)
SignPrehash(id) == IF IsOk(DecryptSeed(id)) THEN SignatureOf(DecryptSeed(id).out) ELSE DecryptSeed(id)

(* backup: the wrapped shares of a seed; "of" is history. *)
WrapShares(seed, t, n, draw, batch) ==
  LET parts == SplitSeed(seed, t, n, [b \in DOMAIN seed |-> [d \in 1 .. t - 1 |-> Coefficient(draw, b, d)]])
  IN {[index |-> parts[i].index, wrapped |-> Wrap(Kek, parts[i].body),
       of |-> [batch |-> batch, t |-> t, seed |-> seed]] : i \in 1 .. n}

(* restore: what the given shares give. *)
RestoreSeed(seq) ==
  LET parts == [i \in DOMAIN seq |-> [index |-> seq[i].index, body |-> Unwrap(Kek, seq[i].wrapped).out]]
  IN IF Len(seq) < 2 THEN Err("InsufficientShares")
     ELSE IF \E i \in DOMAIN seq : ~IsOk(Unwrap(Kek, seq[i].wrapped)) THEN Err("WrongKey")
     ELSE IF Ragged(parts) \/ Collide(parts) THEN Err("BadParams")
     ELSE Ok(ReconstructSeed(parts))

-------------------------------------------------------------------------------
(* A generated key's history: who could still hold it. *)
Unborn == "unborn"   \* not drawn yet
Inside == "inside"   \* stored non-exportable, never backed up
Spread == "spread"   \* stored exportable once, or backed up once
Mark(seed, m) == IF seed \in DOMAIN fate THEN [fate EXCEPT ![seed] = m] ELSE fate

Store(id, seed, exportable) ==
  /\ calls < MaxCalls
  /\ entries' = [entries EXCEPT ![id] = EncryptSeed(id, seed, exportable)]
  /\ put' = [put EXCEPT ![id] = <<seed>>]
  /\ calls' = calls + 1

Init ==
  /\ pass = 1
  /\ salt = 1
  /\ kekPage \in Pages \cup {0}
  /\ locked = LockRegion({}, kekPage)
  /\ entries = [i \in Ids |-> None] /\ put = [i \in Ids |-> <<>>]
  /\ shares = {} /\ held = Free
  /\ fate = [s \in Drawn |-> Unborn]
  /\ calls = 0

(* new (a fresh salt) and with_salt: the old store is dropped, and with it *)
(* the page of its key-encryption key is unlocked.                         *)
OpenStore(p, s) ==
  /\ calls < MaxCalls
  /\ calls' = calls + 1
  /\ pass' = p /\ salt' = s
  /\ \E page \in Pages \cup {0} :
       /\ kekPage' = page
       /\ locked' = LockRegion(UnlockRegion(locked, kekPage), page)
  /\ entries' = [i \in Ids |-> None] /\ put' = [i \in Ids |-> <<>>]
  /\ UNCHANGED <<shares, held, fate>>

Generate(id, exportable) ==
  \E seed \in {s \in Drawn : fate[s] = Unborn /\ ValidKey(s)} :
    /\ Store(id, seed, exportable)
    /\ fate' = Mark(seed, IF exportable THEN Spread ELSE Inside)
    /\ UNCHANGED <<pass, salt, memory, shares, held>>

(* import checks the length only. *)
Import(id, seed, exportable) ==
  /\ Len(seed) = KeyLen
  /\ Store(id, seed, exportable)
  /\ UNCHANGED <<pass, salt, memory, shares, held, fate>>

(* public_key and sign_prehash change nothing but the memory. *)
Use(id) ==
  /\ IsOk(DecryptSeed(id))
  /\ locked' \in Temporaries(locked, 1)
  /\ UNCHANGED <<pass, salt, kekPage, entries, shares, held, put, fate, calls>>

WrapBytes(index, plaintext) ==
  /\ calls < MaxCalls
  /\ calls' = calls + 1
  /\ shares' = shares \cup {[index |-> index, wrapped |-> Wrap(Kek, plaintext),
                             of |-> [batch |-> 0, t |-> 0, seed |-> plaintext]]}
  /\ UNCHANGED <<pass, salt, memory, entries, held, put, fate>>

(* A caller receives a secret and keeps it until it drops it. *)
Receive(bytes) ==
  /\ held = Free
  /\ \E page \in Pages \cup {0} :
       /\ held' = [page |-> page, bytes |-> bytes]
       /\ locked' = LockRegion(locked, page)

UnwrapBytes(share) ==
  /\ IsOk(Unwrap(Kek, share.wrapped))
  /\ Receive(Unwrap(Kek, share.wrapped).out)
  /\ UNCHANGED <<pass, salt, kekPage, entries, shares, put, fate, calls>>

Delete(id) ==
  /\ entries[id] # None
  /\ entries' = [entries EXCEPT ![id] = None]
  /\ put' = [put EXCEPT ![id] = <<>>]
  /\ UNCHANGED <<pass, salt, memory, shares, held, fate, calls>>

ExportAlways(id) ==    \* mutant: the flag is not looked at
  /\ IsOk(DecryptSeed(id))
  /\ Receive(DecryptSeed(id).out)
  /\ UNCHANGED <<pass, salt, kekPage, entries, shares, put, fate, calls>>
Export(id) ==
  /\ entries[id] # None /\ entries[id].exportable
  /\ IsOk(DecryptSeed(id))
  /\ Receive(DecryptSeed(id).out)
  /\ UNCHANGED <<pass, salt, kekPage, entries, shares, put, fate, calls>>

DropSecret ==
  /\ held # Free
  /\ locked' = UnlockRegion(locked, held.page)
  /\ held' = Free
  /\ UNCHANGED <<pass, salt, kekPage, entries, shares, put, fate, calls>>

Backup(id, t, n) ==
  /\ calls < MaxCalls
  /\ IsOk(DecryptSeed(id))
  /\ locked' \in Temporaries(locked, 1)
  /\ IF S!SplitParams(t, n)
     THEN \E draw \in Draws :
            /\ calls' = calls + 1
            /\ shares' = shares \cup WrapShares(DecryptSeed(id).out, t, n, draw, calls + 1)
            /\ fate' = Mark(DecryptSeed(id).out, Spread)
     ELSE UNCHANGED <<shares, fate, calls>>
  /\ UNCHANGED <<pass, salt, kekPage, entries, held, put>>

(* Every share that is unwrapped before the first one that fails is a      *)
(* secret for a moment; the set of shares is given in some order.          *)
Restore(T) ==
  LET result == RestoreSeed(SetToSeq(T)) IN
  /\ calls < MaxCalls
  /\ locked' \in Temporaries(locked, Cardinality(T))
  /\ \/ /\ IsOk(result)
        /\ \E id \in Ids, exportable \in BOOLEAN : Store(id, result.out, exportable)
     \/ ~IsOk(result) /\ UNCHANGED <<entries, put, calls>>
  /\ UNCHANGED <<pass, salt, kekPage, shares, held, fate>>

Next ==
  \/ \E p \in Passphrases, s \in Salts : OpenStore(p, s)
  \/ \E id \in Ids, x \in BOOLEAN :
       \/ Generate(id, x)
       \/ \E seed \in Imported : Import(id, seed, x)
  \/ \E id \in Ids : Use(id) \/ Delete(id) \/ Export(id) \/ \E p \in Params : Backup(id, p[1], p[2])
  \/ \E index \in Indices, m \in Plaintexts : WrapBytes(index, m)
  \/ \E s \in shares : UnwrapBytes(s)
  \/ \E k \in 2 .. 3 : \E T \in kSubset(k, shares) : Restore(T)
  \/ DropSecret

Spec == Init /\ [][Next]_vars
-------------------------------------------------------------------------------
(* Every variable has its type.  A seed restored from wraps of any length  *)
(* is stored as it is.                                                     *)
TypeOK ==
  /\ pass \in Passphrases /\ salt \in Salts
  /\ kekPage \in Pages \cup {0} /\ locked \subseteq Pages
  /\ held.page \in Pages \cup {-1, 0}
  /\ \A id \in Ids : entries[id] # None =>
       entries[id].sealed[1].msg \in Seq(Byte) /\ entries[id].exportable \in BOOLEAN
  /\ \A s \in shares : s.index \in Byte /\ s.wrapped.msg \in Seq(Byte)

(* decrypt_seed, public_key and sign_prehash: whatever was generated,      *)
(* imported, restored, overwritten or deleted in between, an id answers    *)
(* with the seed last stored under it, and WrongKey never means that the   *)
(* store cannot open its own entry.  What signs is the key public_key      *)
(* gives; and a seed that has a public key signs exactly if it has full    *)
(* length, which a seed restored from wraps need not have.                 *)
AnswersForLastStored ==
  \A id \in Ids :
    /\ DecryptSeed(id) = IF put[id] = <<>> THEN Err("NotFound") ELSE Ok(put[id][1])
    /\ IsOk(SignPrehash(id)) => PublicKey(id) = SignPrehash(id)
    /\ IsOk(PublicKey(id)) => (IsOk(SignPrehash(id)) <=> Len(put[id][1]) = KeyLen)

(* generate and export (store.rs: "never leaves the store except via       *)
(* export (and only if exportable)"): a key that was generated             *)
(* non-exportable and never backed up is in no caller's hands; and once    *)
(* its entries are gone it is in no entry either, so deleting it, or       *)
(* writing over it, shreds it.  (A backup ends this: see the README.)      *)
UnbackedKeyStays ==
  \A seed \in Drawn : fate[seed] = Inside =>
    /\ held.bytes # seed
    /\ \A id \in Ids : DecryptSeed(id).out = seed => ~entries[id].exportable
    /\ Cardinality({id \in Ids : DecryptSeed(id).out = seed}) <= 1

Batch(k) == {s \in shares : s.of.batch = k}
Batches == {s.of.batch : s \in shares} \ {0}
Foreign(T) == \E s \in T : s.wrapped.key # Kek
Orders(T) == {[i \in 1 .. Cardinality(T) |-> f[i]] : f \in Bijection(1 .. Cardinality(T), T)}

(* backup and restore: threshold-many or more shares of one backup, in any *)
(* order, restore its seed exactly, in a store with the same               *)
(* key-encryption key; a store with another one refuses any of them, and   *)
(* a share twice, or fewer than two, is refused by all (a share of an      *)
(* empty seed is not compared).  A backup with threshold one needs two     *)
(* shares nevertheless.  (The answer depends on neither entries nor pages: *)
(* it is enough to look when there are none.)                              *)
RestoreFaithful ==
  (\A id \in Ids : entries[id] = None) /\ held = Free =>
  \A k \in Batches : \A T \in SUBSET Batch(k) : T # {} =>
    \A seq \in Orders(T) :
      /\ Len(seq) < 2 => RestoreSeed(seq) = Err("InsufficientShares")
      /\ Len(seq) >= 2 /\ Foreign(T) => RestoreSeed(seq) = Err("WrongKey")
      /\ ~Foreign(T) /\ Len(seq) >= 2 /\ Len(seq) >= seq[1].of.t
           => RestoreSeed(seq) = Ok(seq[1].of.seed)
      /\ ~Foreign(T) /\ seq[1].of.seed # <<>>
           => RestoreSeed(seq \o <<seq[1]>>) = Err("BadParams")

(* SecretBytes: a page is locked only while a secret that locked it lives; *)
(* no operation, refused or not, leaves a page locked for good.            *)
NoLockLeak == locked \subseteq {kekPage, held.page}

(* Where secrets are: a key that was never exported or backed up is in the *)
(* store alone, and pages are locked for living secrets only.              *)
SecretsContained ==
  /\ TypeOK
  /\ UnbackedKeyStays
  /\ NoLockLeak
===============================================================================
