------------------------------- MODULE Cipher --------------------------------
(***************************************************************************)
(* The ciphers of crates/cipher, symbolically: aead.rs, keywrap.rs and     *)
(* ecies.rs.  A ciphertext is the record of what it was sealed from, and   *)
(* opens under the same key, nonce and associated data only.  Keys and     *)
(* messages are sequences of small numbers.                                *)
(*                                                                         *)
(* A random nonce is fresh, so a one-shot seal carries a nonce of its own  *)
(* and the pair (nonce, bytes) is one value.  The nonces of an AeadCipher  *)
(* are epoch and counter and are kept, since their uniqueness is at stake. *)
(***************************************************************************)
EXTENDS Integers, Sequences

CONSTANTS
  KeyLen,       \* KEY_LEN, the length of an AES key
  CounterMax    \* u64::MAX

ASSUME CipherAssumption == KeyLen \in Nat \ {0} /\ CounterMax \in Nat

Ok(v) == [err |-> "", out |-> v]
Err(e) == [err |-> e, out |-> <<>>]
IsOk(r) == r.err = ""

(* seal / open and cipher_for *)
Seal(key, nonce, msg, aad) == [key |-> key, nonce |-> nonce, msg |-> msg, aad |-> aad]
Open(key, nonce, c, aad) ==
  IF Len(key) # KeyLen THEN Err("BadKeyLength")
  ELSE IF c.key = key /\ c.nonce = nonce /\ c.aad = aad THEN Ok(c.msg)
  ELSE Err("Aead")

(* wrap / unwrap *)
Random == <<>>     \* a nonce drawn for this one seal
KeywrapAad == "keywrap"
Wrap(key, msg) == Seal(key, Random, msg, KeywrapAad)
Unwrap(key, c) == Open(key, Random, c, KeywrapAad)

(* AeadCipher: new, next_nonce, encrypt, decrypt.  The nonce is            *)
(* <<epoch, counter>>.                                                     *)
NewCipher(key, epoch) == [key |-> key, epoch |-> epoch, counter |-> 0]
NonceLeft(c) == c.counter < CounterMax     \* else NonceExhausted
NextNonce(c) == <<c.epoch, c.counter>>
CountsWrapping(c) == [c EXCEPT !.counter = (@ + 1) % 2]     \* mutant: it wraps
Counts(c) == [c EXCEPT !.counter = @ + 1]
Decrypt(c, nonce, sealed, aad) == Open(c.key, nonce, sealed, aad)

(* ecies.rs.  Private keys and ephemeral secrets are numbers d, a public   *)
(* key is d and the point is d times the generator in a group of order N;  *)
(* only the x-coordinate of the shared point enters the key, and a point   *)
(* and its negative share it.                                              *)
XOf(N, point) == IF 2 * point <= N THEN point ELSE N - point
DeriveKeyNonce(N, shared) == [i \in 1 .. KeyLen |-> XOf(N, shared)]
EciesEncrypt(N, public, eph, msg, aad) ==
  [eph |-> eph, sealed |-> Seal(DeriveKeyNonce(N, (public * eph) % N), Random, msg, aad)]
EciesDecrypt(N, private, c, aad) ==
  IF private = 0 THEN Err("BadKeyLength")
  ELSE Open(DeriveKeyNonce(N, (c.eph * private) % N), Random, c.sealed, aad)
==============================================================================
