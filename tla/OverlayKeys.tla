------------------------------ MODULE OverlayKeys -----------------------------
(***************************************************************************)
(* The key sets of the overlay (crates/overlay graph.rs and keys.rs): a    *)
(* key graph of data-storage nodes, and three key sets derived at a node's *)
(* position from three seeds.  The owner obfuscates payloads under the     *)
(* second key set and signals positions to a second software module, which *)
(* holds what it was given: seeds, derived keys, public keys.  What it can *)
(* compute from that is Closure.                                           *)
(***************************************************************************)
EXTENDS Ckd, Messaging

CONSTANTS
  MaxBreadth, MaxNodes, GraphDepth,  \* Bounds of the graph
  Coords,                            \* coordinates callers pass: any u32
  GrantSets,                         \* the key sets it is given keys of
  MaxGrants,                         \* bound: what the second module is given
  Budget                             \* bound: grants, signals, payloads, ciphers and messages together

ASSUME OverlayKeysAssumption ==
  /\ Hardened \in Nat \ {0} /\ DepthMax \in Nat
  /\ Coords \subseteq 0 .. 2 * Hardened - 1
  /\ MaxBreadth \in Nat /\ MaxNodes \in Nat \ {0} /\ GraphDepth \in Nat
  /\ GrantSets \subseteq 1 .. 3

VARIABLES
  nodes, next_id,   \* the key graph
  seeds,            \* Seeds: first, second, third
  heard,            \* the coordinates last signalled to the second module, if any
  granted,          \* what it was given: [set, path, plain, private]
  stored            \* obfuscated payloads, by node

keyVars == <<nodes, next_id, seeds, heard, granted, stored>>
vars == <<keyVars, msgVars>>

G == INSTANCE KeyGraph WITH MaxDepth <- GraphDepth, MaxId <- MaxNodes, MaxEpoch <- 0

Sets == 1 .. 3     \* writing, second and third function

(* Seeds::from_master, and from_parts with seeds imported as they are.     *)
FromMaster(master) == [d \in Sets |-> DeriveSeed(master, d)]
FromParts == [d \in Sets |-> <<0, d>>]

(* writing_key, second_key, third_key; a node's position. *)
KeyAt(d, coords) == DerivePath(FromSeed(seeds[d]), HardenedPath(coords))
PositionOf(id) == nodes[id].position
NodePositions == {PositionOf(id) : id \in DOMAIN nodes}

(* obfuscation_key, obfuscate, deobfuscate *)
ObfuscationAad == "obfuscation"
ObfuscationKey(x) == [i \in 1 .. KeyLen |-> x.sum]
Obfuscate(x, payload) == Seal(ObfuscationKey(x), Random, payload, ObfuscationAad)
Deobfuscate(x, c) == Open(ObfuscationKey(x), Random, c, ObfuscationAad)

(* signal_position and resolve_key *)
ResolvePlain(coords, seed) == DerivePath(FromSeed(seed), PlainPath(coords))   \* mutant
ResolveKey(coords, seed) == DerivePath(FromSeed(seed), HardenedPath(coords))

Init ==
  /\ G!Init
  /\ seeds \in {FromMaster(1), FromParts}
  /\ heard = {} /\ granted = {} /\ stored = <<>>
  /\ MInit

(* OverlayGraph::add_node *)
AddNode(parent, coord) ==
  /\ G!AddChild(parent, coord)
  /\ UNCHANGED <<seeds, heard, granted, stored, msgVars>>

SignalPosition(id) ==
  /\ heard' = {PositionOf(id)}
  /\ UNCHANGED <<nodes, next_id, seeds, granted, stored, msgVars>>

ObfuscateNode(id) ==
  /\ KeyAt(2, PositionOf(id)) # NoKey
  /\ stored' = [n \in DOMAIN stored \cup {id} |->
       IF n = id THEN Obfuscate(KeyAt(2, PositionOf(id)), <<id>>) ELSE stored[n]]
  /\ UNCHANGED <<nodes, next_id, seeds, heard, granted, msgVars>>

(* The second module comes to hold a seed (the empty path), an extended    *)
(* private key, or the public one to_xpub makes of it; at the hardened     *)
(* path of a position, or at the plain one.                                *)
Grant(d, path, plain, private) ==
  /\ Cardinality(granted) < MaxGrants
  /\ DerivePath(FromSeed(seeds[d]), path) # NoKey
  /\ granted' = granted \cup {[set |-> d, path |-> path, plain |-> plain, private |-> private]}
  /\ UNCHANGED <<nodes, next_id, seeds, heard, stored, msgVars>>

KeysNext ==
  \/ \E id \in DOMAIN nodes :
       (\E c \in Coords : AddNode(id, c)) \/ SignalPosition(id) \/ ObfuscateNode(id)
  \/ \E d \in GrantSets, p \in NodePositions, private \in BOOLEAN :
       Grant(d, HardenedPath(p), FALSE, private) \/ Grant(d, PlainPath(p), TRUE, private)

Next ==
  /\ KeysNext \/ (MNext /\ UNCHANGED keyVars)
  /\ Cardinality(granted') + Cardinality(heard') + Cardinality(DOMAIN stored')
       + made' + Cardinality(mail') <= Budget

Spec == Init /\ [][Next]_vars
-------------------------------------------------------------------------------
GrantedKey(g) ==
  LET x == DerivePath(FromSeed(seeds[g.set]), g.path) IN IF g.private THEN x ELSE ToXPub(x)
Known == Closure({GrantedKey(g) : g \in granted}, Indices(Coords), GraphDepth)
Above(p, q) == Len(p) <= Len(q) /\ SubSeq(q, 1, Len(p)) = p
PrivateFromKeySets == \A g \in granted : g.private => ~g.plain

(* Every variable has its type; every node has a position. *)
TypeOK ==
  /\ G!TypeOK
  /\ \A d \in Sets : seeds[d] \in Nat \X Nat
  /\ heard \subseteq NodePositions /\ DOMAIN stored \subseteq DOMAIN nodes
  /\ log \in Seq([maker : 1 .. made, epoch : Epochs, sealed : {log[i].sealed : i \in DOMAIN log}])

(* writing_key, second_key, third_key: two keys are the same only if they  *)
(* are of one set and of one position; coordinates that differ in the      *)
(* hardened bit alone are one position, and so are siblings that were      *)
(* added with the same coordinate.  (Only the graph and the seeds matter.) *)
KeysSeparate ==
  heard = {} /\ granted = {} /\ stored = <<>> =>
  \A d, e \in Sets : \A p, q \in NodePositions : KeyAt(d, p) # NoKey =>
    (KeyAt(d, p) = KeyAt(e, q) <=> d = e /\ HardenedPath(p) = HardenedPath(q))

(* REQ-CKD-004 and seeds.rs ("leakage of a derived writing key cannot      *)
(* recover the parent or a sibling"): whatever keys of the key sets the    *)
(* second module holds, with any public keys besides, the private keys it  *)
(* can compute lie below one it was given, in the same set.  (Signals and  *)
(* payloads hold no key: it is enough to look before there are any.)       *)
LeakStaysBelow ==
  heard = {} /\ stored = <<>> /\ PrivateFromKeySets =>
    \A x \in Known : x.private =>
      \E g \in granted : g.private /\ Above(GrantedKey(g).cc, x.cc)

(* signal_position, resolve_key, obfuscate and deobfuscate: from the       *)
(* positions it heard of, a module resolves the owner's keys of the sets   *)
(* whose seed it holds; and it reads a payload exactly if it holds the     *)
(* second seed or a private key of the second set above the node.          *)
SeedIsolation ==
  /\ \A p \in heard : \A d \in Sets :
       ResolveKey(p, seeds[d]) = KeyAt(d, p)
  /\ heard = {} /\ PrivateFromKeySets =>
       \A id \in DOMAIN stored :
         (\E x \in Known : x.private /\ IsOk(Deobfuscate(x, stored[id]))) <=>
           \E g \in granted : g.private /\ g.set = 2 /\ Above(g.path, HardenedPath(PositionOf(id)))

(* XPub::derive_child: public derivation gives the public key of what      *)
(* private derivation gives, index by index, and refuses hardened ones.    *)
PublicAgrees ==
  \A g \in granted : \A i \in Indices(Coords) :
    LET x == DerivePath(FromSeed(seeds[g.set]), g.path)
    IN XPubDeriveChild(ToXPub(x), i) =
         IF i >= Hardened \/ DeriveChild(x, i) = NoKey THEN NoKey ELSE ToXPub(DeriveChild(x, i))

(* Keys of different sets and positions differ, and keys that leak lead to *)
(* no key above or beside them.                                            *)
LeaksContained ==
  /\ TypeOK
  /\ KeysSeparate
  /\ LeakStaysBelow

(* A second module derives from seeds, positions and public keys what the  *)
(* owner derives, and reads what it was given keys for.                    *)
ResolvingExact ==
  /\ SeedIsolation
  /\ PublicAgrees
===============================================================================
