--------------------------- MODULE BroadcastGraph ---------------------------
(***************************************************************************)
(* Broadcast encryption over a key graph (crates/broadcast): every node    *)
(* carries a symmetric key, a child's key wraps its parent's key, the root *)
(* key encrypts the message.  Leave and join change the graph and rotate   *)
(* every key on the path from the changed leaf to the root.                *)
(*                                                                         *)
(* A key is <<node, version>>: a random key never repeats, and neither do  *)
(* a node id and the number of keys drawn for it.  A wrap is a record      *)
(* [under, key]; whoever holds `under` and sees the wrap holds `key`, and  *)
(* without `under` a wrap yields nothing (keywrap is authenticated).       *)
(***************************************************************************)
EXTENDS Integers, Sequences, FiniteSets

CONSTANTS
  Users,        \* all user ids
  Founders,     \* the sequence of users passed to build
  MaxDepth, MaxBreadth, MaxNodes,  \* the Bounds build hands to KeyGraph
  MaxId,        \* model bound on node ids
  MaxRotations, \* model bound on root keys drawn and calls failed
  MaxPending,   \* model bound on rekeyings not yet packaged
  Strategies,   \* the packaging strategies the caller uses
  MaxFaults,    \* model bound on the calls in which OsRandom returns an error
  ReJoin,       \* does the caller join users that are already in the graph?
  LeafSponsor   \* does the caller name a user's own leaf as the sponsor?

ASSUME FoundersAssumption ==
  /\ Founders \in Seq(Users) /\ Founders # <<>>
  /\ \E d \in 0 .. 10 : Len(Founders) = 2 ^ d

ASSUME CallerAssumption ==
  /\ Strategies \subseteq {"KeyOriented", "GroupOriented", "UserOriented"}
  /\ ReJoin \in BOOLEAN /\ LeafSponsor \in BOOLEAN

VARIABLES
  nodes, next_id,  \* BroadcastGraph.graph
  keys,            \* version of the key of each keyed node
  user_leaves,     \* user -> leaf
  pending,         \* results of leave and join not yet packaged
  channel,         \* every wrap published so far
  received,        \* the leaf keys each user was ever handed
  admitted,        \* users whose build or join returned Ok, until they leave
  left,            \* users whose leave returned Ok, until they join again
  faults,          \* calls that OsRandom has failed so far
  torn,            \* users one of whose leaves returned Err half-way
  entitled         \* <<user, root version>>: drawn while the user was a member

vars == <<nodes, next_id, keys, user_leaves, pending, channel, received,
          admitted, left, faults, torn, entitled>>

KG == INSTANCE KeyGraph WITH Coords <- 0 .. MaxBreadth, MaxEpoch <- 0

Root == KG!Root
Members == DOMAIN user_leaves
KeyOf(n) == <<n, keys[n]>>
RootKey == KeyOf(Root)

(* children_of: the keyed nodes whose parent edge in graph g points to p. *)
ChildrenOf(g, ks, p) == {n \in DOMAIN ks \cap DOMAIN g : g[n].parent = p}

(* encrypted_data_items: every keyed node wraps its parent's key; one      *)
(* keyed node below a node without a key makes the whole call fail.        *)
ItemsFail == \E n \in DOMAIN keys : KG!Parent(n) \notin DOMAIN keys \cup {KG!None}
EncryptedDataItems ==
  IF ItemsFail THEN {}
  ELSE {[under |-> KeyOf(n), key |-> KeyOf(KG!Parent(n))] :
          n \in {m \in DOMAIN keys : KG!Parent(m) # KG!None}}

-----------------------------------------------------------------------------
(* build_binary numbers the complete binary tree level by level, so node i *)
(* has the children 2i+1 and 2i+2 and the leaves are the last N ids.       *)
N == Len(Founders)
HeapPosition[i \in 0 .. 2 * N - 2] ==
  IF i = 0 THEN <<>> ELSE Append(HeapPosition[(i - 1) \div 2], (i - 1) % 2)

(* The Bounds have room for the tree: build returned Ok. *)
ASSUME RoomAssumption ==
  /\ MaxDepth \in Nat /\ MaxBreadth \in Nat \ {0, 1} /\ MaxNodes \in Nat /\ MaxId \in Nat
  /\ 2 * N - 1 <= MaxNodes
  /\ \A i \in 0 .. 2 * N - 2 : Len(HeapPosition[i]) <= MaxDepth

Build ==
  /\ nodes = [i \in 0 .. 2 * N - 2 |->
                [position  |-> HeapPosition[i],
                 layer     |-> Len(HeapPosition[i]),
                 parent    |-> IF i = 0 THEN KG!None ELSE (i - 1) \div 2,
                 children  |-> {2 * i + 1, 2 * i + 2} \cap (0 .. 2 * N - 2),
                 key_epoch |-> 0]]
  /\ next_id = 2 * N - 1
  /\ keys = [i \in 0 .. 2 * N - 2 |-> 0]
  /\ LET leafOf(u) == N - 2 + (CHOOSE i \in 1 .. N :
                                 /\ Founders[i] = u
                                 /\ \A j \in i + 1 .. N : Founders[j] # u)
     IN  user_leaves = [u \in {Founders[i] : i \in 1 .. N} |-> leafOf(u)]

(* After build the broadcaster hands out user_leaf_key to every founder    *)
(* and publishes the encrypted data items.                                 *)
Init ==
  /\ Build
  /\ pending = {}
  /\ channel = EncryptedDataItems
  /\ received = [u \in Users |-> IF u \in Members THEN {KeyOf(user_leaves[u])} ELSE {}]
  /\ admitted = Members
  /\ left = {}
  /\ torn = {}
  /\ faults = 0
  /\ entitled = {<<u, keys[Root]>> : u \in Members}

-----------------------------------------------------------------------------
(* Mutant: the rotation stops below the root. *)
AncestorsBelowRoot(leaf) ==
  LET path == KG!LeafToRoot(leaf) IN SubSeq(path, 2, Len(path) - 1)

(* ancestors_of *)
AncestorsOf(leaf) ==
  LET path == KG!LeafToRoot(leaf) IN SubSeq(path, 2, Len(path))

Fresh(ks, n) == IF n \in DOMAIN ks THEN ks[n] + 1 ELSE 1

(* rotate_and_rekey, having drawn fresh keys for the set R of ancestors:   *)
(* it works bottom-up, so a child that is itself in R already has its new  *)
(* key when it wraps the new key of its parent.                            *)
Rotated(ks, R) ==
  [n \in DOMAIN ks \cup R |-> IF n \in R THEN Fresh(ks, n) ELSE ks[n]]

(* Mutant: only children that kept their key wrap a new parent key. *)
RekeyMessagesUnrotated(g, ks, R) ==
  LET new == Rotated(ks, R)
  IN  UNION {{[under |-> <<c, new[c]>>, key |-> <<a, new[a]>>] :
                c \in ChildrenOf(g, new, a) \ R} : a \in R}

RekeyMessages(g, ks, R) ==
  LET new == Rotated(ks, R)
  IN  UNION {{[under |-> <<c, new[c]>>, key |-> <<a, new[a]>>] :
                c \in ChildrenOf(g, new, a)} : a \in R}

(* The number of ancestors rotate_and_rekey gets through: all of them, or  *)
(* fewer when random_key fails on the way and the call returns Err.        *)
Progress(anc) == IF faults < MaxFaults THEN 0 .. Len(anc) ELSE {Len(anc)}
FirstOf(anc, k) == {anc[i] : i \in 1 .. k}

(* The end of leave and of join: the keys in ks are rotated along the      *)
(* first k ancestors.  The result reaches the caller only if k is all.     *)
Finish(anc, k, ks) ==
  /\ keys' = Rotated(ks, FirstOf(anc, k))
  /\ pending' = IF k < Len(anc) THEN pending
                ELSE pending \cup {[replaced |-> FirstOf(anc, k),
                                    messages |-> RekeyMessages(nodes', ks, FirstOf(anc, k))]}
  /\ faults' = IF k < Len(anc) THEN faults + 1 ELSE faults
  /\ entitled' = IF keys'[Root] = keys[Root] THEN entitled
                 ELSE entitled \cup {<<u, keys'[Root]>> : u \in DOMAIN user_leaves'}
  /\ UNCHANGED channel

CanRotate == keys[Root] + faults < MaxRotations /\ Cardinality(pending) < MaxPending

WithoutUser(u) == [v \in Members \ {u} |-> user_leaves[v]]

Leave(u) ==
  /\ CanRotate
  /\ u \in Members
  /\ LET leaf == user_leaves[u]
         anc  == AncestorsOf(leaf)
     IN  \E k \in Progress(anc) :
           /\ KG!LeafToRoot(leaf) # <<>>
           /\ KG!RemoveSubtree(leaf)
           /\ user_leaves' = WithoutUser(u)
           /\ Finish(anc, k, [n \in DOMAIN keys \ {leaf} |-> keys[n]])
           /\ admitted' = admitted \ {u}
           /\ IF k = Len(anc)
              THEN left' = left \cup {u} /\ UNCHANGED torn
              ELSE torn' = torn \cup {u} /\ UNCHANGED left
           /\ UNCHANGED received

(* The sponsor is a node of the graph; the callers' choice of users and    *)
(* sponsors is what ReJoin and LeafSponsor say.                            *)
JoinCall(u, sponsor) ==
  /\ CanRotate
  /\ ReJoin \/ u \notin admitted
  /\ LeafSponsor \/ \A v \in Members : user_leaves[v] # sponsor
  /\ KG!AddChild(sponsor, Cardinality(ChildrenOf(nodes, keys, sponsor)))

(* Mutants: the rotation leaves out the sponsor, or includes the new leaf. *)
PathAboveSponsor(sponsor) == AncestorsOf(sponsor)
PathFromLeaf(sponsor) == <<next_id>> \o KG!LeafToRoot(sponsor)

(* The id add_child returns, and the path of keys that join rotates. *)
NewLeaf == next_id
SponsorPath(sponsor) == KG!LeafToRoot(sponsor)

Join(u, sponsor) ==
  /\ JoinCall(u, sponsor)
  /\ LET leaf == NewLeaf
         anc  == SponsorPath(sponsor)
     IN  \E k \in Progress(anc) :
           /\ user_leaves' = [v \in Members \cup {u} |->
                                IF v = u THEN leaf ELSE user_leaves[v]]
           /\ Finish(anc, k, [n \in DOMAIN keys \cup {leaf} |->
                                IF n = leaf THEN 0 ELSE keys[n]])
           /\ IF k = Len(anc)
              THEN /\ received' = [received EXCEPT ![u] = @ \cup {<<leaf, 0>>}]
                   /\ admitted' = admitted \cup {u}
                   /\ left' = left \ {u}
              ELSE UNCHANGED <<received, admitted, left>>
           /\ UNCHANGED torn

(* random_key fails for the new leaf itself: the node has been added and   *)
(* stays, without a key and without a user.                                *)
JoinLeafKeyFails(u, sponsor) ==
  /\ faults < MaxFaults
  /\ faults' = faults + 1
  /\ JoinCall(u, sponsor)
  /\ UNCHANGED <<keys, user_leaves, pending, channel, received, admitted, left,
                 torn, entitled>>

(* communiques_user_oriented: every user whose path was touched gets the   *)
(* current keys of the replaced nodes on it under its leaf key.  A user    *)
(* whose leaf is no longer in the graph makes the whole call fail.         *)
UserOrientedFails == \E u \in Members : KG!LeafToRoot(user_leaves[u]) = <<>>
UserOriented(r) ==
  {LET path == KG!LeafToRoot(user_leaves[u])
   IN  {[under |-> KeyOf(path[1]), key |-> KeyOf(n)] :
          n \in r.replaced \cap FirstOf(path, Len(path))} : u \in Members} \ {{}}

(* A communique is the set of wraps it carries: one each, or all those     *)
(* under one node.                                                         *)
KeyOriented(r) == {{w} : w \in r.messages}
GroupOriented(r) ==
  {{w \in r.messages : w.under[1] = n} : n \in {w.under[1] : w \in r.messages}}

(* communiques and its publication. *)
Communiques(r, strategy) ==
  /\ strategy = "UserOriented" => ~UserOrientedFails
  /\ channel' = channel \cup UNION (CASE strategy = "KeyOriented" -> KeyOriented(r)
                                     [] strategy = "GroupOriented" -> GroupOriented(r)
                                     [] strategy = "UserOriented" -> UserOriented(r))
  /\ pending' = pending \ {r}
  /\ UNCHANGED <<nodes, next_id, keys, user_leaves, received, admitted, left,
                 faults, torn, entitled>>

PublishItems ==
  /\ EncryptedDataItems \ channel # {}
  /\ channel' = channel \cup EncryptedDataItems
  /\ UNCHANGED <<nodes, next_id, keys, user_leaves, pending, received,
                 admitted, left, faults, torn, entitled>>

Next ==
  \/ \E u \in Users : Leave(u)
  \/ \E u \in Users, s \in KG!Ids : Join(u, s) \/ JoinLeafKeyFails(u, s)
  \/ \E r \in pending, s \in Strategies : Communiques(r, s)
  \/ PublishItems

Spec == Init /\ [][Next]_vars
-----------------------------------------------------------------------------
(* What a holder of the keys K gets from a set of wraps.  Every wrap leads *)
(* from a node to one above it, so MaxDepth rounds close the set.          *)
Reach(K, wraps) ==
  LET r[k \in 0 .. MaxDepth] ==
        IF k = 0 THEN K
        ELSE LET prev == r[k - 1]
             IN  prev \cup {w.key : w \in {x \in wraps : x.under \in prev}}
  IN  r[MaxDepth]

CanDerive(u, items) == Reach(received[u], channel \cup items)

(* user_decrypt as u with the leaf keys u was handed: up the path of its   *)
(* own leaf, item by item, to the root key.                                *)
UserDecrypt(u, items) ==
  /\ u \in Members
  /\ LET path == KG!LeafToRoot(user_leaves[u])
     IN  /\ path # <<>>
         /\ KeyOf(path[1]) \in received[u]
         /\ \A i \in 1 .. Len(path) - 1 :
              [under |-> KeyOf(path[i]), key |-> KeyOf(path[i + 1])] \in items

(* The maps have their types; every key and every user leaf was issued.    *)
TypeOK ==
  /\ next_id \in Nat
  /\ DOMAIN nodes \subseteq 0 .. next_id - 1
  /\ keys \in [DOMAIN keys -> Nat] /\ DOMAIN keys \subseteq 0 .. next_id - 1
  /\ user_leaves \in [Members -> 0 .. next_id - 1] /\ Members \subseteq Users
  /\ Root \in DOMAIN keys
  /\ admitted \subseteq Users /\ left \subseteq Users
  /\ received \in [Users -> SUBSET (Nat \X Nat)]

(* The graph below the keys keeps its own invariants through every leave   *)
(* and join, failed ones included (verify_invariants would return Ok).     *)
GraphSound == KG!LinksSound /\ KG!BoundsHold

(* Departed members are excluded: once leave returned Ok, the keys a user  *)
(* was ever handed, together with everything published since, do not lead  *)
(* to the current message key, whatever joins, leaves, packagings and      *)
(* failed calls of others came in between.  (A leave that returned Err     *)
(* half-way has removed the user without rotating the keys it knows, and   *)
(* cannot be repeated; nothing is claimed for that user.)                  *)
DepartedExcluded ==
  LET items == EncryptedDataItems
  IN  \A u \in left \ torn : RootKey \notin CanDerive(u, items)

(* Forward and backward secrecy at once: a message key a user can derive,  *)
(* now or by opening any old wrap, was drawn while the user was in the     *)
(* graph (again apart from users whose leave failed half-way).             *)
KnowledgeIsMembership ==
  LET items == EncryptedDataItems
  IN  \A u \in Users \ torn : \A k \in CanDerive(u, items) :
        k[1] = Root => <<u, k[2]>> \in entitled

(* Eligible users read: a user whose join returned Ok and who has not left *)
(* decrypts the current message from the current items, unless those       *)
(* cannot be generated at all.                                             *)
MembersCanRead ==
  LET items == EncryptedDataItems
  IN  ~ItemsFail => \A u \in admitted : UserDecrypt(u, items)

(* Rekeying delivers: when every rekeying has been packaged, whichever     *)
(* strategies were used and in whichever order, each admitted user derives *)
(* the current message key from the first items and the communiques alone, *)
(* as long as no call failed (a failed call returns nothing to package).   *)
RekeyDelivers ==
  pending = {} /\ faults = 0 => \A u \in admitted : RootKey \in Reach(received[u], channel)

(* Packaging never fails for everybody because of one user's leaf.         *)
PackagingWorks == ~UserOrientedFails

(* A rekeying reaches its readers, over a graph and maps that are sound    *)
(* after every call, failed ones included.                                 *)
RekeyingSound ==
  /\ TypeOK
  /\ GraphSound
  /\ RekeyDelivers
  /\ PackagingWorks
=============================================================================
