----------------------------- MODULE HeaderChain -----------------------------
(***************************************************************************)
(* crates/bsv: block headers and the validated chain of them (header.rs,   *)
(* headerchain.rs), merkle roots and inclusion proofs (merkle.rs), and the *)
(* two node clients a chain is fed from (nodeclient.rs).                   *)
(*                                                                         *)
(* Hashes are free of collisions: the hash of a header is the header, a    *)
(* merkle node the record of its children, a transaction id [tx |-> ...].  *)
(* A header's bits is the target it states itself, and its nonce the value *)
(* its hash comes to as a number, which is large unless work was done.     *)
(***************************************************************************)
EXTENDS Naturals, Sequences, SequencesExt, FiniteSetsExt

CONSTANTS
  HeightMax,         \* u64::MAX
  MAX_TREE_HEIGHT

Header(prev, root, bits, nonce) == [prev |-> prev, root |-> root, bits |-> bits, nonce |-> nonce]

(* meets_target: the target is the header's own, however easy. *)
MeetsTarget(h) == h.nonce <= h.bits

(* serialize and parse: the fields in their order, all of them and no more. *)
Malformed == [malformed |-> TRUE]
Serialize(h) == <<h.prev, h.root, h.bits, h.nonce>>
HEADER_LEN == 4
Parse(raw) ==
  IF Len(raw) = HEADER_LEN THEN Header(raw[1], raw[2], raw[3], raw[4]) ELSE Malformed

NewChain(start) == [headers |-> <<>>, start |-> start, byRoot |-> <<>>]

(* next_height and tip_height; HeightMax + 1 stands for a failed checked_add. *)
NextHeight(c) ==
  IF c.start + Len(c.headers) > HeightMax THEN HeightMax + 1 ELSE c.start + Len(c.headers)
HasTip(c) == c.headers # <<>>
TipHeight(c) == c.start + Len(c.headers) - 1

(* add: the linkage before the work before the height. *)
AddVerdictUnlinked(c, h) ==   \* mutant: linkage is not checked
  IF ~MeetsTarget(h) THEN "ChainBadPow" ELSE IF NextHeight(c) > HeightMax THEN "OutOfRange" ELSE "Ok"
AddVerdict(c, h) ==
  CASE HasTip(c) /\ h.prev # Last(c.headers) -> "ChainNotLinked"
    [] (HasTip(c) => h.prev = Last(c.headers)) /\ ~MeetsTarget(h) -> "ChainBadPow"
    [] (HasTip(c) => h.prev = Last(c.headers)) /\ MeetsTarget(h) /\ NextHeight(c) > HeightMax -> "OutOfRange"
    [] OTHER -> "Ok"
InsertRoot(byRoot, root, height) ==
  [r \in DOMAIN byRoot \cup {root} |-> IF r = root THEN height ELSE byRoot[r]]
Add(c, h) ==
  IF AddVerdict(c, h) # "Ok" THEN c
  ELSE [c EXCEPT !.headers = Append(@, h), !.byRoot = InsertRoot(@, h.root, NextHeight(c))]
AddAtHeightVerdict(c, h, expected) ==
  IF NextHeight(c) > HeightMax THEN "OutOfRange"
  ELSE IF NextHeight(c) # expected THEN "ChainNonMonotonic" ELSE AddVerdict(c, h)

HasHeight(c, height) == height >= c.start /\ height < c.start + Len(c.headers)
MerkleRootAtHeight(c, height) == c.headers[height - c.start + 1].root
HasRoot(c, root) == root \in DOMAIN c.byRoot
HeightOfRoot(c, root) == c.byRoot[root]

-------------------------------------------------------------------------------
(* merkle.rs.  Transaction ids and inner nodes are both double_sha256, with *)
(* nothing to tell them apart but the length of what was hashed; here they  *)
(* never coincide, so transactions of 64 bytes are left out.                *)
HashPair(l, r) == [l |-> l, r |-> r]
NextLevel(level) ==
  [i \in 1 .. (Len(level) + 1) \div 2 |->
     HashPair(level[2 * i - 1], level[IF 2 * i <= Len(level) THEN 2 * i ELSE 2 * i - 1])]
Level(leaves, height) ==
  LET l[h \in 0 .. height] == IF h = 0 THEN leaves ELSE NextLevel(l[h - 1]) IN l[height]
TreeHeight(leaves) == CHOOSE h \in 0 .. Len(leaves) :
  Len(Level(leaves, h)) = 1 /\ \A g \in 0 .. h - 1 : Len(Level(leaves, g)) > 1
MerkleRoot(leaves) == Level(leaves, TreeHeight(leaves))[1]   \* of a block that has leaves

(* compute_root_from_proof: the index is shifted once a level, and its     *)
(* last bit says which side.                                               *)
Shifted(index, height) ==
  LET at[h \in 0 .. height] == IF h = 0 THEN index ELSE at[h - 1] \div 2 IN at[height]
SideLeft(index, h) == 0   \* mutant: the index is not read
Side(index, h) == Shifted(index, h) % 2
ComputeRootFromProof(leaf, proof) ==
  LET up[h \in 0 .. Len(proof.siblings)] ==
        IF h = 0 THEN leaf
        ELSE IF Side(proof.index, h - 1) = 0 THEN HashPair(up[h - 1], proof.siblings[h])
        ELSE HashPair(proof.siblings[h], up[h - 1])
  IN up[Len(proof.siblings)]
VerifyHeightOnly(leaf, proof, height, c) == HasHeight(c, height)   \* mutant
VerifyAgainstChain(leaf, proof, height, c) ==
  /\ HasHeight(c, height) /\ Len(proof.siblings) <= MAX_TREE_HEIGHT
  /\ ComputeRootFromProof(leaf, proof) = MerkleRootAtHeight(c, height)

(* The branch a node keeps for the leaf at an index. *)
Branch(leaves, index) ==
  [index |-> index, siblings |-> [h \in 1 .. TreeHeight(leaves) |->
     LET level == Level(leaves, h - 1)
         at == Shifted(index, h - 1)
         other == IF at % 2 = 0 THEN at + 1 ELSE at - 1
     IN level[Min({other + 1, Len(level)})]]]

-------------------------------------------------------------------------------
(* nodeclient.rs.  A branch is served as text, a line each for the height, *)
(* the index and the siblings; a line is empty, a number or a hash.        *)
Number(n) == [number |-> n]
Hash(h) == [hash |-> h]
EmptyLine == <<>>
BranchText(height, proof) ==
  <<Number(height), Number(proof.index)>> \o [i \in DOMAIN proof.siblings |-> Hash(proof.siblings[i])]
Siblings(lines) ==   \* empty lines are skipped
  FoldLeft(LAMBDA out, l : IF l = EmptyLine THEN out ELSE Append(out, l), <<>>, lines)
ParseBranch(lines) ==
  LET rest == Siblings(SubSeq(lines, 3, Len(lines)))
  IN IF /\ Len(lines) >= 2 /\ \A i \in 1 .. 2 : DOMAIN lines[i] = {"number"}
        /\ \A i \in DOMAIN rest : DOMAIN rest[i] = {"hash"}
     THEN [height |-> lines[1].number,
           proof |-> [index |-> lines[2].number,
                      siblings |-> [i \in DOMAIN rest |-> rest[i].hash]]]
     ELSE Malformed

(* What a node serves is a function from heights to raw headers.  The      *)
(* offline client has parsed them before, and its header_stream leaves out *)
(* the heights it does not have; the Teranode client fails on the first    *)
(* that is missing or malformed.                                           *)
Parsed(raws) ==
  [h \in {g \in DOMAIN raws : Parse(raws[g]) # Malformed} |-> Parse(raws[h])]
Heights(from, count) == [i \in 1 .. count |-> from + i - 1]
OfflineStream(byHeight, from, count) ==
  FoldLeft(LAMBDA out, h : IF h \in DOMAIN byHeight THEN Append(out, byHeight[h]) ELSE out,
           <<>>, Heights(from, count))
HeaderByHeight(raws, height) ==
  IF height \in DOMAIN raws THEN Parse(raws[height]) ELSE Malformed
TeranodeStream(raws, from, count) ==
  IF \A i \in 1 .. count : HeaderByHeight(raws, from + i - 1) # Malformed
  THEN [i \in 1 .. count |-> HeaderByHeight(raws, from + i - 1)] ELSE <<>>
==============================================================================
