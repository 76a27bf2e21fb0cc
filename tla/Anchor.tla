------------------------------- MODULE Anchor --------------------------------
(***************************************************************************)
(* The path of an auditable log to the root of trust.  A custodian appends *)
(* to the lifecycle log of its key, the compliance log grows beside it,    *)
(* heads of both are written to transactions, blocks commit to those, a    *)
(* node serves headers it need not be honest about, and a client that has  *)
(* only its validated header chain is shown logs, proofs and heights.      *)
(*                                                                         *)
(* The miner and the node are the environment; the chain of blocks is      *)
(* history the client never sees.                                          *)
(***************************************************************************)
EXTENDS HashLog, HeaderChain

CONSTANTS
  Keys, Times,        \* public keys and logical times
  Strings,            \* the strings an audit record may have
  StartHeights,       \* where the client's chain may start
  FirstHeight,        \* the height of the first block mined
  NetworkTarget,      \* the target blocks are mined to
  MaxTarget,          \* the easiest target bits can state
  MaxLog, MaxMined,   \* bounds on the logs before and after the first block
  MaxLeaves, MaxBlocks \* bounds on the blocks

ASSUME AnchorAssumption ==
  /\ Times \subseteq Nat /\ HeightMax \in Nat /\ FirstHeight \in 0 .. HeightMax
  /\ StartHeights \subseteq 0 .. HeightMax
  /\ NetworkTarget \in Nat /\ MaxTarget \in Nat /\ NetworkTarget < MaxTarget
  /\ MaxLog \in Nat \ {0} /\ MaxMined \in 0 .. MaxLog /\ MaxBlocks \in Nat /\ MaxLeaves \in Nat
  /\ \A s \in Strings : s \in Seq(Nat)
  /\ MAX_TREE_HEIGHT \in Nat

VARIABLES
  custodian,   \* KeyCustodian: public_key, revoked, events
  records,     \* TamperEvidentAudit.records
  blocks,      \* history: the leaves of every block mined
  chain        \* the client's HeaderChain

vars == <<custodian, records, blocks, chain>>

LogLength == Len(custodian.events) + Len(records)
LogRoom == LogLength < IF blocks = <<>> THEN MaxLog ELSE MaxMined

(* KeyCustodian::new *)
Init ==
  /\ \E k \in Keys, t \in Times :
       custodian = [key |-> k, revoked |-> FALSE, events |-> <<Event("Genesis", k, t, ZeroHash)>>]
  /\ records = <<>> /\ blocks = <<>>
  /\ \E h \in StartHeights : chain = NewChain(h)

(* rotate and revoke: refused once revoked, at any logical time. *)
Rotate(k, t) ==
  /\ ~custodian.revoked /\ LogRoom
  /\ custodian' = [custodian EXCEPT !.key = k,
       !.events = Append(@, Event("Rotation", k, t, HeadHash(@)))]
  /\ UNCHANGED <<records, blocks, chain>>
Revoke(t) ==
  /\ ~custodian.revoked /\ LogRoom
  /\ custodian' = [custodian EXCEPT !.revoked = TRUE,
       !.events = Append(@, Event("Revocation", custodian.key, t, HeadHash(@)))]
  /\ UNCHANGED <<records, blocks, chain>>

(* TamperEvidentAudit::append *)
AppendRecord(t, actor, action) ==
  /\ LogRoom
  /\ records' = Append(records, AuditRecord(t, actor, action, HeadHash(records)))
  /\ UNCHANGED <<custodian, blocks, chain>>

(* Heads of the two logs are written to transactions, which go into a      *)
(* block in any order with others.  Nobody else writes heads: whoever does *)
(* can anchor a log of their own, which the code does not tell apart.      *)
AnchorTx(head) == [tx |-> head]
Heads == {HeadHash(custodian.events), HeadHash(records), ZeroHash}
Mine ==
  /\ Len(blocks) < MaxBlocks /\ LogLength <= MaxMined
  /\ \E n \in 1 .. MaxLeaves : \E leaves \in [1 .. n -> Heads] :
       /\ IsInjective(leaves)
       /\ blocks' = Append(blocks, [i \in 1 .. n |-> AnchorTx(leaves[i])])
  /\ UNCHANGED <<custodian, records, chain>>

(* The headers of the blocks mined, each over the one before, and each     *)
(* worked for until it met the network's target.                           *)
HeaderOf(n) ==
  LET h[i \in 1 .. Len(blocks)] ==
        Header(IF i = 1 THEN ZeroHash ELSE h[i - 1], MerkleRoot(blocks[i]),
               NetworkTarget, NetworkTarget)
  IN h[n]
Mined == {HeaderOf(n) : n \in 1 .. Len(blocks)}

HeightsNear == FirstHeight .. Min({HeightMax, FirstHeight + MaxBlocks})

(* What a node that need not be honest may serve at the heights it has: a  *)
(* block's header, at any height; a header nobody worked for, over a block *)
(* or over what the client has, that states the network's target or the    *)
(* easiest; or one that is cut short.                                      *)
MadeUp ==
  {Header(prev, MerkleRoot(<<AnchorTx(ZeroHash)>>), bits, MaxTarget) :
     prev \in Mined \cup Range(chain.headers), bits \in {NetworkTarget, MaxTarget}}
Offered == Mined \cup MadeUp
Truncated(h) == SubSeq(Serialize(h), 1, HEADER_LEN - 1)
Served ==
  LET raws == {Serialize(h) : h \in Offered} \cup {Truncated(h) : h \in {HeaderOf(1)}}
  IN UNION {[heights -> raws] : heights \in SUBSET HeightsNear}

(* The client asks either kind of node for headers from its next height    *)
(* and adds them until one is refused.                                     *)
AddAll(c, headers) ==
  FoldLeft(LAMBDA acc, h : IF acc.go /\ AddVerdict(acc.c, h) = "Ok"
                           THEN [acc EXCEPT !.c = Add(@, h)] ELSE [acc EXCEPT !.go = FALSE],
           [c |-> c, go |-> TRUE], headers).c
Sync ==
  /\ blocks # <<>> /\ NextHeight(chain) <= HeightMax
  /\ \E served \in Served, count \in 1 .. MaxBlocks, offline \in BOOLEAN :
       LET from == NextHeight(chain)
           headers == IF offline THEN OfflineStream(Parsed(served), from, count)
                      ELSE TeranodeStream(served, from, count)
       IN chain' = AddAll(chain, headers) /\ chain' # chain
  /\ UNCHANGED <<custodian, records, blocks>>

(* add_at_height: a header from anywhere, with the height it is said to have. *)
AddOne ==
  /\ \E h \in Offered, expected \in HeightsNear :
       /\ AddAtHeightVerdict(chain, h, expected) = "Ok"
       /\ chain' = Add(chain, h)
  /\ UNCHANGED <<custodian, records, blocks>>

Next ==
  \/ \E k \in Keys, t \in Times : Rotate(k, t)
  \/ \E t \in Times : Revoke(t)
  \/ \E t \in Times, actor, action \in Strings : AppendRecord(t, actor, action)
  \/ Mine \/ Sync \/ AddOne

Spec == Init /\ [][Next]_vars
-------------------------------------------------------------------------------
(* Every variable has its type; the custodian's key is the one its last    *)
(* event names, and it is revoked exactly if that event is a revocation.   *)
TypeOK ==
  /\ custodian.key = Last(custodian.events).key
  /\ custodian.revoked <=> Last(custodian.events).kind = "Revocation"
  /\ \A e \in Range(custodian.events) : e.key \in Keys /\ e.time \in Times
  /\ \A r \in Range(records) : r.time \in Times /\ {r.actor, r.action} \subseteq Strings
  /\ LogLength <= MaxLog
  /\ NextHeight(chain) \in Nat
  /\ DOMAIN chain.byRoot = {h.root : h \in Range(chain.headers)}

(* The logs do not change with the blocks, so it is enough to look at what *)
(* concerns only them before the first block.                              *)
Unmined == blocks = <<>>

(* rotate, revoke and verify_lifecycle: what the custodian writes verifies *)
(* exactly if nobody gave it a logical time before the last; the audit log *)
(* always verifies.                                                        *)
BuiltLogsVerify ==
  Unmined =>
    /\ VerifyLifecycle(custodian.events) <=>
         \A i \in 2 .. Len(custodian.events) :
           custodian.events[i].time >= custodian.events[i - 1].time
    /\ VerifyAuditChain(records)

(* What somebody may make of a log: a part of it, one entry exchanged for  *)
(* another (old, new or made up), one left out, one more; with the stored  *)
(* hash of an altered entry kept or computed again.                        *)
Tampered(log, entries) ==
  {SubSeq(log, 1, n) : n \in 0 .. Len(log)}
  \cup {[log EXCEPT ![i] = e] : i \in DOMAIN log, e \in entries}
  \cup {RemoveAt(log, i) : i \in DOMAIN log}
  \cup {Append(log, e) : e \in entries}
MadeUpEvents ==
  {Event(k, key, t, e.prev) : k \in {"Genesis", "Rotation", "Revocation"},
     key \in Keys, t \in Times, e \in Range(custodian.events)}
ForgedEvents ==
  LET es == Range(custodian.events)
  IN es \cup MadeUpEvents \cup {[f EXCEPT !.hash = e.hash] : f \in MadeUpEvents, e \in es}
ForgedRecords ==
  LET rs == Range(records)
      made == {AuditRecord(t, a, b, r.prev) : t \in Times, a, b \in Strings, r \in rs}
  IN rs \cup made \cup {[f EXCEPT !.hash = r.hash] : f \in made, r \in rs}

(* verify_lifecycle: a log that verifies and has the head of the           *)
(* custodian's log is that log, entry for entry.                           *)
LifecycleTamperEvident ==
  Unmined => \A log \in Tampered(custodian.events, ForgedEvents) :
    VerifyLifecycle(log) /\ HeadHash(log) = HeadHash(custodian.events) => log = custodian.events

(* verify_audit_chain: a log that verifies and has the recorded head is    *)
(* the recorded one, except that the end of an actor may have moved to     *)
(* another separator within the same text.  Those changes do go through,   *)
(* all of them, and no others; and there are none to make in an entry      *)
(* whose strings contain no separator.                                     *)
SameText(r, s) ==
  /\ r.time = s.time /\ r.prev = s.prev /\ r.hash = s.hash
  /\ Joined(r.actor, r.action) = Joined(s.actor, s.action)
AuditTamperEvident ==
  Unmined => \A log \in Tampered(records, ForgedRecords) :
    /\ VerifyAuditChain(log) /\ HeadHash(log) = HeadHash(records) <=>
         Len(log) = Len(records) /\ \A i \in DOMAIN log : SameText(log[i], records[i])
    /\ Len(log) = Len(records) => \A i \in DOMAIN log :
         SameText(log[i], records[i]) /\ log[i] # records[i] =>
           Sep \in Range(records[i].actor \o records[i].action)

(* HeaderChain::add, contains_merkle_root and merkle_root_at_height: every *)
(* root in the chain is found, at a height that has it, and at the later   *)
(* one if there are two.                                                   *)
RootsFound ==
  /\ \A i \in DOMAIN chain.headers :
       LET root == chain.headers[i].root
           height == chain.start + i - 1
       IN /\ HasRoot(chain, root) /\ HeightOfRoot(chain, root) >= height
          /\ HasHeight(chain, height) /\ MerkleRootAtHeight(chain, height) = root
          /\ MerkleRootAtHeight(chain, HeightOfRoot(chain, root)) = root
  /\ HasTip(chain) => TipHeight(chain) <= HeightMax

(* HeaderChain::add and meets_target: in a chain whose first header is a   *)
(* block at its own height, a header that states the network's target is a *)
(* block at its own height, and so is every header before it, though the   *)
(* node mislabels, leaves out and makes up headers.  Of headers that state *)
(* an easier target nothing holds: add takes them without any work done.   *)
Genuine(h, height) ==
  \E n \in 1 .. Len(blocks) : height = FirstHeight + n - 1 /\ h = HeaderOf(n)
HeightsTrue ==
  HasTip(chain) /\ Genuine(chain.headers[1], chain.start) =>
    \A i \in DOMAIN chain.headers : chain.headers[i].bits <= NetworkTarget =>
      \A j \in 1 .. i : Genuine(chain.headers[j], chain.start + j - 1)

(* An index leads to the i-th leaf: its sides are those of the leaf,       *)
(* except where the node above the leaf is the last of an odd level and    *)
(* paired with itself.                                                     *)
LeadsTo(leaves, index, i) ==
  \A h \in 0 .. TreeHeight(leaves) - 1 :
    \/ Side(index, h) = Side(i - 1, h)
    \/ Side(i - 1, h) = 0 /\ Shifted(i - 1, h) + 1 = Len(Level(leaves, h))

(* compute_root_from_proof and verify_against_chain, for the blocks in the *)
(* client's chain: the node's branch of every transaction of a block that  *)
(* is not too tall is accepted, with or without an empty line at its end   *)
(* (parse_branch); and whatever proof is accepted for whatever             *)
(* transaction, it has a sibling for each level, and the transaction is in *)
(* the block, at the place the index leads to.                             *)
InclusionExact ==
  \A n \in 1 .. Len(blocks) : \A height \in {FirstHeight + n - 1} :
    HasHeight(chain, height) /\ Genuine(chain.headers[height - chain.start + 1], height) =>
      LET leaves == blocks[n]
          nodes == UNION {Range(Level(leaves, h)) : h \in 0 .. TreeHeight(leaves)}
      IN /\ TreeHeight(leaves) <= MAX_TREE_HEIGHT =>
              \A i \in DOMAIN leaves : \A end \in {<<>>, <<EmptyLine>>} :
                LET b == ParseBranch(BranchText(height, Branch(leaves, i - 1)) \o end)
                IN b # Malformed /\ VerifyAgainstChain(leaves[i], b.proof, b.height, chain)
         /\ \A leaf \in Range(leaves) \cup {AnchorTx(head) : head \in Heads} :
              \A index \in 0 .. 2 * MaxLeaves, len \in 0 .. MaxLeaves - 1 :
                \A siblings \in [1 .. len -> nodes] :
                  VerifyAgainstChain(leaf, [index |-> index, siblings |-> siblings], height, chain)
                    => /\ len = TreeHeight(leaves)
                       /\ \E i \in DOMAIN leaves : LeadsTo(leaves, index, i) /\ leaf = leaves[i]

(* A lifecycle log that verifies and whose head is proved to be in a block *)
(* of the client's chain is the beginning of the custodian's own log, if   *)
(* only heads of the two logs are written to transactions (Mine).          *)
AnchoredIsGenuine ==
  \A height \in HeightsNear : \A n \in 1 .. Len(blocks) :
    HasHeight(chain, height) /\ Genuine(chain.headers[height - chain.start + 1], height) =>
      \A log \in Tampered(custodian.events, Range(custodian.events) \cup MadeUpEvents) :
        VerifyLifecycle(log) =>
          \A i \in 0 .. MaxLeaves - 1 :
            VerifyAgainstChain(AnchorTx(HeadHash(log)), Branch(blocks[n], i), height, chain)
              => IsPrefix(log, custodian.events)

(* The two hash-chained logs: what is built by legal calls verifies        *)
(* exactly if its times are in order; no other lifecycle log passes for    *)
(* it, and the only other audit logs that do have an actor's end moved.    *)
LogsExact ==
  /\ TypeOK
  /\ BuiltLogsVerify
  /\ LifecycleTamperEvident
  /\ AuditTamperEvident

(* The header chain of a client of any node: the heights are true up to    *)
(* the last header that states the network's target, and roots are found   *)
(* at a height that has them.                                              *)
ChainExact ==
  /\ HeightsTrue
  /\ RootsFound
==============================================================================
