---------------------------- MODULE OverlayWriter ----------------------------
(***************************************************************************)
(* Writing overlay nodes to the chain (crates/overlay, writer.rs): one     *)
(* data-storage transaction per node position, signed with the position's  *)
(* writing key, submitted to a node and then recorded in `written`.        *)
(*                                                                         *)
(* The node is external: it takes a transaction whose input exists, is     *)
(* unspent and is signed by the key and over the value its output names    *)
(* (the check verify_authorisation describes).  The transport may lose a   *)
(* submission or its answer, and `written` does not survive a restart.     *)
(*                                                                         *)
(* A transaction is determined by what is signed: RFC 6979 signatures make *)
(* two writes with the same data the same transaction, and an obfuscated   *)
(* payload carries a random nonce that never repeats.                      *)
(***************************************************************************)
EXTENDS Naturals, Sequences, FiniteSets

CONSTANTS
  Positions,         \* node positions: sequences of coordinates
  Payloads,          \* what callers write
  Values,            \* WritingOptions.funding_value
  CoinsPerPosition,  \* outputs callers hold for the writing key of a position
  CoinValue,         \* what each of them is worth
  ChildLinks,        \* do callers fund a child from its parent's output?
  Lossy,             \* may the transport lose a submission or its answer?
  MaxDraws,          \* model bound on obfuscation nonces
  MaxRestarts        \* model bound on restarts

ASSUME WriterAssumption ==
  /\ CoinsPerPosition \in Nat /\ MaxDraws \in Nat /\ MaxRestarts \in Nat
  /\ ChildLinks \in BOOLEAN /\ Lossy \in BOOLEAN

VARIABLES
  written,  \* OverlayWriter.written: position -> transaction
  chain,    \* what the node has accepted (external)
  sent,     \* what the node was ever shown (external)
  result,   \* what the last call returned
  unsure,   \* positions written without a good answer, or before a restart
  draws,    \* nonces drawn so far
  life      \* restarts so far

writerVars == <<written, chain, sent, result, unsure, draws, life>>

Error == [ok |-> FALSE]

(* An outpoint: the position whose writing key it pays, and where it is.   *)
Coin(pos, i) == [lock |-> pos, at |-> <<"coin", i>>]
OutputOf(tx) == [lock |-> tx.position, at |-> <<"tx", tx>>]
WorthOf(out) == IF out.at[1] = "coin" THEN CoinValue ELSE out.at[2].value

(* The outpoints a caller passes as `funding`: those it holds for the      *)
(* position and, with ChildLinks, the spendable output of the parent node. *)
Fundings(pos) ==
  {Coin(pos, i) : i \in 1 .. CoinsPerPosition}
  \cup {OutputOf(tx) : tx \in {t \in chain : /\ ChildLinks /\ pos # <<>>
                                             /\ t.position = SubSeq(pos, 1, Len(pos) - 1)}}

WriterInit ==
  /\ written = [p \in {} |-> Error]
  /\ chain = {} /\ sent = {}
  /\ result = Error /\ unsure = {}
  /\ draws = 0 /\ life = 0

(* prepare_payload and build_skeleton; sign_input signs with the writing   *)
(* key of the position itself, over the funding value of the new output.   *)
Skeleton(pos, payload, obfuscate, value, funding) ==
  [position |-> pos, payload |-> payload,
   nonce |-> IF obfuscate THEN draws + 1 ELSE 0, value |-> value, funding |-> funding]

Authorised(tx) == tx.funding.lock = tx.position /\ WorthOf(tx.funding) = tx.value

(* External: the node's verdict on a transaction it is shown. *)
Unspent(out) == \A t \in chain : t.funding # out
Accepts(tx) == Unspent(tx.funding) /\ Authorised(tx)

(* Mutants: the node is recorded although the submission failed; it is not *)
(* recorded at all.                                                        *)
RecordAlways(pos, tx, ok) ==
  written' = [p \in DOMAIN written \cup {pos} |-> IF p = pos THEN tx ELSE written[p]]
RecordNever(pos, tx, ok) == UNCHANGED written

Record(pos, tx, ok) ==
  written' = IF ok THEN [p \in DOMAIN written \cup {pos} |->
                           IF p = pos THEN tx ELSE written[p]]
             ELSE written

(* write_node of a position that is recorded: nothing is sent. *)
WriteAgain(pos) ==
  /\ pos \in DOMAIN written
  /\ result' = [ok |-> TRUE, position |-> pos, tx |-> written[pos]]
  /\ UNCHANGED <<written, chain, sent, unsure, draws, life>>

(* write_node of any other position.  The node may never see the raw       *)
(* transaction, may refuse it, or may take it; one it has taken before is  *)
(* answered with its txid again.  An answer that is lost or malformed is   *)
(* an error, and only a good answer is followed by the recording.          *)
WriteNode(pos, payload, obfuscate, value, funding, delivered, answered) ==
  /\ pos \notin DOMAIN written
  /\ funding \in Fundings(pos)
  /\ Lossy \/ (delivered /\ answered)
  /\ obfuscate => draws < MaxDraws
  /\ LET tx == Skeleton(pos, payload, obfuscate, value, funding)
         ok == delivered /\ answered /\ (Accepts(tx) \/ tx \in chain)
     IN  /\ chain' = IF delivered /\ Accepts(tx) THEN chain \cup {tx} ELSE chain
         /\ sent' = IF delivered THEN sent \cup {tx} ELSE sent
         /\ Record(pos, tx, ok)
         /\ result' = IF ok THEN [ok |-> TRUE, position |-> pos, tx |-> tx] ELSE Error
         /\ unsure' = IF delivered /\ Accepts(tx) /\ ~answered THEN unsure \cup {pos}
                      ELSE unsure
  /\ draws' = IF obfuscate THEN draws + 1 ELSE draws
  /\ UNCHANGED life

(* OverlayWriter.new in a new process. *)
Restart ==
  /\ life < MaxRestarts
  /\ life' = life + 1
  /\ written' = [p \in {} |-> Error]
  /\ result' = Error
  /\ unsure' = unsure \cup DOMAIN written
  /\ UNCHANGED <<chain, sent, draws>>

WriterNext ==
  \/ \E pos \in Positions : WriteAgain(pos)
  \/ \E pos \in Positions, payload \in Payloads, value \in Values,
        obfuscate, delivered, answered \in BOOLEAN : \E funding \in Fundings(pos) :
       WriteNode(pos, payload, obfuscate, value, funding, delivered, answered)
  \/ Restart

WriterSpec == WriterInit /\ [][WriterNext]_writerVars
-----------------------------------------------------------------------------

(* What write_node reports is on the chain, in this life and whichever     *)
(* submission or answer was lost before: no entry of `written` and no Ok   *)
(* stands for a transaction the node does not have.                        *)
WrittenIsOnChain ==
  /\ \A p \in DOMAIN written : written[p] \in chain /\ written[p].position = p
  /\ result.ok => result.tx \in chain /\ result.tx.position = result.position

(* Writing is idempotent on the node's position: however often a write is  *)
(* retried, the chain holds one transaction for the position.              *)
OneTxPerPosition == \A s, t \in chain : s.position = t.position => s = t

(* How far the code keeps that promise: a position has a second            *)
(* transaction only if the answer to an earlier write was lost, or the     *)
(* process that wrote it is gone.  Neither another payload, nor another    *)
(* coin, nor a refused or undelivered write is enough.                     *)
OneTxUnlessUnsure ==
  \A s, t \in chain : s.position = t.position => s = t \/ s.position \in unsure
=============================================================================
