------------------------------ MODULE KeyGraph ------------------------------
(***************************************************************************)
(* The bounded key graph of crates/keygraph: a forest kept as a map from   *)
(* node identifiers to nodes, grown by add_child, cut by remove_subtree.   *)
(* No cryptography lives here; BroadcastGraph puts keys on the nodes.      *)
(*                                                                         *)
(* A call that returns an error leaves the graph as it was, so an error is *)
(* an action whose guard is false.  The children vector is a set: its      *)
(* order is read by no operation that changes state.                       *)
(***************************************************************************)
EXTENDS Integers, Sequences, FiniteSets

CONSTANTS
  MaxDepth,    \* Bounds.max_depth
  MaxBreadth,  \* Bounds.max_breadth
  MaxNodes,    \* Bounds.max_nodes
  Coords,      \* the child coordinates callers pass
  MaxId,       \* model bound: next_id stops here (u64::MAX in the code)
  MaxEpoch     \* model bound: key_epoch stops here (u64::MAX in the code)

ASSUME BoundsAssumption ==
  /\ MaxDepth \in Nat /\ MaxBreadth \in Nat /\ MaxNodes \in Nat \ {0}
  /\ MaxId \in Nat /\ MaxEpoch \in Nat

VARIABLES nodes, next_id

vars == <<nodes, next_id>>

Root == 0
None == -1
Ids  == DOMAIN nodes

NodeId == Nat

Node == [position : Seq(Coords), layer : Nat, parent : NodeId \cup {None},
         children : SUBSET NodeId, key_epoch : Nat]

(* with_root *)
Init ==
  /\ nodes = [n \in {Root} |-> [position |-> <<>>, layer |-> 0,
                                parent |-> None, children |-> {},
                                key_epoch |-> 0]]
  /\ next_id = 1

(* Mutant: the breadth bound is off by one. *)
HasRoomOffByOne(p) ==
  /\ nodes[p].layer + 1 <= MaxDepth
  /\ Cardinality(nodes[p].children) <= MaxBreadth
  /\ Cardinality(Ids) < MaxNodes

(* The bounds add_child checks before it changes anything. *)
HasRoom(p) ==
  /\ nodes[p].layer + 1 <= MaxDepth
  /\ Cardinality(nodes[p].children) < MaxBreadth
  /\ Cardinality(Ids) < MaxNodes

NewChild(p, coord) ==
  [position |-> Append(nodes[p].position, coord), layer |-> nodes[p].layer + 1,
   parent |-> p, children |-> {}, key_epoch |-> 0]

(* Mutant: a freed id is issued again. *)
AddChildFreeId(p, coord) ==
  LET new == CHOOSE i \in 0 .. MaxId : i \notin Ids /\ \A j \in 0 .. i - 1 : j \in Ids
  IN  /\ p \in Ids
      /\ HasRoom(p)
      /\ next_id < MaxId
      /\ nodes' = [n \in Ids \cup {new} |->
                     CASE n = new -> NewChild(p, coord)
                       [] n = p   -> [nodes[p] EXCEPT !.children = @ \cup {new}]
                       [] OTHER   -> nodes[n]]
      /\ next_id' = next_id + 1

AddChild(p, coord) ==
  /\ p \in Ids
  /\ HasRoom(p)
  /\ next_id < MaxId
  /\ nodes' = [n \in Ids \cup {next_id} |->
                 CASE n = next_id -> NewChild(p, coord)
                   [] n = p       -> [nodes[p] EXCEPT !.children = @ \cup {next_id}]
                   [] OTHER       -> nodes[n]]
  /\ next_id' = next_id + 1

ReplaceRoot ==
  /\ Root \in Ids
  /\ nodes[Root].key_epoch < MaxEpoch
  /\ nodes' = [nodes EXCEPT ![Root].key_epoch = @ + 1]
  /\ UNCHANGED next_id

(* What the stack of remove_subtree visits: the least set that holds id    *)
(* and, with a node, the children that are still in the map.               *)
ClosedUnderChildren(S) == \A m \in S : nodes[m].children \cap Ids \subseteq S

Subtree(id) ==
  {m \in Ids : \A S \in SUBSET Ids : (id \in S /\ ClosedUnderChildren(S)) => m \in S}

(* Mutant: the removed node stays in its parent's children. *)
RemoveSubtreeStillLinked(id) ==
  /\ id # Root
  /\ id \in Ids
  /\ nodes' = [n \in Ids \ Subtree(id) |-> nodes[n]]
  /\ UNCHANGED next_id

RemoveSubtree(id) ==
  /\ id # Root
  /\ id \in Ids
  /\ nodes' = [n \in Ids \ Subtree(id) |->
                 IF n = nodes[id].parent
                 THEN [nodes[n] EXCEPT !.children = @ \ {id}]
                 ELSE nodes[n]]
  /\ UNCHANGED next_id

Next ==
  \/ \E p \in Ids, coord \in Coords : AddChild(p, coord)
  \/ \E id \in Ids : RemoveSubtree(id)
  \/ ReplaceRoot

Spec == Init /\ [][Next]_vars

(* parent: None for the root and for a node that is not in the graph. *)
Parent(id) == IF id \in Ids THEN nodes[id].parent ELSE None

(* Mutant: the guard against cycles gives up one layer early. *)
LeafToRootShort(id) ==
  LET Above(path) == Parent(path[Len(path)])
      climb[k \in 0 .. MaxDepth] ==
        IF k = 0 THEN <<id>>
        ELSE LET path == climb[k - 1]
             IN  IF Above(path) \in Ids THEN Append(path, Above(path)) ELSE path
      full == climb[MaxDepth - 1]
  IN  IF id \in Ids /\ Above(full) = None THEN full ELSE <<>>

(* leaf_to_root: the path from id, or the empty path where the code        *)
(* returns NoSuchNode (a node on the way is missing) or Cycle (no root     *)
(* within the MaxDepth + 3 nodes the loop lets through).                   *)
LeafToRoot(id) ==
  LET Above(path) == Parent(path[Len(path)])
      climb[k \in 0 .. MaxDepth + 2] ==
        IF k = 0 THEN <<id>>
        ELSE LET path == climb[k - 1]
             IN  IF Above(path) \in Ids THEN Append(path, Above(path)) ELSE path
      full == climb[MaxDepth + 2]
  IN  IF id \in Ids /\ Above(full) = None THEN full ELSE <<>>

(* The condition verify_invariants returns Ok for. *)
VerifyInvariants ==
  /\ \A id \in Ids :
       /\ nodes[id].parent = None => id = Root
       /\ nodes[id].parent # None =>
            /\ nodes[id].parent \in Ids
            /\ id \in nodes[nodes[id].parent].children
  /\ \E id \in Ids : nodes[id].parent = None

-----------------------------------------------------------------------------
(* Every record of the graph has its type and ids below next_id are the    *)
(* only ones in use.                                                       *)
TypeOK ==
  /\ next_id \in Nat
  /\ Ids \subseteq 0 .. next_id - 1
  /\ Root \in Ids
  /\ nodes \in [Ids -> Node]

(* verify_invariants returns Ok after every sequence of operations, and    *)
(* what it does not look at is sound too: a children list names exactly    *)
(* the live nodes whose parent edge points back, so remove_subtree leaves  *)
(* no dangling child and no orphan.                                        *)
LinksSound ==
  /\ VerifyInvariants
  /\ \A p \in Ids : nodes[p].children = {c \in Ids : nodes[c].parent = p}

(* Layers count from the root: a child is one layer below its parent, so   *)
(* parent edges have no cycle, and no node is below Bounds.max_depth.      *)
LayersSound ==
  \A id \in Ids :
    /\ nodes[id].layer = IF id = Root THEN 0 ELSE nodes[nodes[id].parent].layer + 1
    /\ nodes[id].layer = Len(nodes[id].position)
    /\ nodes[id].layer <= MaxDepth

(* The breadth and node-count bounds hold after every operation, not only  *)
(* at the add_child that checks them.                                      *)
BoundsHold ==
  /\ Cardinality(Ids) <= MaxNodes
  /\ \A id \in Ids : Cardinality(nodes[id].children) <= MaxBreadth

(* leaf_to_root succeeds on every node of the graph (its Cycle and         *)
(* NoSuchNode exits are unreachable), the path ends in the root, and it is *)
(* exactly the set of nodes whose removal would remove the node.           *)
ClimbSound ==
  \A id \in Ids :
    LET path == LeafToRoot(id)
    IN  /\ Len(path) = nodes[id].layer + 1
        /\ path[Len(path)] = Root
        /\ {path[i] : i \in DOMAIN path} = {m \in Ids : id \in Subtree(m)}

(* A NodeId is stable for its node's lifetime and is never issued again: a *)
(* step keeps position, layer and parent of a node that survives it, and   *)
(* a node that appears has an id no earlier node had.                      *)
IdsStable ==
  [][/\ \A id \in Ids \cap Ids' :
          /\ nodes'[id].position = nodes[id].position
          /\ nodes'[id].layer = nodes[id].layer
          /\ nodes'[id].parent = nodes[id].parent
     /\ \A id \in Ids' \ Ids : id >= next_id]_vars

(* Layers and climbing together: the layer of a node, which add_child      *)
(* compares with the depth bound, is the length of the path leaf_to_root   *)
(* returns, after every mix of additions and removals.                     *)
PathsSound ==
  /\ LayersSound
  /\ ClimbSound
=============================================================================
