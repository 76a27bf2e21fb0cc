-------------------------- MODULE BroadcastProofs ---------------------------
(***************************************************************************)
(* Secrecy and delivery of the broadcast encryption, for every tree, every *)
(* set of users and every bound, under the callers the code is written     *)
(* for: no user is joined twice and a user's own leaf is never a sponsor.  *)
(*                                                                         *)
(* What is proved of the key graph is used as it stands: every call of     *)
(* leave and join is one step of module KeyGraph.  On top of it the proof  *)
(* follows the keys.  Up(id) is the set of nodes on the path from id to    *)
(* the root; a user that is in the graph may hold the current keys of its  *)
(* own path and of no other node, a user outside none at all, and a        *)
(* rotation draws keys that no published wrap starts from.                 *)
(***************************************************************************)
EXTENDS BroadcastGraph, FiniteSetTheorems, SequenceTheorems, TLAPS

(* What is proved of the key graph, of the graph below the keys. *)
KP == INSTANCE KeyGraphProofs WITH Coords <- 0 .. MaxBreadth, MaxEpoch <- 0

Ids == DOMAIN nodes

(* The nodes on the path leaf_to_root returns. *)
Up(id) == FirstOf(KG!LeafToRoot(id), Len(KG!LeafToRoot(id)))

(* The invariant of the graph alone, as module KeyGraphProofs proves it. *)
GraphInv == KP!Inv /\ KP!LayersSound /\ KP!BoundsHold

(* The bounds that build hands over are bounds of the key graph. *)
LEMMA GraphBounds ==
  /\ MaxDepth \in Nat /\ MaxBreadth \in Nat /\ MaxNodes \in Nat \ {0}
  /\ MaxId \in Nat /\ 0 \in Nat
<1>1. N \in Nat /\ N # 0
  BY FoundersAssumption DEF N
<1> QED
  BY <1>1, RoomAssumption

(* The two views of the key graph are the same. *)
LEMMA SameGraph ==
  /\ Ids = KG!Ids /\ Ids = KP!Ids /\ Root = 0 /\ KP!Root = 0 /\ KG!Root = 0
  /\ KG!None = -1 /\ KP!None = -1
  /\ \A id : KG!LeafToRoot(id) = KP!LeafToRoot(id)
<1>1. ASSUME NEW id PROVE KG!LeafToRoot(id) = KP!LeafToRoot(id)
  BY DEF KG!LeafToRoot, KP!LeafToRoot, KG!Parent, KP!Parent, KG!Ids, KP!Ids, KG!None, KP!None
<1> QED
  BY <1>1 DEF Ids, Root, KG!Ids, KP!Ids, KG!Root, KP!Root, KG!None, KP!None

(* So are the finite sets and cardinalities they count with. *)
LEMMA SameCounts ==
  \A S : /\ KG!Cardinality(S) = Cardinality(S) /\ KP!Cardinality(S) = Cardinality(S)
         /\ KP!IsFiniteSet(S) = IsFiniteSet(S)
BY DEF Cardinality, KG!Cardinality, KP!Cardinality, IsFiniteSet, KP!IsFiniteSet

(* What the invariant of the graph says about parents and layers. *)
LEMMA GraphPlain ==
  ASSUME GraphInv
  PROVE  /\ next_id \in Nat /\ Ids \subseteq 0 .. next_id - 1 /\ Root \in Ids
         /\ nodes[Root].parent = -1 /\ -1 \notin Ids
         /\ \A n \in Ids : nodes[n].layer \in 0 .. MaxDepth
         /\ \A n \in Ids : n # Root =>
              /\ nodes[n].parent \in Ids
              /\ nodes[nodes[n].parent].layer = nodes[n].layer - 1
<1>1. KP!Inv /\ KP!LayersSound
  BY DEF GraphInv
<1>2. next_id \in Nat /\ Ids \subseteq 0 .. next_id - 1 /\ Root \in Ids
  BY <1>1, SameGraph DEF KP!Inv, KP!TypeOK
<1>3. nodes[Root].layer = 0
  BY <1>1, <1>2, SameGraph DEF KP!LayersSound
<1>4. /\ \A n \in KP!Ids :
            /\ nodes[n].layer \in 0 .. MaxDepth
            /\ nodes[n].layer = 0 => n = KP!Root /\ nodes[n].parent = KP!None /\ KP!None \notin KP!Ids
            /\ nodes[n].layer # 0 => /\ nodes[n].parent \in KP!Ids
                                     /\ nodes[nodes[n].parent].layer = nodes[n].layer - 1
  BY <1>1, GraphBounds, KP!RootIsLayerZero
<1> QED
  BY <1>1, <1>2, <1>3, <1>4, SameGraph

(* The root has no parent, in the next state too. *)
RootOnTop == nodes[0].parent = -1

LEMMA GraphRootAfter == GraphInv' => nodes'[0].parent = -1
<1>1. GraphInv => RootOnTop
  BY GraphPlain, SameGraph DEF RootOnTop
<1>2. GraphInv' => RootOnTop'
  BY <1>1, PTL
<1> QED
  BY <1>2 DEF RootOnTop

-----------------------------------------------------------------------------
(* Up(id) is the least set of nodes that holds id and, with a node other   *)
(* than the root, its parent.                                              *)
ParentClosed(S) == \A n \in S : n # Root => nodes[n].parent \in S

UpFacts ==
  \A id \in Ids :
    /\ id \in Up(id) /\ Root \in Up(id) /\ Up(id) \subseteq Ids
    /\ ParentClosed(Up(id))
    /\ \A S \in SUBSET Ids : id \in S /\ ParentClosed(S) => Up(id) \subseteq S

(* The path itself: from id, parent by parent, to the root. *)
PathFacts ==
  \A id \in Ids :
    LET path == KG!LeafToRoot(id)
    IN  /\ path \in Seq(Ids) /\ Len(path) = nodes[id].layer + 1
        /\ path[1] = id /\ path[Len(path)] = Root
        /\ \A i \in 1 .. Len(path) - 1 : nodes[path[i]].parent = path[i + 1]
        /\ \A i \in 2 .. Len(path) : path[i] # id

LEMMA GraphPathFacts == GraphInv => PathFacts
<1> SUFFICES ASSUME GraphInv, NEW id \in Ids
             PROVE  LET path == KG!LeafToRoot(id)
                    IN  /\ path \in Seq(Ids) /\ Len(path) = nodes[id].layer + 1
                        /\ path[1] = id /\ path[Len(path)] = Root
                        /\ \A i \in 1 .. Len(path) - 1 : nodes[path[i]].parent = path[i + 1]
                        /\ \A i \in 2 .. Len(path) : path[i] # id
  BY DEF PathFacts
<1>1. nodes[id].layer \in 0 .. MaxDepth
  BY GraphPlain
<1>2. /\ KP!ClimbedPath(id, KP!LeafToRoot(id), nodes[id].layer)
      /\ KP!LeafToRoot(id)[nodes[id].layer + 1] = KP!Root
  <2>1. KP!Inv /\ KP!LayersSound /\ id \in KP!Ids
    BY SameGraph DEF GraphInv
  <2> QED
    BY <2>1, GraphBounds, KP!ClimbReachesRoot
<1>3. /\ KG!LeafToRoot(id) = KP!LeafToRoot(id) /\ KP!Ids = Ids /\ KP!Root = Root
  BY SameGraph
<1> DEFINE path == KG!LeafToRoot(id)
<1>4. /\ path \in Seq(Ids) /\ Len(path) = nodes[id].layer + 1 /\ path[1] = id
      /\ \A i \in 1 .. nodes[id].layer + 1 : nodes[path[i]].layer = nodes[id].layer + 1 - i
      /\ \A i \in 1 .. nodes[id].layer : nodes[path[i]].parent = path[i + 1]
      /\ path[nodes[id].layer + 1] = Root
  BY <1>2, <1>3 DEF KP!ClimbedPath
<1> HIDE DEF path
<1>5. ASSUME NEW i \in 2 .. Len(path) PROVE path[i] # id
  <2>1. nodes[id].layer \in Nat
    BY GraphBounds, <1>1
  <2>2. i \in 1 .. nodes[id].layer + 1 /\ nodes[id].layer + 1 - i # nodes[id].layer
    BY <2>1, <1>4
  <2> QED
    BY <2>2, <1>4
<1>6. \A i \in 1 .. Len(path) - 1 : nodes[path[i]].parent = path[i + 1]
  BY <1>1, <1>4
<1> QED
  BY <1>4, <1>5, <1>6 DEF path

LEMMA GraphUpFacts == GraphInv => UpFacts
<1> SUFFICES ASSUME GraphInv, NEW id \in Ids
             PROVE  /\ id \in Up(id) /\ Root \in Up(id) /\ Up(id) \subseteq Ids
                    /\ ParentClosed(Up(id))
                    /\ \A S \in SUBSET Ids : id \in S /\ ParentClosed(S) => Up(id) \subseteq S
  BY DEF UpFacts
<1> DEFINE path == KG!LeafToRoot(id)
<1>1. /\ path \in Seq(Ids) /\ Len(path) = nodes[id].layer + 1
      /\ path[1] = id /\ path[Len(path)] = Root
      /\ \A i \in 1 .. Len(path) - 1 : nodes[path[i]].parent = path[i + 1]
  BY GraphPathFacts DEF PathFacts
<1>2. Up(id) = {path[i] : i \in 1 .. Len(path)}
  BY DEF Up, FirstOf
<1>3. nodes[id].layer \in Nat
  BY GraphPlain
<1> HIDE DEF path
<1>4. id \in Up(id) /\ Root \in Up(id) /\ Up(id) \subseteq Ids
  BY <1>1, <1>2, <1>3
<1>5. ParentClosed(Up(id))
  <2> SUFFICES ASSUME NEW i \in 1 .. Len(path), path[i] # Root
               PROVE  nodes[path[i]].parent \in Up(id)
    BY <1>2 DEF ParentClosed
  <2>1. i \in 1 .. Len(path) - 1 /\ i + 1 \in 1 .. Len(path)
    BY <1>1, <1>3
  <2> QED
    BY <2>1, <1>1, <1>2
<1>6. ASSUME NEW S \in SUBSET Ids, id \in S, ParentClosed(S)
      PROVE  Up(id) \subseteq S
  <2> DEFINE T == {i \in Nat : i + 1 \in 1 .. Len(path) => path[i + 1] \in S}
  <2>1. 0 \in T
    BY <1>1, <1>6
  <2>2. ASSUME NEW i \in Nat, i \in T PROVE i + 1 \in T
    <3> SUFFICES ASSUME i + 2 \in 1 .. Len(path) PROVE path[i + 2] \in S
      OBVIOUS
    <3>1. path[i + 1] \in S /\ i + 1 \in 1 .. Len(path) - 1
      BY <2>2, <1>1, <1>3
    <3>2. nodes[path[i + 1]].parent = path[i + 2]
      BY <3>1, <1>1
    <3>3. path[i + 1] # Root
      <4>1. path[i + 2] \in Ids
        BY <1>1
      <4> QED
        BY <4>1, <3>2, GraphPlain
    <3> QED
      BY <3>1, <3>2, <3>3, <1>6 DEF ParentClosed
  <2>3. Nat \subseteq T
    <3> HIDE DEF T
    <3> QED
      BY <2>1, <2>2, GraphBounds, KP!SetInduction
  <2>4. ASSUME NEW i \in 1 .. Len(path) PROVE path[i] \in S
    <3>1. Len(path) \in Nat /\ i - 1 \in Nat /\ (i - 1) + 1 = i
      BY <1>1, <1>3
    <3> QED
      BY <3>1, <2>3
  <2> QED
    BY <2>4, <1>2
<1> QED
  BY <1>4, <1>5, <1>6

(* The same in the state a step leads to. *)
LEMMA PathsAfter == GraphInv' => UpFacts' /\ PathFacts'
BY GraphUpFacts, GraphPathFacts, PTL

(* What follows about paths: a node's path contains those of the nodes on  *)
(* it, layers fall along it, and it goes on as the path of the parent.     *)
Childless(n) == \A m \in Ids : nodes[m].parent # n

UpAlgebra ==
  /\ \A id \in Ids : \A n \in Up(id) : Up(n) \subseteq Up(id)
  /\ \A id \in Ids : \A n \in Up(id) : n = id \/ nodes[n].layer < nodes[id].layer
  /\ \A id \in Ids : id # Root =>
       LET p == nodes[id].parent
       IN  Up(id) = {id} \cup Up(p) /\ id \notin Up(p)
  /\ \A l \in Ids : Childless(l) => \A id \in Ids : id # l => l \notin Up(id)

LEMMA GraphUpAlgebra == GraphInv => UpAlgebra
<1> SUFFICES ASSUME GraphInv PROVE UpAlgebra
  OBVIOUS
<1>0. UpFacts /\ MaxDepth \in Nat
  BY GraphUpFacts, GraphBounds
<1>1. ASSUME NEW id \in Ids, NEW n \in Up(id) PROVE Up(n) \subseteq Up(id)
  BY <1>0, <1>1 DEF UpFacts
<1>2. ASSUME NEW id \in Ids, NEW n \in Up(id)
      PROVE  n = id \/ nodes[n].layer < nodes[id].layer
  <2> DEFINE S == {id} \cup {m \in Ids : nodes[m].layer < nodes[id].layer}
  <2>1. ParentClosed(S)
    <3> SUFFICES ASSUME NEW m \in S, m # Root PROVE nodes[m].parent \in S
      BY DEF ParentClosed
    <3>1. /\ m \in Ids /\ nodes[m].parent \in Ids
          /\ nodes[nodes[m].parent].layer = nodes[m].layer - 1
          /\ nodes[m].layer \in Nat /\ nodes[id].layer \in Nat
      BY GraphPlain, GraphBounds
    <3>2. nodes[m].layer <= nodes[id].layer
      BY <3>1
    <3> QED
      BY <3>1, <3>2
  <2>2. S \in SUBSET Ids /\ id \in S
    OBVIOUS
  <2>3. Up(id) \subseteq S
    <3> HIDE DEF S
    <3> QED
      BY <1>0, <2>1, <2>2 DEF UpFacts
  <2> QED
    BY <2>3, <1>2
<1>3. ASSUME NEW id \in Ids, id # Root
      PROVE  LET p == nodes[id].parent
             IN  Up(id) = {id} \cup Up(p) /\ id \notin Up(p)
  <2> DEFINE p == nodes[id].parent
             S == {id} \cup Up(p)
  <2>1. p \in Ids /\ nodes[p].layer = nodes[id].layer - 1 /\ nodes[id].layer \in Nat
    BY GraphPlain, GraphBounds, <1>3
  <2>2. p \in Up(p) /\ Up(p) \subseteq Ids /\ ParentClosed(Up(p))
    BY <2>1, <1>0 DEF UpFacts
  <2>3. S \in SUBSET Ids /\ id \in S /\ ParentClosed(S)
    BY <2>2 DEF ParentClosed
  <2>4. Up(id) \subseteq S
    <3> HIDE DEF S
    <3> QED
      BY <1>0, <2>3 DEF UpFacts
  <2>5. id \in Up(id) /\ p \in Up(id)
    BY <1>0, <1>3 DEF UpFacts, ParentClosed
  <2>6. Up(p) \subseteq Up(id)
    BY <2>5, <1>1
  <2>7. id \notin Up(p)
    <3> SUFFICES ASSUME id \in Up(p) PROVE FALSE
      OBVIOUS
    <3>1. id = p \/ nodes[id].layer < nodes[p].layer
      BY <2>1, <1>2
    <3> QED
      BY <3>1, <2>1
  <2> QED
    BY <2>4, <2>5, <2>6, <2>7
<1>4. ASSUME NEW l \in Ids, Childless(l), NEW id \in Ids, id # l
      PROVE  l \notin Up(id)
  <2> DEFINE S == Ids \ {l}
  <2>1. S \in SUBSET Ids /\ id \in S /\ ParentClosed(S)
    BY <1>4, GraphPlain DEF ParentClosed, Childless
  <2> HIDE DEF S
  <2>2. Up(id) \subseteq S
    BY <1>0, <2>1 DEF UpFacts
  <2> QED
    BY <2>2 DEF S
<1> QED
  BY <1>1, <1>2, <1>3, <1>4 DEF UpAlgebra

LEMMA AlgebraAfter == GraphInv' => UpAlgebra'
BY GraphUpAlgebra, PTL

-----------------------------------------------------------------------------
(* What a call does to the graph.  Nodes that stay keep their parents, so  *)
(* they keep their paths as far as these stay.                             *)
LEMMA PathsStay ==
  ASSUME GraphInv, GraphInv',
         \A n \in Ids \cap Ids' : nodes'[n].parent = nodes[n].parent,
         NEW id \in Ids, Up(id) \subseteq Ids'
  PROVE  Up(id)' = Up(id)
<1>0. UpFacts /\ UpFacts' /\ Root \in Ids /\ id \in Ids'
  BY GraphUpFacts, PathsAfter, GraphPlain DEF UpFacts
<1> DEFINE S == Up(id)
<1>1. /\ S \in SUBSET Ids' /\ S \subseteq Ids /\ id \in S
      /\ \A n \in S : n # Root => nodes[n].parent \in S
  BY <1>0 DEF UpFacts, ParentClosed
<1>2. /\ Up(id)' \subseteq Ids' /\ id \in Up(id)'
      /\ \A n \in Up(id)' : n # Root => nodes'[n].parent \in Up(id)'
      /\ \A T \in SUBSET Ids' :
           id \in T /\ (\A n \in T : n # Root => nodes'[n].parent \in T) => Up(id)' \subseteq T
  BY <1>0 DEF UpFacts, ParentClosed, Root, KG!Root
<1>3. Up(id)' \subseteq S
  <2>1. \A n \in S : n # Root => nodes'[n].parent \in S
    BY <1>1
  <2> HIDE DEF S
  <2> QED
    BY <2>1, <1>1, <1>2
<1>4. S \subseteq Up(id)'
  <2> DEFINE T == Up(id)'
  <2>1. T \subseteq S
    BY <1>3
  <2>2. T \in SUBSET Ids /\ id \in T /\ ParentClosed(T)
    <3> HIDE DEF T, S
    <3>1. \A n \in T : n # Root => nodes'[n].parent \in T
      BY <1>2 DEF T
    <3> QED
      BY <2>1, <3>1, <1>1, <1>2 DEF ParentClosed, T
  <2> HIDE DEF T
  <2> QED
    BY <2>2, <1>0 DEF UpFacts, T
<1> QED
  BY <1>3, <1>4

(* One step of the key graph keeps its invariant. *)
LEMMA GraphStep ==
  ASSUME GraphInv, KP!Next, KP!Inv'
  PROVE  GraphInv'
<1>1. KP!Inv /\ KP!LayersSound /\ KP!BoundsHold /\ [KP!Next]_(KP!vars)
  BY DEF GraphInv
<1>2. KP!LayersSound'
  BY <1>1, GraphBounds, KP!StepKeepsLayers
<1>3. KP!BoundsHold'
  BY <1>1, GraphBounds, KP!StepKeepsBounds
<1> QED
  BY <1>2, <1>3 DEF GraphInv

(* add_child in join: the coordinate, the number of keyed children, is one *)
(* of those the breadth bound leaves room for.                             *)
LEMMA GraphAdd ==
  ASSUME GraphInv, NEW s, KG!AddChild(s, Cardinality(ChildrenOf(nodes, keys, s)))
  PROVE  /\ s \in Ids /\ next_id \notin Ids /\ next_id # Root
         /\ Ids' = Ids \cup {next_id} /\ next_id' = next_id + 1
         /\ \A n \in Ids : nodes'[n].parent = nodes[n].parent
         /\ nodes'[next_id].parent = s
         /\ GraphInv'
         /\ \A id \in Ids : Up(id)' = Up(id)
         /\ \A new : new = next_id => Up(new)' = {new} \cup Up(s)
<1> DEFINE coord == Cardinality(ChildrenOf(nodes, keys, s))
<1>1. /\ s \in Ids /\ KP!Inv
      /\ next_id \in Nat /\ next_id \notin Ids /\ next_id # Root /\ Root \in Ids
  BY GraphPlain DEF KG!AddChild, KG!Ids, Ids, GraphInv
<1>2. coord \in 0 .. MaxBreadth
  <2>1. ChildrenOf(nodes, keys, s) \subseteq nodes[s].children
    <3>1. nodes[s].children = {c \in Ids : nodes[c].parent = s}
      BY <1>1, SameGraph DEF KP!Inv, KP!LinksSound
    <3> QED
      BY <3>1 DEF ChildrenOf, Ids
  <2>2. IsFiniteSet(nodes[s].children)
    BY <1>1, SameGraph, SameCounts, GraphBounds, KP!GraphFinite
  <2>3. Cardinality(nodes[s].children) < MaxBreadth
    BY SameCounts DEF KG!AddChild, KG!HasRoom
  <2>4. /\ coord \in Nat /\ Cardinality(nodes[s].children) \in Nat
        /\ coord <= Cardinality(nodes[s].children)
    BY <2>1, <2>2, FS_Subset, FS_CardinalityType
  <2> QED
    BY <2>3, <2>4, GraphBounds
<1> HIDE DEF coord
<1>3. KP!AddChild(s, coord)
  BY SameCounts DEF KP!AddChild, KG!AddChild, KP!HasRoom, KG!HasRoom, KP!NewChild, KG!NewChild,
         KP!Ids, KG!Ids, coord
<1>4. KP!Inv' /\ KP!Next
  <2>1. s \in KP!Ids
    BY <1>1, SameGraph
  <2>2. KP!Inv'
    BY <2>1, <1>1, <1>2, <1>3, GraphBounds, KP!AddChildKeepsInv
  <2>3. KP!Next
    BY <2>1, <1>2, <1>3 DEF KP!Next
  <2> QED
    BY <2>2, <2>3
<1>5. GraphInv'
  BY <1>4, GraphStep
<1>6. /\ Ids' = Ids \cup {next_id} /\ next_id' = next_id + 1
      /\ nodes'[next_id] = KP!NewChild(s, coord)
      /\ nodes'[s] = [nodes[s] EXCEPT !.children = @ \cup {next_id}]
      /\ \A n \in Ids : n # s => nodes'[n] = nodes[n]
  BY <1>1, <1>3, SameGraph DEF KP!AddChild, Ids
<1>7. \A n \in Ids : nodes'[n].parent = nodes[n].parent
  <2>1. nodes[s] \in KP!Node
    BY <1>1, SameGraph DEF KP!Inv, KP!TypeOK
  <2>2. nodes'[s].parent = nodes[s].parent
    BY <2>1, <1>6 DEF KP!Node
  <2> QED
    BY <2>2, <1>6
<1>8. nodes'[next_id].parent = s
  BY <1>6 DEF KP!NewChild
<1>9. ASSUME NEW id \in Ids PROVE Up(id)' = Up(id)
  <2>1. Up(id) \subseteq Ids'
    BY GraphUpFacts, <1>6 DEF UpFacts
  <2> QED
    BY <2>1, <1>5, <1>7, PathsStay
<1>10. ASSUME NEW new, new = next_id PROVE Up(new)' = {new} \cup Up(s)
  <2>1. UpAlgebra'
    BY <1>5, AlgebraAfter
  <2>2. /\ new \in Ids' /\ new # 0 /\ nodes'[new].parent = s
    BY <1>1, <1>6, <1>8, <1>10 DEF Root, KG!Root
  <2>3. Up(new)' = {new} \cup Up(s)'
    BY <2>1, <2>2 DEF UpAlgebra, Root, KG!Root
  <2> QED
    BY <2>3, <1>1, <1>9
<1> QED
  BY <1>1, <1>5, <1>6, <1>7, <1>8, <1>9, <1>10

(* remove_subtree in leave: a leaf without children goes, and nothing else. *)
LEMMA GraphRemove ==
  ASSUME GraphInv, NEW l \in Ids, Childless(l), KG!RemoveSubtree(l)
  PROVE  /\ l # Root /\ Ids' = Ids \ {l} /\ next_id' = next_id
         /\ \A n \in Ids' : nodes'[n].parent = nodes[n].parent
         /\ GraphInv'
         /\ \A id \in Ids' : Up(id)' = Up(id)
<1>1. KP!RemoveSubtree(l) /\ l # Root /\ l \in KP!Ids
  BY SameGraph DEF KP!RemoveSubtree, KG!RemoveSubtree, KP!Subtree, KG!Subtree, KP!Ids, KG!Ids,
         KP!ClosedUnderChildren, KG!ClosedUnderChildren
<1>2. KP!Inv /\ KP!Inv' /\ KP!Next
  BY <1>1, GraphBounds, KP!RemoveSubtreeKeepsInv DEF GraphInv, KP!Next
<1>3. GraphInv'
  BY <1>2, GraphStep
<1>4. KP!Subtree(l) = {l}
  <2>1. nodes[l].children = {}
    BY <1>2, SameGraph DEF KP!Inv, KP!LinksSound, Childless
  <2>2. {l} \in SUBSET KP!Ids /\ l \in {l} /\ KP!ClosedUnderChildren({l})
    BY <2>1, <1>1 DEF KP!ClosedUnderChildren
  <2>3. KP!Subtree(l) \subseteq {l}
    BY <2>2 DEF KP!Subtree
  <2>4. l \in KP!Subtree(l)
    BY <1>1 DEF KP!Subtree
  <2> QED
    BY <2>3, <2>4
<1>5. /\ Ids' = Ids \ {l} /\ next_id' = next_id
      /\ \A n \in Ids' : nodes'[n] = IF n = nodes[l].parent
                                     THEN [nodes[n] EXCEPT !.children = @ \ {l}]
                                     ELSE nodes[n]
  BY <1>1, <1>4, SameGraph DEF KP!RemoveSubtree, Ids
<1>6. ASSUME NEW n \in Ids' PROVE nodes'[n].parent = nodes[n].parent
  <2>1. nodes[n] \in KP!Node
    BY <1>2, <1>5, SameGraph DEF KP!Inv, KP!TypeOK
  <2>2. [nodes[n] EXCEPT !.children = @ \ {l}].parent = nodes[n].parent
    BY <2>1 DEF KP!Node
  <2> QED
    BY <2>2, <1>5
<1>7. ASSUME NEW id \in Ids' PROVE Up(id)' = Up(id)
  <2>1. l \notin Up(id) /\ Up(id) \subseteq Ids /\ id \in Ids
    BY <1>5, GraphUpAlgebra, GraphUpFacts DEF UpAlgebra, UpFacts
  <2> QED
    BY <2>1, <1>3, <1>5, <1>6, PathsStay
<1> QED
  BY <1>1, <1>3, <1>5, <1>6, <1>7

-----------------------------------------------------------------------------
(* The nodes whose keys a call rotates. *)
LEMMA LeaveRotates ==
  ASSUME GraphInv, NEW l \in Ids, NEW k \in 0 .. Len(AncestorsOf(l))
  PROVE  /\ FirstOf(AncestorsOf(l), k) \subseteq Up(l) \ {l}
         /\ k = Len(AncestorsOf(l)) => FirstOf(AncestorsOf(l), k) = Up(l) \ {l}
<1> DEFINE path == KG!LeafToRoot(l)
           anc == AncestorsOf(l)
<1>1. /\ path \in Seq(Ids) /\ Len(path) = nodes[l].layer + 1 /\ path[1] = l
      /\ \A i \in 2 .. Len(path) : path[i] # l
  BY GraphPathFacts DEF PathFacts
<1>2. Up(l) = {path[i] : i \in 1 .. Len(path)}
  BY DEF Up, FirstOf
<1>3. nodes[l].layer \in Nat
  BY GraphPlain
<1>4. anc = SubSeq(path, 2, Len(path))
  BY DEF AncestorsOf
<1> HIDE DEF path, anc
<1>5. Len(anc) = Len(path) - 1 /\ \A i \in 1 .. Len(anc) : anc[i] = path[i + 1]
  BY <1>1, <1>3, <1>4
<1>6. k \in 0 .. Len(anc)
  BY DEF anc
<1>7. ASSUME NEW i \in 1 .. k PROVE anc[i] \in Up(l) \ {l}
  <2>1. Len(path) \in Nat /\ i \in 1 .. Len(anc)
    BY <1>1, <1>3, <1>5, <1>6
  <2>2. i + 1 \in 1 .. Len(path) /\ i + 1 \in 2 .. Len(path)
    BY <2>1, <1>5
  <2> QED
    BY <2>1, <2>2, <1>1, <1>2, <1>5
<1>8. ASSUME k = Len(anc), NEW n \in Up(l), n # l PROVE n \in {anc[i] : i \in 1 .. k}
  <2>1. PICK i \in 1 .. Len(path) : n = path[i]
    BY <1>2, <1>8
  <2>2. i - 1 \in 1 .. k /\ anc[i - 1] = path[i]
    BY <2>1, <1>1, <1>3, <1>5, <1>8
  <2> QED
    BY <2>1, <2>2
<1> QED
  BY <1>7, <1>8 DEF FirstOf, anc

LEMMA JoinRotates ==
  ASSUME GraphInv, NEW s \in Ids, NEW k \in 0 .. Len(SponsorPath(s))
  PROVE  /\ FirstOf(SponsorPath(s), k) \subseteq Up(s)
         /\ k = Len(SponsorPath(s)) => FirstOf(SponsorPath(s), k) = Up(s)
BY GraphPathFacts, GraphPlain DEF PathFacts, SponsorPath, Up, FirstOf

-----------------------------------------------------------------------------
(* The maps of keys and users: keys and leaves are on nodes of the graph,  *)
(* every user has a childless leaf of its own whose key was never rotated, *)
(* an admitted user was handed it, and what a rekeying replaced has a key. *)
LeavesInv ==
  /\ \A u \in Members :
       /\ user_leaves[u] \in DOMAIN keys /\ keys[user_leaves[u]] = 0
       /\ Childless(user_leaves[u])
  /\ \A u, v \in Members : user_leaves[u] = user_leaves[v] => u = v
  /\ user_leaves = [u \in Members |-> user_leaves[u]]

MapsInv ==
  /\ keys \in [DOMAIN keys -> Nat] /\ DOMAIN keys \subseteq Ids /\ Root \in DOMAIN keys
  /\ Members \subseteq Users /\ admitted \subseteq Members /\ left \subseteq Users
  /\ left \cap admitted = {} /\ faults \in Nat
  /\ received \in [Users -> SUBSET (Nat \X Nat)]
  /\ \A u \in admitted : <<user_leaves[u], 0>> \in received[u]
  /\ \A r \in pending : /\ r.replaced \subseteq 0 .. next_id - 1
                         /\ r.replaced \cap Ids \subseteq DOMAIN keys
  /\ LeavesInv

(* A wrap of the current key of node a under the current key of node c. *)
WrapOf(c, a) == [under |-> KeyOf(c), key |-> KeyOf(a)]

(* What any of the calls does to the keys, as far as knowledge goes: the   *)
(* nodes of R get keys that no one has seen, and so do new nodes; whoever  *)
(* is admitted before and after keeps its path; who comes or goes has its  *)
(* whole path rotated; and the wraps of the result lead from the keys of   *)
(* children to the keys in R.                                              *)
Later(n) == n \in Nat /\ n >= next_id

KeysStep(R) ==
  /\ next_id' \in Nat /\ next_id <= next_id'
  /\ \A n \in Ids' : n \in Ids \/ Later(n)
  /\ R \subseteq Ids /\ R \subseteq DOMAIN keys'
  /\ \A n \in R \cap DOMAIN keys : keys'[n] > keys[n]
  /\ \A n \in DOMAIN keys' : n \in R \/ Later(n) \/ (n \in DOMAIN keys /\ keys'[n] = keys[n])
  /\ \A n \in DOMAIN keys \cap Ids' : n \in DOMAIN keys' /\ keys[n] <= keys'[n]

UsersStep(R) ==
  /\ torn \subseteq torn'
  /\ \A v \in admitted \cap admitted' :
       /\ user_leaves'[v] = user_leaves[v]
       /\ \A l : l = user_leaves[v] => Up(l)' = Up(l)
  /\ \A v \in admitted \ admitted' :
       v \in torn' \/ Up(user_leaves[v]) \cap DOMAIN keys' \subseteq R
  /\ \A v \in admitted' \ admitted :
       Root \in R /\ \A n \in Up(user_leaves[v])' : n \in R \/ (Later(n) /\ n = user_leaves'[v])
  /\ \A v \in Users : \A p \in received'[v] :
       p \in received[v] \/ (v \in admitted' /\ p = <<user_leaves'[v], keys'[user_leaves'[v]]>>)

ResultStep(R) ==
  /\ channel' = channel
  /\ \A r \in pending' : r \in pending \/ \A w \in r.messages :
       \E c \in DOMAIN keys', a \in R : c # Root /\ nodes'[c].parent = a /\ w = WrapOf(c, a)'
  /\ entitled \subseteq entitled'
  /\ Root \in R => \A v \in Members' : <<v, keys'[Root]>> \in entitled'

(* What a call that does not fail delivers: it rotates everything above    *)
(* the nodes it rotates, and its result wraps each of the new keys under   *)
(* the keys of all children.                                               *)
DeliverStep(R) ==
  /\ \A n \in Ids \cap Ids' : nodes'[n].parent = nodes[n].parent
  /\ faults <= faults'
  /\ faults' = faults =>
       /\ ParentClosed(R)
       /\ DOMAIN keys = Ids => DOMAIN keys' = Ids'
       /\ pending \subseteq pending'
       /\ \E r \in pending' :
            /\ r.replaced = R
            /\ \A a \in R : \A c \in DOMAIN keys' \cap Ids' :
                 nodes'[c].parent = a => WrapOf(c, a)' \in r.messages

LEMMA FinishDelivers ==
  ASSUME NEW anc, NEW k, NEW ks, Finish(anc, k, ks), faults \in Nat
  PROVE  LET R == FirstOf(anc, k)
         IN  /\ faults <= faults'
             /\ faults' = faults =>
                  /\ ~(k < Len(anc))
                  /\ pending \subseteq pending'
                  /\ \E r \in pending' :
                       /\ r.replaced = R
                       /\ \A a \in R : \A c \in DOMAIN keys' \cap Ids' :
                            nodes'[c].parent = a => WrapOf(c, a)' \in r.messages
<1> DEFINE R == FirstOf(anc, k)
           r == [replaced |-> R, messages |-> RekeyMessages(nodes', ks, R)]
<1>1. faults <= faults' /\ (faults' = faults => ~(k < Len(anc)))
  BY DEF Finish
<1>2. ASSUME faults' = faults PROVE pending' = pending \cup {r}
  BY <1>1, <1>2 DEF Finish
<1>3. keys' = Rotated(ks, R)
  BY DEF Finish
<1> HIDE DEF R
<1>4. ASSUME NEW a \in R, NEW c \in DOMAIN keys' \cap Ids', nodes'[c].parent = a
      PROVE  WrapOf(c, a)' \in r.messages
  <2>1. c \in ChildrenOf(nodes', keys', a)
    BY <1>4 DEF ChildrenOf, Ids
  <2>2. [under |-> <<c, keys'[c]>>, key |-> <<a, keys'[a]>>] \in RekeyMessages(nodes', ks, R)
    BY <2>1, <1>3 DEF RekeyMessages
  <2> QED
    BY <2>2 DEF WrapOf, KeyOf
<1>5. r.replaced = R
  OBVIOUS
<1> HIDE DEF r
<1> QED
  BY <1>1, <1>2, <1>4, <1>5 DEF R

(* The end of leave and of join. *)
LEMMA FinishFacts ==
  ASSUME GraphInv', NEW anc, NEW k, NEW ks, ks \in [DOMAIN ks -> Nat], Finish(anc, k, ks),
         Root \in DOMAIN keys, Root \in DOMAIN ks, ks[Root] = keys[Root],
         DOMAIN ks \subseteq Ids', FirstOf(anc, k) \subseteq Ids', -1 \notin FirstOf(anc, k)
  PROVE  LET R == FirstOf(anc, k)
         IN  /\ keys' \in [DOMAIN ks \cup R -> Nat]
             /\ \A n \in R \cap DOMAIN ks : keys'[n] = ks[n] + 1
             /\ \A n \in DOMAIN ks \ R : keys'[n] = ks[n]
             /\ ResultStep(R)
             /\ \A r \in pending' : r \in pending \/ r.replaced = R
<1> DEFINE R == FirstOf(anc, k)
<1>1. keys' = [n \in DOMAIN ks \cup R |-> IF n \in R THEN Fresh(ks, n) ELSE ks[n]]
  BY DEF Finish, Rotated
<1>2. \A n \in R : n \in DOMAIN ks => Fresh(ks, n) = ks[n] + 1
  BY DEF Fresh
<1>3. \A n \in R : Fresh(ks, n) \in Nat
  BY DEF Fresh
<1> HIDE DEF R
<1>4. /\ keys' \in [DOMAIN ks \cup R -> Nat]
      /\ \A n \in R \cap DOMAIN ks : keys'[n] = ks[n] + 1
      /\ \A n \in DOMAIN ks \ R : keys'[n] = ks[n]
  BY <1>1, <1>2, <1>3
<1>5. \A r \in pending' : r \in pending \/
        r = [replaced |-> R, messages |-> RekeyMessages(nodes', ks, R)]
  BY DEF Finish, R
<1>6. ASSUME NEW w \in RekeyMessages(nodes', ks, R)
      PROVE  \E c \in DOMAIN keys', a \in R :
               c # Root /\ nodes'[c].parent = a /\ w = WrapOf(c, a)'
  <2>1. keys' = Rotated(ks, R)
    BY DEF Finish, R
  <2>2. PICK a \in R : \E c \in ChildrenOf(nodes', keys', a) :
            w = [under |-> <<c, keys'[c]>>, key |-> <<a, keys'[a]>>]
    BY <2>1, <1>6 DEF RekeyMessages
  <2>3. PICK c \in ChildrenOf(nodes', keys', a) :
            w = [under |-> <<c, keys'[c]>>, key |-> <<a, keys'[a]>>]
    BY <2>2
  <2>4. c \in DOMAIN keys' /\ nodes'[c].parent = a
    BY <2>3 DEF ChildrenOf
  <2>5. nodes'[0].parent = -1
    BY GraphRootAfter
  <2>6. c # Root
    BY <2>4, <2>5 DEF Root, KG!Root, R
  <2> QED
    BY <2>3, <2>4, <2>6 DEF WrapOf, KeyOf
<1>7. /\ entitled \subseteq entitled'
      /\ Root \in R => \A v \in Members' : <<v, keys'[Root]>> \in entitled'
  <2>1. entitled' = IF keys'[Root] = keys[Root] THEN entitled
                    ELSE entitled \cup {<<u, keys'[Root]>> : u \in Members'}
    BY DEF Finish, Members, Root, KG!Root
  <2>2. Root \in R => keys'[Root] # keys[Root]
    BY <1>4
  <2> QED
    BY <2>1, <2>2
<1>8. channel' = channel
  BY DEF Finish
<1>9. ResultStep(R)
  BY <1>5, <1>6, <1>7, <1>8 DEF ResultStep
<1> QED
  BY <1>4, <1>5, <1>9 DEF R

(* The leaf of a user is on no path but its own. *)
LEMMA LeafOffPaths ==
  ASSUME GraphInv, MapsInv, NEW u \in Members, NEW id \in Ids, id # user_leaves[u]
  PROVE  user_leaves[u] \notin Up(id)
BY GraphUpAlgebra DEF MapsInv, LeavesInv, UpAlgebra

LEMMA LeaveStep ==
  ASSUME GraphInv, MapsInv, NEW u \in Users, Leave(u)
  PROVE  /\ GraphInv' /\ MapsInv'
         /\ \E R : KeysStep(R) /\ UsersStep(R) /\ ResultStep(R) /\ DeliverStep(R)
<1> DEFINE leaf == user_leaves[u]
           anc == AncestorsOf(leaf)
           ks == [n \in DOMAIN keys \ {leaf} |-> keys[n]]
<1>1. PICK k \in Progress(anc) :
        /\ KG!RemoveSubtree(leaf)
        /\ user_leaves' = WithoutUser(u)
        /\ Finish(anc, k, ks)
        /\ admitted' = admitted \ {u}
        /\ IF k = Len(anc)
           THEN left' = left \cup {u} /\ UNCHANGED torn
           ELSE torn' = torn \cup {u} /\ UNCHANGED left
        /\ UNCHANGED received
  BY DEF Leave
<1>2. u \in Members
  BY DEF Leave
<1>3. leaf \in Ids /\ leaf \in DOMAIN keys /\ Childless(leaf)
  BY <1>2 DEF MapsInv, LeavesInv
<1>4. /\ leaf # Root /\ Ids' = Ids \ {leaf} /\ next_id' = next_id
      /\ \A n \in Ids' : nodes'[n].parent = nodes[n].parent
      /\ GraphInv'
      /\ \A id \in Ids' : Up(id)' = Up(id)
  BY <1>1, <1>3, GraphRemove
<1>5. k \in 0 .. Len(anc)
  <2>1. anc \in Seq(Ids)
    BY <1>3, GraphPathFacts DEF PathFacts, AncestorsOf
  <2> QED
    BY <2>1 DEF Progress
<1> DEFINE R == FirstOf(anc, k)
<1>6. R \subseteq Up(leaf) \ {leaf} /\ (k = Len(anc) => R = Up(leaf) \ {leaf})
  BY <1>3, <1>5, LeaveRotates
<1>7. Up(leaf) \subseteq Ids /\ Root \in Up(leaf)
  BY <1>3, GraphUpFacts DEF UpFacts
<1>8. /\ next_id \in Nat /\ -1 \notin Ids /\ Root \in DOMAIN keys
      /\ keys \in [DOMAIN keys -> Nat] /\ DOMAIN keys \subseteq Ids
  BY GraphPlain DEF MapsInv
<1>9. /\ ks \in [DOMAIN ks -> Nat] /\ DOMAIN ks = DOMAIN keys \ {leaf}
      /\ \A n \in DOMAIN ks : ks[n] = keys[n]
  BY <1>8
<1> HIDE DEF leaf, anc, ks
<1>10. /\ keys' \in [DOMAIN ks \cup R -> Nat]
       /\ \A n \in R \cap DOMAIN ks : keys'[n] = ks[n] + 1
       /\ \A n \in DOMAIN ks \ R : keys'[n] = ks[n]
       /\ ResultStep(R)
       /\ \A r \in pending' : r \in pending \/ r.replaced = R
  <2>1. /\ Root \in DOMAIN ks /\ ks[Root] = keys[Root] /\ DOMAIN ks \subseteq Ids'
        /\ R \subseteq Ids' /\ -1 \notin R
    BY <1>4, <1>6, <1>7, <1>8, <1>9
  <2> QED
    BY <2>1, <1>1, <1>4, <1>8, <1>9, FinishFacts
<1> HIDE DEF R
<1>11. /\ DOMAIN keys' = (DOMAIN keys \ {leaf}) \cup R /\ leaf \notin R /\ R \subseteq Ids
       /\ \A n \in R \cap DOMAIN keys : keys'[n] = keys[n] + 1
       /\ \A n \in DOMAIN keys : n # leaf /\ n \notin R => keys'[n] = keys[n]
  BY <1>6, <1>7, <1>9, <1>10
<1>12. KeysStep(R)
  BY <1>4, <1>8, <1>11 DEF KeysStep
<1>13. /\ Members' = Members \ {u}
       /\ \A v \in Members' : user_leaves'[v] = user_leaves[v]
       /\ user_leaves' = [v \in Members' |-> user_leaves'[v]]
  BY <1>1 DEF WithoutUser, Members
<1>14. ASSUME NEW v \in Members'
       PROVE  user_leaves[v] \in Ids' /\ user_leaves[v] # leaf /\ user_leaves[v] \notin R
  <2>1. v \in Members /\ user_leaves[v] # leaf /\ user_leaves[v] \in Ids
    BY <1>2, <1>13 DEF MapsInv, LeavesInv, leaf
  <2>2. user_leaves[v] \notin Up(leaf)
    BY <2>1, <1>3, LeafOffPaths
  <2> QED
    BY <2>1, <2>2, <1>4, <1>6
<1>15. UsersStep(R)
  <2>1. admitted \cap admitted' \subseteq Members' /\ admitted' \subseteq admitted
        /\ admitted \ admitted' \subseteq {u}
    BY <1>1, <1>13 DEF MapsInv
  <2>2. ASSUME NEW v \in admitted \cap admitted', NEW l, l = user_leaves[v]
        PROVE  Up(l)' = Up(l)
    BY <2>1, <1>4, <1>14, <2>2
  <2>3. u \in torn' \/ Up(leaf) \cap DOMAIN keys' \subseteq R
    BY <1>1, <1>6, <1>11
  <2> QED
    BY <2>1, <2>2, <2>3, <1>1, <1>13 DEF UsersStep, leaf
<1>16. LeavesInv'
  <2>1. ASSUME NEW v \in Members'
        PROVE  /\ user_leaves'[v] \in DOMAIN keys' /\ keys'[user_leaves'[v]] = 0
               /\ \A m \in Ids' : nodes'[m].parent # user_leaves'[v]
    BY <1>4, <1>11, <1>13, <1>14 DEF MapsInv, LeavesInv, Childless
  <2>2. \A v, x \in Members' : user_leaves'[v] = user_leaves'[x] => v = x
    BY <1>13 DEF MapsInv, LeavesInv
  <2> QED
    BY <2>1, <2>2, <1>13 DEF LeavesInv, Childless
<1>17. MapsInv'
  <2>1. keys' \in [DOMAIN keys' -> Nat] /\ DOMAIN keys' \subseteq Ids' /\ Root \in DOMAIN keys'
    BY <1>4, <1>8, <1>10, <1>11
  <2>2. /\ Members' \subseteq Users /\ admitted' \subseteq Members' /\ left' \subseteq Users
        /\ left' \cap admitted' = {}
    BY <1>1, <1>13 DEF MapsInv
  <2>3. faults' \in Nat
    BY <1>1 DEF Finish, MapsInv
  <2>4. /\ received' \in [Users -> SUBSET (Nat \X Nat)]
        /\ \A v \in admitted' : <<user_leaves'[v], 0>> \in received'[v]
    BY <1>1, <1>13, <2>2 DEF MapsInv
  <2>5. \A r \in pending' : /\ r.replaced \subseteq 0 .. next_id' - 1
                            /\ r.replaced \cap Ids' \subseteq DOMAIN keys'
    BY <1>4, <1>10, <1>11, GraphPlain DEF MapsInv
  <2> QED
    BY <2>1, <2>2, <2>3, <2>4, <2>5, <1>16 DEF MapsInv, Root, KG!Root
<1>18. DeliverStep(R)
  <2>1. faults \in Nat /\ Len(anc) \in Nat
    <3>1. Len(anc) \in Nat
      BY <1>3, GraphPathFacts DEF PathFacts, AncestorsOf, anc
    <3> QED
      BY <3>1 DEF MapsInv
  <2>2. /\ faults <= faults'
        /\ faults' = faults =>
             /\ ~(k < Len(anc))
             /\ pending \subseteq pending'
             /\ \E r \in pending' :
                  /\ r.replaced = R
                  /\ \A a \in R : \A c \in DOMAIN keys' \cap Ids' :
                       nodes'[c].parent = a => WrapOf(c, a)' \in r.messages
    BY <2>1, <1>1, FinishDelivers DEF R
  <2>3. ASSUME faults' = faults
        PROVE  ParentClosed(R) /\ (DOMAIN keys = Ids => DOMAIN keys' = Ids')
    <3>1. R = Up(leaf) \ {leaf}
      BY <2>1, <2>2, <2>3, <1>5, <1>6
    <3>2. \A n \in Up(leaf) : n # Root => nodes[n].parent \in Up(leaf)
      BY <1>3, GraphUpFacts DEF UpFacts, ParentClosed
    <3>3. \A n \in Ids : nodes[n].parent # leaf
      BY <1>3 DEF Childless
    <3> QED
      BY <3>1, <3>2, <3>3, <1>4, <1>7, <1>11 DEF ParentClosed
  <2> QED
    BY <2>2, <2>3, <1>4 DEF DeliverStep
<1> QED
  BY <1>4, <1>17, <1>12, <1>15, <1>10, <1>18

(* The callers the code is written for. *)
Callers == ~ReJoin /\ ~LeafSponsor

(* What add_child alone does to the maps: nobody gets hurt. *)
LEMMA JoinCallFacts ==
  ASSUME Callers, GraphInv, MapsInv, NEW u, NEW s, JoinCall(u, s)
  PROVE  /\ u \notin admitted /\ s \in Ids /\ next_id \notin Ids /\ next_id \in Nat
         /\ Ids' = Ids \cup {next_id} /\ next_id' = next_id + 1
         /\ GraphInv'
         /\ \A n \in Ids : nodes'[n].parent = nodes[n].parent
         /\ \A id \in Ids : Up(id)' = Up(id)
         /\ \A new : new = next_id => Up(new)' = {new} \cup Up(s)
         /\ \A v \in Members : user_leaves[v] # s
         /\ \A v \in Members : \A m \in Ids' : nodes'[m].parent # user_leaves[v]
         /\ \A m \in Ids' : nodes'[m].parent # next_id
<1>1. /\ u \notin admitted /\ \A v \in Members : user_leaves[v] # s
      /\ KG!AddChild(s, Cardinality(ChildrenOf(nodes, keys, s)))
  BY DEF JoinCall, Callers
<1>2. /\ s \in Ids /\ next_id \notin Ids /\ next_id # Root
      /\ Ids' = Ids \cup {next_id} /\ next_id' = next_id + 1
      /\ \A n \in Ids : nodes'[n].parent = nodes[n].parent
      /\ nodes'[next_id].parent = s
      /\ GraphInv'
      /\ \A id \in Ids : Up(id)' = Up(id)
      /\ \A new : new = next_id => Up(new)' = {new} \cup Up(s)
  BY <1>1, GraphAdd
<1>3. /\ next_id \in Nat /\ next_id # -1 /\ nodes[Root].parent = -1
      /\ \A n \in Ids : n # Root => nodes[n].parent \in Ids
  BY GraphPlain
<1>4. \A v \in Members : \A m \in Ids' : nodes'[m].parent # user_leaves[v]
  BY <1>1, <1>2 DEF MapsInv, LeavesInv, Childless
<1>5. \A m \in Ids' : nodes'[m].parent # next_id
  BY <1>2, <1>3
<1> QED
  BY <1>1, <1>2, <1>3, <1>4, <1>5

LEMMA JoinStep ==
  ASSUME Callers, GraphInv, MapsInv, NEW u \in Users, NEW s, Join(u, s)
  PROVE  /\ GraphInv' /\ MapsInv'
         /\ \E R : KeysStep(R) /\ UsersStep(R) /\ ResultStep(R) /\ DeliverStep(R)
<1> DEFINE leaf == next_id
           anc == SponsorPath(s)
           ks == [n \in DOMAIN keys \cup {leaf} |-> IF n = leaf THEN 0 ELSE keys[n]]
<1>1. PICK k \in Progress(anc) :
        /\ user_leaves' = [v \in Members \cup {u} |-> IF v = u THEN leaf ELSE user_leaves[v]]
        /\ Finish(anc, k, ks)
        /\ IF k = Len(anc)
           THEN /\ received' = [received EXCEPT ![u] = @ \cup {<<leaf, 0>>}]
                /\ admitted' = admitted \cup {u}
                /\ left' = left \ {u}
           ELSE UNCHANGED <<received, admitted, left>>
        /\ UNCHANGED torn
  BY DEF Join, NewLeaf
<1>2. /\ u \notin admitted /\ s \in Ids /\ leaf \notin Ids /\ leaf \in Nat
      /\ Ids' = Ids \cup {leaf} /\ next_id' = leaf + 1
      /\ GraphInv'
      /\ \A n \in Ids : nodes'[n].parent = nodes[n].parent
      /\ \A id \in Ids : Up(id)' = Up(id)
      /\ \A new : new = leaf => Up(new)' = {new} \cup Up(s)
      /\ \A v \in Members : user_leaves[v] # s
      /\ \A v \in Members : \A m \in Ids' : nodes'[m].parent # user_leaves[v]
      /\ \A m \in Ids' : nodes'[m].parent # leaf
  BY JoinCallFacts DEF Join
<1>3. k \in 0 .. Len(anc)
  <2>1. anc \in Seq(Ids)
    BY <1>2, GraphPathFacts DEF PathFacts, SponsorPath
  <2> QED
    BY <2>1 DEF Progress
<1> DEFINE R == FirstOf(anc, k)
<1>4. R \subseteq Up(s) /\ (k = Len(anc) => R = Up(s))
  BY <1>2, <1>3, JoinRotates
<1>5. Up(s) \subseteq Ids /\ Root \in Up(s)
  BY <1>2, GraphUpFacts DEF UpFacts
<1>6. /\ -1 \notin Ids /\ Root \in DOMAIN keys /\ Root \in Ids
      /\ keys \in [DOMAIN keys -> Nat] /\ DOMAIN keys \subseteq Ids
  BY GraphPlain DEF MapsInv
<1>7. /\ ks \in [DOMAIN ks -> Nat] /\ DOMAIN ks = DOMAIN keys \cup {leaf}
      /\ ks[leaf] = 0 /\ \A n \in DOMAIN keys : ks[n] = keys[n]
  BY <1>2, <1>6
<1> HIDE DEF leaf, anc, ks
<1>8. /\ keys' \in [DOMAIN ks \cup R -> Nat]
      /\ \A n \in R \cap DOMAIN ks : keys'[n] = ks[n] + 1
      /\ \A n \in DOMAIN ks \ R : keys'[n] = ks[n]
      /\ ResultStep(R)
      /\ \A r \in pending' : r \in pending \/ r.replaced = R
  <2>1. /\ Root \in DOMAIN ks /\ ks[Root] = keys[Root] /\ DOMAIN ks \subseteq Ids'
        /\ R \subseteq Ids' /\ -1 \notin R
    BY <1>2, <1>4, <1>5, <1>6, <1>7
  <2> QED
    BY <2>1, <1>1, <1>2, <1>6, <1>7, FinishFacts
<1> HIDE DEF R
<1>9. /\ DOMAIN keys' = DOMAIN keys \cup {leaf} \cup R /\ leaf \notin R /\ R \subseteq Ids
      /\ leaf \notin DOMAIN keys
      /\ \A n \in R \cap DOMAIN keys : keys'[n] = keys[n] + 1
      /\ \A n \in DOMAIN keys : n \notin R => keys'[n] = keys[n]
      /\ keys'[leaf] = 0
  BY <1>2, <1>4, <1>5, <1>6, <1>7, <1>8
<1>10. KeysStep(R)
  BY <1>2, <1>6, <1>9 DEF KeysStep, Later, leaf
<1>11. /\ Members' = Members \cup {u} /\ user_leaves'[u] = leaf
       /\ \A v \in Members : v # u => user_leaves'[v] = user_leaves[v]
       /\ user_leaves' = [v \in Members' |-> user_leaves'[v]]
  BY <1>1 DEF Members
<1>12. ASSUME NEW v \in Members
       PROVE  user_leaves[v] \in Ids /\ user_leaves[v] # leaf /\ user_leaves[v] \notin R
  <2>1. user_leaves[v] \in Ids /\ user_leaves[v] # s
    BY <1>2 DEF MapsInv, LeavesInv
  <2>2. user_leaves[v] \notin Up(s)
    BY <2>1, <1>2, LeafOffPaths
  <2> QED
    BY <2>1, <2>2, <1>2, <1>4
<1>13. UsersStep(R)
  <2>1. /\ admitted \subseteq admitted' /\ admitted' \ admitted \subseteq {u}
        /\ (u \in admitted' => k = Len(anc)) /\ admitted \subseteq Members /\ u \notin admitted
        /\ (k = Len(anc) => u \in admitted')
    BY <1>1, <1>2 DEF MapsInv
  <2>2. ASSUME NEW v \in admitted, NEW l, l = user_leaves[v]
        PROVE  user_leaves'[v] = l /\ Up(l)' = Up(l)
    BY <2>1, <2>2, <1>2, <1>11, <1>12
  <2>3. ASSUME u \in admitted'
        PROVE  /\ Root \in R
               /\ \A n \in Up(user_leaves[u])' : n \in R \/ (Later(n) /\ n = user_leaves'[u])
    <3>1. R = Up(s)
      BY <2>1, <2>3, <1>4
    <3>2. \A new : new = user_leaves'[u] => Up(new)' = {new} \cup Up(s)
      BY <1>2, <1>11
    <3>3. Up(user_leaves[u])' = {leaf} \cup Up(s)
      BY <3>2, <1>11
    <3> QED
      BY <3>1, <3>3, <1>2, <1>5, <1>11 DEF Later, leaf
  <2>4. ASSUME NEW v \in Users, NEW p \in received'[v]
        PROVE  p \in received[v] \/ (v \in admitted' /\ p = <<user_leaves'[v], keys'[user_leaves'[v]]>>)
    <3>1. received \in [Users -> SUBSET (Nat \X Nat)]
      BY DEF MapsInv
    <3>2. CASE k # Len(anc)
      BY <3>2, <1>1, <2>4
    <3>3. CASE k = Len(anc)
      BY <3>1, <3>3, <1>1, <2>1, <2>4, <1>9, <1>11
    <3> QED
      BY <3>2, <3>3
  <2> QED
    BY <2>1, <2>2, <2>3, <2>4, <1>1 DEF UsersStep
<1>14. LeavesInv'
  <2>1. ASSUME NEW v \in Members'
        PROVE  /\ user_leaves'[v] \in DOMAIN keys' /\ keys'[user_leaves'[v]] = 0
               /\ \A m \in Ids' : nodes'[m].parent # user_leaves'[v]
    <3>1. CASE v = u
      BY <3>1, <1>2, <1>9, <1>11
    <3>2. CASE v # u
      BY <3>2, <2>1, <1>2, <1>9, <1>11, <1>12 DEF MapsInv, LeavesInv
    <3> QED
      BY <3>1, <3>2
  <2>2. \A v, x \in Members' : user_leaves'[v] = user_leaves'[x] => v = x
    BY <1>11, <1>12 DEF MapsInv, LeavesInv
  <2> QED
    BY <2>1, <2>2, <1>11 DEF LeavesInv, Childless
<1>15. MapsInv'
  <2>1. keys' \in [DOMAIN keys' -> Nat] /\ DOMAIN keys' \subseteq Ids' /\ Root \in DOMAIN keys'
    BY <1>2, <1>6, <1>8, <1>9
  <2>2. /\ Members' \subseteq Users /\ admitted' \subseteq Members' /\ left' \subseteq Users
        /\ left' \cap admitted' = {}
    BY <1>1, <1>11 DEF MapsInv
  <2>3. faults' \in Nat
    BY <1>1 DEF Finish, MapsInv
  <2>4. /\ received' \in [Users -> SUBSET (Nat \X Nat)]
        /\ \A v \in admitted' : <<user_leaves'[v], 0>> \in received'[v]
    <3>1. /\ received \in [Users -> SUBSET (Nat \X Nat)] /\ <<leaf, 0>> \in Nat \X Nat
          /\ \A v \in admitted : <<user_leaves[v], 0>> \in received[v] /\ v \in Members /\ v \in Users
      BY <1>2 DEF MapsInv
    <3> DEFINE P == Nat \X Nat
    <3>2. \A v \in admitted : user_leaves'[v] = user_leaves[v]
      BY <3>1, <1>2, <1>11
    <3> HIDE DEF P
    <3>3. received \in [Users -> SUBSET P] /\ <<leaf, 0>> \in P
      BY <3>1 DEF P
    <3>4. CASE k # Len(anc)
      <4>1. received' = received /\ admitted' = admitted
        BY <3>4, <1>1
      <4> QED
        BY <4>1, <3>1, <3>2
    <3>5. CASE k = Len(anc)
      <4>1. /\ received' = [received EXCEPT ![u] = @ \cup {<<leaf, 0>>}]
            /\ admitted' = admitted \cup {u}
        BY <3>5, <1>1
      <4>2. received' \in [Users -> SUBSET P]
        BY <4>1, <3>3
      <4>3. <<leaf, 0>> \in received'[u] /\ \A v \in admitted : received'[v] = received[v]
        BY <4>1, <3>1, <3>3, <1>2
      <4> QED
        BY <4>1, <4>2, <4>3, <3>1, <3>2, <1>11 DEF P
    <3> QED
      BY <3>4, <3>5
  <2>5. ASSUME NEW r \in pending'
        PROVE  /\ r.replaced \subseteq 0 .. next_id' - 1
               /\ r.replaced \cap Ids' \subseteq DOMAIN keys'
    <3>1. R \subseteq 0 .. next_id - 1
      BY <1>9, GraphPlain
    <3>2. r.replaced \subseteq 0 .. next_id - 1
      BY <3>1, <1>8 DEF MapsInv
    <3> QED
      BY <3>2, <1>2, <1>8, <1>9 DEF MapsInv, leaf
  <2> QED
    BY <2>1, <2>2, <2>3, <2>4, <2>5, <1>14 DEF MapsInv, Root, KG!Root
<1>16. DeliverStep(R)
  <2>1. faults \in Nat /\ Len(anc) \in Nat
    <3>1. Len(anc) \in Nat
      BY <1>2, GraphPathFacts DEF PathFacts, SponsorPath, anc
    <3> QED
      BY <3>1 DEF MapsInv
  <2>2. /\ faults <= faults'
        /\ faults' = faults =>
             /\ ~(k < Len(anc))
             /\ pending \subseteq pending'
             /\ \E r \in pending' :
                  /\ r.replaced = R
                  /\ \A a \in R : \A c \in DOMAIN keys' \cap Ids' :
                       nodes'[c].parent = a => WrapOf(c, a)' \in r.messages
    BY <2>1, <1>1, FinishDelivers DEF R
  <2>3. ASSUME faults' = faults
        PROVE  ParentClosed(R) /\ (DOMAIN keys = Ids => DOMAIN keys' = Ids')
    <3>1. R = Up(s)
      BY <2>1, <2>2, <2>3, <1>3, <1>4
    <3> QED
      BY <3>1, <1>2, <1>9, GraphUpFacts DEF UpFacts
  <2> QED
    BY <2>2, <2>3, <1>2 DEF DeliverStep
<1> QED
  BY <1>2, <1>15, <1>10, <1>13, <1>8, <1>16

LEMMA FailedJoinStep ==
  ASSUME Callers, GraphInv, MapsInv, NEW u, NEW s, JoinLeafKeyFails(u, s)
  PROVE  /\ GraphInv' /\ MapsInv'
         /\ \E R : KeysStep(R) /\ UsersStep(R) /\ ResultStep(R) /\ DeliverStep(R)
<1>1. /\ s \in Ids /\ next_id \notin Ids /\ next_id \in Nat
      /\ Ids' = Ids \cup {next_id} /\ next_id' = next_id + 1
      /\ GraphInv'
      /\ \A n \in Ids : nodes'[n].parent = nodes[n].parent
      /\ \A id \in Ids : Up(id)' = Up(id)
      /\ \A v \in Members : \A m \in Ids' : nodes'[m].parent # user_leaves[v]
  BY JoinCallFacts DEF JoinLeafKeyFails
<1>2. /\ UNCHANGED <<keys, user_leaves, pending, channel, received, admitted, left, torn, entitled>>
      /\ faults' = faults + 1
  BY DEF JoinLeafKeyFails
<1>3. Members' = Members
  BY <1>2 DEF Members
<1>4. LeavesInv'
  BY <1>1, <1>2, <1>3 DEF MapsInv, LeavesInv, Childless
<1>5. \A r \in pending : /\ r.replaced \subseteq 0 .. next_id' - 1
                        /\ r.replaced \cap Ids' \subseteq DOMAIN keys
  BY <1>1 DEF MapsInv
<1>6. MapsInv'
  BY <1>1, <1>2, <1>3, <1>4, <1>5 DEF MapsInv, Root, KG!Root
<1>7. KeysStep({})
  BY <1>1, <1>2 DEF KeysStep, Later, MapsInv
<1>8. UsersStep({})
  <2>1. \A v \in admitted : user_leaves[v] \in Ids
    BY DEF MapsInv, LeavesInv
  <2> QED
    BY <2>1, <1>1, <1>2 DEF UsersStep
<1>9. ResultStep({})
  BY <1>2 DEF ResultStep
<1>10. DeliverStep({})
  BY <1>1, <1>2 DEF DeliverStep, MapsInv
<1> QED
  BY <1>1, <1>6, <1>7, <1>8, <1>9, <1>10

-----------------------------------------------------------------------------
(* Who may know what.  A key that was ever drawn is on a node id that was  *)
(* issued and is no newer than the node's current key.  A user knows no    *)
(* more than a set X of such keys that holds what it was handed, is closed *)
(* under every wrap that is published or waits to be, contains of the      *)
(* current keys exactly those of the user's own path, none if the user is  *)
(* not admitted, and of the root's keys only those the user may know.      *)
Issued(p) ==
  /\ p \in Nat \X Nat /\ p[1] < next_id
  /\ p[1] \in Ids => p[1] \in DOMAIN keys /\ p[2] <= keys[p[1]]

Wraps == channel \cup UNION {r.messages : r \in pending}

Knows(v, X) ==
  /\ received[v] \subseteq X
  /\ \A p \in X : Issued(p)
  /\ \A w \in Wraps : w.under \in X => w.key \in X
  /\ \A n \in DOMAIN keys : KeyOf(n) \in X <=> (v \in admitted /\ n \in Up(user_leaves[v]))
  /\ \A p \in X : p[1] = Root => <<v, p[2]>> \in entitled

KnowInv ==
  /\ \A w \in Wraps : Issued(w.under)
  /\ \A v \in Users \ torn : \E X : Knows(v, X)

(* A key issued before a call is not one the call draws. *)
LEMMA IssuedIsOld ==
  ASSUME GraphInv, MapsInv, MapsInv', NEW R, KeysStep(R),
         NEW n \in DOMAIN keys', Issued(<<n, keys'[n]>>)
  PROVE  n \notin R /\ n \in DOMAIN keys /\ keys'[n] = keys[n]
<1>1. next_id \in Nat /\ keys \in [DOMAIN keys -> Nat] /\ keys' \in [DOMAIN keys' -> Nat]
  BY GraphPlain DEF MapsInv
<1>2. n \in Nat /\ n < next_id /\ (n \in Ids => n \in DOMAIN keys /\ keys'[n] <= keys[n])
  BY DEF Issued
<1>3. ~Later(n)
  BY <1>1, <1>2 DEF Later
<1>4. n \notin R
  <2> SUFFICES ASSUME n \in R PROVE FALSE
    OBVIOUS
  <2>1. n \in Ids /\ n \in DOMAIN keys /\ keys'[n] <= keys[n] /\ keys'[n] > keys[n]
    BY <1>2 DEF KeysStep
  <2> QED
    BY <2>1, <1>1
<1> QED
  BY <1>3, <1>4 DEF KeysStep

LEMMA IssuedStays ==
  ASSUME GraphInv, MapsInv, MapsInv', NEW R, KeysStep(R), NEW p, Issued(p)
  PROVE  Issued(p)'
<1>1. next_id \in Nat /\ keys \in [DOMAIN keys -> Nat] /\ keys' \in [DOMAIN keys' -> Nat]
  BY GraphPlain DEF MapsInv
<1>2. p \in Nat \X Nat /\ p[1] \in Nat /\ p[2] \in Nat /\ p[1] < next_id'
  BY <1>1 DEF Issued, KeysStep
<1>3. ASSUME p[1] \in Ids' PROVE p[1] \in DOMAIN keys' /\ p[2] <= keys'[p[1]]
  <2>1. p[1] \in Ids
    BY <1>1, <1>2, <1>3 DEF KeysStep, Later, Issued
  <2>2. /\ p[1] \in DOMAIN keys /\ p[2] <= keys[p[1]]
        /\ p[1] \in DOMAIN keys' /\ keys[p[1]] <= keys'[p[1]]
    BY <2>1, <1>3 DEF KeysStep, Issued
  <2> QED
    BY <2>2, <1>1, <1>2
<1> QED
  BY <1>2, <1>3 DEF Issued

LEMMA CurrentIsIssued ==
  ASSUME GraphInv, MapsInv, NEW n \in DOMAIN keys
  PROVE  Issued(KeyOf(n))
<1>1. n \in Nat /\ n < next_id /\ keys[n] \in Nat
  BY GraphPlain DEF MapsInv
<1> QED
  BY <1>1 DEF Issued, KeyOf

CurrentIssued == \A n \in DOMAIN keys : Issued(KeyOf(n))

LEMMA CurrentIssuedAfter == GraphInv' /\ MapsInv' => CurrentIssued'
<1>1. GraphInv /\ MapsInv => CurrentIssued
  BY CurrentIsIssued DEF CurrentIssued
<1> QED
  BY <1>1, PTL

(* A call of leave or join keeps everybody's knowledge within bounds: the  *)
(* set of a user grows by the current keys of its path.                    *)
LEMMA KnowledgeStep ==
  ASSUME GraphInv, GraphInv', MapsInv, MapsInv', KnowInv,
         NEW R, KeysStep(R), UsersStep(R), ResultStep(R)
  PROVE  KnowInv'
<1>0. CurrentIssued' /\ UpFacts'
  BY CurrentIssuedAfter, PathsAfter
<1>1. ASSUME NEW w \in Wraps'
      PROVE  \/ w \in Wraps
             \/ \E c \in DOMAIN keys', a \in R :
                  c # Root /\ nodes'[c].parent = a /\ w = WrapOf(c, a)'
  <2>1. w \in channel' \/ \E r \in pending' : w \in r.messages
    BY <1>1 DEF Wraps
  <2> QED
    BY <2>1 DEF ResultStep, Wraps
<1>2. ASSUME NEW w \in Wraps' PROVE Issued(w.under)'
  <2>1. CASE w \in Wraps
    BY <2>1, IssuedStays DEF KnowInv
  <2>2. ASSUME NEW c \in DOMAIN keys', NEW a \in R, w = WrapOf(c, a)'
        PROVE  Issued(w.under)'
    <3>1. w.under = KeyOf(c)'
      BY <2>2 DEF WrapOf
    <3> QED
      BY <3>1, <1>0 DEF CurrentIssued, KeyOf
  <2> QED
    BY <2>1, <2>2, <1>1
<1>3. ASSUME NEW v \in Users \ torn' PROVE (\E X : Knows(v, X))'
  <2>1. v \in Users \ torn
    BY DEF UsersStep
  <2>2. PICK X : Knows(v, X)
    BY <2>1 DEF KnowInv
  <2> DEFINE P == {n \in DOMAIN keys' : v \in admitted' /\ n \in Up(user_leaves[v])'}
             Y == X \cup {<<n, keys'[n]>> : n \in P}
  <2>3. ASSUME NEW n \in DOMAIN keys', <<n, keys'[n]>> \in X
        PROVE  n \in P
    <3>1. Issued(<<n, keys'[n]>>)
      BY <2>2, <2>3 DEF Knows
    <3>2. n \notin R /\ n \in DOMAIN keys /\ keys'[n] = keys[n]
      BY <3>1, IssuedIsOld
    <3>3. v \in admitted /\ n \in Up(user_leaves[v])
      BY <3>2, <2>2, <2>3 DEF Knows, KeyOf
    <3>4. v \in admitted'
      BY <3>2, <3>3 DEF UsersStep
    <3>5. Up(user_leaves[v])' = Up(user_leaves[v])
      BY <3>3, <3>4 DEF UsersStep
    <3> QED
      BY <3>3, <3>4, <3>5
  <2> HIDE DEF P
  <2>4. \A n \in DOMAIN keys' : <<n, keys'[n]>> \in Y <=> n \in P
    <3>1. \A n, m \in DOMAIN keys' : <<n, keys'[n]>> = <<m, keys'[m]>> => n = m
      OBVIOUS
    <3>2. P \subseteq DOMAIN keys'
      BY DEF P
    <3> QED
      BY <2>3, <3>1, <3>2
  <2>5. ASSUME NEW n \in P, Issued(<<n, keys'[n]>>)
        PROVE  <<n, keys'[n]>> \in X
    <3>1. n \in DOMAIN keys' /\ v \in admitted' /\ n \in Up(user_leaves[v])'
      BY DEF P
    <3>2. n \notin R /\ n \in DOMAIN keys /\ keys'[n] = keys[n]
      BY <3>1, <2>5, IssuedIsOld
    <3>3. ~Later(n)
      <4>1. n < next_id /\ n \in Nat /\ next_id \in Nat
        BY <2>5, GraphPlain DEF Issued
      <4> QED
        BY <4>1 DEF Later
    <3>4. v \in admitted
      BY <3>1, <3>2, <3>3 DEF UsersStep
    <3>5. Up(user_leaves[v])' = Up(user_leaves[v])
      BY <3>1, <3>4 DEF UsersStep
    <3> QED
      BY <3>1, <3>2, <3>4, <3>5, <2>2 DEF Knows, KeyOf
  <2> HIDE DEF Y
  <2>6. received'[v] \subseteq Y
    <3> SUFFICES ASSUME NEW p \in received'[v], p \notin X PROVE p \in Y
      BY DEF Y
    <3>1. v \in admitted' /\ p = <<user_leaves'[v], keys'[user_leaves'[v]]>>
      BY <2>1, <2>2 DEF UsersStep, Knows
    <3>2. user_leaves'[v] \in DOMAIN keys' /\ user_leaves'[v] \in Ids'
      BY <3>1 DEF MapsInv, LeavesInv
    <3>3. user_leaves'[v] \in Up(user_leaves[v])'
      BY <3>2, <1>0 DEF UpFacts
    <3>4. user_leaves'[v] \in P
      BY <3>1, <3>2, <3>3 DEF P
    <3> QED
      BY <3>1, <3>4 DEF Y
  <2>7. ASSUME NEW p \in Y PROVE Issued(p)'
    <3>1. CASE p \in X
      BY <3>1, <2>2, IssuedStays DEF Knows
    <3>2. ASSUME NEW n \in P, p = <<n, keys'[n]>> PROVE Issued(p)'
      <4>1. n \in DOMAIN keys'
        BY DEF P
      <4> QED
        BY <4>1, <3>2, <1>0 DEF CurrentIssued, KeyOf
    <3> QED
      BY <3>1, <3>2 DEF Y
  <2>8. ASSUME NEW w \in Wraps', w.under \in Y PROVE w.key \in Y
    <3>1. CASE w \in Wraps
      <4>1. w.under \in X
        <5>1. Issued(w.under)
          BY <3>1 DEF KnowInv
        <5> QED
          BY <5>1, <2>5, <2>8 DEF Y
      <4> QED
        BY <4>1, <3>1, <2>2 DEF Knows, Y
    <3>2. ASSUME NEW c \in DOMAIN keys', NEW a \in R,
                 c # Root, nodes'[c].parent = a, w = WrapOf(c, a)'
          PROVE  w.key \in Y
      <4>1. w.under = <<c, keys'[c]>> /\ w.key = <<a, keys'[a]>>
        BY <3>2 DEF WrapOf, KeyOf
      <4>2. c \in P /\ a \in DOMAIN keys'
        BY <4>1, <2>4, <2>8 DEF KeysStep
      <4>3. /\ v \in admitted' /\ c \in Up(user_leaves[v])' /\ user_leaves'[v] \in Ids'
        BY <4>2 DEF P, MapsInv, LeavesInv
      <4>4. a \in Up(user_leaves[v])'
        BY <4>3, <3>2, <1>0 DEF UpFacts, ParentClosed, Root, KG!Root
      <4> QED
        BY <4>1, <4>2, <4>3, <4>4, <2>4 DEF P
    <3> QED
      BY <3>1, <3>2, <1>1
  <2>9. ASSUME NEW p \in Y, p[1] = Root PROVE <<v, p[2]>> \in entitled'
    <3>1. CASE p \in X
      BY <3>1, <2>2, <2>9 DEF Knows, ResultStep
    <3>2. ASSUME NEW n \in P, p = <<n, keys'[n]>>, p \notin X PROVE <<v, p[2]>> \in entitled'
      <4>1. n = Root /\ p[2] = keys'[Root] /\ v \in Members' /\ v \in admitted'
        BY <3>2, <2>9 DEF P, MapsInv
      <4>2. ~Issued(<<n, keys'[n]>>)
        BY <3>2, <2>5
      <4>3. Root \in R
        <5> SUFFICES ASSUME n \notin R PROVE FALSE
          BY <4>1
        <5>1. n \in DOMAIN keys /\ ~Later(n)
          <6>1. next_id \in Nat /\ Root \in Ids /\ Root \in DOMAIN keys /\ ~(0 >= next_id)
            BY GraphPlain, SameGraph DEF MapsInv
          <6> QED
            BY <6>1, <4>1, SameGraph DEF Later
        <5>2. keys'[n] = keys[n]
          BY <5>1, <4>1 DEF KeysStep, P
        <5> QED
          BY <5>1, <5>2, <4>2, CurrentIsIssued DEF KeyOf
      <4> QED
        BY <4>1, <4>3 DEF ResultStep
    <3> QED
      BY <3>1, <3>2 DEF Y
  <2>10. ASSUME NEW Z, Z = Y PROVE Knows(v, Z)'
    <3>1. \A n \in DOMAIN keys' : <<n, keys'[n]>> \in Z <=>
             (v \in admitted' /\ n \in Up(user_leaves[v])')
      BY <2>4, <2>10 DEF P
    <3>2. received'[v] \subseteq Z /\ \A p \in Z : Issued(p)'
      BY <2>6, <2>7, <2>10
    <3>3. \A w \in Wraps' : w.under \in Z => w.key \in Z
      BY <2>8, <2>10
    <3>4. \A p \in Z : p[1] = Root => <<v, p[2]>> \in entitled'
      BY <2>9, <2>10
    <3> QED
      BY <3>1, <3>2, <3>3, <3>4 DEF Knows, KeyOf, Root, KG!Root
  <2>11. \E Z : Z = Y
    OBVIOUS
  <2> QED
    BY <2>10, <2>11
<1> QED
  BY <1>2, <1>3 DEF KnowInv

(* Wraps of current keys up the tree add nothing to what a user may know. *)
LEMMA CurrentWrapsAddNothing ==
  ASSUME GraphInv, MapsInv, NEW v, NEW X, Knows(v, X),
         NEW c \in DOMAIN keys, NEW a \in DOMAIN keys, a \in Up(c), KeyOf(c) \in X
  PROVE  KeyOf(a) \in X
<1>1. v \in admitted /\ c \in Up(user_leaves[v])
  BY DEF Knows
<1>2. user_leaves[v] \in Ids
  BY <1>1 DEF MapsInv, LeavesInv
<1>3. a \in Up(user_leaves[v])
  BY <1>1, <1>2, GraphUpAlgebra DEF UpAlgebra
<1> QED
  BY <1>1, <1>3 DEF Knows

graphVars == <<nodes, next_id, keys, user_leaves, received, admitted, left, faults, torn, entitled>>

(* Publishing changes nothing but the channel and what waits for it. *)
LEMMA PublishKeepsRest ==
  ASSUME UNCHANGED graphVars
  PROVE  /\ Ids' = Ids /\ Members' = Members
         /\ \A id : Up(id)' = Up(id)
         /\ GraphInv <=> GraphInv'
         /\ LeavesInv <=> LeavesInv'
         /\ \A n : KeyOf(n)' = KeyOf(n)
         /\ \A p : Issued(p)' <=> Issued(p)
<1>1. ASSUME NEW id PROVE Up(id)' = Up(id)
  BY DEF graphVars, Up, FirstOf, KG!LeafToRoot, KG!Parent, KG!Ids
<1>2. GraphInv <=> GraphInv'
  BY DEF graphVars, GraphInv, KP!Inv, KP!TypeOK, KP!LinksSound, KP!VerifyInvariants, KP!Ids,
         KP!LayersSound, KP!BoundsHold
<1>3. LeavesInv <=> LeavesInv'
  BY DEF graphVars, LeavesInv, Members, Childless, Ids
<1> QED
  BY <1>1, <1>2, <1>3 DEF graphVars, Ids, Members, KeyOf, Issued

LEMMA PublishStep ==
  ASSUME GraphInv, MapsInv, KnowInv, UNCHANGED graphVars, pending' \subseteq pending,
         \A w \in channel' : \/ w \in Wraps
                             \/ \E c, a \in DOMAIN keys : a \in Up(c) /\ w = WrapOf(c, a)
  PROVE  GraphInv' /\ MapsInv' /\ KnowInv'
<1>0. /\ Ids' = Ids /\ Members' = Members
      /\ \A id : Up(id)' = Up(id)
      /\ GraphInv' /\ LeavesInv'
      /\ \A n : KeyOf(n)' = KeyOf(n)
      /\ \A p : Issued(p)' <=> Issued(p)
  BY PublishKeepsRest DEF MapsInv
<1>1. MapsInv'
  BY <1>0 DEF MapsInv, graphVars, Root, KG!Root
<1>2. \A w \in Wraps' : \/ w \in Wraps
                        \/ \E c, a \in DOMAIN keys : a \in Up(c) /\ w = WrapOf(c, a)
  BY DEF Wraps
<1>3. ASSUME NEW w \in Wraps' PROVE Issued(w.under)'
  <2>1. CASE w \in Wraps
    BY <2>1, <1>0 DEF KnowInv
  <2>2. ASSUME NEW c \in DOMAIN keys, NEW a, w = WrapOf(c, a) PROVE Issued(w.under)'
    BY <2>2, <1>0, CurrentIsIssued DEF WrapOf
  <2> QED
    BY <2>1, <2>2, <1>2
<1>4. ASSUME NEW v \in Users \ torn' PROVE (\E X : Knows(v, X))'
  <2>1. PICK X : Knows(v, X)
    BY DEF KnowInv, graphVars
  <2>2. ASSUME NEW w \in Wraps', w.under \in X PROVE w.key \in X
    <3>1. CASE w \in Wraps
      BY <3>1, <2>1, <2>2 DEF Knows
    <3>2. ASSUME NEW c \in DOMAIN keys, NEW a \in DOMAIN keys, a \in Up(c), w = WrapOf(c, a)
          PROVE  w.key \in X
      BY <3>2, <2>1, <2>2, CurrentWrapsAddNothing DEF WrapOf
    <3> QED
      BY <3>1, <3>2, <1>2
  <2>3. Up(user_leaves[v])' = Up(user_leaves[v])
    BY <1>0 DEF graphVars
  <2>4. Knows(v, X)'
    <3>1. received'[v] \subseteq X /\ \A p \in X : Issued(p)'
      BY <2>1, <1>0 DEF Knows, graphVars
    <3>2. \A n \in DOMAIN keys' : KeyOf(n)' \in X <=> (v \in admitted' /\ n \in Up(user_leaves[v])')
      BY <2>1, <2>3, <1>0 DEF Knows, graphVars
    <3>3. \A p \in X : p[1] = Root => <<v, p[2]>> \in entitled'
      BY <2>1 DEF Knows, graphVars
    <3> QED
      BY <3>1, <3>2, <3>3, <2>2 DEF Knows, Root, KG!Root
  <2> QED
    BY <2>4
<1> QED
  BY <1>0, <1>1, <1>3, <1>4 DEF KnowInv

(* Every item wraps a parent's current key under a child's.                *)
LEMMA ItemsAreCurrent ==
  ASSUME GraphInv, MapsInv, NEW w \in EncryptedDataItems
  PROVE  \E c, a \in DOMAIN keys : a \in Up(c) /\ w = WrapOf(c, a)
<1>1. ~ItemsFail
  BY DEF EncryptedDataItems
<1>2. PICK n \in DOMAIN keys : KG!Parent(n) # KG!None /\ w = WrapOf(n, KG!Parent(n))
  BY <1>1 DEF EncryptedDataItems, WrapOf
<1>3. n \in Ids /\ KG!Parent(n) = nodes[n].parent
  BY <1>2, SameGraph DEF MapsInv, KG!Parent
<1>4. KG!Parent(n) \in DOMAIN keys
  BY <1>1, <1>2 DEF ItemsFail
<1>5. n # Root
  BY <1>2, <1>3, GraphPlain, SameGraph
<1>6. nodes[n].parent \in Up(n)
  BY <1>3, <1>5, GraphUpFacts DEF UpFacts, ParentClosed
<1> QED
  BY <1>2, <1>3, <1>4, <1>6

LEMMA CommuniqueStep ==
  ASSUME GraphInv, MapsInv, KnowInv, NEW r \in pending, NEW s \in Strategies, Communiques(r, s)
  PROVE  /\ UNCHANGED graphVars /\ pending' = pending \ {r}
         /\ \A w \in channel' : \/ w \in Wraps
                                \/ \E c, a \in DOMAIN keys : a \in Up(c) /\ w = WrapOf(c, a)
         /\ channel \subseteq channel'
         /\ s # "UserOriented" => r.messages \subseteq channel'
         /\ s = "UserOriented" =>
              \A u \in Members : \A n \in r.replaced \cap Up(user_leaves[u]) :
                WrapOf(user_leaves[u], n) \in channel'
<1>1. UNCHANGED graphVars /\ pending' = pending \ {r}
  BY DEF Communiques, graphVars
<1>2. s \in {"KeyOriented", "GroupOriented", "UserOriented"}
  BY CallerAssumption
<1>3. CASE s = "KeyOriented"
  <2>1. channel' = channel \cup UNION KeyOriented(r)
    BY <1>3 DEF Communiques
  <2>2. UNION KeyOriented(r) = r.messages
    BY DEF KeyOriented
  <2> QED
    BY <2>1, <2>2, <1>1, <1>3 DEF Wraps
<1>4. CASE s = "GroupOriented"
  <2>1. channel' = channel \cup UNION GroupOriented(r)
    BY <1>4 DEF Communiques
  <2>2. UNION GroupOriented(r) = r.messages
    BY DEF GroupOriented
  <2> QED
    BY <2>1, <2>2, <1>1, <1>4 DEF Wraps
<1>5. CASE s = "UserOriented"
  <2>1. channel' = channel \cup UNION UserOriented(r)
    BY <1>5 DEF Communiques
  <2>2. ASSUME NEW u \in Members
        PROVE  /\ KG!LeafToRoot(user_leaves[u])[1] = user_leaves[u]
               /\ FirstOf(KG!LeafToRoot(user_leaves[u]), Len(KG!LeafToRoot(user_leaves[u])))
                    = Up(user_leaves[u])
               /\ user_leaves[u] \in DOMAIN keys /\ Up(user_leaves[u]) \subseteq Ids
    <3>1. user_leaves[u] \in Ids /\ user_leaves[u] \in DOMAIN keys
      BY DEF MapsInv, LeavesInv
    <3> QED
      BY <3>1, GraphPathFacts, GraphUpFacts DEF PathFacts, UpFacts, Up
  <2>3. UNION UserOriented(r) =
          UNION {{WrapOf(user_leaves[u], n) : n \in r.replaced \cap Up(user_leaves[u])} : u \in Members}
    <3> DEFINE A(u) == {[under |-> KeyOf(KG!LeafToRoot(user_leaves[u])[1]), key |-> KeyOf(n)] :
                          n \in r.replaced \cap FirstOf(KG!LeafToRoot(user_leaves[u]),
                                                        Len(KG!LeafToRoot(user_leaves[u])))}
               B(u) == {WrapOf(user_leaves[u], n) : n \in r.replaced \cap Up(user_leaves[u])}
    <3>1. UserOriented(r) = {A(u) : u \in Members} \ {{}}
      BY DEF UserOriented
    <3>2. ASSUME NEW u \in Members PROVE A(u) = B(u)
      BY <2>2 DEF WrapOf
    <3> HIDE DEF A, B
    <3>3. UNION UserOriented(r) = UNION {B(u) : u \in Members}
      BY <3>1, <3>2
    <3> QED
      BY <3>3 DEF B
  <2>4. \A w \in UNION UserOriented(r) :
          \E c, a \in DOMAIN keys : a \in Up(c) /\ w = WrapOf(c, a)
    <3>1. r.replaced \cap Ids \subseteq DOMAIN keys
      BY DEF MapsInv
    <3> QED
      BY <3>1, <2>2, <2>3
  <2>5. \A u \in Members : \A n \in r.replaced \cap Up(user_leaves[u]) :
          WrapOf(user_leaves[u], n) \in channel'
    BY <2>1, <2>3
  <2> QED
    BY <2>1, <2>4, <2>5, <1>1, <1>5 DEF Wraps
<1> QED
  BY <1>2, <1>3, <1>4, <1>5

-----------------------------------------------------------------------------
(* build.  The positions are defined for every node of the tree: by        *)
(* induction on how many of them there are.                                *)
HeapStep(f, i) == IF i = 0 THEN <<>> ELSE Append(f[(i - 1) \div 2], (i - 1) % 2)

LEMMA HeapArithmetic ==
  ASSUME NEW i \in Nat, i # 0
  PROVE  /\ (i - 1) \div 2 \in 0 .. i - 1 /\ (i - 1) % 2 \in 0 .. 1
         /\ \A p \in Nat : (i - 1) \div 2 = p <=> i \in {2 * p + 1, 2 * p + 2}
OBVIOUS

LEMMA AppendsBit ==
  ASSUME NEW x \in Seq(0 .. 1), NEW b \in 0 .. 1
  PROVE  Append(x, b) \in Seq(0 .. 1)
OBVIOUS

LEMMA HeapExists ==
  ASSUME NEW n \in Nat
  PROVE  \E f \in [0 .. n -> Seq(0 .. 1)] : \A i \in 0 .. n : f[i] = HeapStep(f, i)
<1> DEFINE T == {m \in Nat : \E f \in [0 .. m -> Seq(0 .. 1)] : \A i \in 0 .. m : f[i] = HeapStep(f, i)}
<1>1. 0 \in T
  <2> DEFINE f == [i \in 0 .. 0 |-> <<>>]
  <2>1. f \in [0 .. 0 -> Seq(0 .. 1)] /\ \A i \in 0 .. 0 : f[i] = HeapStep(f, i)
    BY DEF HeapStep
  <2> HIDE DEF f
  <2> QED
    BY <2>1
<1>2. ASSUME NEW m \in Nat, m \in T PROVE m + 1 \in T
  <2>1. PICK f \in [0 .. m -> Seq(0 .. 1)] : \A i \in 0 .. m : f[i] = HeapStep(f, i)
    BY <1>2
  <2> DEFINE g == [i \in 0 .. m + 1 |-> IF i = m + 1 THEN HeapStep(f, i) ELSE f[i]]
  <2>2. \A i \in 0 .. m + 1 : HeapStep(g, i) = HeapStep(f, i)
    <3> SUFFICES ASSUME NEW i \in 0 .. m + 1, i # 0
                 PROVE  g[(i - 1) \div 2] = f[(i - 1) \div 2]
      BY DEF HeapStep
    <3>1. (i - 1) \div 2 \in 0 .. m
      BY HeapArithmetic
    <3> QED
      BY <3>1
  <2>3. HeapStep(f, m + 1) \in Seq(0 .. 1)
    <3>1. m \div 2 \in 0 .. m /\ m % 2 \in 0 .. 1
      OBVIOUS
    <3>2. HeapStep(f, m + 1) = Append(f[m \div 2], m % 2)
      BY DEF HeapStep
    <3>3. f[m \div 2] \in Seq(0 .. 1)
      BY <3>1
    <3> QED
      BY <3>1, <3>2, <3>3, AppendsBit
  <2>4. g \in [0 .. m + 1 -> Seq(0 .. 1)]
    BY <2>3
  <2>5. ASSUME NEW i \in 0 .. m + 1 PROVE g[i] = HeapStep(g, i)
    <3>1. HeapStep(g, i) = HeapStep(f, i)
      BY <2>2
    <3>2. g[i] = IF i = m + 1 THEN HeapStep(f, i) ELSE f[i]
      OBVIOUS
    <3>3. i # m + 1 => f[i] = HeapStep(f, i)
      BY <2>1
    <3> HIDE DEF g
    <3> QED
      BY <3>1, <3>2, <3>3
  <2> HIDE DEF g
  <2>6. \E h \in [0 .. m + 1 -> Seq(0 .. 1)] : \A i \in 0 .. m + 1 : h[i] = HeapStep(h, i)
    BY <2>4, <2>5
  <2>7. m + 1 \in Nat
    OBVIOUS
  <2> QED
    BY <2>6, <2>7, Zenon
<1>3. Nat \subseteq T
  <2> HIDE DEF T
  <2> QED
    BY <1>1, <1>2, GraphBounds, KP!SetInduction
<1> QED
  BY <1>3

LEMMA HeapFacts ==
  /\ N \in Nat \ {0} /\ 2 * N - 2 \in Nat
  /\ HeapPosition \in [0 .. 2 * N - 2 -> Seq(0 .. 1)]
  /\ HeapPosition[0] = <<>>
  /\ \A i \in 0 .. 2 * N - 2 : i # 0 =>
       HeapPosition[i] = Append(HeapPosition[(i - 1) \div 2], (i - 1) % 2)
<1>1. N \in Nat \ {0} /\ 2 * N - 2 \in Nat
  BY FoundersAssumption DEF N
<1> DEFINE Rec(f) == [i \in 0 .. 2 * N - 2 |->
             IF i = 0 THEN <<>> ELSE Append(f[(i - 1) \div 2], (i - 1) % 2)]
<1>2. HeapPosition = CHOOSE f : f = Rec(f)
  BY DEF HeapPosition
<1>3. \E f : f = Rec(f)
  <2>1. PICK f \in [0 .. 2 * N - 2 -> Seq(0 .. 1)] : \A i \in 0 .. 2 * N - 2 : f[i] = HeapStep(f, i)
    BY <1>1, HeapExists
  <2>2. f = Rec(f)
    BY <2>1 DEF HeapStep
  <2> QED
    BY <2>2
<1>4. HeapPosition = Rec(HeapPosition)
  BY <1>2, <1>3
<1>5. /\ \A i \in 0 .. 2 * N - 2 : HeapPosition[i] = Rec(HeapPosition)[i]
      /\ DOMAIN HeapPosition = 0 .. 2 * N - 2
  BY <1>4
<1>6. \A i \in 0 .. 2 * N - 2 : HeapPosition[i] = HeapStep(HeapPosition, i)
  BY <1>5 DEF HeapStep
<1>7. HeapPosition \in [0 .. 2 * N - 2 -> Seq(0 .. 1)]

  <2> DEFINE T == {m \in Nat : \A i \in 0 .. m : i <= 2 * N - 2 => HeapPosition[i] \in Seq(0 .. 1)}
  <2>1. 0 \in T
    <3>1. 0 \in 0 .. 2 * N - 2 /\ \A i \in 0 .. 0 : i = 0
      BY <1>1
    <3>2. HeapPosition[0] = <<>> /\ <<>> \in Seq(0 .. 1)
      BY <3>1, <1>6 DEF HeapStep
    <3> QED
      BY <3>1, <3>2
  <2>2. ASSUME NEW m \in Nat, m \in T PROVE m + 1 \in T
    <3> SUFFICES ASSUME m + 1 <= 2 * N - 2 PROVE HeapPosition[m + 1] \in Seq(0 .. 1)
      BY <2>2
    <3>1. m \div 2 \in 0 .. m /\ m % 2 \in 0 .. 1 /\ m <= 2 * N - 2
      BY <1>1
    <3>2. HeapPosition[m \div 2] \in Seq(0 .. 1)
      BY <3>1, <2>2, <1>1
    <3>3. m + 1 \in 0 .. 2 * N - 2 /\ m + 1 # 0 /\ (m + 1) - 1 = m
      BY <1>1
    <3>4. HeapPosition[m + 1] = Append(HeapPosition[m \div 2], m % 2)
      BY <3>3, <1>6 DEF HeapStep
    <3> QED
      BY <3>1, <3>2, <3>4, AppendsBit
  <2>3. Nat \subseteq T
    <3> HIDE DEF T
    <3> QED
      BY <2>1, <2>2, GraphBounds, KP!SetInduction
  <2>4. \A i \in 0 .. 2 * N - 2 : HeapPosition[i] \in Seq(0 .. 1)
    BY <2>3, <1>1
  <2>5. HeapPosition = [i \in 0 .. 2 * N - 2 |-> HeapPosition[i]]
    <3>1. \E f : HeapPosition = Rec(f)
      BY <1>4
    <3> QED
      BY <3>1
  <2> QED
    BY <2>4, <2>5
<1>8. 0 \in 0 .. 2 * N - 2
  BY <1>1
<1>9. HeapPosition[0] = <<>>
  BY <1>6, <1>8 DEF HeapStep
<1>10. ASSUME NEW i \in 0 .. 2 * N - 2, i # 0
       PROVE  HeapPosition[i] = Append(HeapPosition[(i - 1) \div 2], (i - 1) % 2)
  BY <1>6, <1>10 DEF HeapStep
<1> QED
  BY <1>1, <1>7, <1>9, <1>10

(* A set of indices has a greatest one. *)
LEMMA HasGreatest ==
  ASSUME NEW n \in Nat, NEW S \in SUBSET (1 .. n), S # {}
  PROVE  \E i \in S : \A j \in S : j <= i
<1> DEFINE T == {m \in Nat : \A Q \in SUBSET (1 .. m) : Q # {} => \E i \in Q : \A j \in Q : j <= i}
<1>1. 0 \in T
  <2>1. 1 .. 0 = {}
    OBVIOUS
  <2> QED
    BY <2>1
<1>2. ASSUME NEW m \in Nat, m \in T PROVE m + 1 \in T
  <2> SUFFICES ASSUME NEW Q \in SUBSET (1 .. m + 1), Q # {}
               PROVE  \E i \in Q : \A j \in Q : j <= i
    OBVIOUS
  <2>1. CASE m + 1 \in Q
    BY <2>1
  <2>2. CASE m + 1 \notin Q
    <3>1. Q \in SUBSET (1 .. m)
      BY <2>2
    <3> QED
      BY <3>1, <1>2
  <2> QED
    BY <2>1, <2>2
<1>3. Nat \subseteq T
  <2> HIDE DEF T
  <2> QED
    BY <1>1, <1>2, GraphBounds, KP!SetInduction
<1> QED
  BY <1>3

(* The tree build starts from is a key graph within its bounds. *)
LEMMA BuildGraph ==
  ASSUME Init
  PROVE  /\ GraphInv /\ Ids = 0 .. 2 * N - 2 /\ next_id = 2 * N - 1
         /\ \A i \in Ids : nodes[i].parent = IF i = 0 THEN -1 ELSE (i - 1) \div 2
<1> DEFINE D == 0 .. 2 * N - 2
           node(i) == [position  |-> HeapPosition[i],
                       layer     |-> Len(HeapPosition[i]),
                       parent    |-> IF i = 0 THEN -1 ELSE (i - 1) \div 2,
                       children  |-> {2 * i + 1, 2 * i + 2} \cap D,
                       key_epoch |-> 0]
<1>1. /\ N \in Nat \ {0} /\ 2 * N - 2 \in Nat /\ 2 * N - 1 \in Nat /\ 0 \in D
      /\ HeapPosition \in [D -> Seq(0 .. 1)] /\ HeapPosition[0] = <<>>
      /\ \A i \in D : i # 0 =>
           HeapPosition[i] = Append(HeapPosition[(i - 1) \div 2], (i - 1) % 2)
  BY HeapFacts
<1>2. nodes = [i \in D |-> node(i)] /\ next_id = 2 * N - 1
  BY SameGraph DEF Init, Build
<1>3. Ids = D /\ \A i \in D : nodes[i] = node(i)
  BY <1>2 DEF Ids
<1> HIDE DEF D
<1>4. D \subseteq Nat /\ D = 0 .. 2 * N - 2
  BY <1>1 DEF D
<1>5. ASSUME NEW i \in D
      PROVE  /\ nodes[i].position = HeapPosition[i] /\ nodes[i].layer = Len(HeapPosition[i])
             /\ nodes[i].parent = IF i = 0 THEN -1 ELSE (i - 1) \div 2
             /\ nodes[i].children = {2 * i + 1, 2 * i + 2} \cap D
  <2>1. nodes[i] = node(i)
    BY <1>3
  <2>2. /\ node(i).position = HeapPosition[i] /\ node(i).layer = Len(HeapPosition[i])
        /\ node(i).parent = IF i = 0 THEN -1 ELSE (i - 1) \div 2
        /\ node(i).children = {2 * i + 1, 2 * i + 2} \cap D
    OBVIOUS
  <2> HIDE DEF node
  <2> QED
    BY <2>1, <2>2
<1>6. ASSUME NEW i \in D, i # 0 PROVE (i - 1) \div 2 \in D /\ (i - 1) \div 2 \in Nat
  <2>1. i \in Nat
    BY <1>4
  <2>2. (i - 1) \div 2 \in 0 .. i - 1
    BY <2>1, <1>6, HeapArithmetic
  <2> QED
    BY <2>1, <2>2, <1>1, <1>4
<1>7. ASSUME NEW i \in D PROVE node(i) \in KP!Node
  <2>1. HeapPosition[i] \in Seq(0 .. MaxBreadth) /\ Len(HeapPosition[i]) \in Nat
    <3>1. 0 .. 1 \subseteq 0 .. MaxBreadth
      BY RoomAssumption
    <3> DEFINE x == HeapPosition[i]
    <3>2. x \in Seq(0 .. 1)
      BY <1>1
    <3> HIDE DEF x
    <3>3. Len(x) \in Nat /\ x \in [1 .. Len(x) -> 0 .. 1]
      BY <3>2
    <3>4. x \in [1 .. Len(x) -> 0 .. MaxBreadth]
      BY <3>1, <3>3
    <3>5. x \in Seq(0 .. MaxBreadth)
      BY <3>3, <3>4, SeqDef
    <3> QED
      BY <3>3, <3>5 DEF x
  <2>2. (IF i = 0 THEN -1 ELSE (i - 1) \div 2) \in Nat \cup {-1}
    BY <1>6
  <2>3. {2 * i + 1, 2 * i + 2} \cap D \in SUBSET Nat
    BY <1>4
  <2> QED
    BY <2>1, <2>2, <2>3 DEF KP!Node, KP!NodeId, KP!None
<1>8. KP!TypeOK
  <2>1. nodes \in [D -> KP!Node]
    BY <1>2, <1>7
  <2>2. KP!Ids = D /\ KP!Root = 0
    BY <1>3, SameGraph
  <2>3. next_id \in Nat /\ D \subseteq 0 .. next_id - 1
    BY <1>1, <1>2 DEF D
  <2> QED
    BY <2>1, <2>2, <2>3, <1>1 DEF KP!TypeOK
<1>9. ASSUME NEW p \in D PROVE nodes[p].children = {c \in D : nodes[c].parent = p}
  <2>1. ASSUME NEW c \in D
        PROVE  nodes[c].parent = p <=> c \in {2 * p + 1, 2 * p + 2}
    <3>1. c \in Nat /\ p \in Nat
      BY <1>4
    <3>2. CASE c = 0
      BY <3>1, <3>2, <1>5
    <3>3. CASE c # 0
      <4>1. nodes[c].parent = (c - 1) \div 2
        BY <3>3, <1>5
      <4> QED
        BY <4>1, <3>1, <3>3, HeapArithmetic
    <3> QED
      BY <3>2, <3>3
  <2>2. nodes[p].children = {2 * p + 1, 2 * p + 2} \cap D
    BY <1>5
  <2> QED
    BY <2>1, <2>2
<1>10. KP!LinksSound
  <2>1. KP!Ids = D /\ KP!Root = 0 /\ KP!None = -1
    BY <1>3, SameGraph
  <2>2. ASSUME NEW id \in D, nodes[id].parent # -1
        PROVE  nodes[id].parent \in D /\ id \in nodes[nodes[id].parent].children
    <3>1. nodes[id].parent \in D
      BY <2>2, <1>5, <1>6
    <3> QED
      BY <3>1, <1>9
  <2>3. ASSUME NEW id \in D, nodes[id].parent = -1 PROVE id = 0
    <3> SUFFICES ASSUME id # 0 PROVE FALSE
      OBVIOUS
    <3>1. (id - 1) \div 2 \in Nat /\ (id - 1) \div 2 = -1
      BY <2>3, <1>5, <1>6
    <3> QED
      BY <3>1
  <2>4. 0 \in D /\ nodes[0].parent = -1
    BY <1>1, <1>5
  <2> QED
    BY <2>1, <2>2, <2>3, <2>4, <1>9 DEF KP!LinksSound, KP!VerifyInvariants
<1>11. KP!LayersSound
  <2>1. KP!Ids = D /\ KP!Root = 0
    BY <1>3, SameGraph
  <2>2. ASSUME NEW id \in D
        PROVE  /\ nodes[id].layer = IF id = 0 THEN 0 ELSE nodes[nodes[id].parent].layer + 1
               /\ nodes[id].layer = Len(nodes[id].position)
               /\ nodes[id].layer <= MaxDepth
    <3>1. nodes[id].layer = Len(nodes[id].position) /\ nodes[id].layer <= MaxDepth
      BY <1>4, <1>5, RoomAssumption
    <3>2. CASE id = 0
      BY <3>1, <3>2, <1>1, <1>5
    <3>3. CASE id # 0
      <4> DEFINE q == (id - 1) \div 2
      <4>1. q \in D /\ nodes[id].parent = q
        BY <3>3, <1>5, <1>6
      <4>2. HeapPosition[id] = Append(HeapPosition[q], (id - 1) % 2)
        BY <3>3, <1>1
      <4>3. HeapPosition[q] \in Seq(0 .. 1)
        BY <4>1, <1>1
      <4> HIDE DEF q
      <4>4. Len(HeapPosition[id]) = Len(HeapPosition[q]) + 1
        BY <4>2, <4>3, AppendProperties
      <4> QED
        BY <4>1, <4>4, <3>1, <3>3, <1>5
    <3> QED
      BY <3>1, <3>2, <3>3
  <2> QED
    BY <2>1, <2>2 DEF KP!LayersSound
<1>12. KP!BoundsHold
  <2>1. KP!Ids = D
    BY <1>3, SameGraph
  <2>2. Cardinality(D) = 2 * N - 1
    BY <1>1, FS_Interval DEF D
  <2>3. ASSUME NEW id \in D PROVE Cardinality(nodes[id].children) <= MaxBreadth
    <3> DEFINE a == 2 * id + 1
               b == 2 * id + 2
    <3>1. IsFiniteSet({a, b}) /\ Cardinality({a, b}) <= 2 /\ Cardinality({a, b}) \in Nat
      <4>1. IsFiniteSet({a}) /\ Cardinality({a}) = 1
        BY FS_Singleton
      <4>2. {a, b} = {a} \cup {b}
        OBVIOUS
      <4> HIDE DEF a, b
      <4>3. IsFiniteSet({a} \cup {b}) /\ Cardinality({a} \cup {b}) = IF b \in {a} THEN 1 ELSE 2
        BY <4>1, FS_AddElement
      <4> QED
        BY <4>2, <4>3
    <3>2. nodes[id].children \subseteq {a, b}
      BY <1>5
    <3> HIDE DEF a, b
    <3>3. Cardinality(nodes[id].children) <= Cardinality({a, b}) /\ Cardinality(nodes[id].children) \in Nat
      BY <3>1, <3>2, FS_Subset, FS_CardinalityType
    <3> QED
      BY <3>1, <3>3, RoomAssumption
  <2> QED
    BY <2>1, <2>2, <2>3, SameCounts, RoomAssumption DEF KP!BoundsHold
<1> QED
  BY <1>2, <1>3, <1>4, <1>5, <1>8, <1>10, <1>11, <1>12 DEF GraphInv, KP!Inv

(* build gives every founder a leaf of the last layer of its own. *)
LEMMA BuildLeaves ==
  ASSUME Init
  PROVE  /\ Members \subseteq Users
         /\ user_leaves = [u \in Members |-> user_leaves[u]]
         /\ \A u \in Members : user_leaves[u] \in N - 1 .. 2 * N - 2
         /\ \A u, v \in Members : user_leaves[u] = user_leaves[v] => u = v
<1> DEFINE P(u, i) == Founders[i] = u /\ \A j \in i + 1 .. N : Founders[j] # u
           last(u) == CHOOSE i \in 1 .. N : P(u, i)
           M == {Founders[i] : i \in 1 .. N}
<1>1. user_leaves = [u \in M |-> N - 2 + last(u)]
  BY DEF Init, Build
<1>2. N \in Nat \ {0} /\ Founders \in Seq(Users) /\ \A i \in 1 .. N : Founders[i] \in Users
  BY FoundersAssumption DEF N
<1>3. ASSUME NEW u \in M PROVE last(u) \in 1 .. N /\ Founders[last(u)] = u
  <2> DEFINE S == {i \in 1 .. N : Founders[i] = u}
  <2>1. S \in SUBSET (1 .. N) /\ S # {}
    OBVIOUS
  <2>2. PICK i \in S : \A j \in S : j <= i
    <3> HIDE DEF S
    <3> QED
      BY <2>1, <1>2, HasGreatest
  <2>3. i \in 1 .. N /\ P(u, i)
    BY <2>2, <1>2
  <2>4. \E x \in 1 .. N : P(u, x)
    BY <2>3
  <2> QED
    BY <2>4
<1> HIDE DEF last, M
<1>4. Members = M
  BY <1>1 DEF Members
<1>5. \A u \in M : user_leaves[u] = N - 2 + last(u)
  BY <1>1
<1>6. M \subseteq Users
  BY <1>2 DEF M
<1>7. \A u \in M : user_leaves[u] \in N - 1 .. 2 * N - 2
  BY <1>2, <1>3, <1>5
<1>8. ASSUME NEW u \in M, NEW v \in M, user_leaves[u] = user_leaves[v] PROVE u = v
  <2>1. last(u) = last(v)
    BY <1>2, <1>3, <1>5, <1>8
  <2> QED
    BY <2>1, <1>3
<1>9. user_leaves = [u \in M |-> user_leaves[u]]
  BY <1>1
<1> QED
  BY <1>4, <1>6, <1>7, <1>8, <1>9

LEMMA InitMaps ==
  ASSUME Init
  PROVE  MapsInv /\ keys = [i \in Ids |-> 0] /\ ~ItemsFail
<1>1. /\ GraphInv /\ Ids = 0 .. 2 * N - 2 /\ next_id = 2 * N - 1
      /\ \A i \in Ids : nodes[i].parent = IF i = 0 THEN -1 ELSE (i - 1) \div 2
  BY BuildGraph
<1>2. /\ Members \subseteq Users
      /\ user_leaves = [u \in Members |-> user_leaves[u]]
      /\ \A u \in Members : user_leaves[u] \in N - 1 .. 2 * N - 2
      /\ \A u, v \in Members : user_leaves[u] = user_leaves[v] => u = v
  BY BuildLeaves
<1>3. N \in Nat \ {0}
  BY HeapFacts
<1>4. keys = [i \in Ids |-> 0]
  BY <1>1 DEF Init, Build
<1>5. /\ pending = {} /\ admitted = Members /\ left = {} /\ faults = 0
      /\ received = [u \in Users |-> IF u \in Members THEN {KeyOf(user_leaves[u])} ELSE {}]
  BY DEF Init
<1>6. /\ keys \in [DOMAIN keys -> Nat] /\ DOMAIN keys = Ids /\ Root \in DOMAIN keys
      /\ \A i \in Ids : keys[i] = 0
  BY <1>1, <1>4, GraphPlain
<1>7. ASSUME NEW u \in Members
      PROVE  /\ user_leaves[u] \in Ids /\ user_leaves[u] \in Nat
             /\ Childless(user_leaves[u])
  <2>1. user_leaves[u] \in N - 1 .. 2 * N - 2
    BY <1>2
  <2>2. user_leaves[u] \in Ids /\ user_leaves[u] \in Nat
    BY <2>1, <1>1, <1>3
  <2>3. ASSUME NEW m \in Ids, nodes[m].parent = user_leaves[u] PROVE FALSE
    <3>1. m \in Nat /\ m <= 2 * N - 2 /\ m # 0 /\ (m - 1) \div 2 = user_leaves[u]
      BY <2>2, <2>3, <1>1, <1>3
    <3>2. m \in {2 * user_leaves[u] + 1, 2 * user_leaves[u] + 2}
      BY <3>1, <2>2, HeapArithmetic
    <3> QED
      BY <3>1, <3>2, <2>1, <1>3
  <2> QED
    BY <2>2, <2>3 DEF Childless
<1>8. LeavesInv
  BY <1>2, <1>6, <1>7 DEF LeavesInv
<1>9. \A u \in Members : KeyOf(user_leaves[u]) = <<user_leaves[u], 0>>
  BY <1>6, <1>7 DEF KeyOf
<1>10. received \in [Users -> SUBSET (Nat \X Nat)]
  <2>1. \A u \in Users : (IF u \in Members THEN {KeyOf(user_leaves[u])} ELSE {}) \in SUBSET (Nat \X Nat)
    BY <1>7, <1>9
  <2> QED
    BY <2>1, <1>5
<1>11. \A u \in Members : <<user_leaves[u], 0>> \in received[u]
  BY <1>2, <1>5, <1>9
<1>12. MapsInv
  BY <1>2, <1>5, <1>6, <1>8, <1>10, <1>11 DEF MapsInv
<1>13. ~ItemsFail
  <2> SUFFICES ASSUME NEW n \in DOMAIN keys
               PROVE  KG!Parent(n) \in DOMAIN keys \cup {KG!None}
    BY DEF ItemsFail
  <2>1. KG!Parent(n) = nodes[n].parent
    BY <1>6, SameGraph DEF KG!Parent
  <2> QED
    BY <2>1, <1>1, <1>6, GraphPlain, SameGraph
<1> QED
  BY <1>4, <1>12, <1>13

LEMMA InitKnow ==
  ASSUME Init, GraphInv, MapsInv
  PROVE  KnowInv
<1>1. /\ pending = {} /\ admitted = Members /\ channel = EncryptedDataItems
      /\ received = [u \in Users |-> IF u \in Members THEN {KeyOf(user_leaves[u])} ELSE {}]
      /\ entitled = {<<u, keys[Root]>> : u \in Members}
  BY DEF Init
<1>2. Wraps = EncryptedDataItems
  BY <1>1 DEF Wraps
<1>3. \A w \in Wraps : \E c, a \in DOMAIN keys : a \in Up(c) /\ w = WrapOf(c, a)
  BY <1>2, ItemsAreCurrent
<1>4. \A w \in Wraps : Issued(w.under)
  BY <1>3, CurrentIsIssued DEF WrapOf
<1>5. ASSUME NEW v \in Users \ torn PROVE \E X : Knows(v, X)
  <2> DEFINE P == {n \in DOMAIN keys : v \in admitted /\ n \in Up(user_leaves[v])}
             X == {KeyOf(n) : n \in P}
  <2> HIDE DEF P
  <2>0. P \subseteq DOMAIN keys
    BY DEF P
  <2>1. \A n \in DOMAIN keys : KeyOf(n) \in X <=> n \in P
    BY <2>0 DEF KeyOf
  <2>2. \A p \in X : Issued(p)
    BY <2>0, CurrentIsIssued
  <2>3. received[v] \subseteq X
    <3> SUFFICES ASSUME v \in Members PROVE user_leaves[v] \in P
      BY <1>1
    <3>1. user_leaves[v] \in DOMAIN keys /\ user_leaves[v] \in Ids
      BY DEF MapsInv, LeavesInv
    <3> QED
      BY <3>1, <1>1, GraphUpFacts DEF P, UpFacts
  <2>4. ASSUME NEW w \in Wraps, w.under \in X PROVE w.key \in X
    <3>1. PICK c \in DOMAIN keys, a \in DOMAIN keys : a \in Up(c) /\ w = WrapOf(c, a)
      BY <1>3
    <3>2. c \in P /\ w.key = KeyOf(a)
      BY <3>1, <2>1, <2>4 DEF WrapOf
    <3>3. a \in P
      <4>1. v \in admitted /\ c \in Up(user_leaves[v]) /\ user_leaves[v] \in Ids
        BY <3>2 DEF P, MapsInv, LeavesInv
      <4> QED
        BY <4>1, <3>1, GraphUpAlgebra DEF P, UpAlgebra
    <3> QED
      BY <3>2, <3>3
  <2>5. ASSUME NEW p \in X, p[1] = Root PROVE <<v, p[2]>> \in entitled
    <3>1. PICK n \in P : p = KeyOf(n)
      BY <2>5
    <3>2. v \in Members /\ p[2] = keys[Root]
      BY <3>1, <2>5, <1>1 DEF P, KeyOf
    <3> QED
      BY <3>2, <1>1
  <2> HIDE DEF X
  <2>6. Knows(v, X)
    BY <2>1, <2>2, <2>3, <2>4, <2>5 DEF Knows, P
  <2> QED
    BY <2>6
<1> QED
  BY <1>4, <1>5 DEF KnowInv

-----------------------------------------------------------------------------
(* How new keys reach their readers.  While no call has failed every node  *)
(* has a key, and each node above an admitted user's leaf is covered: its  *)
(* current key is published under that leaf's key, or it is wrapped under  *)
(* its child on the path, in the channel or in a result that still waits   *)
(* and that says the node was replaced.                                    *)
Covered(v, n) ==
  \/ WrapOf(user_leaves[v], n) \in channel
  \/ \E c \in Up(user_leaves[v]) :
       /\ c # Root /\ nodes[c].parent = n
       /\ \/ WrapOf(c, n) \in channel
          \/ \E r \in pending : n \in r.replaced /\ WrapOf(c, n) \in r.messages

CoverInv ==
  faults = 0 =>
    /\ DOMAIN keys = Ids
    /\ \A v \in admitted : \A n \in Up(user_leaves[v]) : n # user_leaves[v] => Covered(v, n)

(* A node above id on its path has a child on that path. *)
ChildOnPath ==
  \A id \in Ids : \A n \in Up(id) : n # id => \E c \in Up(id) : c # Root /\ nodes[c].parent = n

LEMMA GraphChildOnPath == GraphInv => ChildOnPath
<1> SUFFICES ASSUME GraphInv, NEW id \in Ids, NEW n \in Up(id), n # id,
                    \A c \in Up(id) : c # Root => nodes[c].parent # n
             PROVE  FALSE
  BY DEF ChildOnPath
<1> DEFINE S == Up(id) \ {n}
<1>1. S \in SUBSET Ids /\ id \in S /\ ParentClosed(S)
  BY GraphUpFacts DEF UpFacts, ParentClosed
<1> HIDE DEF S
<1>2. Up(id) \subseteq S
  BY <1>1, GraphUpFacts DEF UpFacts
<1> QED
  BY <1>2 DEF S

LEMMA ChildOnPathAfter == GraphInv' => ChildOnPath'
BY GraphChildOnPath, PTL

LEMMA CoverStep ==
  ASSUME GraphInv, GraphInv', MapsInv, MapsInv', CoverInv,
         NEW R, KeysStep(R), UsersStep(R), ResultStep(R), DeliverStep(R)
  PROVE  CoverInv'
<1> SUFFICES ASSUME faults' = 0
             PROVE  /\ DOMAIN keys' = Ids'
                    /\ \A v \in admitted' : \A n \in Up(user_leaves[v])' :
                         n # user_leaves'[v] => Covered(v, n)'
  BY DEF CoverInv
<1>0. faults = 0 /\ faults' = faults
  BY DEF DeliverStep, MapsInv
<1>1. /\ ParentClosed(R) /\ DOMAIN keys = Ids /\ DOMAIN keys' = Ids'
      /\ pending \subseteq pending' /\ channel' = channel
      /\ \A n \in Ids \cap Ids' : nodes'[n].parent = nodes[n].parent
  BY <1>0 DEF DeliverStep, CoverInv, ResultStep
<1>2. PICK r \in pending' :
         /\ r.replaced = R
         /\ \A a \in R : \A c \in DOMAIN keys' \cap Ids' :
              nodes'[c].parent = a => WrapOf(c, a)' \in r.messages
  BY <1>0 DEF DeliverStep
<1>3. UpFacts' /\ ChildOnPath' /\ UpFacts
  BY PathsAfter, ChildOnPathAfter, GraphUpFacts
<1>4. ASSUME NEW v \in admitted', NEW n \in Up(user_leaves[v])', n # user_leaves'[v]
      PROVE  Covered(v, n)'
  <2>1. user_leaves'[v] \in Ids' /\ user_leaves'[v] \in DOMAIN keys' /\ keys'[user_leaves'[v]] = 0
    BY DEF MapsInv, LeavesInv
  <2>2. \A x \in Up(user_leaves[v])' : x \in Ids'
    BY <2>1, <1>3 DEF UpFacts
  <2>3. CASE n \in R
    <3>1. PICK c \in Up(user_leaves[v])' : c # Root /\ nodes'[c].parent = n
      BY <2>1, <1>3, <1>4 DEF ChildOnPath, Root, KG!Root
    <3>2. WrapOf(c, n)' \in r.messages
      BY <3>1, <2>2, <2>3, <1>1, <1>2
    <3> QED
      BY <3>1, <3>2, <2>3, <1>2 DEF Covered, Root, KG!Root
  <2>4. CASE n \notin R
    <3>1. v \in admitted
      BY <2>4, <1>4 DEF UsersStep
    <3>2. user_leaves'[v] = user_leaves[v] /\ Up(user_leaves[v])' = Up(user_leaves[v])
      BY <3>1 DEF UsersStep
    <3>3. /\ user_leaves[v] \in Ids /\ user_leaves[v] \in DOMAIN keys /\ keys[user_leaves[v]] = 0
          /\ Up(user_leaves[v]) \subseteq Ids
      BY <3>1, <1>3 DEF MapsInv, LeavesInv, UpFacts
    <3>4. Covered(v, n)
      BY <3>1, <3>2, <1>0, <1>4 DEF CoverInv
    <3>5. ASSUME NEW x \in Ids, x \in Ids', x \notin R PROVE KeyOf(x)' = KeyOf(x)
      <4>1. ~Later(x)
        BY GraphPlain DEF Later
      <4>2. keys'[x] = keys[x]
        BY <4>1, <3>5, <1>1 DEF KeysStep
      <4> QED
        BY <4>2 DEF KeyOf
    <3>6. KeyOf(n)' = KeyOf(n)
      BY <3>2, <3>3, <3>5, <2>2, <2>4
    <3>7. \A l : l = user_leaves[v] => KeyOf(l)' = KeyOf(l)
      BY <3>2, <3>3, <2>1 DEF KeyOf
    <3>8. CASE WrapOf(user_leaves[v], n) \in channel
      <4>1. WrapOf(user_leaves[v], n)' = WrapOf(user_leaves[v], n)
        BY <3>2, <3>6, <3>7 DEF WrapOf
      <4> QED
        BY <4>1, <3>8, <1>1 DEF Covered
    <3>9. ASSUME NEW c \in Up(user_leaves[v]), c # Root, nodes[c].parent = n,
                 \/ WrapOf(c, n) \in channel
                 \/ \E q \in pending : n \in q.replaced /\ WrapOf(c, n) \in q.messages
          PROVE  Covered(v, n)'
      <4>1. c \in Up(user_leaves[v])' /\ c \in Ids' /\ c \in Ids
        BY <3>2, <3>3, <2>2
      <4>2. c \notin R
        BY <3>9, <2>4, <1>1 DEF ParentClosed
      <4>3. WrapOf(c, n)' = WrapOf(c, n)
        BY <4>1, <4>2, <3>5, <3>6 DEF WrapOf
      <4>4. nodes'[c].parent = n
        BY <4>1, <3>9, <1>1
      <4> QED
        BY <4>1, <4>3, <4>4, <3>9, <1>1 DEF Covered, Root, KG!Root
    <3> QED
      BY <3>4, <3>8, <3>9 DEF Covered
  <2> QED
    BY <2>3, <2>4
<1> QED
  BY <1>1, <1>4

(* Packaging hands every wait over to the channel, whatever the strategy. *)
LEMMA CoverPublish ==
  ASSUME GraphInv, MapsInv, CoverInv, UNCHANGED graphVars, channel \subseteq channel',
         \A r \in pending \ pending' :
           \/ r.messages \subseteq channel'
           \/ \A u \in Members : \A n \in r.replaced \cap Up(user_leaves[u]) :
                WrapOf(user_leaves[u], n) \in channel'
  PROVE  CoverInv'
<1> SUFFICES ASSUME faults' = 0
             PROVE  /\ DOMAIN keys' = Ids'
                    /\ \A v \in admitted' : \A n \in Up(user_leaves[v])' :
                         n # user_leaves'[v] => Covered(v, n)'
  BY DEF CoverInv
<1>1. /\ Ids' = Ids /\ \A id : Up(id)' = Up(id)
      /\ \A n : KeyOf(n)' = KeyOf(n)
  BY PublishKeepsRest
<1>2. /\ faults = 0 /\ keys' = keys /\ user_leaves' = user_leaves /\ admitted' = admitted
      /\ nodes' = nodes
  BY DEF graphVars
<1>3. \A c, a : WrapOf(c, a)' = WrapOf(c, a)
  BY <1>1 DEF WrapOf
<1>4. ASSUME NEW v \in admitted, NEW n \in Up(user_leaves[v]), n # user_leaves[v]
      PROVE  Covered(v, n)'
  <2>0. /\ Up(user_leaves[v])' = Up(user_leaves[v])
        /\ WrapOf(user_leaves[v], n)' = WrapOf(user_leaves[v], n)
    BY <1>1, <1>2, <1>3
  <2>1. Covered(v, n) /\ v \in Members
    BY <1>2, <1>4 DEF CoverInv, MapsInv
  <2>2. CASE WrapOf(user_leaves[v], n) \in channel'
    BY <2>0, <2>2 DEF Covered
  <2>3. ASSUME NEW c \in Up(user_leaves[v]), c # Root, nodes[c].parent = n,
               WrapOf(c, n) \in channel'
        PROVE  Covered(v, n)'
    BY <2>0, <2>3, <1>2, <1>3 DEF Covered, Root, KG!Root
  <2>4. ASSUME NEW c \in Up(user_leaves[v]), c # Root, nodes[c].parent = n,
               NEW r \in pending, n \in r.replaced, WrapOf(c, n) \in r.messages
        PROVE  Covered(v, n)'
    <3>1. CASE r \in pending'
      BY <3>1, <2>0, <2>4, <1>2, <1>3 DEF Covered, Root, KG!Root
    <3>2. CASE r \notin pending'
      BY <3>2, <2>1, <2>2, <2>3, <2>4
    <3> QED
      BY <3>1, <3>2
  <2> QED
    BY <2>1, <2>2, <2>3, <2>4 DEF Covered
<1>5. DOMAIN keys = Ids
  BY <1>2 DEF CoverInv
<1>6. \A v \in admitted : Up(user_leaves[v])' = Up(user_leaves[v])
  BY <1>1, <1>2
<1> QED
  BY <1>1, <1>2, <1>4, <1>5, <1>6

LEMMA InitCover ==
  ASSUME Init, GraphInv, MapsInv
  PROVE  CoverInv
<1>1. DOMAIN keys = Ids /\ ~ItemsFail
  BY InitMaps
<1>2. channel = {WrapOf(n, KG!Parent(n)) : n \in {m \in DOMAIN keys : KG!Parent(m) # KG!None}}
  BY <1>1 DEF Init, EncryptedDataItems, WrapOf
<1>3. ASSUME NEW v \in admitted, NEW n \in Up(user_leaves[v]), n # user_leaves[v]
      PROVE  Covered(v, n)
  <2>1. user_leaves[v] \in Ids /\ Up(user_leaves[v]) \subseteq Ids
    BY GraphUpFacts DEF MapsInv, LeavesInv, UpFacts
  <2>2. PICK c \in Up(user_leaves[v]) : c # Root /\ nodes[c].parent = n
    BY <2>1, <1>3, GraphChildOnPath DEF ChildOnPath
  <2>3. KG!Parent(c) = n /\ KG!Parent(c) # KG!None /\ c \in DOMAIN keys
    BY <2>1, <2>2, <1>1, GraphPlain, SameGraph DEF KG!Parent
  <2> QED
    BY <2>2, <2>3, <1>2 DEF Covered
<1> QED
  BY <1>1, <1>3 DEF CoverInv

-----------------------------------------------------------------------------
(* The inductive invariant, part by part. *)
BroadcastInv == GraphInv /\ MapsInv /\ KnowInv /\ CoverInv

LEMMA BroadcastInvInit == Init => BroadcastInv
BY BuildGraph, InitMaps, InitKnow, InitCover DEF BroadcastInv

LEMMA BroadcastInvStep == Callers /\ BroadcastInv /\ [Next]_vars => BroadcastInv'
<1> SUFFICES ASSUME Callers, GraphInv, MapsInv, KnowInv, CoverInv, [Next]_vars
             PROVE  BroadcastInv'
  BY DEF BroadcastInv
<1>1. ASSUME NEW u \in Users, Leave(u) PROVE BroadcastInv'
  BY <1>1, LeaveStep, KnowledgeStep, CoverStep DEF BroadcastInv
<1>2. ASSUME NEW u \in Users, NEW s, Join(u, s) PROVE BroadcastInv'
  BY <1>2, JoinStep, KnowledgeStep, CoverStep DEF BroadcastInv
<1>3. ASSUME NEW u \in Users, NEW s, JoinLeafKeyFails(u, s) PROVE BroadcastInv'
  BY <1>3, FailedJoinStep, KnowledgeStep, CoverStep DEF BroadcastInv
<1>4. ASSUME NEW r \in pending, NEW s \in Strategies, Communiques(r, s) PROVE BroadcastInv'
  <2>1. /\ UNCHANGED graphVars /\ pending' = pending \ {r}
        /\ \A w \in channel' : \/ w \in Wraps
                               \/ \E c, a \in DOMAIN keys : a \in Up(c) /\ w = WrapOf(c, a)
        /\ channel \subseteq channel'
        /\ s # "UserOriented" => r.messages \subseteq channel'
        /\ s = "UserOriented" =>
             \A u \in Members : \A n \in r.replaced \cap Up(user_leaves[u]) :
               WrapOf(user_leaves[u], n) \in channel'
    BY <1>4, CommuniqueStep
  <2>2. GraphInv' /\ MapsInv' /\ KnowInv'
    BY <2>1, PublishStep
  <2>3. \A q \in pending \ pending' :
           \/ q.messages \subseteq channel'
           \/ \A u \in Members : \A n \in q.replaced \cap Up(user_leaves[u]) :
                WrapOf(user_leaves[u], n) \in channel'
    BY <2>1
  <2>4. CoverInv'
    BY <2>1, <2>3, CoverPublish
  <2> QED
    BY <2>2, <2>4 DEF BroadcastInv
<1>5. ASSUME PublishItems \/ UNCHANGED vars PROVE BroadcastInv'
  <2>1. UNCHANGED graphVars /\ pending' = pending
    BY <1>5 DEF PublishItems, vars, graphVars
  <2>2. channel \subseteq channel' /\ channel' \subseteq channel \cup EncryptedDataItems
    BY <1>5 DEF PublishItems, vars
  <2>3. \A w \in channel' : \/ w \in Wraps
                            \/ \E c, a \in DOMAIN keys : a \in Up(c) /\ w = WrapOf(c, a)
    BY <2>2, ItemsAreCurrent DEF Wraps
  <2>4. GraphInv' /\ MapsInv' /\ KnowInv'
    BY <2>1, <2>3, PublishStep
  <2>5. CoverInv'
    BY <2>1, <2>2, CoverPublish
  <2> QED
    BY <2>4, <2>5 DEF BroadcastInv
<1> QED
  BY <1>1, <1>2, <1>3, <1>4, <1>5 DEF Next

LEMMA BroadcastInvariant == Callers => (Spec => []BroadcastInv)
<1> SUFFICES ASSUME Callers PROVE Spec => []BroadcastInv
  OBVIOUS
<1>1. BroadcastInv /\ [Next]_vars => BroadcastInv'
  BY BroadcastInvStep
<1> QED
  BY <1>1, BroadcastInvInit, PTL DEF Spec

-----------------------------------------------------------------------------
(* What can be derived: the rounds of Reach, as its definition expands.    *)
ReachRounds(K, W) ==
  CHOOSE r : r = [k \in 0 .. MaxDepth |->
    IF k = 0 THEN K
    ELSE LET prev == r[k - 1]
         IN  prev \cup {w.key : w \in {x \in W : x.under \in prev}}]

LEMMA ReachEquations ==
  ASSUME NEW K, NEW W
  PROVE  LET r == ReachRounds(K, W)
         IN  /\ Reach(K, W) = r[MaxDepth] /\ r[0] = K
             /\ \A k \in 1 .. MaxDepth :
                  r[k] = r[k - 1] \cup {w.key : w \in {x \in W : x.under \in r[k - 1]}}
<1> DEFINE Round(prev) == prev \cup {w.key : w \in {x \in W : x.under \in prev}}
           Rec(f) == [k \in 0 .. MaxDepth |->
             IF k = 0 THEN K
             ELSE LET prev == f[k - 1]
                  IN  prev \cup {w.key : w \in {x \in W : x.under \in prev}}]
           X == SUBSET (K \cup {w.key : w \in W})
           step == [prev \in X |-> Round(prev)]
<1>1. Reach(K, W) = ReachRounds(K, W)[MaxDepth]
  BY DEF Reach, ReachRounds
<1>2. MaxDepth \in Nat
  BY GraphBounds
<1>3. \E f : f = Rec(f)
  <2>1. K \in X /\ step \in [X -> X]
    OBVIOUS
  <2>2. \A prev \in X : step[prev] = Round(prev)
    OBVIOUS
  <2> HIDE DEF X, step
  <2>3. PICK g \in [0 .. MaxDepth -> X] :
           g[0] = K /\ \A k \in 1 .. MaxDepth : g[k] = step[g[k - 1]]
    <3> DEFINE It(Y, y, st, m) ==
                 \E g \in [0 .. m -> Y] : g[0] = y /\ \A k \in 1 .. m : g[k] = st[g[k - 1]]
    <3>1. \A Y : \A y \in Y : \A st \in [Y -> Y] : \A m \in Nat : It(Y, y, st, m)
      BY GraphBounds, KP!IteratesExist
    <3> HIDE DEF It
    <3>2. It(X, K, step, MaxDepth)
      BY <3>1, <2>1, <1>2
    <3> QED
      BY <3>2 DEF It
  <2>4. ASSUME NEW k \in 0 .. MaxDepth PROVE g[k] = Rec(g)[k]
    <3>1. CASE k = 0
      BY <3>1, <2>3
    <3>2. CASE k # 0
      <4>1. k \in 1 .. MaxDepth /\ k - 1 \in 0 .. MaxDepth
        BY <3>2, <1>2
      <4>2. g[k] = Round(g[k - 1])
        BY <4>1, <2>2, <2>3
      <4> QED
        BY <3>2, <4>2
    <3> QED
      BY <3>1, <3>2
  <2>5. g = [k \in 0 .. MaxDepth |-> g[k]]
    BY <2>3
  <2>6. g = Rec(g)
    BY <2>4, <2>5
  <2> QED
    BY <2>6
<1>4. ReachRounds(K, W) = Rec(ReachRounds(K, W))
  BY <1>3 DEF ReachRounds
<1>5. /\ 0 \in 0 .. MaxDepth
      /\ \A k \in 1 .. MaxDepth : k \in 0 .. MaxDepth /\ k # 0
  BY <1>2
<1>6. \A k \in 0 .. MaxDepth : ReachRounds(K, W)[k] = Rec(ReachRounds(K, W))[k]
  BY <1>4
<1> QED
  BY <1>1, <1>5, <1>6

(* Whoever holds K derives no more than any closed set that holds K. *)
LEMMA ReachWithin ==
  ASSUME NEW K, NEW W, NEW X, K \subseteq X, \A w \in W : w.under \in X => w.key \in X
  PROVE  Reach(K, W) \subseteq X
<1> DEFINE r == ReachRounds(K, W)
           T == {k \in Nat : k <= MaxDepth => r[k] \subseteq X}
<1>1. /\ Reach(K, W) = r[MaxDepth] /\ r[0] = K /\ MaxDepth \in Nat
      /\ \A k \in 1 .. MaxDepth :
           r[k] = r[k - 1] \cup {w.key : w \in {x \in W : x.under \in r[k - 1]}}
  BY ReachEquations, GraphBounds
<1> HIDE DEF r
<1>2. 0 \in T
  BY <1>1
<1>3. ASSUME NEW k \in Nat, k \in T PROVE k + 1 \in T
  <2> SUFFICES ASSUME k + 1 <= MaxDepth PROVE r[k + 1] \subseteq X
    OBVIOUS
  <2>1. k + 1 \in 1 .. MaxDepth /\ (k + 1) - 1 = k /\ r[k] \subseteq X
    BY <1>1, <1>3
  <2>2. r[k + 1] = r[k] \cup {w.key : w \in {x \in W : x.under \in r[k]}}
    BY <2>1, <1>1
  <2> QED
    BY <2>1, <2>2
<1>4. Nat \subseteq T
  <2> HIDE DEF T
  <2> QED
    BY <1>2, <1>3, GraphBounds, KP!SetInduction
<1> QED
  BY <1>1, <1>4

(* A user's knowledge, current items included, is within its set. *)
LEMMA DerivedIsKnown ==
  ASSUME GraphInv, MapsInv, KnowInv, NEW u \in Users \ torn
  PROVE  \E X : Knows(u, X) /\ CanDerive(u, EncryptedDataItems) \subseteq X
<1>1. PICK X : Knows(u, X)
  BY DEF KnowInv
<1>2. received[u] \subseteq X
  BY <1>1 DEF Knows
<1>3. ASSUME NEW w \in channel \cup EncryptedDataItems, w.under \in X PROVE w.key \in X
  <2>1. CASE w \in channel
    BY <2>1, <1>1, <1>3 DEF Knows, Wraps
  <2>2. CASE w \in EncryptedDataItems
    <3>1. PICK c \in DOMAIN keys, a \in DOMAIN keys : a \in Up(c) /\ w = WrapOf(c, a)
      BY <2>2, ItemsAreCurrent
    <3> QED
      BY <3>1, <1>1, <1>3, CurrentWrapsAddNothing DEF WrapOf
  <2> QED
    BY <2>1, <2>2, <1>3
<1>4. CanDerive(u, EncryptedDataItems) \subseteq X
  BY <1>2, <1>3, ReachWithin DEF CanDerive
<1> QED
  BY <1>1, <1>4

(* For every tree, set of users and sequence of joins, leaves, failed      *)
(* calls and packagings: once leave returned Ok the user cannot derive the *)
(* current message key from all it was ever handed and all that was        *)
(* published, if callers join nobody twice and sponsor no user's leaf.     *)
THEOREM DepartedStayOut == Callers => (Spec => []DepartedExcluded)
<1> SUFFICES ASSUME Callers PROVE Spec => []DepartedExcluded
  OBVIOUS
<1>1. BroadcastInv => DepartedExcluded
  <2> SUFFICES ASSUME BroadcastInv, NEW u \in left \ torn
               PROVE  RootKey \notin CanDerive(u, EncryptedDataItems)
    BY DEF DepartedExcluded
  <2>1. GraphInv /\ MapsInv /\ KnowInv
    BY DEF BroadcastInv
  <2>2. u \in Users \ torn /\ u \notin admitted /\ Root \in DOMAIN keys
    BY <2>1 DEF MapsInv
  <2>3. PICK X : Knows(u, X) /\ CanDerive(u, EncryptedDataItems) \subseteq X
    BY <2>1, <2>2, DerivedIsKnown
  <2>4. RootKey \notin X
    BY <2>2, <2>3 DEF Knows, RootKey
  <2> QED
    BY <2>3, <2>4
<1>2. Spec => []BroadcastInv
  BY BroadcastInvariant
<1> QED
  BY <1>1, <1>2, PTL

(* Every message key a user can derive, now or from any old wrap, was      *)
(* drawn while the user was in the graph, for every tree and every set of  *)
(* users (apart from users whose leave failed half-way).                   *)
THEOREM KnowledgeFollowsMembership == Callers => (Spec => []KnowledgeIsMembership)
<1> SUFFICES ASSUME Callers PROVE Spec => []KnowledgeIsMembership
  OBVIOUS
<1>1. BroadcastInv => KnowledgeIsMembership
  <2> SUFFICES ASSUME BroadcastInv, NEW u \in Users \ torn,
                      NEW k \in CanDerive(u, EncryptedDataItems), k[1] = Root
               PROVE  <<u, k[2]>> \in entitled
    BY DEF KnowledgeIsMembership
  <2>1. PICK X : Knows(u, X) /\ CanDerive(u, EncryptedDataItems) \subseteq X
    BY DerivedIsKnown DEF BroadcastInv
  <2> QED
    BY <2>1 DEF Knows
<1>2. Spec => []BroadcastInv
  BY BroadcastInvariant
<1> QED
  BY <1>1, <1>2, PTL

(* user_decrypt as an admitted user succeeds on the current items whenever *)
(* they can be generated, for every tree and every set of users.           *)
THEOREM MembersAlwaysRead == Callers => (Spec => []MembersCanRead)
<1> SUFFICES ASSUME Callers PROVE Spec => []MembersCanRead
  OBVIOUS
<1>1. BroadcastInv => MembersCanRead
  <2> SUFFICES ASSUME BroadcastInv, ~ItemsFail, NEW u \in admitted
               PROVE  UserDecrypt(u, EncryptedDataItems)
    BY DEF MembersCanRead
  <2> DEFINE leaf == user_leaves[u]
             path == KG!LeafToRoot(leaf)
  <2>0. GraphInv /\ MapsInv
    BY DEF BroadcastInv
  <2>1. /\ u \in Members /\ leaf \in Ids /\ leaf \in DOMAIN keys
        /\ KeyOf(leaf) \in received[u]
    BY <2>0 DEF MapsInv, LeavesInv, KeyOf
  <2>2. /\ path \in Seq(Ids) /\ Len(path) = nodes[leaf].layer + 1
        /\ path[1] = leaf
        /\ \A i \in 1 .. Len(path) - 1 : nodes[path[i]].parent = path[i + 1]
        /\ nodes[leaf].layer \in Nat
    BY <2>0, <2>1, GraphPathFacts, GraphPlain DEF PathFacts
  <2> HIDE DEF path
  <2>3. path # <<>>
    BY <2>2
  <2>4. ASSUME NEW n \in DOMAIN keys, n # Root
        PROVE  nodes[n].parent \in DOMAIN keys /\ WrapOf(n, nodes[n].parent) \in EncryptedDataItems
    <3>1. n \in Ids /\ nodes[n].parent \in Ids /\ KG!Parent(n) = nodes[n].parent
      BY <2>0, <2>4, GraphPlain, SameGraph DEF MapsInv, KG!Parent
    <3>2. KG!Parent(n) # KG!None /\ KG!Parent(n) \in DOMAIN keys
      BY <3>1, <2>0, GraphPlain, SameGraph DEF ItemsFail
    <3> QED
      BY <3>1, <3>2 DEF EncryptedDataItems, WrapOf
  <2> DEFINE T == {i \in Nat : i + 1 <= Len(path) => path[i + 1] \in DOMAIN keys}
  <2>5. \A i \in 1 .. Len(path) - 1 : path[i] # Root
    <3>1. \A i \in 1 .. Len(path) - 1 : path[i + 1] \in Ids
      BY <2>2
    <3> QED
      BY <3>1, <2>0, <2>2, GraphPlain
  <2>6. 0 \in T
    BY <2>1, <2>2
  <2>7. ASSUME NEW i \in Nat, i \in T PROVE i + 1 \in T
    <3> SUFFICES ASSUME i + 2 <= Len(path) PROVE path[i + 2] \in DOMAIN keys
      OBVIOUS
    <3>1. Len(path) \in Nat
      BY <2>2
    <3>2. i + 1 \in 1 .. Len(path) - 1 /\ i + 1 <= Len(path) /\ (i + 1) + 1 = i + 2
      BY <3>1
    <3>3. path[i + 1] \in DOMAIN keys
      BY <3>2, <2>7
    <3> QED
      BY <3>2, <3>3, <2>2, <2>4, <2>5
  <2>8. Nat \subseteq T
    <3> HIDE DEF T
    <3> QED
      BY <2>6, <2>7, GraphBounds, KP!SetInduction
  <2>9. ASSUME NEW i \in 1 .. Len(path) - 1
        PROVE  [under |-> KeyOf(path[i]), key |-> KeyOf(path[i + 1])] \in EncryptedDataItems
    <3>1. i - 1 \in Nat /\ (i - 1) + 1 = i /\ i <= Len(path)
      BY <2>2
    <3>2. path[i] \in DOMAIN keys
      BY <3>1, <2>8
    <3> QED
      BY <3>2, <2>2, <2>4, <2>5 DEF WrapOf
  <2> QED
    BY <2>1, <2>2, <2>3, <2>9 DEF UserDecrypt, path
<1>2. Spec => []BroadcastInv
  BY BroadcastInvariant
<1> QED
  BY <1>1, <1>2, PTL

(* When nothing waits and no call failed, an admitted user climbs from its *)
(* leaf to the root's key, one layer in each round.                        *)
LEMMA ReadersClimb ==
  ASSUME GraphInv, MapsInv, CoverInv, pending = {}, faults = 0, NEW u \in admitted
  PROVE  RootKey \in Reach(received[u], channel)
<1> DEFINE leaf == user_leaves[u]
           L == nodes[leaf].layer
           r == ReachRounds(received[u], channel)
           T == {k \in Nat : k <= MaxDepth =>
                   \A n \in Up(leaf) : L - nodes[n].layer <= k => KeyOf(n) \in r[k]}
<1>1. /\ Reach(received[u], channel) = r[MaxDepth] /\ r[0] = received[u] /\ MaxDepth \in Nat
      /\ \A k \in 1 .. MaxDepth :
           r[k] = r[k - 1] \cup {w.key : w \in {x \in channel : x.under \in r[k - 1]}}
  BY ReachEquations, GraphBounds
<1>2. /\ leaf \in Ids /\ KeyOf(leaf) \in received[u] /\ Up(leaf) \subseteq Ids
      /\ leaf \in Up(leaf) /\ Root \in Up(leaf)
  BY GraphUpFacts DEF MapsInv, LeavesInv, KeyOf, UpFacts
<1>3. /\ \A n \in Ids : nodes[n].layer \in Nat /\ nodes[n].layer <= MaxDepth
      /\ \A n \in Up(leaf) : n = leaf \/ nodes[n].layer < L
      /\ \A n \in Ids : n # Root => nodes[nodes[n].parent].layer = nodes[n].layer - 1
      /\ nodes[Root].parent = -1 /\ -1 \notin Ids
  BY <1>1, <1>2, GraphPlain, GraphUpAlgebra DEF UpAlgebra
<1>4. ASSUME NEW n \in Up(leaf), n # leaf
      PROVE  \/ WrapOf(leaf, n) \in channel
             \/ \E c \in Up(leaf) : c # Root /\ nodes[c].parent = n /\ WrapOf(c, n) \in channel
  BY <1>4 DEF CoverInv, Covered
<1>5. L \in Nat /\ L <= MaxDepth
  BY <1>2, <1>3
<1> HIDE DEF r, leaf, L
<1>6. 0 \in T
  <2> SUFFICES ASSUME NEW n \in Up(leaf), L - nodes[n].layer <= 0 PROVE KeyOf(n) \in r[0]
    OBVIOUS
  <2>1. nodes[n].layer \in Nat
    BY <1>2, <1>3
  <2>2. n = leaf
    BY <2>1, <1>3, <1>5
  <2> QED
    BY <2>2, <1>1, <1>2
<1>7. ASSUME NEW k \in Nat, k \in T PROVE k + 1 \in T
  <2> SUFFICES ASSUME k + 1 <= MaxDepth, NEW n \in Up(leaf), L - nodes[n].layer <= k + 1
               PROVE  KeyOf(n) \in r[k + 1]
    OBVIOUS
  <2>1. k + 1 \in 1 .. MaxDepth /\ (k + 1) - 1 = k /\ k <= MaxDepth
    BY <1>1
  <2>2. r[k + 1] = r[k] \cup {w.key : w \in {x \in channel : x.under \in r[k]}}
    BY <2>1, <1>1
  <2>3. \A m \in Up(leaf) : L - nodes[m].layer <= k => KeyOf(m) \in r[k]
    BY <2>1, <1>7
  <2>4. KeyOf(leaf) \in r[k]
    BY <2>3, <1>2, <1>5 DEF L
  <2>5. CASE n = leaf
    BY <2>2, <2>4, <2>5
  <2>6. CASE n # leaf /\ WrapOf(leaf, n) \in channel
    BY <2>2, <2>4, <2>6 DEF WrapOf
  <2>7. ASSUME NEW c \in Up(leaf), c # Root, nodes[c].parent = n, WrapOf(c, n) \in channel
        PROVE  KeyOf(n) \in r[k + 1]
    <3>1. nodes[n].layer = nodes[c].layer - 1 /\ nodes[c].layer \in Nat
      BY <2>7, <1>2, <1>3
    <3>2. KeyOf(c) \in r[k]
      BY <3>1, <2>3, <1>5
    <3> QED
      BY <3>2, <2>2, <2>7 DEF WrapOf
  <2> QED
    BY <2>5, <2>6, <2>7, <1>4
<1>8. Nat \subseteq T
  <2> HIDE DEF T
  <2> QED
    BY <1>6, <1>7, GraphBounds, KP!SetInduction
<1>9. \A n \in Up(leaf) : L - nodes[n].layer <= MaxDepth => KeyOf(n) \in r[MaxDepth]
  BY <1>1, <1>8
<1>10. L - nodes[Root].layer <= MaxDepth
  BY <1>1, <1>2, <1>3, <1>5
<1> QED
  BY <1>1, <1>2, <1>9, <1>10 DEF RootKey

(* For every tree and set of users the maps and the graph are sound after  *)
(* every call, packaging works for everybody, and what was packaged, in    *)
(* whichever strategies and order, leads every admitted user to the        *)
(* current message key as long as no call failed.                          *)
THEOREM RekeyingIsSound == Callers => (Spec => []RekeyingSound)
<1> SUFFICES ASSUME Callers PROVE Spec => []RekeyingSound
  OBVIOUS
<1>1. BroadcastInv => RekeyingSound
  <2> SUFFICES ASSUME GraphInv, MapsInv, CoverInv PROVE RekeyingSound
    BY DEF BroadcastInv
  <2>1. TypeOK
    <3>1. /\ next_id \in Nat /\ Ids \subseteq 0 .. next_id - 1
          /\ DOMAIN keys \subseteq 0 .. next_id - 1 /\ keys \in [DOMAIN keys -> Nat]
          /\ Root \in DOMAIN keys /\ Members \subseteq Users
          /\ admitted \subseteq Users /\ left \subseteq Users
          /\ received \in [Users -> SUBSET (Nat \X Nat)]
      BY GraphPlain DEF MapsInv
    <3>2. user_leaves \in [Members -> 0 .. next_id - 1]
      <4>1. \A u \in Members : user_leaves[u] \in 0 .. next_id - 1
        BY <3>1 DEF MapsInv, LeavesInv
      <4>2. user_leaves = [u \in Members |-> user_leaves[u]]
        BY DEF MapsInv, LeavesInv
      <4> QED
        BY <4>1, <4>2
    <3> QED
      BY <3>1, <3>2 DEF TypeOK, Ids
  <2>2. GraphSound
    <3>1. KP!LinksSound /\ KP!BoundsHold
      BY DEF GraphInv, KP!Inv
    <3>2. KG!LinksSound
      BY <3>1 DEF KG!LinksSound, KP!LinksSound, KG!VerifyInvariants, KP!VerifyInvariants,
                  KG!Ids, KP!Ids, KG!None, KP!None, KG!Root, KP!Root
    <3>3. KG!BoundsHold
      BY <3>1, SameCounts DEF KG!BoundsHold, KP!BoundsHold, KG!Ids, KP!Ids
    <3> QED
      BY <3>2, <3>3 DEF GraphSound
  <2>3. RekeyDelivers
    BY ReadersClimb DEF RekeyDelivers
  <2>4. PackagingWorks
    <3> SUFFICES ASSUME NEW u \in Members PROVE KG!LeafToRoot(user_leaves[u]) # <<>>
      BY DEF PackagingWorks, UserOrientedFails
    <3>1. user_leaves[u] \in Ids
      BY DEF MapsInv, LeavesInv
    <3> DEFINE path == KG!LeafToRoot(user_leaves[u])
    <3>2. Len(path) = nodes[user_leaves[u]].layer + 1 /\ nodes[user_leaves[u]].layer \in Nat
      BY <3>1, GraphPathFacts, GraphPlain DEF PathFacts
    <3> HIDE DEF path
    <3>3. path # <<>>
      BY <3>2
    <3> QED
      BY <3>3 DEF path
  <2> QED
    BY <2>1, <2>2, <2>3, <2>4 DEF RekeyingSound
<1>2. Spec => []BroadcastInv
  BY BroadcastInvariant
<1> QED
  BY <1>1, <1>2, PTL
=============================================================================
