--------------------------- MODULE KeyGraphProofs ---------------------------
(***************************************************************************)
(* The structural invariants of the key graph, for every value of the      *)
(* bounds.  remove_subtree is the step with an argument of its own: what   *)
(* it removes is closed under children (no orphan stays behind) and under  *)
(* parents up to the node named in the call (no dangling child is left).   *)
(***************************************************************************)
EXTENDS KeyGraph, FiniteSetTheorems, SequenceTheorems, WellFoundedInduction, TLAPS

(* The inductive invariant of the links alone. *)
Inv == TypeOK /\ LinksSound

(* A node stays a node when its children or its epoch change, and no other *)
(* field changes with them.                                                *)
LEMMA NodeFields ==
  ASSUME NEW r \in Node
  PROVE  r.children \in SUBSET NodeId /\ r.key_epoch \in Nat /\ r.layer \in Nat
BY DEF Node

(* Changing a node's children leaves the rest of the node as it was.       *)
LEMMA ChildrenUpdate ==
  ASSUME NEW r \in Node, NEW S \in SUBSET NodeId
  PROVE  LET q == [r EXCEPT !.children = S]
         IN  /\ q \in Node /\ q.children = S
             /\ q.parent = r.parent /\ q.layer = r.layer /\ q.position = r.position
BY DEF Node

(* Changing a node's epoch leaves the rest of the node as it was.          *)
LEMMA EpochUpdate ==
  ASSUME NEW r \in Node, NEW e \in Nat
  PROVE  LET q == [r EXCEPT !.key_epoch = e]
         IN  /\ q \in Node /\ q.children = r.children
             /\ q.parent = r.parent /\ q.layer = r.layer /\ q.position = r.position
BY DEF Node

(* What remove_subtree removes: the node itself, never the root, with a    *)
(* node all of its children, and with a node other than id its parent.     *)
LEMMA SubtreeFacts ==
  ASSUME Inv, NEW id \in Ids, id # Root
  PROVE  /\ id \in Subtree(id)
         /\ Subtree(id) \subseteq Ids
         /\ Root \notin Subtree(id)
         /\ \A m \in Subtree(id) : nodes[m].children \subseteq Subtree(id)
         /\ \A m \in Subtree(id) : m # id => nodes[m].parent \in Subtree(id)
<1>1. id \in Subtree(id) /\ Subtree(id) \subseteq Ids
  BY DEF Subtree
<1>2. Root \notin Subtree(id)
  <2> DEFINE S == Ids \ {Root}
  <2>1. id \in S /\ S \in SUBSET Ids
    OBVIOUS
  <2>2. nodes[Root].parent = None
    BY DEF Inv, TypeOK, LinksSound, VerifyInvariants
  <2>3. ClosedUnderChildren(S)
    BY <2>2 DEF ClosedUnderChildren, Inv, TypeOK, LinksSound, None, Root
  <2> QED
    BY <2>1, <2>3 DEF Subtree
<1>3. \A m \in Subtree(id) : nodes[m].children \subseteq Subtree(id)
  <2> SUFFICES ASSUME NEW m \in Subtree(id), NEW c \in nodes[m].children
               PROVE  c \in Subtree(id)
    OBVIOUS
  <2>1. m \in Ids /\ c \in Ids
    BY DEF Subtree, Inv, LinksSound
  <2>2. ASSUME NEW S \in SUBSET Ids, id \in S, ClosedUnderChildren(S)
        PROVE  c \in S
    BY <2>1, <2>2 DEF Subtree, ClosedUnderChildren
  <2> QED
    BY <2>1, <2>2 DEF Subtree
<1>4. ASSUME NEW m \in Subtree(id), m # id, nodes[m].parent \notin Subtree(id)
      PROVE  FALSE
  <2> DEFINE S == Subtree(id) \ {m}
  <2>1. id \in S /\ S \in SUBSET Ids /\ m \in Ids
    BY <1>1, <1>4
  <2>2. ClosedUnderChildren(S)
    <3> SUFFICES ASSUME NEW x \in S, NEW c \in nodes[x].children \cap Ids
                 PROVE  c \in S
      BY DEF ClosedUnderChildren
    <3>1. c \in Subtree(id)
      BY <1>3
    <3>2. nodes[c].parent = x
      BY <1>1 DEF Inv, LinksSound
    <3> QED
      BY <3>1, <3>2, <1>4
  <2>3. m \in S
    BY <2>1, <2>2, <1>4 DEF Subtree
  <2> QED
    BY <2>3
<1> QED
  BY <1>1, <1>2, <1>3, <1>4

(* add_child keeps the links: the new id was never in the map, so the only *)
(* parent edge and the only children entry it adds name each other.        *)
LEMMA AddChildKeepsInv ==
  ASSUME Inv, NEW p \in Ids, NEW coord \in Coords, AddChild(p, coord)
  PROVE  Inv'
<1>1. next_id \notin Ids /\ next_id \in Nat /\ next_id # None /\ p # next_id
  BY DEF Inv, TypeOK, None
<1>2. Ids' = Ids \cup {next_id}
  BY DEF AddChild, Ids
<1>3. /\ nodes'[next_id] = NewChild(p, coord)
      /\ nodes'[p] = [nodes[p] EXCEPT !.children = @ \cup {next_id}]
      /\ \A n \in Ids : n # p => nodes'[n] = nodes[n]
  BY <1>1 DEF AddChild
<1>4. nodes[p] \in Node
  BY DEF Inv, TypeOK
<1>5. NewChild(p, coord) \in Node
  BY <1>4 DEF NewChild, Node, Inv, TypeOK, NodeId
<1>6. TypeOK'
  <2>1. next_id' = next_id + 1
    BY DEF AddChild
  <2>2. \A n \in Ids' : nodes'[n] \in Node
    <3>1. nodes[p].children \cup {next_id} \in SUBSET NodeId
      BY <1>1, <1>4, NodeFields DEF NodeId
    <3>2. nodes'[p] \in Node
      BY <1>3, <1>4, <3>1, ChildrenUpdate
    <3> QED
      BY <3>2, <1>2, <1>3, <1>5 DEF Inv, TypeOK
  <2>3. nodes' = [n \in Ids' |-> nodes'[n]]
    BY <1>2 DEF AddChild
  <2> QED
    BY <2>1, <2>2, <2>3, <1>1, <1>2 DEF Inv, TypeOK
<1>7. \A n \in Ids : nodes'[n].parent = nodes[n].parent
  BY <1>3, <1>4 DEF Node
<1>8. nodes'[next_id].parent = p /\ nodes'[next_id].children = {}
  BY <1>3 DEF NewChild
<1>9. /\ nodes'[p].children = nodes[p].children \cup {next_id}
      /\ \A n \in Ids : n # p => nodes'[n].children = nodes[n].children
  BY <1>3, <1>4 DEF Node
<1>10. \A n \in Ids : nodes[n].parent # next_id
  BY <1>1 DEF Inv, LinksSound, VerifyInvariants
<1>11. VerifyInvariants'
  <2>1. ASSUME NEW n \in Ids'
        PROVE  /\ nodes'[n].parent = None => n = Root
               /\ nodes'[n].parent # None =>
                    /\ nodes'[n].parent \in Ids'
                    /\ n \in nodes'[nodes'[n].parent].children
    <3>1. CASE n = next_id
      <4>1. p # None
        BY DEF Inv, TypeOK, None
      <4> QED
        BY <3>1, <4>1, <1>2, <1>8, <1>9
    <3>2. CASE n \in Ids
      <4>1. /\ nodes[n].parent = None => n = Root
            /\ nodes[n].parent # None =>
                 nodes[n].parent \in Ids /\ n \in nodes[nodes[n].parent].children
        BY <3>2 DEF Inv, LinksSound, VerifyInvariants
      <4>2. \A m \in Ids : nodes[m].children \subseteq nodes'[m].children
        BY <1>9
      <4> QED
        BY <3>2, <4>1, <4>2, <1>2, <1>7
    <3> QED
      BY <2>1, <3>1, <3>2, <1>2
  <2>2. \E n \in Ids' : nodes'[n].parent = None
    BY <1>2, <1>7 DEF Inv, LinksSound, VerifyInvariants
  <2>3. Root' = Root /\ None' = None
    BY DEF Root, None
  <2> QED
    BY <2>1, <2>2, <2>3 DEF VerifyInvariants
<1>12. \A q \in Ids' : nodes'[q].children = {c \in Ids' : nodes'[c].parent = q}
  <2> SUFFICES ASSUME NEW q \in Ids'
               PROVE  nodes'[q].children = {c \in Ids' : nodes'[c].parent = q}
    OBVIOUS
  <2>1. CASE q = next_id
    BY <2>1, <1>1, <1>2, <1>7, <1>8, <1>10
  <2>2. CASE q = p
    BY <2>2, <1>1, <1>2, <1>7, <1>8, <1>9 DEF Inv, LinksSound
  <2>3. CASE q \in Ids /\ q # p
    BY <2>3, <1>1, <1>2, <1>7, <1>8, <1>9 DEF Inv, LinksSound
  <2> QED
    BY <2>1, <2>2, <2>3, <1>2
<1> QED
  BY <1>6, <1>11, <1>12 DEF Inv, LinksSound

(* remove_subtree keeps the links: by SubtreeFacts the survivors keep      *)
(* their parents, and the only removed child of a survivor is id itself.   *)
LEMMA RemoveSubtreeKeepsInv ==
  ASSUME Inv, NEW id \in Ids, RemoveSubtree(id)
  PROVE  Inv'
<1> DEFINE R == Subtree(id)
<1>1. id # Root
  BY DEF RemoveSubtree
<1>2. /\ id \in R /\ R \subseteq Ids /\ Root \notin R
      /\ \A m \in R : nodes[m].children \subseteq R
      /\ \A m \in R : m # id => nodes[m].parent \in R
  BY <1>1, SubtreeFacts
<1> HIDE DEF R
<1>3. Ids' = Ids \ R
  BY DEF RemoveSubtree, Ids, R
<1>4. \A n \in Ids' : nodes'[n] = IF n = nodes[id].parent
                                 THEN [nodes[n] EXCEPT !.children = @ \ {id}]
                                 ELSE nodes[n]
  BY <1>3 DEF RemoveSubtree, R
<1>5. \A n \in Ids : nodes[n] \in Node
  BY DEF Inv, TypeOK
<1>6. \A n \in Ids' : /\ nodes'[n].parent = nodes[n].parent
                     /\ nodes'[n].children = nodes[n].children \ {id}
  <2> SUFFICES ASSUME NEW n \in Ids'
               PROVE  /\ nodes'[n].parent = nodes[n].parent
                      /\ nodes'[n].children = nodes[n].children \ {id}
    OBVIOUS
  <2>1. CASE n = nodes[id].parent
    BY <2>1, <1>3, <1>4, <1>5 DEF Node
  <2>2. CASE n # nodes[id].parent
    <3>1. id \notin nodes[n].children
      BY <2>2, <1>3 DEF Inv, LinksSound
    <3> QED
      BY <2>2, <3>1, <1>4
  <2> QED
    BY <2>1, <2>2
<1>7. TypeOK'
  <2>1. next_id' = next_id
    BY DEF RemoveSubtree
  <2>2. \A n \in Ids' : nodes'[n] \in Node
    <3> SUFFICES ASSUME NEW n \in Ids' PROVE nodes'[n] \in Node
      OBVIOUS
    <3>1. nodes[n] \in Node /\ nodes[n].children \ {id} \in SUBSET NodeId
      BY <1>3, <1>5, NodeFields
    <3>2. [nodes[n] EXCEPT !.children = nodes[n].children \ {id}] \in Node
      BY <3>1, ChildrenUpdate
    <3> QED
      BY <3>1, <3>2, <1>4
  <2>3. nodes' = [n \in Ids' |-> nodes'[n]]
    BY <1>3 DEF RemoveSubtree, R
  <2> QED
    BY <2>1, <2>2, <2>3, <1>2, <1>3 DEF Inv, TypeOK
<1>8. VerifyInvariants'
  <2>1. \A n \in Ids' : nodes[n].parent # None =>
          nodes[n].parent \in Ids' /\ n \in nodes[nodes[n].parent].children \ {id}
    BY <1>2, <1>3 DEF Inv, LinksSound, VerifyInvariants
  <2>2. nodes[Root].parent = None /\ Root \in Ids'
    BY <1>2, <1>3 DEF Inv, TypeOK, LinksSound, VerifyInvariants
  <2> QED
    BY <2>1, <2>2, <1>3, <1>6 DEF Inv, LinksSound, VerifyInvariants
<1>9. \A q \in Ids' : nodes'[q].children = {c \in Ids' : nodes'[c].parent = q}
  <2> SUFFICES ASSUME NEW q \in Ids', NEW c
               PROVE  c \in nodes[q].children \ {id} <=> c \in Ids' /\ nodes[c].parent = q
    BY <1>6
  <2>1. nodes[q].children = {d \in Ids : nodes[d].parent = q}
    BY <1>3 DEF Inv, LinksSound
  <2> QED
    BY <2>1, <1>2, <1>3
<1> QED
  BY <1>7, <1>8, <1>9 DEF Inv, LinksSound

(* verify_invariants returns Ok in every reachable state, for every choice *)
(* of the bounds and of the coordinates, and children lists are exact.     *)
THEOREM KeyGraphLinks == Spec => [](TypeOK /\ LinksSound)
<1>1. Init => Inv
  <2> SUFFICES ASSUME Init PROVE Inv
    OBVIOUS
  <2>1. Ids = {0}
    BY DEF Init, Ids, Root
  <2>2. nodes[0] \in Node
    BY DEF Init, Node, Root, NodeId
  <2>3. nodes[0].parent = None /\ nodes[0].children = {}
    BY DEF Init, Root
  <2>4. TypeOK
    BY <2>1, <2>2 DEF TypeOK, Init, Root
  <2>5. LinksSound
    BY <2>1, <2>3 DEF LinksSound, VerifyInvariants, Root, None
  <2> QED
    BY <2>4, <2>5 DEF Inv
<1>2. Inv /\ [Next]_vars => Inv'
  <2> SUFFICES ASSUME Inv, [Next]_vars PROVE Inv'
    OBVIOUS
  <2>1. ASSUME NEW p \in Ids, NEW coord \in Coords, AddChild(p, coord)
        PROVE  Inv'
    BY <2>1, AddChildKeepsInv
  <2>2. ASSUME NEW id \in Ids, RemoveSubtree(id)
        PROVE  Inv'
    BY <2>2, RemoveSubtreeKeepsInv
  <2>3. CASE ReplaceRoot
    <3>1. Ids' = Ids /\ next_id' = next_id
      BY <2>3 DEF ReplaceRoot, Ids
    <3>2. nodes[Root] \in Node
      BY DEF Inv, TypeOK
    <3>3. \A n \in Ids : n # Root => nodes'[n] = nodes[n]
      BY <2>3 DEF ReplaceRoot
    <3>4. nodes'[Root] = [nodes[Root] EXCEPT !.key_epoch = nodes[Root].key_epoch + 1]
      BY <2>3 DEF ReplaceRoot, Inv, TypeOK
    <3>5. \A n \in Ids : /\ nodes'[n].parent = nodes[n].parent
                        /\ nodes'[n].children = nodes[n].children
                        /\ nodes'[n] \in Node
      <4>1. nodes[Root].key_epoch + 1 \in Nat
        BY <3>2, NodeFields
      <4>2. /\ nodes'[Root].parent = nodes[Root].parent
            /\ nodes'[Root].children = nodes[Root].children
            /\ nodes'[Root] \in Node
        BY <3>2, <3>4, <4>1, EpochUpdate
      <4> QED
        BY <3>3, <4>2 DEF Inv, TypeOK
    <3>6. TypeOK'
      BY <2>3, <3>1, <3>5 DEF Inv, TypeOK, ReplaceRoot
    <3>7. LinksSound'
      BY <3>1, <3>5 DEF Inv, LinksSound, VerifyInvariants
    <3> QED
      BY <3>6, <3>7 DEF Inv
  <2>4. CASE UNCHANGED vars
    BY <2>4 DEF vars, Inv, TypeOK, LinksSound, VerifyInvariants, Ids
  <2> QED
    BY <2>1, <2>2, <2>3, <2>4 DEF Next
<1>3. Inv => TypeOK /\ LinksSound
  BY DEF Inv
<1> QED
  BY <1>1, <1>2, <1>3, PTL DEF Spec

(* A step keeps layer, position and parent of every surviving node, and    *)
(* an id that appears was never in use.                                    *)
LEMMA StepKeepsNodes ==
  ASSUME Inv, [Next]_vars
  PROVE  /\ \A n \in Ids \cap Ids' :
              /\ nodes'[n].position = nodes[n].position
              /\ nodes'[n].layer = nodes[n].layer
              /\ nodes'[n].parent = nodes[n].parent
         /\ \A n \in Ids' \ Ids :
              n = next_id /\ \E p \in Ids, coord \in Coords :
                                AddChild(p, coord) /\ nodes'[n] = NewChild(p, coord)
<1>0. \A n \in Ids : nodes[n] \in Node
  BY DEF Inv, TypeOK
<1>1. ASSUME NEW p \in Ids, NEW coord \in Coords, AddChild(p, coord)
      PROVE  /\ \A n \in Ids \cap Ids' :
                  /\ nodes'[n].position = nodes[n].position
                  /\ nodes'[n].layer = nodes[n].layer
                  /\ nodes'[n].parent = nodes[n].parent
             /\ \A n \in Ids' \ Ids : n = next_id /\ nodes'[n] = NewChild(p, coord)
  <2>1. next_id \notin Ids /\ next_id \in Nat
    BY DEF Inv, TypeOK
  <2>2. Ids' = Ids \cup {next_id}
    BY <1>1 DEF AddChild, Ids
  <2>3. /\ nodes'[next_id] = NewChild(p, coord)
        /\ nodes'[p] = [nodes[p] EXCEPT !.children = nodes[p].children \cup {next_id}]
        /\ \A n \in Ids : n # p => nodes'[n] = nodes[n]
    BY <1>1, <2>1 DEF AddChild
  <2>4. nodes[p].children \cup {next_id} \in SUBSET NodeId
    BY <1>0, <2>1, NodeFields DEF NodeId
  <2>5. /\ nodes'[p].position = nodes[p].position
        /\ nodes'[p].layer = nodes[p].layer
        /\ nodes'[p].parent = nodes[p].parent
    BY <1>0, <2>3, <2>4, ChildrenUpdate
  <2> QED
    BY <2>1, <2>2, <2>3, <2>5
<1>2. ASSUME NEW id \in Ids, RemoveSubtree(id)
      PROVE  /\ Ids' \subseteq Ids
             /\ \A n \in Ids' :
                  /\ nodes'[n].position = nodes[n].position
                  /\ nodes'[n].layer = nodes[n].layer
                  /\ nodes'[n].parent = nodes[n].parent
  <2>1. Ids' = Ids \ Subtree(id)
    BY <1>2 DEF RemoveSubtree, Ids
  <2>2. \A n \in Ids' : nodes'[n] = IF n = nodes[id].parent
                                   THEN [nodes[n] EXCEPT !.children = nodes[n].children \ {id}]
                                   ELSE nodes[n]
    BY <1>2, <2>1 DEF RemoveSubtree
  <2> SUFFICES ASSUME NEW n \in Ids'
               PROVE  /\ nodes'[n].position = nodes[n].position
                      /\ nodes'[n].layer = nodes[n].layer
                      /\ nodes'[n].parent = nodes[n].parent
    BY <2>1
  <2>3. nodes[n] \in Node /\ nodes[n].children \ {id} \in SUBSET NodeId
    BY <1>0, <2>1, NodeFields
  <2>4. LET q == [nodes[n] EXCEPT !.children = nodes[n].children \ {id}]
        IN  q.position = nodes[n].position /\ q.layer = nodes[n].layer /\ q.parent = nodes[n].parent
    BY <2>3, ChildrenUpdate
  <2> QED
    BY <2>2, <2>4
<1>3. ASSUME ReplaceRoot
      PROVE  /\ Ids' = Ids
             /\ \A n \in Ids :
                  /\ nodes'[n].position = nodes[n].position
                  /\ nodes'[n].layer = nodes[n].layer
                  /\ nodes'[n].parent = nodes[n].parent
  <2>1. Ids' = Ids /\ Root \in Ids
    BY <1>3 DEF ReplaceRoot, Ids
  <2>2. nodes[Root].key_epoch + 1 \in Nat
    BY <1>0, <2>1, NodeFields
  <2>3. nodes'[Root] = [nodes[Root] EXCEPT !.key_epoch = nodes[Root].key_epoch + 1]
    BY <1>3 DEF ReplaceRoot, Inv, TypeOK
  <2>4. /\ nodes'[Root].position = nodes[Root].position
        /\ nodes'[Root].layer = nodes[Root].layer
        /\ nodes'[Root].parent = nodes[Root].parent
    BY <1>0, <2>1, <2>2, <2>3, EpochUpdate
  <2>5. \A n \in Ids : n # Root => nodes'[n] = nodes[n]
    BY <1>3 DEF ReplaceRoot
  <2> QED
    BY <2>1, <2>4, <2>5
<1>4. CASE UNCHANGED vars
  BY <1>4 DEF vars, Ids
<1> QED
  BY <1>1, <1>2, <1>3, <1>4 DEF Next

(* A NodeId names one node for as long as that node lives and is never     *)
(* issued a second time.                                                   *)
THEOREM KeyGraphIdsStable == Spec => IdsStable
<1>1. Inv /\ [Next]_vars =>
        [/\ \A id \in Ids \cap Ids' :
              /\ nodes'[id].position = nodes[id].position
              /\ nodes'[id].layer = nodes[id].layer
              /\ nodes'[id].parent = nodes[id].parent
         /\ \A id \in Ids' \ Ids : id >= next_id]_vars
  <2> SUFFICES ASSUME Inv, [Next]_vars
               PROVE  /\ \A id \in Ids \cap Ids' :
                           /\ nodes'[id].position = nodes[id].position
                           /\ nodes'[id].layer = nodes[id].layer
                           /\ nodes'[id].parent = nodes[id].parent
                      /\ \A id \in Ids' \ Ids : id >= next_id
    OBVIOUS
  <2>1. next_id \in Nat
    BY DEF Inv, TypeOK
  <2>2. \A id \in Ids' \ Ids : id = next_id
    BY StepKeepsNodes
  <2>3. \A id \in Ids' \ Ids : id >= next_id
    BY <2>1, <2>2
  <2> QED
    BY <2>3, StepKeepsNodes
<1>2. Spec => []Inv
  BY KeyGraphLinks, PTL DEF Inv
<1> QED
  BY <1>1, <1>2, PTL DEF Spec, IdsStable

(* Layers and bounds are inductive next to Inv: a survivor's parent        *)
(* survives, and what is removed only shrinks a set.                       *)
LEMMA StepKeepsLayers ==
  ASSUME Inv, Inv', LayersSound, [Next]_vars
  PROVE  LayersSound'
<1> SUFFICES ASSUME NEW n \in Ids'
             PROVE  /\ nodes'[n].layer = IF n = Root THEN 0 ELSE nodes'[nodes'[n].parent].layer + 1
                    /\ nodes'[n].layer = Len(nodes'[n].position)
                    /\ nodes'[n].layer <= MaxDepth
  BY DEF LayersSound
<1>1. n # Root => nodes'[n].parent \in Ids'
  BY DEF Inv, LinksSound, VerifyInvariants
<1>2. CASE n \in Ids
  <2>1. /\ nodes'[n].position = nodes[n].position
        /\ nodes'[n].layer = nodes[n].layer
        /\ nodes'[n].parent = nodes[n].parent
    BY <1>2, StepKeepsNodes
  <2>2. n # Root => nodes[n].parent \in Ids \cap Ids'
    BY <1>1, <1>2, <2>1 DEF Inv, LinksSound, VerifyInvariants
  <2>3. n # Root => nodes'[nodes'[n].parent].layer = nodes[nodes[n].parent].layer
    BY <2>1, <2>2, StepKeepsNodes
  <2> QED
    BY <1>2, <2>1, <2>3 DEF LayersSound
<1>3. CASE n \notin Ids
  <2>1. PICK p \in Ids, coord \in Coords :
               n = next_id /\ AddChild(p, coord) /\ nodes'[n] = NewChild(p, coord)
    BY <1>3, StepKeepsNodes
  <2>2. nodes[p] \in Node
    BY DEF Inv, TypeOK
  <2>3. nodes[p].position \in Seq(Coords)
    BY <2>2 DEF Node
  <2>4. /\ nodes'[n].layer = nodes[p].layer + 1
        /\ nodes'[n].parent = p
        /\ nodes'[n].position = Append(nodes[p].position, coord)
    BY <2>1 DEF NewChild
  <2>5. nodes[p].layer + 1 <= MaxDepth
    BY <2>1 DEF AddChild, HasRoom
  <2>6. Len(nodes'[n].position) = nodes[p].layer + 1
    BY <2>3, <2>4 DEF LayersSound
  <2>7. p \in Ids' /\ n # Root
    BY <1>3, <2>1 DEF AddChild, Ids, Inv, TypeOK
  <2>8. nodes'[p].layer = nodes[p].layer
    BY <2>7, StepKeepsNodes
  <2> QED
    BY <2>4, <2>5, <2>6, <2>7, <2>8
<1> QED
  BY <1>2, <1>3

(* The map is finite, and so is every children list.                       *)
LEMMA GraphFinite ==
  ASSUME Inv
  PROVE  IsFiniteSet(Ids) /\ \A n \in Ids : IsFiniteSet(nodes[n].children)
<1>1. next_id \in Nat /\ Ids \subseteq 0 .. next_id - 1
  BY DEF Inv, TypeOK
<1>2. IsFiniteSet(0 .. next_id - 1)
  BY <1>1, FS_Interval
<1>3. IsFiniteSet(Ids)
  BY <1>1, <1>2, FS_Subset
<1>4. \A n \in Ids : nodes[n].children \subseteq Ids
  BY DEF Inv, LinksSound
<1> QED
  BY <1>3, <1>4, FS_Subset

(* Every operation keeps the layers and the bounds, one step per action.   *)
LEMMA StepKeepsBounds ==
  ASSUME Inv, BoundsHold, [Next]_vars
  PROVE  BoundsHold'
<1>0. /\ IsFiniteSet(Ids) /\ \A n \in Ids : IsFiniteSet(nodes[n].children)
      /\ \A n \in Ids : nodes[n] \in Node
      /\ MaxNodes \in Nat /\ MaxBreadth \in Nat
  BY GraphFinite, BoundsAssumption DEF Inv, TypeOK
<1>1. ASSUME NEW p \in Ids, NEW coord \in Coords, AddChild(p, coord)
      PROVE  BoundsHold'
  <2>1. next_id \notin Ids /\ next_id \in Nat
    BY DEF Inv, TypeOK
  <2>2. Ids' = Ids \cup {next_id}
    BY <1>1 DEF AddChild, Ids
  <2>3. nodes[p].children \subseteq Ids
    BY DEF Inv, LinksSound
  <2>4. nodes[p].children \cup {next_id} \in SUBSET NodeId
    BY <1>0, <2>1, NodeFields DEF NodeId
  <2>5. /\ nodes'[next_id] = NewChild(p, coord)
        /\ nodes'[p] = [nodes[p] EXCEPT !.children = nodes[p].children \cup {next_id}]
        /\ \A n \in Ids : n # p => nodes'[n] = nodes[n]
    BY <1>1, <2>1 DEF AddChild
  <2>6. /\ nodes'[p].children = nodes[p].children \cup {next_id}
        /\ nodes'[next_id].children = {}
    BY <1>0, <2>4, <2>5, ChildrenUpdate DEF NewChild
  <2>7. /\ Cardinality(Ids') = Cardinality(Ids) + 1
        /\ Cardinality(nodes'[p].children) = Cardinality(nodes[p].children) + 1
        /\ Cardinality(Ids) \in Nat /\ Cardinality(nodes[p].children) \in Nat
        /\ Cardinality(nodes'[next_id].children) = 0
    BY <1>0, <2>1, <2>2, <2>3, <2>6, FS_AddElement, FS_CardinalityType, FS_EmptySet
  <2>8. Cardinality(Ids) < MaxNodes /\ Cardinality(nodes[p].children) < MaxBreadth
    BY <1>1 DEF AddChild, HasRoom
  <2>9. Cardinality(Ids') <= MaxNodes /\ Cardinality(nodes'[p].children) <= MaxBreadth
    BY <1>0, <2>7, <2>8
  <2>10. ASSUME NEW n \in Ids'
         PROVE  Cardinality(nodes'[n].children) <= MaxBreadth
    <3>1. CASE n = p
      BY <3>1, <2>9
    <3>2. CASE n = next_id
      BY <3>2, <1>0, <2>7
    <3>3. CASE n \in Ids /\ n # p
      <4>1. nodes'[n] = nodes[n]
        BY <3>3, <2>5
      <4> QED
        BY <3>3, <4>1 DEF BoundsHold
    <3> QED
      BY <3>1, <3>2, <3>3, <2>2
  <2> QED
    BY <2>9, <2>10 DEF BoundsHold
<1>2. ASSUME NEW id \in Ids, RemoveSubtree(id)
      PROVE  BoundsHold'
  <2>1. Ids' = Ids \ Subtree(id)
    BY <1>2 DEF RemoveSubtree, Ids
  <2>2. \A n \in Ids' : nodes'[n] = IF n = nodes[id].parent
                                   THEN [nodes[n] EXCEPT !.children = nodes[n].children \ {id}]
                                   ELSE nodes[n]
    BY <1>2, <2>1 DEF RemoveSubtree
  <2>3. \A n \in Ids' : nodes'[n].children \subseteq nodes[n].children
    <3> SUFFICES ASSUME NEW n \in Ids' PROVE nodes'[n].children \subseteq nodes[n].children
      OBVIOUS
    <3>1. nodes[n] \in Node /\ nodes[n].children \ {id} \in SUBSET NodeId
      BY <1>0, <2>1, NodeFields
    <3>2. [nodes[n] EXCEPT !.children = nodes[n].children \ {id}].children = nodes[n].children \ {id}
      BY <3>1, ChildrenUpdate
    <3> QED
      BY <2>2, <3>2
  <2>4. Cardinality(Ids') <= Cardinality(Ids) /\ Cardinality(Ids) \in Nat /\ Cardinality(Ids') \in Nat
    BY <1>0, <2>1, FS_Subset, FS_CardinalityType
  <2>5. \A n \in Ids' : /\ Cardinality(nodes'[n].children) <= Cardinality(nodes[n].children)
                        /\ Cardinality(nodes'[n].children) \in Nat
                        /\ Cardinality(nodes[n].children) \in Nat
    BY <1>0, <2>1, <2>3, FS_Subset, FS_CardinalityType
  <2> QED
    BY <1>0, <2>1, <2>4, <2>5 DEF BoundsHold
<1>3. CASE ReplaceRoot
  <2>1. Ids' = Ids /\ Root \in Ids
    BY <1>3 DEF ReplaceRoot, Ids
  <2>2. nodes[Root].key_epoch + 1 \in Nat
    BY <1>0, <2>1, NodeFields
  <2>3. nodes'[Root] = [nodes[Root] EXCEPT !.key_epoch = nodes[Root].key_epoch + 1]
    BY <1>3 DEF ReplaceRoot, Inv, TypeOK
  <2>4. nodes'[Root].children = nodes[Root].children
    BY <1>0, <2>1, <2>2, <2>3, EpochUpdate
  <2>5. \A n \in Ids : n # Root => nodes'[n] = nodes[n]
    BY <1>3 DEF ReplaceRoot
  <2> QED
    BY <2>1, <2>4, <2>5 DEF BoundsHold
<1>4. CASE UNCHANGED vars
  BY <1>4 DEF vars, Ids, BoundsHold
<1> QED
  BY <1>1, <1>2, <1>3, <1>4 DEF Next

(* No node is deeper than max_depth, has more than max_breadth children,   *)
(* and there are never more than max_nodes nodes; the layer of a node is   *)
(* its distance from the root.                                             *)
THEOREM KeyGraphBounds == Spec => [](LayersSound /\ BoundsHold)
<1>1. Init => LayersSound /\ BoundsHold
  <2> SUFFICES ASSUME Init PROVE LayersSound /\ BoundsHold
    OBVIOUS
  <2>1. Ids = {0}
    BY DEF Init, Ids, Root
  <2>2. nodes[0].layer = 0 /\ nodes[0].position = <<>> /\ nodes[0].children = {}
    BY DEF Init, Root
  <2>3. Cardinality(Ids) = 1 /\ Cardinality(nodes[0].children) = 0
    BY <2>1, <2>2, FS_Singleton, FS_EmptySet
  <2>4. LayersSound
    BY <2>1, <2>2, BoundsAssumption DEF LayersSound, Root
  <2>5. BoundsHold
    BY <2>1, <2>3, BoundsAssumption DEF BoundsHold
  <2> QED
    BY <2>4, <2>5
<1>2. Spec => []Inv
  BY KeyGraphLinks, PTL DEF Inv
<1>3. Inv /\ Inv' /\ LayersSound /\ BoundsHold /\ [Next]_vars => LayersSound' /\ BoundsHold'
  BY StepKeepsLayers, StepKeepsBounds
<1> QED
  BY <1>1, <1>2, <1>3, PTL DEF Spec
-----------------------------------------------------------------------------
(* Induction, stated of a set: what holds of 0 and passes from n to n + 1  *)
(* holds of every natural number, for a least number outside S would have  *)
(* its predecessor in S.                                                   *)
LEMMA SetInduction ==
  ASSUME NEW S, 0 \in S, \A n \in Nat : n \in S => n + 1 \in S
  PROVE  Nat \subseteq S
<1> SUFFICES ASSUME Nat \ S # {} PROVE FALSE
  OBVIOUS
<1> DEFINE T == Nat \ S
           R == {p \in Nat \X Nat : p[1] < p[2]}
<1>1. IsWellFoundedOn(R, Nat)
  BY NatLessThanWellFounded DEF OpToRel
<1>2. PICK x \in T : \A y \in T : <<y, x>> \notin R
  <2>1. T \subseteq Nat /\ T # {}
    OBVIOUS
  <2> HIDE DEF T, R
  <2> QED
    BY <1>1, <2>1, WFMin
<1>3. x \in Nat /\ x # 0 /\ x \notin S
  OBVIOUS
<1>4. x - 1 \in Nat /\ x - 1 + 1 = x
  BY <1>3
<1>5. <<x - 1, x>> \in R
  BY <1>3, <1>4
<1> QED
  BY <1>2, <1>3, <1>4, <1>5

(* Every step of a set has iterates: a recursive function f[k] that takes  *)
(* f[k - 1] to the next value exists, on 0 .. N, for every N.              *)
LEMMA IteratesExist ==
  ASSUME NEW X, NEW x0 \in X, NEW step \in [X -> X], NEW N \in Nat
  PROVE  \E g \in [0 .. N -> X] : g[0] = x0 /\ \A k \in 1 .. N : g[k] = step[g[k - 1]]
<1> DEFINE Good(n) == \E g \in [0 .. n -> X] : /\ g[0] = x0
                                               /\ \A k \in 1 .. n : g[k] = step[g[k - 1]]
           S == {n \in Nat : Good(n)}
<1>1. 0 \in S
  <2> DEFINE h == [k \in 0 .. 0 |-> x0]
  <2>1. /\ h \in [0 .. 0 -> X] /\ h[0] = x0
        /\ \A k \in 1 .. 0 : h[k] = step[h[k - 1]]
    OBVIOUS
  <2> HIDE DEF h
  <2> QED
    BY <2>1
<1>2. ASSUME NEW n \in Nat, n \in S PROVE n + 1 \in S
  <2>1. PICK g \in [0 .. n -> X] : g[0] = x0 /\ \A k \in 1 .. n : g[k] = step[g[k - 1]]
    BY <1>2
  <2> DEFINE h == [k \in 0 .. n + 1 |-> IF k = n + 1 THEN step[g[n]] ELSE g[k]]
  <2>2. h \in [0 .. n + 1 -> X] /\ h[0] = x0
    BY <2>1
  <2>3. \A k \in 1 .. n + 1 : h[k] = step[h[k - 1]]
    BY <2>1
  <2> HIDE DEF h
  <2> QED
    BY <2>2, <2>3
<1>3. Nat \subseteq S
  <2> HIDE DEF S
  <2> QED
    BY <1>1, <1>2, SetInduction
<1> QED
  BY <1>3

-----------------------------------------------------------------------------
(* The loop of leaf_to_root, as the model's definition of it expands. *)
Above(path) == Parent(path[Len(path)])
Climb(id) ==
  CHOOSE climb : climb = [k \in 0 .. MaxDepth + 2 |->
    IF k = 0 THEN <<id>>
    ELSE LET path == climb[k - 1]
         IN  IF Above(path) \in Ids THEN Append(path, Above(path)) ELSE path]

LEMMA LeafToRootIsClimb ==
  ASSUME NEW id
  PROVE  LeafToRoot(id) = LET full == Climb(id)[MaxDepth + 2]
                          IN  IF id \in Ids /\ Above(full) = None THEN full ELSE <<>>
BY DEF LeafToRoot, Climb, Above

(* What the recursion says: it has a solution, so Climb(id) is one.        *)
LEMMA ClimbEquations ==
  ASSUME Inv, NEW id \in Ids
  PROVE  LET f == Climb(id)
         IN  /\ f[0] = <<id>>
             /\ \A k \in 1 .. MaxDepth + 2 :
                  f[k] = IF Above(f[k - 1]) \in Ids
                         THEN Append(f[k - 1], Above(f[k - 1])) ELSE f[k - 1]
<1> DEFINE X == Seq(Ids)
           start == <<id>>
           N == MaxDepth + 2
           step == [path \in X |-> IF Above(path) \in Ids
                                   THEN Append(path, Above(path)) ELSE path]
           Rec(f) == [k \in 0 .. MaxDepth + 2 |->
                        IF k = 0 THEN <<id>>
                        ELSE LET path == f[k - 1]
                             IN  IF Above(path) \in Ids
                                 THEN Append(path, Above(path)) ELSE path]
<1>1. start \in X /\ step \in [X -> X] /\ N \in Nat
  BY BoundsAssumption
<1>2. PICK g \in [0 .. MaxDepth + 2 -> X] :
        g[0] = <<id>> /\ \A k \in 1 .. MaxDepth + 2 : g[k] = step[g[k - 1]]
  <2> HIDE DEF step, X, start, N
  <2>1. \E g \in [0 .. N -> X] : g[0] = start /\ \A k \in 1 .. N : g[k] = step[g[k - 1]]
    BY <1>1, IteratesExist
  <2> QED
    BY <2>1 DEF start, N
<1>3. g = Rec(g)
  <2>1. ASSUME NEW k \in 0 .. MaxDepth + 2 PROVE g[k] = Rec(g)[k]
    <3>1. CASE k = 0
      BY <1>2, <3>1
    <3>2. CASE k # 0
      <4>1. k \in 1 .. MaxDepth + 2 /\ k - 1 \in 0 .. MaxDepth + 2
        BY <3>2, BoundsAssumption
      <4>2. g[k - 1] \in X /\ g[k] = step[g[k - 1]]
        BY <1>2, <4>1
      <4> QED
        BY <3>2, <4>1, <4>2
    <3> QED
      BY <3>1, <3>2
  <2> QED
    BY <2>1
<1>4. Climb(id) = Rec(Climb(id))
  <2>1. \E f : f = Rec(f)
    BY <1>3
  <2> QED
    BY <2>1 DEF Climb
<1>5. /\ 0 \in 0 .. MaxDepth + 2
      /\ \A k \in 1 .. MaxDepth + 2 : k \in 0 .. MaxDepth + 2 /\ k # 0
  BY BoundsAssumption
<1> HIDE DEF X, step
<1>6. \A k \in 0 .. MaxDepth + 2 : Climb(id)[k] = Rec(Climb(id))[k]
  BY <1>4
<1> QED
  BY <1>5, <1>6

(* After k rounds the path has climbed k layers, or has stopped at the     *)
(* root: each node is the parent of the one before, one layer up.          *)
ClimbedPath(id, path, n) ==
  /\ path \in Seq(Ids) /\ Len(path) = n + 1 /\ path[1] = id
  /\ \A i \in 1 .. n + 1 : nodes[path[i]].layer = nodes[id].layer + 1 - i
  /\ \A i \in 1 .. n : nodes[path[i]].parent = path[i + 1]

Rounds(id, k) == IF k <= nodes[id].layer THEN k ELSE nodes[id].layer

LEMMA RootIsLayerZero ==
  ASSUME Inv, LayersSound, NEW n \in Ids
  PROVE  /\ nodes[n].layer \in 0 .. MaxDepth
         /\ nodes[n].layer = 0 => n = Root /\ nodes[n].parent = None /\ None \notin Ids
         /\ nodes[n].layer # 0 => /\ nodes[n].parent \in Ids
                                  /\ nodes[nodes[n].parent].layer = nodes[n].layer - 1
<1>1. nodes[n] \in Node /\ nodes[n].layer \in Nat
  BY NodeFields DEF Inv, TypeOK
<1>2. n # Root => nodes[n].parent \in Ids /\ nodes[n].parent # None
  BY DEF Inv, LinksSound, VerifyInvariants
<1>3. n # Root => nodes[nodes[n].parent].layer \in Nat
  BY <1>2, NodeFields DEF Inv, TypeOK
<1>4. nodes[Root].parent = None
  BY DEF Inv, TypeOK, LinksSound, VerifyInvariants
<1>5. None \notin Ids
  BY DEF None, Inv, TypeOK
<1> QED
  BY <1>1, <1>2, <1>3, <1>4, <1>5, BoundsAssumption DEF LayersSound

(* One round of the loop. *)
LEMMA ClimbRound ==
  ASSUME Inv, LayersSound, NEW id \in Ids, NEW k \in Nat, NEW path, NEW next,
         ClimbedPath(id, path, Rounds(id, k)),
         next = IF Above(path) \in Ids THEN Append(path, Above(path)) ELSE path
  PROVE  ClimbedPath(id, next, Rounds(id, k + 1))
<1> DEFINE L == nodes[id].layer
           n == Rounds(id, k)
           last == path[n + 1]
<1>1. L \in 0 .. MaxDepth /\ L \in Nat /\ n \in 0 .. L
  BY RootIsLayerZero, BoundsAssumption DEF Rounds
<1>2. last \in Ids /\ nodes[last].layer = L - n /\ Above(path) = nodes[last].parent
  BY <1>1 DEF ClimbedPath, Above, Parent
<1>3. CASE k < L
  <2>1. n = k /\ Rounds(id, k + 1) = n + 1
    BY <1>1, <1>3 DEF Rounds
  <2>2. Above(path) \in Ids /\ nodes[Above(path)].layer = L - n - 1
    BY <1>1, <1>2, <1>3, <2>1, RootIsLayerZero
  <2>3. next = Append(path, Above(path))
    BY <2>2
  <2>4. path \in Seq(Ids) /\ Len(path) = n + 1
    BY DEF ClimbedPath
  <2>5. /\ next \in Seq(Ids) /\ Len(next) = n + 2 /\ next[n + 2] = Above(path)
        /\ \A i \in 1 .. n + 1 : next[i] = path[i]
    BY <1>1, <2>2, <2>3, <2>4
  <2>6. next[1] = id
    BY <1>1, <2>5 DEF ClimbedPath
  <2>7. ASSUME NEW i \in 1 .. n + 2 PROVE nodes[next[i]].layer = L + 1 - i
    BY <1>1, <2>2, <2>5 DEF ClimbedPath
  <2>8. ASSUME NEW i \in 1 .. n + 1 PROVE nodes[next[i]].parent = next[i + 1]
    BY <1>1, <1>2, <2>5 DEF ClimbedPath
  <2> QED
    BY <1>1, <2>1, <2>5, <2>6, <2>7, <2>8 DEF ClimbedPath
<1>4. CASE ~(k < L)
  <2>1. n = L /\ Rounds(id, k + 1) = n
    BY <1>1, <1>4 DEF Rounds
  <2>2. Above(path) \notin Ids
    BY <1>1, <1>2, <2>1, RootIsLayerZero
  <2> QED
    BY <2>1, <2>2
<1> QED
  BY <1>3, <1>4

(* leaf_to_root returns the whole path: its two errors are unreachable. *)
LEMMA ClimbReachesRoot ==
  ASSUME Inv, LayersSound, NEW id \in Ids
  PROVE  /\ ClimbedPath(id, LeafToRoot(id), nodes[id].layer)
         /\ LeafToRoot(id)[nodes[id].layer + 1] = Root
<1> DEFINE f == Climb(id)
           S == {k \in Nat : k <= MaxDepth + 2 => ClimbedPath(id, f[k], Rounds(id, k))}
<1>1. nodes[id].layer \in 0 .. MaxDepth /\ MaxDepth \in Nat
  BY RootIsLayerZero, BoundsAssumption
<1>2. 0 \in S
  <2>1. f[0] = <<id>> /\ Rounds(id, 0) = 0
    BY <1>1, ClimbEquations DEF Rounds
  <2>2. ClimbedPath(id, <<id>>, 0)
    BY <1>1 DEF ClimbedPath
  <2> HIDE DEF f
  <2> QED
    BY <2>1, <2>2
<1>3. ASSUME NEW k \in Nat, k \in S PROVE k + 1 \in S
  <2> SUFFICES ASSUME k + 1 <= MaxDepth + 2
               PROVE  ClimbedPath(id, f[k + 1], Rounds(id, k + 1))
    OBVIOUS
  <2>1. ClimbedPath(id, f[k], Rounds(id, k))
    BY <1>1, <1>3
  <2>2. f[k + 1] = IF Above(f[k]) \in Ids THEN Append(f[k], Above(f[k])) ELSE f[k]
    <3>1. k + 1 \in 1 .. MaxDepth + 2 /\ (k + 1) - 1 = k
      BY <1>1
    <3> QED
      BY <3>1, ClimbEquations
  <2> HIDE DEF f
  <2> QED
    BY <2>1, <2>2, ClimbRound
<1>4. Nat \subseteq S
  <2> HIDE DEF S
  <2> QED
    BY <1>2, <1>3, SetInduction
<1> DEFINE full == f[MaxDepth + 2]
<1>5. ClimbedPath(id, full, nodes[id].layer)
  BY <1>1, <1>4 DEF Rounds
<1>6. full[nodes[id].layer + 1] = Root /\ Above(full) = None
  <2> DEFINE top == nodes[id].layer + 1
  <2> HIDE DEF full
  <2>0. top \in 1 .. top /\ nodes[id].layer + 1 - top = 0
    BY <1>1
  <2>1. full[top] \in Ids /\ nodes[full[top]].layer = 0 /\ Len(full) = top
    <3>1. full \in Seq(Ids) /\ Len(full) = top /\ nodes[full[top]].layer = nodes[id].layer + 1 - top
      BY <1>5, <2>0 DEF ClimbedPath
    <3> HIDE DEF top
    <3> QED
      BY <2>0, <3>1
  <2> QED
    BY <2>1, RootIsLayerZero DEF Above, Parent
<1>7. LeafToRoot(id) = full
  BY <1>6, LeafToRootIsClimb
<1> QED
  BY <1>5, <1>6, <1>7

(* The nodes on the path are those whose subtree holds the node.  Going up *)
(* the path the subtrees grow; and the nodes off the path are closed under *)
(* children, so none of their subtrees reaches it.                         *)
LEMMA PathIsAncestors ==
  ASSUME Inv, LayersSound, NEW id \in Ids, NEW path, NEW n \in Nat,
         ClimbedPath(id, path, n), path[n + 1] = Root
  PROVE  {path[i] : i \in DOMAIN path} = {m \in Ids : id \in Subtree(m)}
<1>1. DOMAIN path = 1 .. n + 1 /\ \A i \in 1 .. n + 1 : path[i] \in Ids
  BY DEF ClimbedPath
<1>2. ASSUME NEW i \in 1 .. n + 1 PROVE id \in Subtree(path[i])
  <2> DEFINE S == {j \in Nat : j < n + 1 => id \in Subtree(path[j + 1])}
  <2>1. 0 \in S
    BY DEF Subtree, ClimbedPath
  <2>2. ASSUME NEW j \in Nat, j \in S PROVE j + 1 \in S
    <3> SUFFICES ASSUME j + 1 < n + 1 PROVE id \in Subtree(path[j + 2])
      OBVIOUS
    <3>1. /\ id \in Subtree(path[j + 1]) /\ path[j + 1] \in Ids /\ path[j + 2] \in Ids
          /\ nodes[path[j + 1]].parent = path[j + 2]
      BY <1>1, <2>2 DEF ClimbedPath
    <3>2. path[j + 1] \in nodes[path[j + 2]].children \cap Ids
      BY <3>1 DEF Inv, LinksSound
    <3> QED
      BY <3>1, <3>2 DEF Subtree, ClosedUnderChildren
  <2>3. Nat \subseteq S
    <3> HIDE DEF S
    <3> QED
      BY <2>1, <2>2, SetInduction
  <2>4. i - 1 \in S /\ i - 1 < n + 1 /\ i - 1 + 1 = i
    BY <2>3
  <2> QED
    BY <2>4
<1>3. ASSUME NEW m \in Ids, id \in Subtree(m), \A i \in 1 .. n + 1 : path[i] # m
      PROVE  FALSE
  <2> DEFINE S == Ids \ {path[i] : i \in 1 .. n + 1}
  <2>1. m \in S /\ S \in SUBSET Ids /\ id \notin S
    BY <1>3 DEF ClimbedPath
  <2>2. ASSUME NEW x \in S, NEW c \in nodes[x].children \cap Ids, c \notin S PROVE FALSE
    <3>1. nodes[c].parent = x
      BY DEF Inv, LinksSound
    <3>2. PICK i \in 1 .. n + 1 : c = path[i]
      BY <2>2
    <3>3. CASE i = n + 1
      BY <3>1, <3>2, <3>3 DEF Inv, TypeOK, LinksSound, VerifyInvariants, None
    <3>4. CASE i # n + 1
      <4>1. i \in 1 .. n /\ i + 1 \in 1 .. n + 1 /\ x = path[i + 1]
        BY <3>1, <3>2, <3>4 DEF ClimbedPath
      <4> QED
        BY <4>1
    <3> QED
      BY <3>3, <3>4
  <2>3. ClosedUnderChildren(S)
    BY <2>2 DEF ClosedUnderChildren
  <2> HIDE DEF S
  <2> QED
    BY <1>3, <2>1, <2>3 DEF Subtree
<1> QED
  BY <1>1, <1>2, <1>3

(* leaf_to_root for every graph the operations can build and every bound:  *)
(* it finds the root from every node, in exactly as many steps as the      *)
(* layer add_child compared with max_depth, through exactly the nodes      *)
(* whose removal would remove the node.                                    *)
THEOREM KeyGraphPaths == Spec => []PathsSound
<1>1. Inv /\ LayersSound => PathsSound
  <2> SUFFICES ASSUME Inv, LayersSound, NEW id \in Ids
               PROVE  LET path == LeafToRoot(id)
                      IN  /\ Len(path) = nodes[id].layer + 1
                          /\ path[Len(path)] = Root
                          /\ {path[i] : i \in DOMAIN path} = {m \in Ids : id \in Subtree(m)}
    BY DEF PathsSound, ClimbSound
  <2>1. nodes[id].layer \in Nat
    BY RootIsLayerZero, BoundsAssumption
  <2>2. /\ ClimbedPath(id, LeafToRoot(id), nodes[id].layer)
        /\ LeafToRoot(id)[nodes[id].layer + 1] = Root
    BY ClimbReachesRoot
  <2>3. Len(LeafToRoot(id)) = nodes[id].layer + 1
    BY <2>2 DEF ClimbedPath
  <2> QED
    BY <2>1, <2>2, <2>3, PathIsAncestors
<1>2. Spec => []Inv
  BY KeyGraphLinks, PTL DEF Inv
<1>3. Spec => []LayersSound
  BY KeyGraphBounds, PTL
<1> QED
  BY <1>1, <1>2, <1>3, PTL
=============================================================================
