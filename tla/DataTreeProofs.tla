--------------------------- MODULE DataTreeProofs ---------------------------
(***************************************************************************)
(* A data tree is a map from fields to values: whatever was inserted and   *)
(* whatever edges were split for it, a lookup finds at each path what was  *)
(* inserted there last.                                                    *)
(*                                                                         *)
(* The proof is by induction on the length of the path of an insertion:    *)
(* the call within a call works on a smaller path, and its result is put   *)
(* under the node at the end of an edge.                                   *)
(*                                                                         *)
(* From the shape of the tree it follows what a walk over it finds, how    *)
(* many nodes an insertion puts, and that its fields determine the tree.   *)
(***************************************************************************)
EXTENDS AccountState, FiniteSetTheorems, TLAPS

Trees == INSTANCE RadixTreeProofs WITH NewNode <- SetField

(* What is proved of Trees holds of Tree, whose definitions are the same.   *)
LEMMA SameNodeAt ==
  ASSUME NEW node, NEW path
  PROVE  Tree!NodeAt(node, path) = Trees!NodeAt(node, path)
BY ZenonT(200) DEF Tree!NodeAt, Trees!NodeAt, Tree!FollowPath, Trees!FollowPath,
       Tree!AfterTurns, Trees!AfterTurns, Tree!Turn, Trees!Turn, Tree!At, Trees!At,
       Tree!GoesOn, Trees!GoesOn, Tree!Drop, Trees!Drop, Tree!IsPrefix, Trees!IsPrefix

LEMMA SameInsert ==
  ASSUME NEW node, NEW path, NEW value
  PROVE  Tree!Insert(node, path, value) = Trees!Insert(node, path, value)
BY ZenonT(200) DEF Tree!Insert, Trees!Insert, Tree!ResultOf, Trees!ResultOf,
       Tree!CallsWithin, Trees!CallsWithin, Tree!InnerCall, Trees!InnerCall,
       Tree!Returns, Trees!Returns, Tree!InsertChild, Trees!InsertChild,
       Tree!CallsAgain, Trees!CallsAgain, Tree!ChildOf, Trees!ChildOf,
       Tree!SharedLength, Trees!SharedLength, Tree!TakesEdge, Trees!TakesEdge,
       Tree!LongestPrefixLength, Trees!LongestPrefixLength,
       Tree!WithChild, Trees!WithChild, Tree!Edge, Trees!Edge, Tree!Drop, Trees!Drop,
       Tree!IsPrefix, Trees!IsPrefix, Tree!Max, Trees!Max

LEMMA SingleChildLaw == Trees!SingleChildLaw
BY DEF Trees!SingleChildLaw, FromSingleChild, EmptyNode, Trees!SingleChild, Trees!Edge

-----------------------------------------------------------------------------
(***************************************************************************)
(* Lookups.                                                                *)
(***************************************************************************)
HasEdges(children) ==
  children = [d \in DOMAIN children |->
                [suffix |-> children[d].suffix, node |-> children[d].node]]
IsNode(node) == /\ node = [field |-> node.field, children |-> node.children]
                /\ HasEdges(node.children)
IsDataTree(tree) ==
  \E S : tree \in S /\ Trees!IsForest(S, Nat) /\ \A node \in S : IsNode(node)

(* lookup_data_in_account, in any tree.                                     *)
ValueAt(tree, path) ==
  LET found == Trees!NodeAt(tree, path)
  IN IF found = {} THEN None ELSE (CHOOSE node \in found : TRUE).field

LEMMA ValueAtEquation ==
  ASSUME NEW S, Trees!IsForest(S, Nat), NEW node \in S, NEW path \in Seq(Nat)
  PROVE  ValueAt(node, path) =
           IF path = <<>> THEN node.field
           ELSE IF Trees!LeadsOn(node, path)
           THEN ValueAt(Trees!NextNode(node, path), Trees!NextPath(node, path))
           ELSE None
<1>1. Trees!NodeAt(node, path) =
           IF path = <<>> THEN {node}
           ELSE IF Trees!LeadsOn(node, path)
           THEN Trees!NodeAt(Trees!NextNode(node, path), Trees!NextPath(node, path))
           ELSE {}
  BY Trees!NodeAtEquation
<1>2. (CHOOSE n \in {node} : TRUE) = node
  OBVIOUS
<1>3. CASE path = <<>>
  BY <1>1, <1>2, <1>3 DEF ValueAt
<1>4. CASE path # <<>> /\ Trees!LeadsOn(node, path)
  BY <1>1, <1>4 DEF ValueAt
<1>5. CASE path # <<>> /\ ~Trees!LeadsOn(node, path)
  BY <1>1, <1>5 DEF ValueAt
<1>6. QED
  BY <1>3, <1>4, <1>5

(* The value at a path that goes along an edge to a child.                  *)
ValueBeyond(edge, child, path) ==
  IF Trees!IsPrefix(edge, path) THEN ValueAt(child, Trees!Drop(path, Len(edge)))
  ELSE None

LEMMA ValueAlongEdge ==
  ASSUME NEW S, Trees!IsForest(S, Nat), NEW node \in S, NEW path \in Seq(Nat),
         path # <<>>, NEW d, d = Head(path)
  PROVE  ValueAt(node, path) =
           IF d \in DOMAIN node.children
           THEN ValueBeyond(<<d>> \o node.children[d].suffix, node.children[d].node, path)
           ELSE None
<1>1. CASE d \notin DOMAIN node.children
  BY <1>1, ValueAtEquation DEF Trees!LeadsOn
<1>2. CASE d \in DOMAIN node.children
  <2> DEFINE suffix == node.children[d].suffix
  <2>1. d \in Nat /\ suffix \in Seq(Nat)
    BY <1>2 DEF Trees!IsForest
  <2>2. /\ Trees!LeadsOn(node, path) <=> Trees!IsPrefix(suffix, Tail(path))
        /\ Trees!NextNode(node, path) = node.children[d].node
        /\ Trees!NextPath(node, path) = Trees!Drop(Tail(path), Len(suffix))
    BY <1>2 DEF Trees!LeadsOn, Trees!NextNode, Trees!NextPath
  <2> HIDE DEF suffix
  <2>3. /\ Trees!IsPrefix(<<d>> \o suffix, path)
             <=> d = Head(path) /\ Trees!IsPrefix(suffix, Tail(path))
        /\ Trees!IsPrefix(<<d>> \o suffix, path) =>
              Trees!Drop(path, Len(<<d>> \o suffix)) = Trees!Drop(Tail(path), Len(suffix))
    BY <2>1, Trees!PathAlongEdge
  <2>4. CASE Trees!LeadsOn(node, path)
    <3>1. ValueAt(node, path)
            = ValueAt(Trees!NextNode(node, path), Trees!NextPath(node, path))
      BY <2>4, ValueAtEquation
    <3>2. QED
      BY <1>2, <2>2, <2>3, <2>4, <3>1 DEF ValueBeyond, suffix
  <2>5. CASE ~Trees!LeadsOn(node, path)
    <3>1. ValueAt(node, path) = None
      BY <2>5, ValueAtEquation
    <3>2. QED
      BY <1>2, <2>2, <2>3, <2>5, <3>1 DEF ValueBeyond, suffix
  <2>6. QED
    BY <2>4, <2>5
<1>3. QED
  BY <1>1, <1>2

(* The value beyond two edges, the first of which ends at a node that has   *)
(* no field and no other child.                                             *)
LEMMA ValueBeyondMiddle ==
  ASSUME NEW S, Trees!IsForest(S, Nat), NEW child \in S,
         NEW s \in Seq(Nat) \ {<<>>}, NEW path \in Seq(Nat)
  PROVE  ValueAt(FromSingleChild(s, child), path) = ValueBeyond(s, child, path)
<1> DEFINE middle == FromSingleChild(s, child)
           M == S \cup Trees!Middles(S, Nat)
<1>1. Trees!IsForest(M, Nat)
  BY SingleChildLaw, Trees!MiddlesAreTrees
<1>2. middle \in M
  BY DEF Trees!Middles
<1>3. middle.field = None /\ middle.children = Trees!SingleChild(s, child)
  BY SingleChildLaw DEF Trees!SingleChildLaw, FromSingleChild, EmptyNode
<1>4. /\ DOMAIN middle.children = {Head(s)}
      /\ middle.children[Head(s)].suffix = Tail(s)
      /\ middle.children[Head(s)].node = child
  BY <1>3 DEF Trees!SingleChild, Trees!Edge
<1>5. s = <<Head(s)>> \o Tail(s) /\ Head(s) \in Nat /\ Tail(s) \in Seq(Nat)
  BY Trees!PathIsHeadAndTail, Trees!TailFacts
<1> HIDE DEF middle, M
<1>6. CASE path = <<>>
  <2>1. ValueAt(middle, path) = None
    BY <1>1, <1>2, <1>3, <1>6, ValueAtEquation
  <2>2. ~Trees!IsPrefix(s, path)
    BY <1>6 DEF Trees!IsPrefix
  <2>3. QED
    BY <2>1, <2>2 DEF ValueBeyond, middle
<1>7. CASE path # <<>> /\ Head(path) = Head(s)
  <2>1. ValueAt(middle, path) = ValueBeyond(<<Head(s)>> \o Tail(s), child, path)
    BY <1>1, <1>2, <1>4, <1>7, ValueAlongEdge
  <2>2. QED
    BY <1>5, <2>1 DEF middle
<1>8. CASE path # <<>> /\ Head(path) # Head(s)
  <2>1. ValueAt(middle, path) = None
    BY <1>1, <1>2, <1>4, <1>8, ValueAlongEdge
  <2>2. ~Trees!IsPrefix(<<Head(s)>> \o Tail(s), path)
    BY <1>5, <1>8, Trees!PathAlongEdge
  <2>3. QED
    BY <1>5, <2>1, <2>2 DEF ValueBeyond, middle
<1>9. QED
  BY <1>6, <1>7, <1>8

(* The value beyond an edge that is made of two, or of nothing.             *)
LEMMA ValueBeyondTwo ==
  ASSUME NEW child, NEW e \in Seq(Nat), NEW s \in Seq(Nat), NEW q \in Seq(Nat)
  PROVE  ValueBeyond(e \o s, child, q) =
           IF Trees!IsPrefix(e, q) THEN ValueBeyond(s, child, Trees!Drop(q, Len(e)))
           ELSE None
<1>1. /\ Trees!IsPrefix(e \o s, q)
           <=> Trees!IsPrefix(e, q) /\ Trees!IsPrefix(s, Trees!Drop(q, Len(e)))
      /\ Trees!IsPrefix(e \o s, q) =>
           Trees!Drop(q, Len(e \o s)) = Trees!Drop(Trees!Drop(q, Len(e)), Len(s))
  BY Trees!PathAfterPath
<1>2. QED
  BY <1>1 DEF ValueBeyond

LEMMA ValueBeyondNothing ==
  ASSUME NEW child, NEW q \in Seq(Nat)
  PROVE  ValueBeyond(<<>>, child, q) = ValueAt(child, q)
<1>1. Trees!IsPrefix(<<>>, q) /\ Trees!Drop(q, Len(<<>>)) = q
  BY DEF Trees!IsPrefix, Trees!Drop
<1>2. QED
  BY <1>1 DEF ValueBeyond
-----------------------------------------------------------------------------
(***************************************************************************)
(* Insertions.                                                             *)
(***************************************************************************)

(* rh_node_insert_child: what is below the new edge is replaced, and        *)
(* nothing else.                                                            *)
Grafted(node, edge, child) == Trees!Grafted(node, edge, child)

IsGraft(new, node, edge, child) ==
  /\ IsNode(new)
  /\ new.field = node.field
  /\ DOMAIN new.children = DOMAIN node.children \cup {Head(edge)}
  /\ new.children[Head(edge)].suffix = Tail(edge)
  /\ new.children[Head(edge)].node = child
  /\ \A d \in DOMAIN node.children \ {Head(edge)} : new.children[d] = node.children[d]

LEMMA NoEdges == HasEdges(<<>>)
<1>1. PICK none : none = <<>> /\ DOMAIN none = {}
  OBVIOUS
<1>2. none = [d \in DOMAIN none |-> [suffix |-> none[d].suffix, node |-> none[d].node]]
  BY <1>1
<1>3. QED
  BY <1>1, <1>2 DEF HasEdges

LEMMA OneEdge ==
  ASSUME NEW edge, NEW child
  PROVE  HasEdges(Trees!SingleChild(edge, child))
<1>1. PICK c : c = Trees!SingleChild(edge, child)
  OBVIOUS
<1>2. /\ c = [d \in {Head(edge)} |-> Trees!Edge(edge, child)]
      /\ DOMAIN c = {Head(edge)}
      /\ \A d \in DOMAIN c : c[d] = [suffix |-> Tail(edge), node |-> child]
  BY <1>1 DEF Trees!SingleChild, Trees!Edge
<1>3. \A d \in DOMAIN c : c[d] = [suffix |-> c[d].suffix, node |-> c[d].node]
  BY <1>2
<1>4. c = [d \in DOMAIN c |-> [suffix |-> c[d].suffix, node |-> c[d].node]]
  BY <1>2, <1>3
<1>5. QED
  BY <1>1, <1>4 DEF HasEdges

LEMMA OneMoreEdge ==
  ASSUME NEW children, HasEdges(children), NEW edge, NEW child
  PROVE  HasEdges(Trees!WithChild(children, edge, child))
<1>1. PICK c : c = Trees!WithChild(children, edge, child)
  OBVIOUS
<1>2. /\ c = [d \in DOMAIN children \cup {Head(edge)} |-> c[d]]
      /\ \A d \in DOMAIN c :
           c[d] = IF d = Head(edge) THEN [suffix |-> Tail(edge), node |-> child]
                  ELSE children[d]
      /\ \A d \in DOMAIN c \ {Head(edge)} : d \in DOMAIN children
  BY <1>1 DEF Trees!WithChild, Trees!Edge
<1>3. \A d \in DOMAIN children :
        children[d] = [suffix |-> children[d].suffix, node |-> children[d].node]
  BY DEF HasEdges
<1>4. \A d \in DOMAIN c : c[d] = [suffix |-> c[d].suffix, node |-> c[d].node]
  BY <1>2, <1>3
<1>5. c = [d \in DOMAIN c |-> [suffix |-> c[d].suffix, node |-> c[d].node]]
  BY <1>2, <1>4
<1>6. QED
  BY <1>1, <1>5 DEF HasEdges

LEMMA GraftedNode ==
  ASSUME NEW node, IsNode(node), NEW edge, NEW child
  PROVE  IsGraft(Grafted(node, edge, child), node, edge, child)
<1> DEFINE new == Grafted(node, edge, child)
<1>1. PICK field, children : node = [field |-> field, children |-> children]
  BY DEF IsNode
<1> DEFINE with == Trees!WithChild(children, edge, child)
<1>2. node.children = children /\ node.field = field
  BY <1>1
<1>3. new = [field |-> field, children |-> with]
  BY <1>1, <1>2 DEF Grafted, Trees!Grafted, ReplaceChildren
<1>4. /\ DOMAIN with = DOMAIN children \cup {Head(edge)}
      /\ with[Head(edge)] = Trees!Edge(edge, child)
      /\ \A d \in DOMAIN children \ {Head(edge)} : with[d] = children[d]
  BY DEF Trees!WithChild
<1> HIDE DEF with
<1>5. Trees!Edge(edge, child).suffix = Tail(edge) /\ Trees!Edge(edge, child).node = child
  BY DEF Trees!Edge
<1>6. new.children = with /\ new.field = field /\ IsNode(new)
  <2>1. HasEdges(children)
    BY <1>2 DEF IsNode
  <2>2. HasEdges(with)
    BY <2>1, OneMoreEdge DEF with
  <2>3. new.children = with /\ new.field = field
    BY <1>3
  <2>4. QED
    BY <1>3, <2>2, <2>3 DEF IsNode
<1> HIDE DEF new
<1>7. IsGraft(new, node, edge, child)
  BY <1>2, <1>4, <1>5, <1>6 DEF IsGraft
<1>8. QED
  BY <1>7 DEF new

LEMMA GraftedTree ==
  ASSUME NEW node, IsDataTree(node), NEW child, IsDataTree(child),
         NEW edge \in Seq(Nat), edge # <<>>,
         NEW new, new = Grafted(node, edge, child)
  PROVE  /\ IsDataTree(new)
         /\ \A path \in Seq(Nat) :
              ValueAt(new, path) =
                IF path # <<>> /\ Head(path) = Head(edge)
                THEN ValueBeyond(edge, child, path) ELSE ValueAt(node, path)
<1>1. PICK S : node \in S /\ Trees!IsForest(S, Nat) /\ \A n \in S : IsNode(n)
  BY DEF IsDataTree
<1>2. PICK T : child \in T /\ Trees!IsForest(T, Nat) /\ \A n \in T : IsNode(n)
  BY DEF IsDataTree
<1>3. /\ IsNode(new)
      /\ new.field = node.field
      /\ DOMAIN new.children = DOMAIN node.children \cup {Head(edge)}
      /\ new.children[Head(edge)].suffix = Tail(edge)
      /\ new.children[Head(edge)].node = child
      /\ \A d \in DOMAIN node.children \ {Head(edge)} :
           new.children[d] = node.children[d]
  <2>1. IsGraft(new, node, edge, child)
    BY <1>1, GraftedNode
  <2>2. QED
    BY <2>1 DEF IsGraft
<1>4. edge = <<Head(edge)>> \o Tail(edge) /\ Head(edge) \in Nat /\ Tail(edge) \in Seq(Nat)
  BY Trees!PathIsHeadAndTail, Trees!TailFacts
<1> DEFINE U == S \cup T \cup {new}
<1>5. Trees!IsForest(U, Nat)
  <2>1. ASSUME NEW n \in U, NEW d \in DOMAIN n.children
        PROVE  /\ d \in Nat
               /\ n.children[d].suffix \in Seq(Nat)
               /\ n.children[d].node \in U
    <3>1. CASE n \in S \cup T
      BY <1>1, <1>2, <3>1 DEF Trees!IsForest
    <3>2. CASE n = new /\ d = Head(edge)
      BY <1>2, <1>3, <1>4, <3>2
    <3>3. CASE n = new /\ d # Head(edge)
      <4>1. d \in DOMAIN node.children /\ n.children[d] = node.children[d]
        BY <1>3, <2>1, <3>3
      <4>2. QED
        BY <1>1, <4>1 DEF Trees!IsForest
    <3>4. QED
      BY <3>1, <3>2, <3>3
  <2>2. QED
    BY <2>1 DEF Trees!IsForest
<1>6. /\ new \in U /\ node \in U /\ \A n \in U : IsNode(n)
  BY <1>1, <1>2, <1>3
<1>7. IsDataTree(new)
  BY <1>5, <1>6 DEF IsDataTree
<1> HIDE DEF U
<1>8. ASSUME NEW path \in Seq(Nat)
      PROVE  ValueAt(new, path) =
               IF path # <<>> /\ Head(path) = Head(edge)
               THEN ValueBeyond(edge, child, path) ELSE ValueAt(node, path)
  <2>1. CASE path = <<>>
    BY <1>3, <1>5, <1>6, <2>1, ValueAtEquation
  <2>2. CASE path # <<>>
    <3> DEFINE Along(n) ==
          IF Head(path) \in DOMAIN n.children
          THEN ValueBeyond(<<Head(path)>> \o n.children[Head(path)].suffix,
                           n.children[Head(path)].node, path)
          ELSE None
    <3>1. ValueAt(new, path) = Along(new) /\ ValueAt(node, path) = Along(node)
      BY <1>5, <1>6, <2>2, ValueAlongEdge
    <3>2. CASE Head(path) = Head(edge)
      <4>1. Along(new) = ValueBeyond(<<Head(edge)>> \o Tail(edge), child, path)
        BY <1>3, <3>2
      <4>2. QED
        BY <1>4, <2>2, <3>1, <3>2, <4>1
    <3>3. CASE Head(path) # Head(edge)
      <4>1. Along(new) = Along(node)
        BY <1>3, <3>3
      <4>2. QED
        BY <3>1, <3>3, <4>1
    <3>4. QED
      BY <3>2, <3>3
  <2>3. QED
    BY <2>1, <2>2
<1>9. QED
  BY <1>7, <1>8

(* A new node that has a field and no children.                             *)
LEMMA LeafTree ==
  ASSUME NEW value, NEW leaf, leaf = [field |-> value, children |-> <<>>]
  PROVE  /\ IsDataTree(leaf)
         /\ \A path \in Seq(Nat) :
              ValueAt(leaf, path) = IF path = <<>> THEN value ELSE None
<1>1. PICK none : none = <<>> /\ DOMAIN none = {}
  OBVIOUS
<1>2. IsNode(leaf) /\ leaf.field = value /\ DOMAIN leaf.children = {}
  <2>1. leaf.field = value /\ leaf.children = none
    BY <1>1
  <2>2. QED
    BY <1>1, <2>1, NoEdges DEF IsNode
<1>3. Trees!IsForest({leaf}, Nat)
  BY <1>2 DEF Trees!IsForest
<1>4. IsDataTree(leaf)
  BY <1>2, <1>3 DEF IsDataTree
<1>5. ASSUME NEW path \in Seq(Nat)
      PROVE  ValueAt(leaf, path) = IF path = <<>> THEN value ELSE None
  BY <1>2, <1>3, ValueAtEquation DEF Trees!LeadsOn
<1>6. QED
  BY <1>4, <1>5

(* The node at which the path of an insertion ends.                         *)
LEMMA FieldOfNode ==
  ASSUME NEW node, IsDataTree(node), NEW value,
         NEW new, new = [node EXCEPT !.field = value]
  PROVE  /\ IsDataTree(new)
         /\ \A path \in Seq(Nat) :
              ValueAt(new, path) = IF path = <<>> THEN value ELSE ValueAt(node, path)
<1>1. PICK S : node \in S /\ Trees!IsForest(S, Nat) /\ \A n \in S : IsNode(n)
  BY DEF IsDataTree
<1>2. PICK field, children : /\ node = [field |-> field, children |-> children]
                             /\ HasEdges(children)
  BY <1>1 DEF IsNode
<1>3. new = [field |-> value, children |-> children]
  BY <1>2
<1>4. IsNode(new) /\ new.field = value /\ new.children = node.children
  BY <1>2, <1>3 DEF IsNode
<1> DEFINE U == S \cup {new}
<1>5. Trees!IsForest(U, Nat) /\ new \in U /\ node \in U /\ \A n \in U : IsNode(n)
  BY <1>1, <1>4 DEF Trees!IsForest
<1>6. IsDataTree(new)
  BY <1>5 DEF IsDataTree
<1> HIDE DEF U
<1>7. ASSUME NEW path \in Seq(Nat)
      PROVE  ValueAt(new, path) = IF path = <<>> THEN value ELSE ValueAt(node, path)
  <2>1. CASE path = <<>>
    BY <1>4, <1>5, <2>1, ValueAtEquation
  <2>2. CASE path # <<>>
    <3> DEFINE Along(n) ==
          IF Head(path) \in DOMAIN n.children
          THEN ValueBeyond(<<Head(path)>> \o n.children[Head(path)].suffix,
                           n.children[Head(path)].node, path)
          ELSE None
    <3>1. ValueAt(new, path) = Along(new) /\ ValueAt(node, path) = Along(node)
      BY <1>5, <2>2, ValueAlongEdge
    <3>2. Along(new) = Along(node)
      BY <1>4
    <3>3. QED
      BY <2>2, <3>1, <3>2
  <2>3. QED
    BY <2>1, <2>2
<1>8. QED
  BY <1>6, <1>7

(* A new node in the middle of an edge.                                     *)
LEMMA MiddleIsNode ==
  ASSUME NEW path, NEW node
  PROVE  IsNode(FromSingleChild(path, node))
<1>1. PICK middle : middle = FromSingleChild(path, node)
  OBVIOUS
<1>2. /\ middle = [field |-> None, children |-> Trees!SingleChild(path, node)]
  BY <1>1 DEF FromSingleChild, EmptyNode, Trees!SingleChild, Trees!Edge
<1>3. HasEdges(middle.children)
  BY <1>2, OneEdge
<1>4. IsNode(middle)
  BY <1>2, <1>3 DEF IsNode
<1>5. QED
  BY <1>1, <1>4

LEMMA MiddleTree ==
  ASSUME NEW S, Trees!IsForest(S, Nat), \A n \in S : IsNode(n),
         NEW child \in S, NEW s \in Seq(Nat) \ {<<>>}
  PROVE  IsDataTree(FromSingleChild(s, child))
<1> DEFINE U == S \cup Trees!Middles(S, Nat)
<1>1. Trees!IsForest(U, Nat)
  BY SingleChildLaw, Trees!MiddlesAreTrees
<1>2. \A path, node : IsNode(FromSingleChild(path, node))
  BY MiddleIsNode
<1>3. \A n \in U : IsNode(n)
  BY <1>2 DEF Trees!Middles
<1>4. FromSingleChild(s, child) \in U
  BY DEF Trees!Middles
<1>5. QED
  BY <1>1, <1>3, <1>4 DEF IsDataTree

(* What a call puts under a node, and what was found there before.          *)
IsSetAt(new, tree, path, value) ==
  /\ IsDataTree(new)
  /\ \A q \in Seq(Nat) :
       ValueAt(new, q) = IF q = path THEN value ELSE ValueAt(tree, q)

LEMMA GraftedValue ==
  ASSUME NEW node, IsDataTree(node), NEW path \in Seq(Nat), NEW value,
         NEW e \in Seq(Nat), e # <<>>, Head(e) = Head(path),
         NEW inner \in Seq(Nat), path = e \o inner,
         NEW tree, NEW sub, IsSetAt(sub, tree, inner, value),
         \A q \in Seq(Nat) : q # <<>> /\ Head(q) = Head(path) =>
           ValueAt(node, q) = ValueBeyond(e, tree, q)
  PROVE  IsSetAt(Grafted(node, e, sub), node, path, value)
<1>1. IsDataTree(sub)
  BY DEF IsSetAt
<1> DEFINE new == Grafted(node, e, sub)
<1>2. /\ IsDataTree(new)
      /\ \A q \in Seq(Nat) :
           ValueAt(new, q) = IF q # <<>> /\ Head(q) = Head(e)
                             THEN ValueBeyond(e, sub, q) ELSE ValueAt(node, q)
  BY <1>1, GraftedTree
<1> HIDE DEF new
<1>3. path # <<>>
  OBVIOUS
<1>4. ASSUME NEW q \in Seq(Nat)
      PROVE  ValueAt(new, q) = IF q = path THEN value ELSE ValueAt(node, q)
  <2>1. CASE ~(q # <<>> /\ Head(q) = Head(e))
    BY <1>2, <1>3, <2>1
  <2>2. CASE q # <<>> /\ Head(q) = Head(e)
    <3>1. ValueAt(new, q) = ValueBeyond(e, sub, q)
      BY <1>2, <2>2
    <3>2. ValueAt(node, q) = ValueBeyond(e, tree, q)
      BY <2>2
    <3>3. q = path <=> Trees!IsPrefix(e, q) /\ Trees!Drop(q, Len(e)) = inner
      <4>1. e \in Seq(Nat) /\ inner \in Seq(Nat) /\ q \in Seq(Nat)
        OBVIOUS
      <4>2. q = e \o inner
              <=> Trees!IsPrefix(e, q) /\ Trees!Drop(q, Len(e)) = inner
        BY ONLY <4>1, Trees!PathIsJoin
      <4>3. QED
        BY <4>2
    <3>4. CASE Trees!IsPrefix(e, q)
      <4>1. Trees!Drop(q, Len(e)) \in Seq(Nat)
        BY <3>4, Trees!PrefixFacts, Trees!DropElements
      <4>2. ValueAt(sub, Trees!Drop(q, Len(e)))
              = IF Trees!Drop(q, Len(e)) = inner THEN value
                ELSE ValueAt(tree, Trees!Drop(q, Len(e)))
        BY <4>1 DEF IsSetAt
      <4>3. QED
        BY <3>1, <3>2, <3>3, <3>4, <4>2 DEF ValueBeyond
    <3>5. CASE ~Trees!IsPrefix(e, q)
      BY <3>1, <3>2, <3>3, <3>5 DEF ValueBeyond
    <3>6. QED
      BY <3>4, <3>5
  <2>3. QED
    BY <2>1, <2>2
<1>5. QED
  BY <1>2, <1>4 DEF IsSetAt, new
-----------------------------------------------------------------------------
(***************************************************************************)
(* The cases of a call of insert_into_rh_tree.                             *)
(***************************************************************************)
Inserted(tree, path, value) == Trees!Inserted(tree, path, value)
Counted(tree, path, value) == Trees!Counted(tree, path, value)

LEMMA DataTreeIsTree ==
  ASSUME NEW node, IsDataTree(node)
  PROVE  Trees!IsTree(node, Nat)
BY DEF IsDataTree, Trees!IsTree

(* The path ends at the node.                                               *)
LEMMA InsertedHere ==
  ASSUME NEW node, IsDataTree(node), NEW path, path = <<>>, NEW value
  PROVE  Inserted(node, path, value) = [node EXCEPT !.field = value]
<1>1. Inserted(node, path, value) = SetField(<<node>>, value)
  BY DataTreeIsTree, SingleChildLaw, Trees!InsertedHere DEF Inserted
<1>2. SetField(<<node>>, value) = [node EXCEPT !.field = value]
  BY DEF SetField
<1>3. QED
  BY <1>1, <1>2

LEMMA InsertHere ==
  ASSUME NEW node, IsDataTree(node), NEW path, path = <<>>, NEW value
  PROVE  IsSetAt(Inserted(node, path, value), node, path, value)
<1>1. PICK new : new = [node EXCEPT !.field = value]
  OBVIOUS
<1>2. Inserted(node, path, value) = new
  BY <1>1, InsertedHere
<1>3. /\ IsDataTree(new)
      /\ \A q \in Seq(Nat) : ValueAt(new, q) = IF q = <<>> THEN value ELSE ValueAt(node, q)
  BY <1>1, FieldOfNode
<1>4. QED
  BY <1>2, <1>3 DEF IsSetAt

(* The node has no child in that direction: it gets a new one.              *)
LEMMA InsertedLeaf ==
  ASSUME NEW node, IsDataTree(node), NEW path \in Seq(Nat), path # <<>>,
         Head(path) \notin DOMAIN node.children, NEW value
  PROVE  Inserted(node, path, value)
           = Grafted(node, path, [field |-> value, children |-> <<>>])
<1>1. Inserted(node, path, value) = Grafted(node, path, SetField(<<>>, value))
  BY DataTreeIsTree, SingleChildLaw, Trees!InsertedLeaf DEF Inserted, Grafted
<1>2. SetField(<<>>, value) = [field |-> value, children |-> <<>>]
  BY DEF SetField, EmptyNode
<1>3. QED
  BY <1>1, <1>2

LEMMA InsertLeaf ==
  ASSUME NEW node, IsDataTree(node), NEW path \in Seq(Nat), path # <<>>,
         Head(path) \notin DOMAIN node.children, NEW value
  PROVE  IsSetAt(Inserted(node, path, value), node, path, value)
<1> DEFINE leaf == [field |-> value, children |-> <<>>]
           none == [field |-> None, children |-> <<>>]
<1>1. PICK S : node \in S /\ Trees!IsForest(S, Nat)
  BY DEF IsDataTree
<1>2. Inserted(node, path, value) = Grafted(node, path, leaf)
  BY InsertedLeaf
<1>3. /\ IsDataTree(leaf)
      /\ \A q \in Seq(Nat) : ValueAt(leaf, q) = IF q = <<>> THEN value ELSE None
  BY LeafTree
<1>4. \A q \in Seq(Nat) : ValueAt(none, q) = None
  BY LeafTree
<1> HIDE DEF leaf, none
<1>5. IsSetAt(leaf, none, <<>>, value)
  BY <1>3, <1>4 DEF IsSetAt
<1>6. path = path \o <<>> /\ <<>> \in Seq(Nat)
  OBVIOUS
<1>7. ASSUME NEW q \in Seq(Nat), q # <<>>, Head(q) = Head(path)
      PROVE  ValueAt(node, q) = ValueBeyond(path, none, q)
  <2>1. ValueAt(node, q) = None
    BY <1>1, <1>7, ValueAlongEdge
  <2>2. Trees!IsPrefix(path, q) => Trees!Drop(q, Len(path)) \in Seq(Nat)
    BY Trees!PrefixFacts, Trees!DropElements
  <2>3. QED
    BY <1>4, <2>1, <2>2 DEF ValueBeyond
<1>8. IsSetAt(Grafted(node, path, leaf), node, path, value)
  BY <1>5, <1>6, <1>7, GraftedValue
<1>9. QED
  BY <1>2, <1>8

(* The path goes along an edge, or part of one.                             *)
Descends(node, path, value, e, s, tree, inner) ==
  /\ e \in Seq(Nat) /\ e # <<>> /\ Head(e) = Head(path)
  /\ inner \in Seq(Nat) /\ path = e \o inner /\ Len(inner) < Len(path)
  /\ s \in Seq(Nat) /\ <<Head(path)>> \o node.children[Head(path)].suffix = e \o s
  /\ s # <<>> /\ inner # <<>> => Head(s) # Head(inner)
  /\ tree = IF s = <<>> THEN node.children[Head(path)].node
            ELSE FromSingleChild(s, node.children[Head(path)].node)
  /\ Inserted(node, path, value) = Grafted(node, e, Inserted(tree, inner, value))
  /\ Counted(node, path, value)
       = (Counted(tree, inner, value) + IF s = <<>> THEN 0 ELSE 1) + 1

LEMMA InsertedWithin ==
  ASSUME NEW node, IsDataTree(node), NEW path \in Seq(Nat), path # <<>>,
         Head(path) \in DOMAIN node.children, NEW value
  PROVE  \E e, s, tree, inner : Descends(node, path, value, e, s, tree, inner)
<1>1. \E e, s, tree, inner : Trees!Descends(node, path, value, e, s, tree, inner, Nat)
  BY DataTreeIsTree, SingleChildLaw, Trees!InsertedWithin
<1>2. QED
  BY <1>1 DEF Trees!Descends, Descends, Inserted, Counted, Grafted

LEMMA InsertWithin ==
  ASSUME NEW node, IsDataTree(node), NEW path \in Seq(Nat), path # <<>>,
         Head(path) \in DOMAIN node.children, NEW value,
         \A tree, p : IsDataTree(tree) /\ p \in Seq(Nat) /\ Len(p) < Len(path) =>
           IsSetAt(Inserted(tree, p, value), tree, p, value)
  PROVE  IsSetAt(Inserted(node, path, value), node, path, value)
<1>1. PICK S : node \in S /\ Trees!IsForest(S, Nat) /\ \A n \in S : IsNode(n)
  BY DEF IsDataTree
<1>2. PICK e, s, tree, inner : Descends(node, path, value, e, s, tree, inner)
  BY InsertedWithin
<1>3. PICK suffix, below : /\ suffix = node.children[Head(path)].suffix
                           /\ below = node.children[Head(path)].node
  OBVIOUS
<1>4. /\ e \in Seq(Nat) /\ e # <<>> /\ Head(e) = Head(path)
      /\ inner \in Seq(Nat) /\ path = e \o inner /\ Len(inner) < Len(path)
      /\ s \in Seq(Nat) /\ <<Head(path)>> \o suffix = e \o s
      /\ tree = IF s = <<>> THEN below ELSE FromSingleChild(s, below)
      /\ Inserted(node, path, value) = Grafted(node, e, Inserted(tree, inner, value))
  BY <1>2, <1>3 DEF Descends
<1>5. below \in S
  BY <1>1, <1>3 DEF Trees!IsForest
<1>6. /\ IsDataTree(tree)
      /\ \A q \in Seq(Nat) : ValueAt(tree, q) = ValueBeyond(s, below, q)
  <2>1. CASE s = <<>>
    <3>1. tree = below
      BY <1>4, <2>1
    <3>2. IsDataTree(below)
      BY <1>1, <1>5 DEF IsDataTree
    <3>3. QED
      BY <2>1, <3>1, <3>2, ValueBeyondNothing
  <2>2. CASE s # <<>>
    <3>1. tree = FromSingleChild(s, below) /\ s \in Seq(Nat) \ {<<>>}
      BY <1>4, <2>2
    <3>2. IsDataTree(tree)
      BY <1>1, <1>5, <3>1, MiddleTree
    <3>3. ASSUME NEW q \in Seq(Nat)
          PROVE  ValueAt(tree, q) = ValueBeyond(s, below, q)
      BY <1>1, <1>5, <3>1, ValueBeyondMiddle
    <3>4. QED
      BY <3>2, <3>3
  <2>3. QED
    BY <2>1, <2>2
<1>7. PICK sub : sub = Inserted(tree, inner, value)
  OBVIOUS
<1>8. IsSetAt(sub, tree, inner, value)
  BY <1>4, <1>6, <1>7
<1>9. ASSUME NEW q \in Seq(Nat), q # <<>>, Head(q) = Head(path)
      PROVE  ValueAt(node, q) = ValueBeyond(e, tree, q)
  <2>1. ValueAt(node, q) = ValueBeyond(<<Head(path)>> \o suffix, below, q)
    BY <1>1, <1>3, <1>9, ValueAlongEdge
  <2>2. ValueBeyond(e \o s, below, q)
          = IF Trees!IsPrefix(e, q)
            THEN ValueBeyond(s, below, Trees!Drop(q, Len(e))) ELSE None
    BY <1>4, ValueBeyondTwo
  <2>3. Trees!IsPrefix(e, q) => Trees!Drop(q, Len(e)) \in Seq(Nat)
    BY <1>4, Trees!PrefixFacts, Trees!DropElements
  <2>4. QED
    BY <1>4, <1>6, <2>1, <2>2, <2>3 DEF ValueBeyond
<1>10. IsSetAt(Grafted(node, e, sub), node, path, value)
  BY <1>4, <1>8, <1>9, GraftedValue
<1>11. QED
  BY <1>4, <1>7, <1>10

(* Every insertion sets what its path leads to, and nothing else.           *)
LEMMA InsertSets ==
  ASSUME NEW tree, IsDataTree(tree), NEW path \in Seq(Nat), NEW value
  PROVE  IsSetAt(Inserted(tree, path, value), tree, path, value)
<1> DEFINE Sets(n) == \A t, p : IsDataTree(t) /\ p \in Seq(Nat) /\ Len(p) < n =>
                        IsSetAt(Inserted(t, p, value), t, p, value)
           B == {n \in Nat : Sets(n)}
<1>1. \A p \in Seq(Nat) : Len(p) \in Nat
  OBVIOUS
<1>2. 0 \in B
  BY <1>1
<1>3. ASSUME NEW n \in Nat, n \in B PROVE n + 1 \in B
  <2>1. Sets(n)
    BY <1>3
  <2>2. ASSUME NEW t, IsDataTree(t), NEW p \in Seq(Nat), Len(p) < n + 1
        PROVE  IsSetAt(Inserted(t, p, value), t, p, value)
    <3>1. \A u, q : IsDataTree(u) /\ q \in Seq(Nat) /\ Len(q) < Len(p) =>
            IsSetAt(Inserted(u, q, value), u, q, value)
      BY <1>1, <2>1, <2>2
    <3> HIDE DEF Sets
    <3>2. CASE p = <<>>
      BY <2>2, <3>2, InsertHere
    <3>3. CASE p # <<>> /\ Head(p) \notin DOMAIN t.children
      BY <2>2, <3>3, InsertLeaf
    <3>4. CASE p # <<>> /\ Head(p) \in DOMAIN t.children
      BY <2>2, <3>1, <3>4, InsertWithin
    <3>5. QED
      BY <3>2, <3>3, <3>4
  <2>3. Sets(n + 1)
    BY <2>2
  <2> HIDE DEF Sets
  <2>4. QED
    BY <2>3
<1> HIDE DEF B
<1>4. \A n \in Nat : n \in B
  BY <1>2, <1>3, Trees!NatSetInduction
<1>5. Len(path) + 1 \in B /\ Len(path) < Len(path) + 1
  BY <1>1, <1>4
<1>6. QED
  BY <1>5 DEF B

-----------------------------------------------------------------------------
(***************************************************************************)
(* The shape of a tree.  Below its root every node is well formed: an      *)
(* insertion splits an edge exactly where its path leaves it, so that the  *)
(* new node in the middle gets the field, or a second child.               *)
(***************************************************************************)
HasWellFormedChildren(tree) ==
  \E S : /\ Trees!IsForest(S, Nat)
         /\ \A node \in S : IsNode(node) /\ DataNodeWellFormed(node)
         /\ IsNode(tree)
         /\ \A d \in DOMAIN tree.children :
              /\ d \in Nat
              /\ tree.children[d].suffix \in Seq(Nat)
              /\ tree.children[d].node \in S

(* What an insertion does to the node it begins at.                         *)
Keeps(new, tree, path, value) ==
  /\ HasWellFormedChildren(new)
  /\ path = <<>> => new.field = value /\ DOMAIN new.children = DOMAIN tree.children
  /\ path # <<>> => /\ new.field = tree.field
                    /\ DOMAIN new.children = DOMAIN tree.children \cup {Head(path)}

LEMMA WellFormedTree ==
  ASSUME NEW tree, HasWellFormedChildren(tree)
  PROVE  IsDataTree(tree)
<1>1. PICK S : /\ Trees!IsForest(S, Nat)
               /\ \A node \in S : IsNode(node) /\ DataNodeWellFormed(node)
               /\ IsNode(tree)
               /\ \A d \in DOMAIN tree.children :
                    /\ d \in Nat
                    /\ tree.children[d].suffix \in Seq(Nat)
                    /\ tree.children[d].node \in S
  BY DEF HasWellFormedChildren
<1>2. Trees!IsForest(S \cup {tree}, Nat)
  BY <1>1 DEF Trees!IsForest
<1>3. QED
  BY <1>1, <1>2 DEF IsDataTree

LEMMA WellFormedChild ==
  ASSUME NEW tree, HasWellFormedChildren(tree), NEW d \in DOMAIN tree.children
  PROVE  /\ d \in Nat /\ tree.children[d].suffix \in Seq(Nat)
         /\ HasWellFormedChildren(tree.children[d].node)
         /\ DataNodeWellFormed(tree.children[d].node)
<1>1. PICK S : /\ Trees!IsForest(S, Nat)
               /\ \A node \in S : IsNode(node) /\ DataNodeWellFormed(node)
               /\ IsNode(tree)
               /\ \A e \in DOMAIN tree.children :
                    /\ e \in Nat
                    /\ tree.children[e].suffix \in Seq(Nat)
                    /\ tree.children[e].node \in S
  BY DEF HasWellFormedChildren
<1>2. PICK child : child = tree.children[d].node
  OBVIOUS
<1>3. child \in S /\ d \in Nat /\ tree.children[d].suffix \in Seq(Nat)
  BY <1>1, <1>2
<1>4. \A e \in DOMAIN child.children :
        /\ e \in Nat
        /\ child.children[e].suffix \in Seq(Nat)
        /\ child.children[e].node \in S
  BY <1>1, <1>3 DEF Trees!IsForest
<1>5. HasWellFormedChildren(child)
  BY <1>1, <1>3, <1>4 DEF HasWellFormedChildren
<1>6. QED
  BY <1>1, <1>2, <1>3, <1>5

LEMMA WellFormedMiddle ==
  ASSUME NEW child, HasWellFormedChildren(child), DataNodeWellFormed(child),
         NEW s \in Seq(Nat) \ {<<>>}, NEW middle, middle = FromSingleChild(s, child)
  PROVE  /\ HasWellFormedChildren(middle)
         /\ DOMAIN middle.children = {Head(s)}
<1>1. PICK S : /\ Trees!IsForest(S, Nat)
               /\ \A node \in S : IsNode(node) /\ DataNodeWellFormed(node)
               /\ IsNode(child)
               /\ \A d \in DOMAIN child.children :
                    /\ d \in Nat
                    /\ child.children[d].suffix \in Seq(Nat)
                    /\ child.children[d].node \in S
  BY DEF HasWellFormedChildren
<1>2. middle.children = Trees!SingleChild(s, child)
  BY SingleChildLaw DEF Trees!SingleChildLaw
<1>3. /\ DOMAIN middle.children = {Head(s)}
      /\ middle.children[Head(s)].suffix = Tail(s)
      /\ middle.children[Head(s)].node = child
  BY <1>2 DEF Trees!SingleChild, Trees!Edge
<1>4. IsNode(middle)
  BY MiddleIsNode
<1>5. Head(s) \in Nat /\ Tail(s) \in Seq(Nat)
  BY Trees!TailFacts
<1> DEFINE T == S \cup {child}
<1>6. Trees!IsForest(T, Nat) /\ \A node \in T : IsNode(node) /\ DataNodeWellFormed(node)
  BY <1>1 DEF Trees!IsForest
<1>7. child \in T
  OBVIOUS
<1> HIDE DEF T
<1>8. HasWellFormedChildren(middle)
  <2>1. \A d \in DOMAIN middle.children :
          /\ d \in Nat
          /\ middle.children[d].suffix \in Seq(Nat)
          /\ middle.children[d].node \in T
    BY ONLY <1>3, <1>5, <1>7
  <2>2. QED
    BY ONLY <1>4, <1>6, <2>1 DEF HasWellFormedChildren
<1>9. QED
  BY <1>3, <1>8

LEMMA WellFormedGraft ==
  ASSUME NEW node, HasWellFormedChildren(node),
         NEW child, HasWellFormedChildren(child), DataNodeWellFormed(child),
         NEW edge \in Seq(Nat), edge # <<>>,
         NEW new, new = Grafted(node, edge, child)
  PROVE  /\ HasWellFormedChildren(new)
         /\ new.field = node.field
         /\ DOMAIN new.children = DOMAIN node.children \cup {Head(edge)}
<1>1. PICK S : /\ Trees!IsForest(S, Nat)
               /\ \A n \in S : IsNode(n) /\ DataNodeWellFormed(n)
               /\ IsNode(node)
               /\ \A d \in DOMAIN node.children :
                    /\ d \in Nat
                    /\ node.children[d].suffix \in Seq(Nat)
                    /\ node.children[d].node \in S
  BY DEF HasWellFormedChildren
<1>2. PICK T : /\ Trees!IsForest(T, Nat)
               /\ \A n \in T : IsNode(n) /\ DataNodeWellFormed(n)
               /\ IsNode(child)
               /\ \A d \in DOMAIN child.children :
                    /\ d \in Nat
                    /\ child.children[d].suffix \in Seq(Nat)
                    /\ child.children[d].node \in T
  BY DEF HasWellFormedChildren
<1>3. /\ IsNode(new)
      /\ new.field = node.field
      /\ DOMAIN new.children = DOMAIN node.children \cup {Head(edge)}
      /\ new.children[Head(edge)].suffix = Tail(edge)
      /\ new.children[Head(edge)].node = child
      /\ \A d \in DOMAIN node.children \ {Head(edge)} :
           new.children[d] = node.children[d]
  <2>1. IsGraft(new, node, edge, child)
    BY <1>1, GraftedNode
  <2>2. QED
    BY <2>1 DEF IsGraft
<1>4. Head(edge) \in Nat /\ Tail(edge) \in Seq(Nat)
  BY Trees!TailFacts
<1> DEFINE U == S \cup T \cup {child}
<1>5. Trees!IsForest(U, Nat)
  <2>1. ASSUME NEW n \in U, NEW d \in DOMAIN n.children
        PROVE  /\ d \in Nat
               /\ n.children[d].suffix \in Seq(Nat)
               /\ n.children[d].node \in U
    <3>1. CASE n \in S \cup T
      BY <1>1, <1>2, <3>1 DEF Trees!IsForest
    <3>2. CASE n = child
      BY <1>2, <3>2
    <3>3. QED
      BY <3>1, <3>2
  <2>2. QED
    BY <2>1 DEF Trees!IsForest
<1>6. \A n \in U : IsNode(n) /\ DataNodeWellFormed(n)
  BY <1>1, <1>2
<1>7. \A d \in DOMAIN new.children :
        /\ d \in Nat
        /\ new.children[d].suffix \in Seq(Nat)
        /\ new.children[d].node \in U
  BY <1>1, <1>3, <1>4
<1> HIDE DEF U
<1>8. HasWellFormedChildren(new)
  BY <1>3, <1>5, <1>6, <1>7 DEF HasWellFormedChildren
<1>9. QED
  BY <1>3, <1>8

(* An insertion never makes a well-formed node ill-formed.                  *)
LEMMA StaysWellFormed ==
  ASSUME NEW new, NEW tree, NEW path, NEW value, value # None,
         Keeps(new, tree, path, value), DataNodeWellFormed(tree)
  PROVE  DataNodeWellFormed(new)
BY DEF Keeps, DataNodeWellFormed

LEMMA KeepsHere ==
  ASSUME NEW node, HasWellFormedChildren(node), NEW path, path = <<>>, NEW value
  PROVE  Keeps(Inserted(node, path, value), node, path, value)
<1>1. PICK S : /\ Trees!IsForest(S, Nat)
               /\ \A n \in S : IsNode(n) /\ DataNodeWellFormed(n)
               /\ IsNode(node)
               /\ \A d \in DOMAIN node.children :
                    /\ d \in Nat
                    /\ node.children[d].suffix \in Seq(Nat)
                    /\ node.children[d].node \in S
  BY DEF HasWellFormedChildren
<1>2. PICK field, children : /\ node = [field |-> field, children |-> children]
                             /\ HasEdges(children)
  BY <1>1 DEF IsNode
<1>3. PICK new : new = Inserted(node, path, value)
  OBVIOUS
<1>4. new = [field |-> value, children |-> children]
  BY <1>2, <1>3, WellFormedTree, InsertedHere
<1>5. IsNode(new) /\ new.field = value /\ new.children = node.children
  BY <1>2, <1>4 DEF IsNode
<1>6. HasWellFormedChildren(new)
  BY <1>1, <1>5 DEF HasWellFormedChildren
<1>7. QED
  BY <1>3, <1>5, <1>6 DEF Keeps

LEMMA KeepsLeaf ==
  ASSUME NEW node, HasWellFormedChildren(node), NEW path \in Seq(Nat), path # <<>>,
         Head(path) \notin DOMAIN node.children, NEW value, value # None
  PROVE  Keeps(Inserted(node, path, value), node, path, value)
<1>1. PICK leaf : leaf = [field |-> value, children |-> <<>>]
  OBVIOUS
<1>2. PICK none : none = <<>> /\ DOMAIN none = {}
  OBVIOUS
<1>3. leaf.field = value /\ leaf.children = none
  BY <1>1, <1>2
<1>4. IsNode(leaf) /\ DataNodeWellFormed(leaf)
  BY <1>1, <1>3, NoEdges DEF IsNode, DataNodeWellFormed
<1>5. HasWellFormedChildren(leaf)
  <2>1. Trees!IsForest({}, Nat)
    BY DEF Trees!IsForest
  <2>2. QED
    BY <1>2, <1>3, <1>4, <2>1 DEF HasWellFormedChildren
<1>6. PICK new : new = Grafted(node, path, leaf)
  OBVIOUS
<1>7. Inserted(node, path, value) = new
  BY <1>1, <1>6, InsertedLeaf, WellFormedTree
<1>8. /\ HasWellFormedChildren(new)
      /\ new.field = node.field
      /\ DOMAIN new.children = DOMAIN node.children \cup {Head(path)}
  BY <1>4, <1>5, <1>6, WellFormedGraft
<1>9. QED
  BY <1>7, <1>8 DEF Keeps

(* A new node in the middle of an edge gets the field of the insertion, or  *)
(* another child than the one that it was made with.                        *)
LEMMA KeepsWithin ==
  ASSUME NEW node, HasWellFormedChildren(node), NEW path \in Seq(Nat), path # <<>>,
         Head(path) \in DOMAIN node.children, NEW value, value # None,
         \A tree, p : HasWellFormedChildren(tree) /\ p \in Seq(Nat) /\ Len(p) < Len(path) =>
           Keeps(Inserted(tree, p, value), tree, p, value)
  PROVE  Keeps(Inserted(node, path, value), node, path, value)
<1>1. PICK e, s, tree, inner : Descends(node, path, value, e, s, tree, inner)
  BY InsertedWithin, WellFormedTree
<1>2. PICK below : below = node.children[Head(path)].node
  OBVIOUS
<1>3. /\ e \in Seq(Nat) /\ e # <<>> /\ Head(e) = Head(path)
      /\ inner \in Seq(Nat) /\ Len(inner) < Len(path) /\ s \in Seq(Nat)
      /\ s # <<>> /\ inner # <<>> => Head(s) # Head(inner)
      /\ tree = IF s = <<>> THEN below ELSE FromSingleChild(s, below)
      /\ Inserted(node, path, value) = Grafted(node, e, Inserted(tree, inner, value))
  BY <1>1, <1>2 DEF Descends
<1>4. HasWellFormedChildren(below) /\ DataNodeWellFormed(below)
  BY <1>2, WellFormedChild
<1>5. PICK sub : sub = Inserted(tree, inner, value)
  OBVIOUS
<1>6. HasWellFormedChildren(sub) /\ DataNodeWellFormed(sub)
  <2>1. CASE s = <<>>
    <3>1. tree = below
      BY <1>3, <2>1
    <3>2. Keeps(sub, tree, inner, value)
      BY <1>3, <1>4, <1>5, <3>1
    <3>3. DataNodeWellFormed(sub)
      BY <1>4, <3>1, <3>2, StaysWellFormed
    <3>4. QED
      BY <3>2, <3>3 DEF Keeps
  <2>2. CASE s # <<>>
    <3>1. tree = FromSingleChild(s, below) /\ s \in Seq(Nat) \ {<<>>}
      BY <1>3, <2>2
    <3>2. HasWellFormedChildren(tree) /\ DOMAIN tree.children = {Head(s)}
      BY <1>4, <3>1, WellFormedMiddle
    <3>3. Keeps(sub, tree, inner, value)
      BY <1>3, <1>5, <3>2
    <3>4. CASE inner = <<>>
      BY <3>3, <3>4 DEF Keeps, DataNodeWellFormed
    <3>5. CASE inner # <<>>
      <4>1. DOMAIN sub.children = {Head(s)} \cup {Head(inner)} /\ Head(s) # Head(inner)
        BY <1>3, <2>2, <3>2, <3>3, <3>5 DEF Keeps
      <4>2. QED
        BY <3>3, <4>1 DEF Keeps, DataNodeWellFormed
    <3>6. QED
      BY <3>4, <3>5
  <2>3. QED
    BY <2>1, <2>2
<1>7. PICK new : new = Grafted(node, e, sub)
  OBVIOUS
<1>8. /\ HasWellFormedChildren(new)
      /\ new.field = node.field
      /\ DOMAIN new.children = DOMAIN node.children \cup {Head(e)}
  <2>1. HasWellFormedChildren(node) /\ e \in Seq(Nat) /\ e # <<>>
    BY <1>3
  <2>2. QED
    BY ONLY <1>6, <1>7, <2>1, WellFormedGraft
<1>9. QED
  BY <1>3, <1>5, <1>7, <1>8 DEF Keeps

LEMMA InsertKeeps ==
  ASSUME NEW tree, HasWellFormedChildren(tree), NEW path \in Seq(Nat),
         NEW value, value # None
  PROVE  Keeps(Inserted(tree, path, value), tree, path, value)
<1> DEFINE Good(n) ==
             \A t, p : HasWellFormedChildren(t) /\ p \in Seq(Nat) /\ Len(p) < n =>
               Keeps(Inserted(t, p, value), t, p, value)
           B == {n \in Nat : Good(n)}
<1>1. \A p \in Seq(Nat) : Len(p) \in Nat
  OBVIOUS
<1>2. 0 \in B
  BY <1>1
<1>3. ASSUME NEW n \in Nat, n \in B PROVE n + 1 \in B
  <2>1. Good(n)
    BY <1>3
  <2>2. ASSUME NEW t, HasWellFormedChildren(t), NEW p \in Seq(Nat), Len(p) < n + 1
        PROVE  Keeps(Inserted(t, p, value), t, p, value)
    <3>1. \A u, q : HasWellFormedChildren(u) /\ q \in Seq(Nat) /\ Len(q) < Len(p) =>
            Keeps(Inserted(u, q, value), u, q, value)
      BY <1>1, <2>1, <2>2
    <3> HIDE DEF Good
    <3>2. CASE p = <<>>
      BY <2>2, <3>2, KeepsHere
    <3>3. CASE p # <<>> /\ Head(p) \notin DOMAIN t.children
      BY <2>2, <3>3, KeepsLeaf
    <3>4. CASE p # <<>> /\ Head(p) \in DOMAIN t.children
      BY <2>2, <3>1, <3>4, KeepsWithin
    <3>5. QED
      BY <3>2, <3>3, <3>4
  <2>3. Good(n + 1)
    BY <2>2
  <2> HIDE DEF Good
  <2>4. QED
    BY <2>3
<1> HIDE DEF B
<1>4. \A n \in Nat : n \in B
  BY <1>2, <1>3, Trees!NatSetInduction
<1>5. Len(path) + 1 \in B /\ Len(path) < Len(path) + 1
  BY <1>1, <1>4
<1>6. QED
  BY <1>5 DEF B

(* The nodes that paths lead to are nodes of the forest.                    *)
LEMMA NodeAtIsInForest ==
  ASSUME NEW S, Trees!IsForest(S, Nat), NEW tree \in S, NEW path \in Seq(Nat)
  PROVE  Trees!NodeAt(tree, path) \subseteq S
<1> DEFINE In(n) == \A t \in S, p \in Seq(Nat) : Len(p) < n => Trees!NodeAt(t, p) \subseteq S
           B == {n \in Nat : In(n)}
<1>1. \A p \in Seq(Nat) : Len(p) \in Nat
  OBVIOUS
<1>2. 0 \in B
  BY <1>1
<1>3. ASSUME NEW n \in Nat, n \in B PROVE n + 1 \in B
  <2>1. In(n)
    BY <1>3
  <2>2. ASSUME NEW t \in S, NEW p \in Seq(Nat), Len(p) < n + 1
        PROVE  Trees!NodeAt(t, p) \subseteq S
    <3> HIDE DEF In
    <3>0. Trees!NodeAt(t, p) =
            IF p = <<>> THEN {t}
            ELSE IF Trees!LeadsOn(t, p)
            THEN Trees!NodeAt(Trees!NextNode(t, p), Trees!NextPath(t, p))
            ELSE {}
      BY Trees!NodeAtEquation
    <3>1. CASE p = <<>>
      BY <3>0, <3>1
    <3>2. CASE p # <<>> /\ ~Trees!LeadsOn(t, p)
      BY <3>0, <3>2
    <3>3. CASE p # <<>> /\ Trees!LeadsOn(t, p)
      <4>1. PICK next, rest : next = Trees!NextNode(t, p) /\ rest = Trees!NextPath(t, p)
        OBVIOUS
      <4>2. next \in S /\ rest \in Seq(Nat) /\ Len(rest) < Len(p)
        BY <3>3, <4>1, Trees!NextFacts
      <4>3. Trees!NodeAt(t, p) = Trees!NodeAt(next, rest)
        BY <3>0, <3>3, <4>1
      <4>4. Len(rest) < n
        BY <1>1, <2>2, <4>2
      <4>5. QED
        BY <2>1, <4>2, <4>3, <4>4 DEF In
    <3>4. QED
      BY <3>1, <3>2, <3>3
  <2>3. In(n + 1)
    BY <2>2
  <2> HIDE DEF In
  <2>4. QED
    BY <2>3
<1> HIDE DEF B
<1>4. \A n \in Nat : n \in B
  BY <1>2, <1>3, Trees!NatSetInduction
<1>5. Len(path) + 1 \in B /\ Len(path) < Len(path) + 1
  BY <1>1, <1>4
<1>6. QED
  BY <1>5 DEF B

LEMMA NodesBelow ==
  ASSUME NEW tree, HasWellFormedChildren(tree), NEW path \in Seq(Nat) \ {<<>>},
         NEW node \in Trees!NodeAt(tree, path)
  PROVE  DataNodeWellFormed(node)
<1>1. PICK S : /\ Trees!IsForest(S, Nat)
               /\ \A n \in S : IsNode(n) /\ DataNodeWellFormed(n)
               /\ IsNode(tree)
               /\ \A d \in DOMAIN tree.children :
                    /\ d \in Nat
                    /\ tree.children[d].suffix \in Seq(Nat)
                    /\ tree.children[d].node \in S
  BY DEF HasWellFormedChildren
<1>2. PICK U : U = S \cup {tree}
  OBVIOUS
<1>3. Trees!IsForest(U, Nat) /\ tree \in U
  BY <1>1, <1>2 DEF Trees!IsForest
<1>4. /\ Trees!LeadsOn(tree, path)
      /\ Trees!NodeAt(tree, path)
           = Trees!NodeAt(Trees!NextNode(tree, path), Trees!NextPath(tree, path))
  BY <1>3, Trees!NodeAtEquation
<1>5. Trees!NextPath(tree, path) \in Seq(Nat)
  BY <1>3, <1>4, Trees!NextFacts
<1>6. Trees!NextNode(tree, path) \in S
  BY <1>1, <1>4 DEF Trees!LeadsOn, Trees!NextNode
<1>7. Trees!NodeAt(tree, path) \subseteq S
  BY <1>1, <1>4, <1>5, <1>6, NodeAtIsInForest
<1>8. QED
  BY <1>1, <1>7

-----------------------------------------------------------------------------
(***************************************************************************)
(* The data of an account.                                                 *)
(***************************************************************************)
LEMMA LookupIsValue ==
  ASSUME NEW path
  PROVE  /\ LookupData(path) = ValueAt(data_tree, path)
         /\ LookupData(path)' = ValueAt(data_tree', path)
<1>1. /\ Tree!NodeAt(data_tree, path) = Trees!NodeAt(data_tree, path)
      /\ Tree!NodeAt(data_tree', path) = Trees!NodeAt(data_tree', path)
  BY SameNodeAt
<1>2. LookupData(path) = ValueAt(data_tree, path)
  BY <1>1 DEF LookupData, ValueAt
<1>3. LookupData(path)' = ValueAt(data_tree', path)
  BY <1>1 DEF LookupData, ValueAt
<1>4. QED
  BY <1>2, <1>3

LEMMA EmptyTree ==
  /\ IsDataTree(EmptyNode)
  /\ \A path \in Seq(Nat) : ValueAt(EmptyNode, path) = None
BY LeafTree DEF EmptyNode

LEMMA InsertionSets ==
  ASSUME IsDataTree(data_tree), NEW path \in Paths, NEW value,
         InsertIntoDataTree(path, value)
  PROVE  IsSetAt(data_tree', data_tree, path, value)
<1>1. path \in Seq(Nat)
  BY DataTreeAssumption
<1>2. data_tree' = Inserted(data_tree, path, value)
  BY SameInsert DEF InsertIntoDataTree, Inserted, Trees!Inserted
<1>3. QED
  BY <1>1, <1>2, InsertSets

(* insert_into_data_tree and lookup_data_in_account make a map of the data  *)
(* tree of an account: whatever the fields and their paths, and however     *)
(* many were set before, setting a field sets that field and no other.      *)
THEOREM DataTreeIsFieldMap == Spec => ImplementsFieldMap
<1> DEFINE fields == [path \in Probes |-> LookupData(path)]
<1>1. Init => IsDataTree(data_tree) /\ Abstract!Init
  <2> SUFFICES ASSUME Init PROVE IsDataTree(data_tree) /\ Abstract!Init
    OBVIOUS
  <2>1. data_tree = EmptyNode
    BY DEF Init
  <2>2. \A path \in Probes : LookupData(path) = None
    BY <2>1, LookupIsValue, EmptyTree, DataTreeAssumption
  <2>3. QED
    BY <2>1, <2>2, EmptyTree DEF Abstract!Init
<1>2. IsDataTree(data_tree) /\ [Next]_vars =>
        IsDataTree(data_tree)' /\ [Abstract!Next]_fields
  <2> SUFFICES ASSUME IsDataTree(data_tree), [Next]_vars
               PROVE  IsDataTree(data_tree)' /\ [Abstract!Next]_fields
    OBVIOUS
  <2>1. ASSUME NEW path \in Paths, NEW value \in Values, InsertIntoDataTree(path, value)
        PROVE  IsDataTree(data_tree)' /\ Abstract!Next
    <3>1. IsSetAt(data_tree', data_tree, path, value)
      BY <2>1, InsertionSets
    <3>2. ASSUME NEW q \in Probes
          PROVE  LookupData(q)' = IF q = path THEN value ELSE LookupData(q)
      <4>1. LookupData(q)' = ValueAt(data_tree', q)
        BY LookupIsValue
      <4>2. QED
        BY <3>1, <4>1, LookupIsValue, DataTreeAssumption DEF IsSetAt
    <3>3. path \in Probes
      BY DataTreeAssumption
    <3>4. fields' = [fields EXCEPT ![path] = value]
      BY <3>2, <3>3
    <3>5. QED
      BY <3>1, <3>4 DEF IsSetAt, Abstract!Next, Abstract!Set
  <2>2. CASE UNCHANGED vars
    BY <2>2 DEF vars, LookupData
  <2>3. QED
    BY <2>1, <2>2 DEF Next
<1>3. QED
  BY <1>1, <1>2, PTL DEF Spec, ImplementsFieldMap, Abstract!Spec

(* No node below the root is ever without a field and less than two         *)
(* children.                                                                *)
LEMMA ChildrenAreWellFormed == Spec => []HasWellFormedChildren(data_tree)
<1>1. Init => HasWellFormedChildren(data_tree)
  <2> SUFFICES ASSUME Init PROVE HasWellFormedChildren(data_tree)
    OBVIOUS
  <2>1. PICK none : none = <<>> /\ DOMAIN none = {}
    OBVIOUS
  <2>2. data_tree.children = none /\ IsNode(data_tree)
    BY <2>1, NoEdges DEF Init, EmptyNode, IsNode
  <2>3. Trees!IsForest({}, Nat)
    BY DEF Trees!IsForest
  <2>4. QED
    BY <2>1, <2>2, <2>3 DEF HasWellFormedChildren
<1>2. HasWellFormedChildren(data_tree) /\ [Next]_vars => HasWellFormedChildren(data_tree)'
  <2> SUFFICES ASSUME HasWellFormedChildren(data_tree), [Next]_vars
               PROVE  HasWellFormedChildren(data_tree)'
    OBVIOUS
  <2>1. ASSUME NEW path \in Paths, NEW value \in Values, InsertIntoDataTree(path, value)
        PROVE  HasWellFormedChildren(data_tree)'
    <3>1. path \in Seq(Nat) /\ value # None
      BY DataTreeAssumption
    <3>2. data_tree' = Inserted(data_tree, path, value)
      BY <2>1, SameInsert DEF InsertIntoDataTree, Inserted, Trees!Inserted
    <3>3. QED
      BY <3>1, <3>2, InsertKeeps DEF Keeps
  <2>2. CASE UNCHANGED vars
    BY <2>2 DEF vars
  <2>3. QED
    BY <2>1, <2>2 DEF Next
<1>3. QED
  BY <1>1, <1>2, PTL DEF Spec

(* Whatever fields are set, in any order, data_node_well_formed holds of    *)
(* every node of the tree but its root: insert_into_data_tree leaves no     *)
(* node without a field that has less than two children.                    *)
THEOREM DataNodesAreWellFormed == Spec => []NodesWellFormed
<1>1. HasWellFormedChildren(data_tree) => NodesWellFormed
  BY SameNodeAt, NodesBelow, DataTreeAssumption DEF NodesWellFormed
<1>2. QED
  BY <1>1, ChildrenAreWellFormed, PTL

-----------------------------------------------------------------------------
(***************************************************************************)
(* The nodes of a tree and the paths that lead to them.                    *)
(***************************************************************************)
EdgeTo(node, d) == <<d>> \o node.children[d].suffix

LEMMA EdgeFacts ==
  ASSUME NEW S, Trees!IsForest(S, Nat), NEW tree \in S, NEW d \in DOMAIN tree.children
  PROVE  /\ d \in Nat /\ tree.children[d].suffix \in Seq(Nat)
         /\ tree.children[d].node \in S
         /\ EdgeTo(tree, d) \in Seq(Nat) /\ EdgeTo(tree, d) # <<>>
         /\ Head(EdgeTo(tree, d)) = d /\ Tail(EdgeTo(tree, d)) = tree.children[d].suffix
<1>1. PICK suffix : suffix = tree.children[d].suffix
  OBVIOUS
<1>2. d \in Nat /\ suffix \in Seq(Nat) /\ tree.children[d].node \in S
  BY <1>1 DEF Trees!IsForest
<1>3. /\ <<d>> \o suffix \in Seq(Nat) /\ <<d>> \o suffix # <<>>
      /\ Head(<<d>> \o suffix) = d /\ Tail(<<d>> \o suffix) = suffix
  BY <1>2
<1>4. QED
  BY <1>1, <1>2, <1>3 DEF EdgeTo

(* A path that goes along an edge leads where its rest leads from the child. *)
LEMMA AlongEdge ==
  ASSUME NEW S, Trees!IsForest(S, Nat), NEW tree \in S, NEW d \in DOMAIN tree.children,
         NEW r \in Seq(Nat)
  PROVE  Trees!NodeAt(tree, EdgeTo(tree, d) \o r) = Trees!NodeAt(tree.children[d].node, r)
<1>1. PICK suffix, e : suffix = tree.children[d].suffix /\ e = <<d>> \o suffix
  OBVIOUS
<1>2. d \in Nat /\ suffix \in Seq(Nat) /\ e \in Seq(Nat) /\ e # <<>> /\ Head(e) = d
  BY <1>1, EdgeFacts DEF EdgeTo
<1>3. PICK p : p = e \o r
  OBVIOUS
<1>4. p \in Seq(Nat) /\ p # <<>> /\ Head(p) = d
  BY <1>1, <1>2, <1>3
<1>5. Trees!IsPrefix(e, p) /\ Trees!Drop(p, Len(e)) = r
  BY <1>2, <1>3, <1>4, Trees!PathIsJoin
<1>6. /\ Trees!IsPrefix(suffix, Tail(p))
      /\ Trees!Drop(p, Len(e)) = Trees!Drop(Tail(p), Len(suffix))
  BY <1>1, <1>2, <1>4, <1>5, Trees!PathAlongEdge
<1>7. Trees!LeadsOn(tree, p) /\ Trees!NextPath(tree, p) = r
  BY <1>1, <1>4, <1>5, <1>6 DEF Trees!LeadsOn, Trees!NextPath
<1>8. Trees!NextNode(tree, p) = tree.children[d].node
  BY <1>4 DEF Trees!NextNode
<1>9. Trees!NodeAt(tree, p) = Trees!NodeAt(tree.children[d].node, r)
  BY <1>4, <1>7, <1>8, Trees!NodeAtEquation
<1>10. QED
  BY <1>1, <1>3, <1>9 DEF EdgeTo

(* And a path that leads somewhere goes along an edge first.                *)
LEMMA FirstEdge ==
  ASSUME NEW S, Trees!IsForest(S, Nat), NEW tree \in S, NEW p \in Seq(Nat), p # <<>>,
         Trees!NodeAt(tree, p) # {}
  PROVE  /\ Head(p) \in DOMAIN tree.children
         /\ \E r \in Seq(Nat) :
              /\ p = EdgeTo(tree, Head(p)) \o r
              /\ Len(r) < Len(p)
              /\ Trees!NodeAt(tree, p) = Trees!NodeAt(tree.children[Head(p)].node, r)
<1>1. Trees!LeadsOn(tree, p)
  BY Trees!NodeAtEquation
<1>2. PICK d, suffix : d = Head(p) /\ suffix = tree.children[d].suffix
  OBVIOUS
<1>3. d \in DOMAIN tree.children /\ Trees!IsPrefix(suffix, Tail(p))
  BY <1>1, <1>2 DEF Trees!LeadsOn
<1>4. PICK e : e = <<d>> \o suffix
  OBVIOUS
<1>5. d \in Nat /\ suffix \in Seq(Nat) /\ e \in Seq(Nat) /\ e # <<>> /\ Head(e) = d
  BY <1>2, <1>3, <1>4, EdgeFacts DEF EdgeTo
<1>6. Trees!IsPrefix(e, p)
  BY <1>2, <1>3, <1>4, <1>5, Trees!PathAlongEdge
<1>7. PICK r : r = Trees!Drop(p, Len(e))
  OBVIOUS
<1>8. r \in Seq(Nat)
  BY <1>5, <1>6, <1>7, Trees!PrefixFacts, Trees!DropElements
<1>9. p = e \o r
  <2>1. e \in Seq(Nat) /\ r \in Seq(Nat) /\ p \in Seq(Nat)
    BY <1>5, <1>8
  <2>2. p = e \o r <=> Trees!IsPrefix(e, p) /\ Trees!Drop(p, Len(e)) = r
    BY ONLY <2>1, Trees!PathIsJoin
  <2>3. QED
    BY <1>6, <1>7, <2>2
<1>10. Len(r) < Len(p)
  <2>1. Len(p) = Len(e) + Len(r) /\ Len(e) \in Nat /\ Len(r) \in Nat /\ Len(e) # 0
    BY <1>5, <1>8, <1>9
  <2>2. \A x, y, z \in Nat : z = x + y /\ x # 0 => y < z
    OBVIOUS
  <2>3. QED
    BY <2>1, <2>2
<1>11. p = EdgeTo(tree, d) \o r
  BY <1>2, <1>4, <1>9 DEF EdgeTo
<1>12. Trees!NodeAt(tree, p) = Trees!NodeAt(tree.children[d].node, r)
  BY <1>3, <1>8, <1>11, AlongEdge
<1>13. QED
  BY <1>2, <1>3, <1>8, <1>10, <1>11, <1>12

(* What is found beyond a node is what is found at the whole path.          *)
LEMMA PathBeyondNode ==
  ASSUME NEW S, Trees!IsForest(S, Nat), NEW tree \in S, NEW p \in Seq(Nat),
         NEW n \in Trees!NodeAt(tree, p), NEW q \in Seq(Nat)
  PROVE  Trees!NodeAt(tree, p \o q) = Trees!NodeAt(n, q)
<1> DEFINE Joins(k) == \A t \in S, o \in Seq(Nat) : Len(o) < k =>
                         \A m \in Trees!NodeAt(t, o) :
                           Trees!NodeAt(t, o \o q) = Trees!NodeAt(m, q)
           B == {k \in Nat : Joins(k)}
<1>1. \A o \in Seq(Nat) : Len(o) \in Nat
  OBVIOUS
<1>2. 0 \in B
  BY <1>1
<1>3. ASSUME NEW k \in Nat, k \in B PROVE k + 1 \in B
  <2>1. Joins(k)
    BY <1>3
  <2>2. ASSUME NEW t \in S, NEW o \in Seq(Nat), Len(o) < k + 1,
               NEW m \in Trees!NodeAt(t, o)
        PROVE  Trees!NodeAt(t, o \o q) = Trees!NodeAt(m, q)
    <3>1. CASE o = <<>>
      <4>1. Trees!NodeAt(t, o) = {t}
        BY <3>1, Trees!NodeAtEquation
      <4>2. o \o q = q
        BY <3>1
      <4>3. QED
        BY <2>2, <4>1, <4>2
    <3>2. CASE o # <<>>
      <4> HIDE DEF Joins
      <4>1. PICK d : d = Head(o)
        OBVIOUS
      <4>2. d \in DOMAIN t.children
        BY <2>2, <3>2, <4>1, FirstEdge
      <4>3. PICK r \in Seq(Nat) :
              /\ o = EdgeTo(t, d) \o r /\ Len(r) < Len(o)
              /\ Trees!NodeAt(t, o) = Trees!NodeAt(t.children[d].node, r)
        BY <2>2, <3>2, <4>1, FirstEdge
      <4>4. PICK e, c : e = EdgeTo(t, d) /\ c = t.children[d].node
        OBVIOUS
      <4>5. e \in Seq(Nat) /\ c \in S
        BY <4>2, <4>4, EdgeFacts
      <4>6. Len(r) < k
        BY <1>1, <2>2, <4>3
      <4>7. Trees!NodeAt(c, r \o q) = Trees!NodeAt(m, q)
        BY <2>1, <2>2, <4>3, <4>4, <4>5, <4>6 DEF Joins
      <4>8. o \o q = e \o (r \o q)
        <5>1. o = e \o r
          BY <4>3, <4>4
        <5>2. e \in Seq(Nat) /\ r \in Seq(Nat) /\ q \in Seq(Nat)
          BY <4>5
        <5>3. (e \o r) \o q = e \o (r \o q)
          BY ONLY <5>2, SMTT(60)
        <5>4. QED
          BY <5>1, <5>3
      <4>9. r \o q \in Seq(Nat)
        OBVIOUS
      <4>10. Trees!NodeAt(t, e \o (r \o q)) = Trees!NodeAt(c, r \o q)
        BY <4>2, <4>4, <4>9, AlongEdge
      <4>11. QED
        BY <4>7, <4>8, <4>10
    <3>3. QED
      BY <3>1, <3>2
  <2>3. Joins(k + 1)
    BY <2>2
  <2> HIDE DEF Joins
  <2>4. QED
    BY <2>3
<1> HIDE DEF B
<1>4. \A k \in Nat : k \in B
  BY <1>2, <1>3, Trees!NatSetInduction
<1>5. Len(p) + 1 \in B /\ Len(p) < Len(p) + 1
  BY <1>1, <1>4
<1>6. QED
  BY <1>5 DEF B

LEMMA NodeAtRoot ==
  ASSUME NEW S, Trees!IsForest(S, Nat), NEW tree \in S
  PROVE  Trees!NodeAt(tree, <<>>) = {tree}
<1>1. <<>> \in Seq(Nat)
  OBVIOUS
<1>2. QED
  BY <1>1, Trees!NodeAtEquation

(* No path leads to two nodes.                                              *)
LEMMA OneNodeAtPath ==
  ASSUME NEW S, Trees!IsForest(S, Nat), NEW tree \in S, NEW p \in Seq(Nat),
         NEW n \in Trees!NodeAt(tree, p)
  PROVE  Trees!NodeAt(tree, p) = {n} /\ n \in S
<1>1. n \in S
  BY NodeAtIsInForest
<1>2. Trees!NodeAt(tree, p \o <<>>) = Trees!NodeAt(n, <<>>)
  <2>1. PICK none : none = <<>>
    OBVIOUS
  <2>2. none \in Seq(Nat)
    BY <2>1
  <2>3. Trees!NodeAt(tree, p \o none) = Trees!NodeAt(n, none)
    BY <2>2, PathBeyondNode
  <2>4. QED
    BY <2>1, <2>3
<1>3. p \o <<>> = p
  OBVIOUS
<1>4. QED
  BY <1>1, <1>2, <1>3, NodeAtRoot

(* The path to a child goes on along the edge to it.                        *)
LEMMA ChildIsAt ==
  ASSUME NEW S, Trees!IsForest(S, Nat), NEW tree \in S, NEW p \in Seq(Nat),
         NEW n \in Trees!NodeAt(tree, p), NEW d \in DOMAIN n.children
  PROVE  /\ p \o EdgeTo(n, d) \in Seq(Nat) /\ p \o EdgeTo(n, d) # <<>>
         /\ Len(p) < Len(p \o EdgeTo(n, d))
         /\ n.children[d].node \in Trees!NodeAt(tree, p \o EdgeTo(n, d))
<1>1. n \in S
  BY OneNodeAtPath
<1>2. PICK e, c : e = EdgeTo(n, d) /\ c = n.children[d].node
  OBVIOUS
<1>3. e \in Seq(Nat) /\ e # <<>> /\ c \in S
  BY <1>1, <1>2, EdgeFacts
<1>4. Trees!NodeAt(tree, p \o e) = Trees!NodeAt(n, e)
  BY <1>3, PathBeyondNode
<1>5. PICK none : none = <<>>
  OBVIOUS
<1>6. none \in Seq(Nat)
  BY <1>5
<1>7. Trees!NodeAt(n, EdgeTo(n, d) \o none) = Trees!NodeAt(n.children[d].node, none)
  BY <1>1, <1>6, AlongEdge
<1>8. e \o none = e
  BY <1>3, <1>5
<1>9. Trees!NodeAt(c, none) = {c}
  BY <1>3, <1>5, NodeAtRoot
<1>10. p \in Seq(Nat) /\ e \in Seq(Nat) /\ e # <<>>
  BY <1>3
<1>11. p \o e \in Seq(Nat) /\ p \o e # <<>> /\ Len(p) < Len(p \o e)
  BY ONLY <1>10
<1>12. QED
  BY <1>2, <1>4, <1>7, <1>8, <1>9, <1>11

(* A node that is not the root is the child of one on the way to it.        *)
IsLastEdge(tree, p, n, u, m, d) ==
  /\ u \in Seq(Nat) /\ m \in Trees!NodeAt(tree, u) /\ d \in DOMAIN m.children
  /\ p = u \o EdgeTo(m, d) /\ Len(u) < Len(p) /\ n = m.children[d].node

LEMMA LastEdge ==
  ASSUME NEW S, Trees!IsForest(S, Nat), NEW tree \in S, NEW p \in Seq(Nat), p # <<>>,
         NEW n \in Trees!NodeAt(tree, p)
  PROVE  \E u, m, d : IsLastEdge(tree, p, n, u, m, d)
<1> DEFINE Ends(k) == \A t \in S, o \in Seq(Nat) : Len(o) < k /\ o # <<>> =>
                        \A x \in Trees!NodeAt(t, o) : \E u, m, d : IsLastEdge(t, o, x, u, m, d)
           B == {k \in Nat : Ends(k)}
<1>1. \A o \in Seq(Nat) : Len(o) \in Nat
  OBVIOUS
<1>2. 0 \in B
  BY <1>1
<1>3. ASSUME NEW k \in Nat, k \in B PROVE k + 1 \in B
  <2>1. Ends(k)
    BY <1>3
  <2> HIDE DEF Ends
  <2>2. ASSUME NEW t \in S, NEW o \in Seq(Nat), Len(o) < k + 1, o # <<>>,
               NEW x \in Trees!NodeAt(t, o)
        PROVE  \E u, m, d : IsLastEdge(t, o, x, u, m, d)
    <3>1. PICK c : c = Head(o)
      OBVIOUS
    <3>2. c \in DOMAIN t.children
      BY <2>2, <3>1, FirstEdge
    <3>3. PICK r \in Seq(Nat) :
            /\ o = EdgeTo(t, c) \o r /\ Len(r) < Len(o)
            /\ Trees!NodeAt(t, o) = Trees!NodeAt(t.children[c].node, r)
      BY <2>2, <3>1, FirstEdge
    <3>4. PICK e, child : e = EdgeTo(t, c) /\ child = t.children[c].node
      OBVIOUS
    <3>5. e \in Seq(Nat) /\ e # <<>> /\ child \in S
      BY <3>2, <3>4, EdgeFacts
    <3>6. CASE r = <<>>
      <4>1. x = child
        BY <2>2, <3>3, <3>4, <3>5, <3>6, NodeAtRoot
      <4>2. o = <<>> \o EdgeTo(t, c) /\ Len(<<>>) < Len(o)
        <5>1. o = e
          BY <3>3, <3>4, <3>5, <3>6
        <5>2. e = <<>> \o e /\ Len(<<>>) < Len(e)
          BY <3>5
        <5>3. QED
          BY <3>4, <5>1, <5>2
      <4>3. t \in Trees!NodeAt(t, <<>>) /\ <<>> \in Seq(Nat)
        BY NodeAtRoot
      <4>4. IsLastEdge(t, o, x, <<>>, t, c)
        BY <3>2, <3>4, <4>1, <4>2, <4>3 DEF IsLastEdge
      <4>5. QED
        BY <4>4
    <3>7. CASE r # <<>>
      <4>1. Len(r) < k
        BY <1>1, <2>2, <3>3
      <4>2. x \in Trees!NodeAt(child, r)
        BY <2>2, <3>3, <3>4
      <4>3. PICK u, m, d : IsLastEdge(child, r, x, u, m, d)
        BY <2>1, <3>3, <3>5, <3>7, <4>1, <4>2 DEF Ends
      <4>4. /\ u \in Seq(Nat) /\ m \in Trees!NodeAt(child, u)
            /\ d \in DOMAIN m.children
            /\ r = u \o EdgeTo(m, d) /\ Len(u) < Len(r) /\ x = m.children[d].node
        BY <4>3 DEF IsLastEdge
      <4>5. PICK v : v = e \o u
        OBVIOUS
      <4>6. v \in Seq(Nat) /\ m \in Trees!NodeAt(t, v)
        <5>1. Trees!NodeAt(t, e \o u) = Trees!NodeAt(child, u)
          BY <3>2, <3>4, <4>4, AlongEdge
        <5>2. QED
          BY <3>5, <4>4, <4>5, <5>1
      <4>7. m \in S
        BY <3>5, <4>4, OneNodeAtPath
      <4>8. PICK f : f = EdgeTo(m, d)
        OBVIOUS
      <4>9. f \in Seq(Nat)
        BY <4>4, <4>7, <4>8, EdgeFacts
      <4>10. o = v \o f
        <5>1. o = e \o r /\ r = u \o f
          BY <3>3, <3>4, <4>4, <4>8
        <5>2. (e \o u) \o f = e \o (u \o f)
          <6>1. e \in Seq(Nat) /\ u \in Seq(Nat) /\ f \in Seq(Nat)
            BY <3>5, <4>4, <4>9
          <6>2. QED
            BY ONLY <6>1, SMTT(60)
        <5>3. QED
          BY <4>5, <5>1, <5>2
      <4>11. Len(v) < Len(o)
        <5>1. Len(v) = Len(e) + Len(u) /\ Len(o) = Len(e) + Len(r)
          BY <3>3, <3>4, <3>5, <4>4, <4>5
        <5>2. \A a, b, l \in Nat : a < b => l + a < l + b
          OBVIOUS
        <5>3. QED
          BY <1>1, <3>3, <3>5, <4>4, <5>1, <5>2
      <4>12. IsLastEdge(t, o, x, v, m, d)
        BY <4>4, <4>6, <4>8, <4>10, <4>11 DEF IsLastEdge
      <4>13. QED
        BY <4>12
    <3>8. QED
      BY <3>6, <3>7
  <2>3. Ends(k + 1)
    BY <2>2 DEF Ends
  <2>4. QED
    BY <2>3
<1> HIDE DEF B
<1>4. \A k \in Nat : k \in B
  BY <1>2, <1>3, Trees!NatSetInduction
<1>5. Len(p) + 1 \in B /\ Len(p) < Len(p) + 1
  BY <1>1, <1>4
<1>6. QED
  BY <1>5 DEF B
-----------------------------------------------------------------------------
(***************************************************************************)
(* The walk over a tree.                                                   *)
(***************************************************************************)
Visit(path, node) == [path |-> path, node |-> node]
VisitsIn(S) == {Visit(path, node) : path \in Seq(Nat), node \in S}

IsLevels(level, tree) ==
  /\ level[0] = {Visit(<<>>, tree)}
  /\ \A i \in Nat : level[i + 1] = UNION {Below(visit) : visit \in level[i]}

LEMMA VisitsBelow ==
  ASSUME NEW S, Trees!IsForest(S, Nat), NEW visit \in VisitsIn(S)
  PROVE  Below(visit) \in SUBSET VisitsIn(S)
<1>1. PICK path \in Seq(Nat), node \in S : visit = Visit(path, node)
  BY DEF VisitsIn
<1>2. visit.path = path /\ visit.node = node
  BY <1>1 DEF Visit
<1>3. ASSUME NEW v \in Below(visit)
      PROVE  v \in VisitsIn(S)
  <2>1. PICK d \in DOMAIN node.children :
          v = Visit(path \o <<d>> \o node.children[d].suffix, node.children[d].node)
    BY <1>2, <1>3 DEF Below, Visit
  <2>2. PICK suffix : suffix = node.children[d].suffix
    OBVIOUS
  <2>3. d \in Nat /\ suffix \in Seq(Nat) /\ node.children[d].node \in S
    BY <2>2, EdgeFacts
  <2>4. path \o <<d>> \o suffix \in Seq(Nat)
    BY <2>3
  <2>5. PICK p, c : p = path \o <<d>> \o suffix /\ c = node.children[d].node
    OBVIOUS
  <2>6. p \in Seq(Nat) /\ c \in S /\ v = Visit(p, c)
    BY <2>1, <2>2, <2>3, <2>4, <2>5
  <2>7. QED
    BY ONLY <2>6 DEF VisitsIn
<1>4. QED
  BY <1>3

LEMMA LevelsAreDefined ==
  ASSUME NEW S, Trees!IsForest(S, Nat), NEW tree \in S
  PROVE  \E level : /\ IsLevels(level, tree)
                    /\ Visits(tree) = UNION {level[i] : i \in 0..MaxLength}
<1> DEFINE U == VisitsIn(S)
           t == Visit(<<>>, tree)
           Equation(f) ==
             f = [i \in Nat |-> IF i = 0 THEN {t}
                                ELSE UNION {Below(n) : n \in f[i - 1]}]
           level == CHOOSE f : Equation(f)
           below == [n \in U |-> Below(n)]
           what == [kind |-> "image", at |-> t, f |-> below]
<1>0. t \in U
  <2>1. PICK none : none = <<>>
    OBVIOUS
  <2>2. none \in Seq(Nat) /\ tree \in S /\ t = Visit(none, tree)
    BY <2>1
  <2>3. QED
    BY ONLY <2>2 DEF VisitsIn
<1>1. \E f : f = [i \in Nat |-> IF i = 0 THEN Trees!Start(what)
                                ELSE Trees!After(what, i, f[i - 1])]
  BY Trees!RecursionIsDefined
<1>9. Visits(tree) = UNION {level[i] : i \in 0..MaxLength}
  BY DEF Visits, Visit
<1>11. \A n \in U : Below(n) \in SUBSET U
  BY VisitsBelow
<1> HIDE DEF t, U
<1>2. PICK f : f = [i \in Nat |-> IF i = 0 THEN {t} ELSE Trees!Images(below, f[i - 1])]
  <2>1. Trees!Start(what) = {t}
    BY DEF Trees!Start
  <2>2. \A i, before : Trees!After(what, i, before) = Trees!Images(below, before)
    BY DEF Trees!After
  <2> HIDE DEF what, below
  <2>3. PICK f : f = [i \in Nat |-> IF i = 0 THEN Trees!Start(what)
                                   ELSE Trees!After(what, i, f[i - 1])]
    BY <1>1
  <2>4. f = [i \in Nat |-> IF i = 0 THEN {t} ELSE Trees!Images(below, f[i - 1])]
    BY ONLY <2>1, <2>2, <2>3
  <2>5. QED
    BY <2>4
<1> HIDE DEF below
<1>3. f[0] = {t} /\ \A i \in Nat : f[i + 1] = Trees!Images(below, f[i])
  BY <1>2
<1>4. ASSUME NEW V \in SUBSET U
      PROVE  /\ Trees!Images(below, V) = UNION {Below(n) : n \in V}
             /\ Trees!Images(below, V) \in SUBSET U
  <2>1. \A n \in V : below[n] = Below(n)
    BY DEF below
  <2>2. {below[n] : n \in V} = {Below(n) : n \in V}
    BY <2>1
  <2>3. Trees!Images(below, V) = UNION {Below(n) : n \in V}
    BY ONLY <2>2 DEF Trees!Images
  <2>4. \A n \in V : Below(n) \in SUBSET U
    BY <1>11
  <2>5. QED
    BY <2>3, <2>4
<1>5. \A i \in Nat : f[i] \in SUBSET U
  <2> DEFINE N == {i \in Nat : f[i] \in SUBSET U}
  <2>1. 0 \in N
    BY <1>0, <1>3
  <2>2. ASSUME NEW i \in Nat, i \in N PROVE i + 1 \in N
    BY <1>3, <1>4, <2>2
  <2> HIDE DEF N
  <2>3. \A i \in Nat : i \in N
    BY <2>1, <2>2, Trees!NatSetInduction
  <2>4. QED
    BY <2>3 DEF N
<1>6. \A i \in Nat : i # 0 =>
        Trees!Images(below, f[i - 1]) = UNION {Below(n) : n \in f[i - 1]}
  BY <1>4, <1>5
<1>7. Equation(f)
  <2>1. [i \in Nat |-> IF i = 0 THEN {t} ELSE Trees!Images(below, f[i - 1])]
        = [i \in Nat |-> IF i = 0 THEN {t} ELSE UNION {Below(n) : n \in f[i - 1]}]
    BY <1>6
  <2>2. QED
    BY <1>2, <2>1
<1>8. Equation(level)
  <2> HIDE DEF Equation
  <2>1. QED
    BY <1>7
<1> HIDE DEF level
<1>10. IsLevels(level, tree)
  BY <1>8 DEF IsLevels, t
<1>12. QED
  BY <1>9, <1>10

(* Every visit is of the node that its path leads to, and every node is     *)
(* visited to which a path leads that is not too long.                      *)
LEMMA VisitsAreLookups ==
  ASSUME NEW S, Trees!IsForest(S, Nat), NEW tree \in S
  PROVE  /\ \A visit \in Visits(tree) :
              /\ visit = Visit(visit.path, visit.node)
              /\ visit.path \in Seq(Nat)
              /\ visit.node \in Trees!NodeAt(tree, visit.path)
         /\ \A p \in Seq(Nat) : \A n \in Trees!NodeAt(tree, p) :
              Len(p) <= MaxLength => Visit(p, n) \in Visits(tree)
<1>1. PICK level : /\ IsLevels(level, tree)
                   /\ Visits(tree) = UNION {level[i] : i \in 0..MaxLength}
  BY LevelsAreDefined
<1>2. /\ \A v : v \in level[0] <=> v = Visit(<<>>, tree)
      /\ \A i \in Nat : \A v : v \in level[i + 1] <=> \E x \in level[i] : v \in Below(x)
  BY <1>1 DEF IsLevels
<1> DEFINE Leads(v) == /\ v = Visit(v.path, v.node)
                       /\ v.path \in Seq(Nat)
                       /\ v.node \in Trees!NodeAt(tree, v.path)
<1>3. \A v, d : d \in DOMAIN v.node.children =>
        Visit(v.path \o <<d>> \o v.node.children[d].suffix, v.node.children[d].node)
          \in Below(v)
  BY DEF Below, Visit
<1>4. ASSUME NEW x, Leads(x), NEW v \in Below(x)
      PROVE  Leads(v)
  <2>1. PICK p, n : p = x.path /\ n = x.node
    OBVIOUS
  <2>2. PICK d \in DOMAIN n.children :
          v = Visit(p \o <<d>> \o n.children[d].suffix, n.children[d].node)
    BY <1>4, <2>1 DEF Below, Visit
  <2>3. PICK suffix, c : suffix = n.children[d].suffix /\ c = n.children[d].node
    OBVIOUS
  <2>4. p \in Seq(Nat) /\ n \in Trees!NodeAt(tree, p)
    BY <1>4, <2>1
  <2>5. n \in S
    BY <2>4, OneNodeAtPath
  <2>6. d \in Nat /\ suffix \in Seq(Nat) /\ c \in S /\ EdgeTo(n, d) \in Seq(Nat)
    BY <2>3, <2>5, EdgeFacts
  <2>7. p \o <<d>> \o suffix = p \o EdgeTo(n, d)
    <3>1. p \o <<d>> \o suffix = p \o (<<d>> \o suffix)
      BY ONLY <2>4, <2>6, SMTT(60)
    <3>2. QED
      BY <2>3, <3>1 DEF EdgeTo
  <2>8. p \o EdgeTo(n, d) \in Seq(Nat) /\ c \in Trees!NodeAt(tree, p \o EdgeTo(n, d))
    BY <2>2, <2>3, <2>4, ChildIsAt
  <2>9. v.path = p \o EdgeTo(n, d) /\ v.node = c /\ v = Visit(v.path, v.node)
    BY <2>2, <2>3, <2>7 DEF Visit
  <2>10. QED
    BY <2>8, <2>9
<1> DEFINE I == {i \in Nat : \A v \in level[i] : Leads(v)}
<1>5. 0 \in I
  <2>1. Leads(Visit(<<>>, tree))
    BY NodeAtRoot DEF Visit
  <2>2. QED
    BY <1>2, <2>1
<1>6. ASSUME NEW i \in Nat, i \in I PROVE i + 1 \in I
  <2>1. \A x \in level[i] : Leads(x)
    BY <1>6
  <2> HIDE DEF Leads
  <2>2. ASSUME NEW v \in level[i + 1] PROVE Leads(v)
    <3>1. PICK x \in level[i] : v \in Below(x)
      BY <1>2, <2>2
    <3>2. Leads(x)
      BY <2>1, <3>1
    <3>3. QED
      BY <1>4, <3>1, <3>2
  <2>3. QED
    BY <2>2
<1>7. \A i \in Nat : i \in I
  <2> HIDE DEF I
  <2>1. QED
    BY <1>5, <1>6, Trees!NatSetInduction
<1>8. MaxLength \in Nat
  BY LengthAssumption
<1>9. \A visit \in Visits(tree) : Leads(visit)
  <2> HIDE DEF Leads
  <2>1. QED
    BY <1>1, <1>7, <1>8
<1> DEFINE Reached(k) == \A p \in Seq(Nat) : Len(p) < k =>
             \A n \in Trees!NodeAt(tree, p) :
               \E i \in Nat : i <= Len(p) /\ Visit(p, n) \in level[i]
           B == {k \in Nat : Reached(k)}
<1>10. \A o \in Seq(Nat) : Len(o) \in Nat
  OBVIOUS
<1>11. 0 \in B
  BY <1>10
<1>12. ASSUME NEW k \in Nat, k \in B PROVE k + 1 \in B
  <2>1. Reached(k)
    BY <1>12
  <2> HIDE DEF Reached, Leads
  <2>2. ASSUME NEW p \in Seq(Nat), Len(p) < k + 1, NEW n \in Trees!NodeAt(tree, p)
        PROVE  \E i \in Nat : i <= Len(p) /\ Visit(p, n) \in level[i]
    <3>1. CASE p = <<>>
      <4>1. n = tree /\ Len(p) = 0
        BY <2>2, <3>1, NodeAtRoot
      <4>2. QED
        BY <1>2, <3>1, <4>1
    <3>2. CASE p # <<>>
      <4>1. PICK u, m, d : IsLastEdge(tree, p, n, u, m, d)
        BY <2>2, <3>2, LastEdge
      <4>2. /\ u \in Seq(Nat) /\ m \in Trees!NodeAt(tree, u) /\ d \in DOMAIN m.children
            /\ p = u \o EdgeTo(m, d) /\ Len(u) < Len(p) /\ n = m.children[d].node
        BY <4>1 DEF IsLastEdge
      <4>3. Len(u) < k
        BY <1>10, <2>2, <4>2
      <4>4. PICK i \in Nat : i <= Len(u) /\ Visit(u, m) \in level[i]
        BY <2>1, <4>2, <4>3 DEF Reached
      <4>5. m \in S
        BY <4>2, OneNodeAtPath
      <4>6. PICK suffix : suffix = m.children[d].suffix
        OBVIOUS
      <4>7. d \in Nat /\ suffix \in Seq(Nat)
        BY <4>2, <4>5, <4>6, EdgeFacts
      <4>8. u \o <<d>> \o suffix = p
        <5>1. u \o <<d>> \o suffix = u \o (<<d>> \o suffix)
          BY ONLY <4>2, <4>7, SMTT(60)
        <5>2. QED
          BY <4>2, <4>6, <5>1 DEF EdgeTo
      <4>9. Visit(u, m).path = u /\ Visit(u, m).node = m
        BY DEF Visit
      <4>10. Visit(p, n) \in Below(Visit(u, m))
        BY <1>3, <4>2, <4>6, <4>8, <4>9
      <4>11. Visit(p, n) \in level[i + 1]
        BY <1>2, <4>4, <4>10
      <4>12. i + 1 \in Nat /\ i + 1 <= Len(p)
        BY <1>10, <4>2, <4>4
      <4>13. QED
        BY <4>11, <4>12
    <3>3. QED
      BY <3>1, <3>2
  <2>3. Reached(k + 1)
    BY <2>2 DEF Reached
  <2>4. QED
    BY <2>3
<1> HIDE DEF B
<1>13. \A k \in Nat : k \in B
  BY <1>11, <1>12, Trees!NatSetInduction
<1>14. ASSUME NEW p \in Seq(Nat), NEW n \in Trees!NodeAt(tree, p), Len(p) <= MaxLength
       PROVE  Visit(p, n) \in Visits(tree)
  <2>1. Len(p) + 1 \in B /\ Len(p) < Len(p) + 1
    BY <1>10, <1>13
  <2>2. PICK i \in Nat : i <= Len(p) /\ Visit(p, n) \in level[i]
    BY <2>1, <1>14 DEF B
  <2>3. i \in 0..MaxLength
    BY <1>8, <1>10, <1>14, <2>2
  <2>4. QED
    BY <1>1, <2>2, <2>3
<1>15. QED
  BY <1>9, <1>14

(* So the walk finds the fields that are looked up, if no path of a field   *)
(* is too long.                                                             *)
HasFieldsIn(tree, paths) == \A q \in Seq(Nat) : ValueAt(tree, q) # None => q \in paths

LEMMA ValueOfNode ==
  ASSUME NEW S, Trees!IsForest(S, Nat), NEW tree \in S, NEW q \in Seq(Nat),
         NEW n \in Trees!NodeAt(tree, q)
  PROVE  ValueAt(tree, q) = n.field
<1>1. Trees!NodeAt(tree, q) = {n}
  BY OneNodeAtPath
<1>2. (CHOOSE m \in {n} : TRUE) = n
  OBVIOUS
<1>3. QED
  BY <1>1, <1>2 DEF ValueAt

LEMMA FieldsAreValues ==
  ASSUME NEW tree, IsDataTree(tree), HasFieldsIn(tree, Paths)
  PROVE  /\ DOMAIN FieldsOf(tree) = {q \in Seq(Nat) : ValueAt(tree, q) # None}
         /\ \A q \in DOMAIN FieldsOf(tree) : FieldsOf(tree)[q] = ValueAt(tree, q)
<1>1. PICK S : tree \in S /\ Trees!IsForest(S, Nat)
  BY DEF IsDataTree
<1> DEFINE found == {visit \in Visits(tree) : visit.node.field # None}
           at(q) == CHOOSE visit \in found : visit.path = q
           paths == {visit.path : visit \in found}
<1>2. FieldsOf(tree) = [q \in paths |-> at(q).node.field]
  BY DEF FieldsOf
<1>3. ASSUME NEW visit \in found
      PROVE  /\ visit.path \in Seq(Nat)
             /\ ValueAt(tree, visit.path) = visit.node.field
             /\ ValueAt(tree, visit.path) # None
  <2>1. visit.path \in Seq(Nat) /\ visit.node \in Trees!NodeAt(tree, visit.path)
    BY <1>1, VisitsAreLookups
  <2>2. ValueAt(tree, visit.path) = visit.node.field
    BY <1>1, <2>1, ValueOfNode
  <2>3. QED
    BY <2>1, <2>2
<1>4. ASSUME NEW q \in Seq(Nat), ValueAt(tree, q) # None
      PROVE  q \in paths
  <2>1. PICK n : n \in Trees!NodeAt(tree, q)
    BY <1>4 DEF ValueAt
  <2>2. n.field # None
    BY <1>1, <1>4, <2>1, ValueOfNode
  <2>3. Len(q) <= MaxLength
    BY <1>4, LengthAssumption DEF HasFieldsIn
  <2>4. Visit(q, n) \in Visits(tree)
    BY <1>1, <2>1, <2>3, VisitsAreLookups
  <2>5. Visit(q, n).path = q /\ Visit(q, n).node = n
    BY DEF Visit
  <2>6. QED
    BY <2>2, <2>4, <2>5
<1>5. \A q \in paths : at(q) \in found /\ at(q).path = q
  OBVIOUS
<1> HIDE DEF found, at
<1>6. \A q \in paths : q \in Seq(Nat) /\ ValueAt(tree, q) # None
  BY <1>3
<1>7. \A q \in paths : at(q).node.field = ValueAt(tree, q)
  BY <1>3, <1>5
<1> HIDE DEF paths
<1>8. paths = {q \in Seq(Nat) : ValueAt(tree, q) # None}
  BY <1>4, <1>6
<1>9. QED
  BY <1>2, <1>7, <1>8

(* A field is set at a path of Paths, and nowhere else.                     *)
HoldsFields(tree) == IsDataTree(tree) /\ HasFieldsIn(tree, Paths)

LEMMA FieldsAreHeld == Spec => []HoldsFields(data_tree)
<1>1. Init => HoldsFields(data_tree)
  BY EmptyTree DEF Init, HoldsFields, HasFieldsIn
<1>2. HoldsFields(data_tree) /\ [Next]_vars => HoldsFields(data_tree)'
  <2> SUFFICES ASSUME HoldsFields(data_tree), [Next]_vars
               PROVE  HoldsFields(data_tree)'
    OBVIOUS
  <2>1. ASSUME NEW path \in Paths, NEW value \in Values, InsertIntoDataTree(path, value)
        PROVE  HoldsFields(data_tree)'
    <3>1. IsSetAt(data_tree', data_tree, path, value)
      BY <2>1, InsertionSets DEF HoldsFields
    <3>2. \A q \in Seq(Nat) : ValueAt(data_tree', q) # None => q \in Paths
      BY <3>1 DEF IsSetAt, HoldsFields, HasFieldsIn
    <3>3. QED
      BY <3>1, <3>2 DEF IsSetAt, HoldsFields, HasFieldsIn
  <2>2. CASE UNCHANGED vars
    BY <2>2 DEF vars
  <2>3. QED
    BY <2>1, <2>2 DEF Next
<1>3. QED
  BY <1>1, <1>2, PTL DEF Spec

(* get_account_state and lookup_data_in_account agree, whatever was         *)
(* inserted: the walk finds every field that a lookup finds, with its       *)
(* value, and no other.                                                     *)
THEOREM WalkAgreesWithLookups == Spec => []LookupAgrees
<1>1. HoldsFields(data_tree) => LookupAgrees
  <2> SUFFICES ASSUME HoldsFields(data_tree), NEW path \in Probes
               PROVE  LookupData(path) = IF path \in DOMAIN AccountFields
                                         THEN AccountFields[path] ELSE None
    BY DEF LookupAgrees
  <2>1. /\ DOMAIN AccountFields = {q \in Seq(Nat) : ValueAt(data_tree, q) # None}
        /\ \A q \in DOMAIN AccountFields : AccountFields[q] = ValueAt(data_tree, q)
    BY FieldsAreValues DEF HoldsFields, AccountFields
  <2>2. LookupData(path) = ValueAt(data_tree, path) /\ path \in Seq(Nat)
    BY LookupIsValue, DataTreeAssumption
  <2>3. QED
    BY <2>1, <2>2
<1>2. QED
  BY <1>1, FieldsAreHeld, PTL
-----------------------------------------------------------------------------
(***************************************************************************)
(* The nodes that an insertion puts.                                       *)
(***************************************************************************)
NodeBeyond(edge, child, path) ==
  IF Trees!IsPrefix(edge, path) THEN Trees!NodeAt(child, Trees!Drop(path, Len(edge)))
  ELSE {}

LEMMA NodeAlongEdge ==
  ASSUME NEW S, Trees!IsForest(S, Nat), NEW node \in S, NEW path \in Seq(Nat),
         path # <<>>, NEW d, d = Head(path)
  PROVE  Trees!NodeAt(node, path) =
           IF d \in DOMAIN node.children
           THEN NodeBeyond(<<d>> \o node.children[d].suffix, node.children[d].node, path)
           ELSE {}
<1>1. CASE d \notin DOMAIN node.children
  BY <1>1, Trees!NodeAtEquation DEF Trees!LeadsOn
<1>2. CASE d \in DOMAIN node.children
  <2> DEFINE suffix == node.children[d].suffix
  <2>1. d \in Nat /\ suffix \in Seq(Nat)
    BY <1>2 DEF Trees!IsForest
  <2>2. /\ Trees!LeadsOn(node, path) <=> Trees!IsPrefix(suffix, Tail(path))
        /\ Trees!NextNode(node, path) = node.children[d].node
        /\ Trees!NextPath(node, path) = Trees!Drop(Tail(path), Len(suffix))
    BY <1>2 DEF Trees!LeadsOn, Trees!NextNode, Trees!NextPath
  <2> HIDE DEF suffix
  <2>3. /\ Trees!IsPrefix(<<d>> \o suffix, path)
             <=> d = Head(path) /\ Trees!IsPrefix(suffix, Tail(path))
        /\ Trees!IsPrefix(<<d>> \o suffix, path) =>
              Trees!Drop(path, Len(<<d>> \o suffix)) = Trees!Drop(Tail(path), Len(suffix))
    BY <2>1, Trees!PathAlongEdge
  <2>4. Trees!NodeAt(node, path)
          = IF Trees!LeadsOn(node, path)
            THEN Trees!NodeAt(Trees!NextNode(node, path), Trees!NextPath(node, path))
            ELSE {}
    BY Trees!NodeAtEquation
  <2>5. Trees!NodeAt(node, path) = NodeBeyond(<<d>> \o suffix, node.children[d].node, path)
    BY <2>2, <2>3, <2>4 DEF NodeBeyond
  <2>6. QED
    BY <1>2, <2>5 DEF suffix
<1>3. QED
  BY <1>1, <1>2

LEMMA NodeBeyondMiddle ==
  ASSUME NEW S, Trees!IsForest(S, Nat), NEW child \in S,
         NEW s \in Seq(Nat) \ {<<>>}, NEW path \in Seq(Nat), path # <<>>
  PROVE  Trees!NodeAt(FromSingleChild(s, child), path) = NodeBeyond(s, child, path)
<1> DEFINE middle == FromSingleChild(s, child)
           M == S \cup Trees!Middles(S, Nat)
<1>1. Trees!IsForest(M, Nat)
  BY SingleChildLaw, Trees!MiddlesAreTrees
<1>2. middle \in M
  BY DEF Trees!Middles
<1>3. middle.children = Trees!SingleChild(s, child)
  BY SingleChildLaw DEF Trees!SingleChildLaw
<1>4. /\ DOMAIN middle.children = {Head(s)}
      /\ middle.children[Head(s)].suffix = Tail(s)
      /\ middle.children[Head(s)].node = child
  BY <1>3 DEF Trees!SingleChild, Trees!Edge
<1>5. s = <<Head(s)>> \o Tail(s) /\ Head(s) \in Nat /\ Tail(s) \in Seq(Nat)
  BY Trees!PathIsHeadAndTail, Trees!TailFacts
<1> HIDE DEF middle, M
<1>6. CASE Head(path) = Head(s)
  <2>1. Trees!NodeAt(middle, path) = NodeBeyond(<<Head(s)>> \o Tail(s), child, path)
    BY <1>1, <1>2, <1>4, <1>6, NodeAlongEdge
  <2>2. QED
    BY <1>5, <2>1 DEF middle
<1>7. CASE Head(path) # Head(s)
  <2>1. Trees!NodeAt(middle, path) = {}
    BY <1>1, <1>2, <1>4, <1>7, NodeAlongEdge
  <2>2. ~Trees!IsPrefix(<<Head(s)>> \o Tail(s), path)
    BY <1>5, <1>7, Trees!PathAlongEdge
  <2>3. QED
    BY <1>5, <2>1, <2>2 DEF NodeBeyond, middle
<1>8. QED
  BY <1>6, <1>7

LEMMA NodeBeyondTwo ==
  ASSUME NEW child, NEW e \in Seq(Nat), NEW s \in Seq(Nat), NEW q \in Seq(Nat)
  PROVE  NodeBeyond(e \o s, child, q) =
           IF Trees!IsPrefix(e, q) THEN NodeBeyond(s, child, Trees!Drop(q, Len(e)))
           ELSE {}
<1>1. /\ Trees!IsPrefix(e \o s, q)
           <=> Trees!IsPrefix(e, q) /\ Trees!IsPrefix(s, Trees!Drop(q, Len(e)))
      /\ Trees!IsPrefix(e \o s, q) =>
           Trees!Drop(q, Len(e \o s)) = Trees!Drop(Trees!Drop(q, Len(e)), Len(s))
  BY Trees!PathAfterPath
<1>2. QED
  BY <1>1 DEF NodeBeyond

(* An insertion leaves what its path does not pass, and puts no more nodes  *)
(* along its path than are counted.                                         *)
Fresh(nodes, count) == IsFiniteSet(nodes) /\ Cardinality(nodes) <= count
Puts(new, tree, path, count) ==
  /\ count \in Nat
  /\ \A q \in Seq(Nat) : ~Trees!IsPrefix(q, path) =>
       Trees!NodeAt(new, q) = Trees!NodeAt(tree, q)
  /\ \E nodes : /\ Fresh(nodes, count)
                /\ \A q \in Seq(Nat) : Trees!IsPrefix(q, path) =>
                     Trees!NodeAt(new, q) \in SUBSET nodes

LEMMA OneIsFresh == ASSUME NEW new PROVE Fresh({new}, 1)
<1>1. IsFiniteSet({new}) /\ Cardinality({new}) = 1
  BY FS_Singleton
<1>2. Cardinality({new}) <= 1
  BY <1>1
<1>3. QED
  BY <1>1, <1>2 DEF Fresh

LEMMA OneMoreIsFresh ==
  ASSUME NEW nodes, NEW k \in Nat, Fresh(nodes, k), NEW new,
         NEW count \in Nat, k + 1 <= count
  PROVE  Fresh(nodes \cup {new}, count)
<1>1. IsFiniteSet(nodes) /\ Cardinality(nodes) \in Nat /\ Cardinality(nodes) <= k
  BY FS_CardinalityType DEF Fresh
<1>2. /\ IsFiniteSet(nodes \cup {new})
      /\ Cardinality(nodes \cup {new})
           = IF new \in nodes THEN Cardinality(nodes) ELSE Cardinality(nodes) + 1
  BY <1>1, FS_AddElement
<1>3. Cardinality(nodes \cup {new}) <= count
  BY <1>1, <1>2
<1>4. QED
  BY <1>2, <1>3 DEF Fresh

LEMMA GraftPuts ==
  ASSUME NEW node, IsDataTree(node), NEW e \in Seq(Nat), e # <<>>,
         NEW inner \in Seq(Nat), NEW path \in Seq(Nat), path = e \o inner,
         NEW tree, NEW sub, IsDataTree(sub), NEW k, Puts(sub, tree, inner, k),
         NEW count \in Nat, k + 1 <= count,
         \A q \in Seq(Nat) : q # <<>> /\ Head(q) = Head(e) /\ ~Trees!IsPrefix(q, path) =>
           Trees!NodeAt(node, q) = NodeBeyond(e, tree, q)
  PROVE  Puts(Grafted(node, e, sub), node, path, count)
<1> DEFINE new == Grafted(node, e, sub)
<1>1. PICK S : node \in S /\ Trees!IsForest(S, Nat) /\ \A n \in S : IsNode(n)
  BY DEF IsDataTree
<1>2. /\ DOMAIN new.children = DOMAIN node.children \cup {Head(e)}
      /\ new.children[Head(e)].suffix = Tail(e)
      /\ new.children[Head(e)].node = sub
      /\ \A d \in DOMAIN node.children \ {Head(e)} : new.children[d] = node.children[d]
  <2>1. IsGraft(new, node, e, sub)
    BY <1>1, GraftedNode
  <2>2. QED
    BY <2>1 DEF IsGraft
<1>3. PICK T : new \in T /\ Trees!IsForest(T, Nat)
  <2>1. IsDataTree(new)
    BY GraftedTree
  <2>2. QED
    BY <2>1 DEF IsDataTree
<1> HIDE DEF new
<1>4. <<Head(e)>> \o Tail(e) = e
  BY Trees!PathIsHeadAndTail
<1>5. ASSUME NEW q \in Seq(Nat), q # <<>>, Head(q) = Head(e)
      PROVE  Trees!NodeAt(new, q) = NodeBeyond(e, sub, q)
  <2>1. Trees!NodeAt(new, q) = NodeBeyond(<<Head(e)>> \o Tail(e), sub, q)
    BY <1>2, <1>3, <1>5, NodeAlongEdge
  <2>2. QED
    BY <1>4, <2>1
<1>6. ASSUME NEW q \in Seq(Nat), q # <<>>, Head(q) # Head(e)
      PROVE  Trees!NodeAt(new, q) = Trees!NodeAt(node, q)
  <2> DEFINE Along(n) ==
        IF Head(q) \in DOMAIN n.children
        THEN NodeBeyond(<<Head(q)>> \o n.children[Head(q)].suffix,
                        n.children[Head(q)].node, q)
        ELSE {}
  <2>1. Trees!NodeAt(new, q) = Along(new)
    BY <1>3, <1>6, NodeAlongEdge
  <2>2. Trees!NodeAt(node, q) = Along(node)
    BY <1>1, <1>6, NodeAlongEdge
  <2>3. Along(new) = Along(node)
    BY <1>2, <1>6
  <2>4. QED
    BY <2>1, <2>2, <2>3
<1>7. Trees!IsPrefix(e, path) /\ Trees!Drop(path, Len(e)) = inner
  <2>1. path \in Seq(Nat) /\ e \in Seq(Nat) /\ inner \in Seq(Nat)
    OBVIOUS
  <2>2. path = e \o inner <=> Trees!IsPrefix(e, path) /\ Trees!Drop(path, Len(e)) = inner
    BY ONLY <2>1, Trees!PathIsJoin
  <2>3. QED
    BY <2>2
<1>8. ASSUME NEW q \in Seq(Nat), Trees!IsPrefix(e, q)
      PROVE  /\ Trees!Drop(q, Len(e)) \in Seq(Nat)
             /\ Trees!IsPrefix(q, path) <=> Trees!IsPrefix(Trees!Drop(q, Len(e)), inner)
  <2>1. PICK r : r = Trees!Drop(q, Len(e))
    OBVIOUS
  <2>2. r \in Seq(Nat)
    BY <1>8, <2>1, Trees!PrefixFacts, Trees!DropElements
  <2>3. q = e \o r
    <3>1. e \in Seq(Nat) /\ r \in Seq(Nat) /\ q \in Seq(Nat)
      BY <2>2
    <3>2. q = e \o r <=> Trees!IsPrefix(e, q) /\ Trees!Drop(q, Len(e)) = r
      BY ONLY <3>1, Trees!PathIsJoin
    <3>3. QED
      BY <1>8, <2>1, <3>2
  <2>4. Trees!IsPrefix(e \o r, path)
          <=> Trees!IsPrefix(e, path) /\ Trees!IsPrefix(r, Trees!Drop(path, Len(e)))
    BY <2>2, Trees!PathAfterPath
  <2>5. QED
    BY <1>7, <2>1, <2>2, <2>3, <2>4
<1>9. ASSUME NEW q \in Seq(Nat), ~Trees!IsPrefix(q, path)
      PROVE  Trees!NodeAt(new, q) = Trees!NodeAt(node, q)
  <2>1. q # <<>>
    BY <1>9 DEF Trees!IsPrefix
  <2>2. CASE Head(q) = Head(e)
    <3>1. /\ Trees!NodeAt(new, q) = NodeBeyond(e, sub, q)
          /\ Trees!NodeAt(node, q) = NodeBeyond(e, tree, q)
      BY <1>5, <1>9, <2>1, <2>2
    <3>2. CASE Trees!IsPrefix(e, q)
      <4>1. PICK r : r = Trees!Drop(q, Len(e))
        OBVIOUS
      <4>2. r \in Seq(Nat) /\ ~Trees!IsPrefix(r, inner)
        BY <1>8, <1>9, <3>2, <4>1
      <4>3. Trees!NodeAt(sub, r) = Trees!NodeAt(tree, r)
        BY <4>2 DEF Puts
      <4>4. QED
        BY <3>1, <3>2, <4>1, <4>3 DEF NodeBeyond
    <3>3. CASE ~Trees!IsPrefix(e, q)
      BY <3>1, <3>3 DEF NodeBeyond
    <3>4. QED
      BY <3>2, <3>3
  <2>3. QED
    BY <1>6, <2>1, <2>2
<1>10. PICK nodes : /\ Fresh(nodes, k)
                    /\ \A q \in Seq(Nat) : Trees!IsPrefix(q, inner) =>
                         Trees!NodeAt(sub, q) \in SUBSET nodes
  BY DEF Puts
<1>11. k \in Nat
  BY DEF Puts
<1>12. Fresh(nodes \cup {new}, count)
  BY <1>10, <1>11, OneMoreIsFresh
<1>13. ASSUME NEW q \in Seq(Nat), Trees!IsPrefix(q, path)
       PROVE  Trees!NodeAt(new, q) \in SUBSET (nodes \cup {new})
  <2>1. CASE q = <<>>
    BY <1>3, <2>1, NodeAtRoot
  <2>2. CASE q # <<>>
    <3>1. Head(q) = Head(e)
      <4>1. Head(q) = Head(path)
        <5>1. q \in Seq(Nat) /\ path \in Seq(Nat) /\ q # <<>> /\ Trees!IsPrefix(q, path)
          BY <1>13, <2>2
        <5>2. Len(q) <= Len(path) /\ \A i \in 1..Len(q) : q[i] = path[i]
          BY ONLY <5>1, Trees!PrefixElements
        <5>3. 1 \in 1..Len(q) /\ Len(path) # 0
          BY ONLY <5>1, <5>2
        <5>4. q[1] = path[1]
          BY <5>2, <5>3
        <5>5. QED
          BY ONLY <5>1, <5>3, <5>4
      <4>2. Head(path) = Head(e)
        <5>1. e \in Seq(Nat) /\ inner \in Seq(Nat) /\ e # <<>>
          OBVIOUS
        <5>2. Head(e \o inner) = Head(e)
          BY ONLY <5>1
        <5>3. QED
          BY <5>2
      <4>3. QED
        BY <4>1, <4>2
    <3>2. Trees!NodeAt(new, q) = NodeBeyond(e, sub, q)
      BY <1>5, <2>2, <3>1
    <3>3. CASE Trees!IsPrefix(e, q)
      <4>1. PICK r : r = Trees!Drop(q, Len(e))
        OBVIOUS
      <4>2. r \in Seq(Nat) /\ Trees!IsPrefix(r, inner)
        BY <1>8, <1>13, <3>3, <4>1
      <4>3. Trees!NodeAt(sub, r) \in SUBSET nodes
        BY <1>10, <4>2
      <4>4. QED
        BY <3>2, <3>3, <4>1, <4>3 DEF NodeBeyond
    <3>4. CASE ~Trees!IsPrefix(e, q)
      BY <3>2, <3>4 DEF NodeBeyond
    <3>5. QED
      BY <3>3, <3>4
  <2>3. QED
    BY <2>1, <2>2
<1>14. Puts(new, node, path, count)
  <2>1. \E F : /\ Fresh(F, count)
               /\ \A q \in Seq(Nat) : Trees!IsPrefix(q, path) =>
                    Trees!NodeAt(new, q) \in SUBSET F
    BY <1>12, <1>13
  <2>2. QED
    BY <1>9, <2>1 DEF Puts
<1>15. QED
  BY <1>14 DEF new

LEMMA PrefixOfNothing ==
  ASSUME NEW q \in Seq(Nat)
  PROVE  Trees!IsPrefix(q, <<>>) <=> q = <<>>
BY DEF Trees!IsPrefix

LEMMA PutsHere ==
  ASSUME NEW node, IsDataTree(node), NEW path, path = <<>>, NEW value
  PROVE  Puts(Inserted(node, path, value), node, path, Counted(node, path, value))
<1>1. PICK new : new = [node EXCEPT !.field = value]
  OBVIOUS
<1>2. Inserted(node, path, value) = new
  BY <1>1, InsertedHere
<1>3. Counted(node, path, value) = 1
  BY DataTreeIsTree, SingleChildLaw, Trees!InsertedHere DEF Counted
<1>4. PICK S : node \in S /\ Trees!IsForest(S, Nat) /\ \A n \in S : IsNode(n)
  BY DEF IsDataTree
<1>5. PICK field, children : node = [field |-> field, children |-> children]
  BY <1>4 DEF IsNode
<1>6. new.children = node.children
  BY <1>1, <1>5
<1>7. PICK T : new \in T /\ Trees!IsForest(T, Nat)
  <2>1. IsDataTree(new)
    BY <1>1, FieldOfNode
  <2>2. QED
    BY <2>1 DEF IsDataTree
<1>8. ASSUME NEW q \in Seq(Nat), ~Trees!IsPrefix(q, path)
      PROVE  Trees!NodeAt(new, q) = Trees!NodeAt(node, q)
  <2>1. q # <<>>
    BY <1>8, PrefixOfNothing
  <2> DEFINE Along(n) ==
        IF Head(q) \in DOMAIN n.children
        THEN NodeBeyond(<<Head(q)>> \o n.children[Head(q)].suffix,
                        n.children[Head(q)].node, q)
        ELSE {}
  <2>2. Trees!NodeAt(new, q) = Along(new)
    BY <1>7, <2>1, NodeAlongEdge
  <2>3. Trees!NodeAt(node, q) = Along(node)
    BY <1>4, <2>1, NodeAlongEdge
  <2>4. Along(new) = Along(node)
    BY <1>6
  <2>5. QED
    BY <2>2, <2>3, <2>4
<1>9. Fresh({new}, 1)
  BY OneIsFresh
<1>10. \A q \in Seq(Nat) : Trees!IsPrefix(q, path) => Trees!NodeAt(new, q) \in SUBSET {new}
  BY <1>7, PrefixOfNothing, NodeAtRoot
<1>11. QED
  BY <1>2, <1>3, <1>8, <1>9, <1>10 DEF Puts

LEMMA PutsLeaf ==
  ASSUME NEW node, IsDataTree(node), NEW path \in Seq(Nat), path # <<>>,
         Head(path) \notin DOMAIN node.children, NEW value
  PROVE  Puts(Inserted(node, path, value), node, path, Counted(node, path, value))
<1> DEFINE leaf == [field |-> value, children |-> <<>>]
<1>1. Inserted(node, path, value) = Grafted(node, path, leaf)
  BY InsertedLeaf
<1>2. Counted(node, path, value) = 2
  BY DataTreeIsTree, SingleChildLaw, Trees!InsertedLeaf DEF Counted
<1>3. DOMAIN leaf.children = {} /\ IsDataTree(leaf)
  <2>1. PICK none : none = <<>> /\ DOMAIN none = {}
    OBVIOUS
  <2>2. leaf.children = none
    BY <2>1
  <2>3. QED
    BY <2>1, <2>2, LeafTree
<1> HIDE DEF leaf
<1>4. Trees!IsForest({leaf}, Nat)
  BY <1>3 DEF Trees!IsForest
<1>5. PICK none : none = <<>>
  OBVIOUS
<1>6. none \in Seq(Nat) /\ path = path \o none
  BY <1>5
<1>7. \A q \in Seq(Nat) : q # <<>> => Trees!NodeAt(leaf, q) = {}
  BY <1>3, <1>4, NodeAlongEdge
<1>8. Fresh({leaf}, 1)
  BY OneIsFresh
<1>9. Puts(leaf, leaf, none, 1)
  <2>1. \A q \in Seq(Nat) : Trees!IsPrefix(q, none) =>
          Trees!NodeAt(leaf, q) \in SUBSET {leaf}
    BY <1>4, <1>5, PrefixOfNothing, NodeAtRoot
  <2>2. QED
    BY <1>8, <2>1 DEF Puts
<1>10. ASSUME NEW q \in Seq(Nat), q # <<>>, Head(q) = Head(path), ~Trees!IsPrefix(q, path)
       PROVE  Trees!NodeAt(node, q) = NodeBeyond(path, leaf, q)
  <2>1. PICK S : node \in S /\ Trees!IsForest(S, Nat)
    BY DEF IsDataTree
  <2>2. Trees!NodeAt(node, q) = {}
    BY <1>10, <2>1, NodeAlongEdge
  <2>3. ASSUME Trees!IsPrefix(path, q) PROVE Trees!NodeAt(leaf, Trees!Drop(q, Len(path))) = {}
    <3>1. PICK r : r = Trees!Drop(q, Len(path))
      OBVIOUS
    <3>2. r \in Seq(Nat)
      BY <2>3, <3>1, Trees!PrefixFacts, Trees!DropElements
    <3>3. r # <<>>
      <4>1. SUFFICES ASSUME r = none PROVE FALSE
        BY <1>5
      <4>2. q = path \o none <=> Trees!IsPrefix(path, q) /\ Trees!Drop(q, Len(path)) = none
        <5>1. path \in Seq(Nat) /\ none \in Seq(Nat) /\ q \in Seq(Nat)
          BY <1>6
        <5>2. QED
          BY ONLY <5>1, Trees!PathIsJoin
      <4>3. q = path
        BY <1>6, <2>3, <3>1, <4>1, <4>2
      <4>4. Trees!IsPrefix(path, path)
        BY Trees!PrefixElements
      <4>5. QED
        BY <1>10, <4>3, <4>4
    <3>4. QED
      BY <1>7, <3>1, <3>2, <3>3
  <2>4. QED
    BY <2>2, <2>3 DEF NodeBeyond
<1>11. Puts(Grafted(node, path, leaf), node, path, 2)
  <2>1. PICK one, two : one = 1 /\ two = 2
    OBVIOUS
  <2>2. Puts(leaf, leaf, none, one) /\ two \in Nat /\ one + 1 <= two
    BY <1>9, <2>1
  <2>3. Puts(Grafted(node, path, leaf), node, path, two)
    BY <1>3, <1>6, <1>10, <2>2, GraftPuts
  <2>4. QED
    BY <2>1, <2>3
<1>12. QED
  BY <1>1, <1>2, <1>11

LEMMA PutsWithin ==
  ASSUME NEW node, IsDataTree(node), NEW path \in Seq(Nat), path # <<>>,
         Head(path) \in DOMAIN node.children, NEW value,
         \A tree, p : IsDataTree(tree) /\ p \in Seq(Nat) /\ Len(p) < Len(path) =>
           Puts(Inserted(tree, p, value), tree, p, Counted(tree, p, value))
  PROVE  Puts(Inserted(node, path, value), node, path, Counted(node, path, value))
<1>1. PICK S : node \in S /\ Trees!IsForest(S, Nat) /\ \A n \in S : IsNode(n)
  BY DEF IsDataTree
<1>2. PICK e, s, tree, inner : Descends(node, path, value, e, s, tree, inner)
  BY InsertedWithin
<1>3. PICK suffix, below : /\ suffix = node.children[Head(path)].suffix
                           /\ below = node.children[Head(path)].node
  OBVIOUS
<1>4. /\ e \in Seq(Nat) /\ e # <<>> /\ Head(e) = Head(path)
      /\ inner \in Seq(Nat) /\ path = e \o inner /\ Len(inner) < Len(path)
      /\ s \in Seq(Nat) /\ <<Head(path)>> \o suffix = e \o s
      /\ tree = IF s = <<>> THEN below ELSE FromSingleChild(s, below)
      /\ Inserted(node, path, value) = Grafted(node, e, Inserted(tree, inner, value))
      /\ Counted(node, path, value)
           = (Counted(tree, inner, value) + IF s = <<>> THEN 0 ELSE 1) + 1
  BY <1>2, <1>3 DEF Descends
<1>5. below \in S
  BY <1>1, <1>3 DEF Trees!IsForest
<1>6. IsDataTree(tree)
  <2>1. CASE s = <<>>
    BY <1>1, <1>4, <1>5, <2>1 DEF IsDataTree
  <2>2. CASE s # <<>>
    BY <1>1, <1>4, <1>5, <2>2, MiddleTree
  <2>3. QED
    BY <2>1, <2>2
<1>7. PICK sub, k : sub = Inserted(tree, inner, value) /\ k = Counted(tree, inner, value)
  OBVIOUS
<1>8. Puts(sub, tree, inner, k) /\ IsDataTree(sub) /\ k \in Nat
  <2>1. Puts(sub, tree, inner, k)
    BY <1>4, <1>6, <1>7
  <2>2. IsDataTree(sub)
    BY <1>4, <1>6, <1>7, InsertSets DEF IsSetAt
  <2>3. QED
    BY <2>1, <2>2 DEF Puts
<1>9. ASSUME NEW q \in Seq(Nat), q # <<>>, Head(q) = Head(e), ~Trees!IsPrefix(q, path)
      PROVE  Trees!NodeAt(node, q) = NodeBeyond(e, tree, q)
  <2>1. Trees!NodeAt(node, q) = NodeBeyond(<<Head(path)>> \o suffix, below, q)
    BY <1>1, <1>3, <1>4, <1>9, NodeAlongEdge
  <2>2. NodeBeyond(e \o s, below, q)
          = IF Trees!IsPrefix(e, q)
            THEN NodeBeyond(s, below, Trees!Drop(q, Len(e))) ELSE {}
    BY <1>4, NodeBeyondTwo
  <2>3. CASE Trees!IsPrefix(e, q)
    <3>1. PICK r : r = Trees!Drop(q, Len(e))
      OBVIOUS
    <3>2. r \in Seq(Nat)
      BY <1>4, <2>3, <3>1, Trees!PrefixFacts, Trees!DropElements
    <3>3. r # <<>>
      <4>1. SUFFICES ASSUME r = <<>> PROVE FALSE
        OBVIOUS
      <4>2. q = e \o r <=> Trees!IsPrefix(e, q) /\ Trees!Drop(q, Len(e)) = r
        <5>1. e \in Seq(Nat) /\ r \in Seq(Nat) /\ q \in Seq(Nat)
          BY <1>4, <3>2
        <5>2. QED
          BY ONLY <5>1, Trees!PathIsJoin
      <4>3. q = e
        <5>1. e \o r = e
          BY <1>4, <4>1
        <5>2. QED
          BY <2>3, <3>1, <4>2, <5>1
      <4>4. Trees!IsPrefix(e, path)
        <5>1. path \in Seq(Nat) /\ e \in Seq(Nat) /\ inner \in Seq(Nat)
          BY <1>4
        <5>2. path = e \o inner
                <=> Trees!IsPrefix(e, path) /\ Trees!Drop(path, Len(e)) = inner
          BY ONLY <5>1, Trees!PathIsJoin
        <5>3. QED
          BY <1>4, <5>2
      <4>5. QED
        BY <1>9, <4>3, <4>4
    <3>4. Trees!NodeAt(tree, r) = NodeBeyond(s, below, r)
      <4>1. CASE s = <<>>
        <5>1. tree = below
          BY <1>4, <4>1
        <5>2. Trees!IsPrefix(<<>>, r) /\ Trees!Drop(r, Len(<<>>)) = r
          BY <3>2 DEF Trees!IsPrefix, Trees!Drop
        <5>3. QED
          BY <4>1, <5>1, <5>2 DEF NodeBeyond
      <4>2. CASE s # <<>>
        <5>1. tree = FromSingleChild(s, below) /\ s \in Seq(Nat) \ {<<>>}
          BY <1>4, <4>2
        <5>2. QED
          BY <1>1, <1>5, <3>2, <3>3, <5>1, NodeBeyondMiddle
      <4>3. QED
        BY <4>1, <4>2
    <3>5. QED
      BY <1>4, <2>1, <2>2, <2>3, <3>1, <3>4 DEF NodeBeyond
  <2>4. CASE ~Trees!IsPrefix(e, q)
    BY <1>4, <2>1, <2>2, <2>4 DEF NodeBeyond
  <2>5. QED
    BY <2>3, <2>4
<1>10. PICK count : count = Counted(node, path, value)
  OBVIOUS
<1>11. count \in Nat /\ k + 1 <= count
  <2>1. k \in Nat
    BY <1>8
  <2>2. count = (k + 0) + 1 \/ count = (k + 1) + 1
    BY <1>4, <1>7, <1>10
  <2>3. QED
    BY ONLY <2>1, <2>2
<1>12. Puts(Grafted(node, e, sub), node, path, count)
  BY <1>4, <1>8, <1>9, <1>11, GraftPuts
<1>13. QED
  BY <1>4, <1>7, <1>10, <1>12

LEMMA InsertPuts ==
  ASSUME NEW tree, IsDataTree(tree), NEW path \in Seq(Nat), NEW value
  PROVE  Puts(Inserted(tree, path, value), tree, path, Counted(tree, path, value))
<1> DEFINE Good(t, p) == Puts(Inserted(t, p, value), t, p, Counted(t, p, value))
           All(n) == \A t, p : IsDataTree(t) /\ p \in Seq(Nat) /\ Len(p) < n => Good(t, p)
           B == {n \in Nat : All(n)}
<1>1. \A p \in Seq(Nat) : Len(p) \in Nat
  OBVIOUS
<1>2. 0 \in B
  BY <1>1
<1>3. ASSUME NEW n \in Nat, n \in B PROVE n + 1 \in B
  <2>1. All(n)
    BY <1>3
  <2>2. ASSUME NEW t, IsDataTree(t), NEW p \in Seq(Nat), Len(p) < n + 1
        PROVE  Good(t, p)
    <3> HIDE DEF Good
    <3>1. \A u, q : IsDataTree(u) /\ q \in Seq(Nat) /\ Len(q) < Len(p) => Good(u, q)
      BY <1>1, <2>1, <2>2
    <3> HIDE DEF All
    <3>2. CASE p = <<>>
      BY <2>2, <3>2, PutsHere DEF Good
    <3>3. CASE p # <<>> /\ Head(p) \notin DOMAIN t.children
      BY <2>2, <3>3, PutsLeaf DEF Good
    <3>4. CASE p # <<>> /\ Head(p) \in DOMAIN t.children
      BY <2>2, <3>1, <3>4, PutsWithin DEF Good
    <3>5. QED
      BY <3>2, <3>3, <3>4
  <2>3. All(n + 1)
    BY <2>2
  <2> HIDE DEF All
  <2>4. QED
    BY <2>3
<1> HIDE DEF B
<1>4. \A n \in Nat : n \in B
  BY <1>2, <1>3, Trees!NatSetInduction
<1>5. Len(path) + 1 \in B /\ Len(path) < Len(path) + 1
  BY <1>1, <1>4
<1>6. QED
  BY <1>5 DEF B

(* A node of a data tree is at the end of a path that is no longer than the *)
(* longest path of a field.                                                 *)
Shallow(tree) ==
  \A q \in Seq(Nat) : Trees!NodeAt(tree, q) # {} => Len(q) <= MaxLength

LEMMA InsertionPuts ==
  ASSUME IsDataTree(data_tree), NEW path \in Paths, NEW value,
         InsertIntoDataTree(path, value)
  PROVE  Puts(data_tree', data_tree, path, node_count')
<1>1. path \in Seq(Nat)
  BY DataTreeAssumption
<1>2. /\ data_tree' = Inserted(data_tree, path, value)
      /\ node_count' = Counted(data_tree, path, value)
  BY SameInsert DEF InsertIntoDataTree, Inserted, Trees!Inserted, Counted, Trees!Counted
<1>3. QED
  BY <1>1, <1>2, InsertPuts

LEMMA StaysShallow ==
  ASSUME NEW tree, Shallow(tree), NEW path \in Paths, NEW new, NEW count,
         Puts(new, tree, path, count)
  PROVE  Shallow(new)
<1> SUFFICES ASSUME NEW q \in Seq(Nat), Trees!NodeAt(new, q) # {}
             PROVE  Len(q) <= MaxLength
  BY DEF Shallow
<1>1. CASE Trees!IsPrefix(q, path)
  <2>1. path \in Seq(Nat) /\ Len(path) <= MaxLength /\ MaxLength \in Nat
    BY DataTreeAssumption, LengthAssumption
  <2>2. Len(q) \in 0..Len(path) /\ Len(path) \in Nat
    BY <1>1, <2>1, Trees!PrefixFacts
  <2>3. QED
    BY ONLY <2>1, <2>2
<1>2. CASE ~Trees!IsPrefix(q, path)
  BY <1>2 DEF Puts, Shallow
<1>3. QED
  BY <1>1, <1>2

LEMMA TreesAreShallow == Spec => [](IsDataTree(data_tree) /\ Shallow(data_tree))
<1>1. Init => IsDataTree(data_tree) /\ Shallow(data_tree)
  <2> SUFFICES ASSUME Init PROVE IsDataTree(data_tree) /\ Shallow(data_tree)
    OBVIOUS
  <2>1. PICK none : none = <<>> /\ DOMAIN none = {}
    OBVIOUS
  <2>2. DOMAIN data_tree.children = {}
    BY <2>1 DEF Init, EmptyNode
  <2>3. Trees!IsForest({data_tree}, Nat)
    BY <2>2 DEF Trees!IsForest
  <2>4. ASSUME NEW q \in Seq(Nat), Trees!NodeAt(data_tree, q) # {}
        PROVE  Len(q) <= MaxLength
    <3>1. q = <<>>
      BY <2>2, <2>3, <2>4, NodeAlongEdge
    <3>2. QED
      BY <3>1, LengthAssumption
  <2>5. QED
    BY <2>4, EmptyTree DEF Init, Shallow
<1>2. /\ IsDataTree(data_tree) /\ Shallow(data_tree)
      /\ [Next]_vars
      => (IsDataTree(data_tree) /\ Shallow(data_tree))'
  <2> SUFFICES ASSUME IsDataTree(data_tree), Shallow(data_tree), [Next]_vars
               PROVE  IsDataTree(data_tree') /\ Shallow(data_tree')
    OBVIOUS
  <2>1. ASSUME NEW path \in Paths, NEW value \in Values, InsertIntoDataTree(path, value)
        PROVE  IsDataTree(data_tree') /\ Shallow(data_tree')
    BY <2>1, InsertionSets, InsertionPuts, StaysShallow DEF IsSetAt
  <2>2. CASE UNCHANGED vars
    BY <2>2 DEF vars
  <2>3. QED
    BY <2>1, <2>2 DEF Next
<1>3. QED
  BY <1>1, <1>2, PTL DEF Spec

(* The count that insert_into_data_tree returns pays for all it puts: the   *)
(* nodes of the new tree that were not in the old one are no more.          *)
THEOREM NewNodesAreCounted == Spec => NewNodesCounted
<1> DEFINE Few == Cardinality(Nodes(data_tree') \ Nodes(data_tree)) <= node_count'
<1>1. /\ IsDataTree(data_tree) /\ Shallow(data_tree)
      /\ [Next]_vars
      => Few \/ UNCHANGED vars
  <2> SUFFICES ASSUME IsDataTree(data_tree), Shallow(data_tree),
                      NEW path \in Paths, NEW value \in Values,
                      InsertIntoDataTree(path, value)
               PROVE  Few
    BY DEF Next
  <2>1. Puts(data_tree', data_tree, path, node_count')
    BY InsertionPuts
  <2>2. PICK new, count : new = data_tree' /\ count = node_count'
    OBVIOUS
  <2>3. PICK S : data_tree \in S /\ Trees!IsForest(S, Nat)
    BY DEF IsDataTree
  <2>4. PICK T : new \in T /\ Trees!IsForest(T, Nat)
    BY <2>2, InsertionSets DEF IsSetAt, IsDataTree
  <2>5. PICK nodes : /\ Fresh(nodes, count)
                     /\ \A q \in Seq(Nat) : Trees!IsPrefix(q, path) =>
                          Trees!NodeAt(new, q) \in SUBSET nodes
    BY <2>1, <2>2 DEF Puts
  <2>6. ASSUME NEW node \in Nodes(new) \ Nodes(data_tree)
        PROVE  node \in nodes
    <3>1. PICK visit \in Visits(new) : node = visit.node
      BY DEF Nodes
    <3>2. PICK q : q = visit.path
      OBVIOUS
    <3>3. q \in Seq(Nat) /\ node \in Trees!NodeAt(new, q)
      BY <2>4, <3>1, <3>2, VisitsAreLookups
    <3>4. CASE Trees!IsPrefix(q, path)
      BY <2>5, <3>3, <3>4
    <3>5. CASE ~Trees!IsPrefix(q, path)
      <4>1. node \in Trees!NodeAt(data_tree, q)
        BY <2>1, <2>2, <3>3, <3>5 DEF Puts
      <4>2. Len(q) <= MaxLength
        BY <3>3, <4>1 DEF Shallow
      <4>3. Visit(q, node) \in Visits(data_tree)
        BY <2>3, <3>3, <4>1, <4>2, VisitsAreLookups
      <4>4. node \in Nodes(data_tree)
        BY <4>3 DEF Nodes, Visit
      <4>5. QED
        BY <4>4
    <3>6. QED
      BY <3>4, <3>5
  <2>7. Cardinality(Nodes(new) \ Nodes(data_tree)) <= count
    <3>1. PICK put : put = Nodes(new) \ Nodes(data_tree)
      OBVIOUS
    <3>2. IsFiniteSet(nodes) /\ Cardinality(nodes) <= count /\ put \in SUBSET nodes
      BY <2>5, <2>6, <3>1 DEF Fresh
    <3>3. /\ IsFiniteSet(put) /\ Cardinality(put) \in Nat /\ Cardinality(nodes) \in Nat
          /\ Cardinality(put) <= Cardinality(nodes)
      BY <3>2, FS_Subset, FS_CardinalityType
    <3>4. count \in Nat
      BY <2>1, <2>2 DEF Puts
    <3>5. Cardinality(put) <= count
      BY ONLY <3>2, <3>3, <3>4
    <3>6. QED
      BY <3>1, <3>5
  <2>8. QED
    BY <2>2, <2>7
<1>2. QED
  BY <1>1, TreesAreShallow, PTL DEF Spec, NewNodesCounted
-----------------------------------------------------------------------------
(***************************************************************************)
(* What the fields determine.                                              *)
(***************************************************************************)
LEMMA PrefixIsJoin ==
  ASSUME NEW p \in Seq(Nat), NEW q \in Seq(Nat)
  PROVE  IsPrefix(p, q) <=> \E r \in Seq(Nat) : q = p \o r
<1>1. IsPrefix(p, q) <=> Trees!IsPrefix(p, q)
  BY DEF IsPrefix, Trees!IsPrefix
<1>2. \A r \in Seq(Nat) :
        q = p \o r <=> Trees!IsPrefix(p, q) /\ Trees!Drop(q, Len(p)) = r
  BY Trees!PathIsJoin
<1>3. Trees!IsPrefix(p, q) => Trees!Drop(q, Len(p)) \in Seq(Nat)
  BY Trees!PrefixFacts, Trees!DropElements
<1>4. QED
  BY <1>1, <1>2, <1>3

LEMMA PrefixDigits ==
  ASSUME NEW p \in Seq(Nat), NEW q \in Seq(Nat)
  PROVE  IsPrefix(p, q) <=> Len(p) <= Len(q) /\ \A i \in 1..Len(p) : p[i] = q[i]
<1>1. IsPrefix(p, q) <=> Trees!IsPrefix(p, q)
  BY DEF IsPrefix, Trees!IsPrefix
<1>2. QED
  BY <1>1, Trees!PrefixElements

LEMMA SameRest ==
  ASSUME NEW p \in Seq(Nat), NEW a \in Seq(Nat), NEW b \in Seq(Nat), p \o a = p \o b
  PROVE  a = b
<1>1. PICK q : q = p \o a
  OBVIOUS
<1>2. q \in Seq(Nat) /\ p \in Seq(Nat) /\ a \in Seq(Nat) /\ b \in Seq(Nat)
  BY <1>1
<1>3. q = p \o a <=> Trees!IsPrefix(p, q) /\ Trees!Drop(q, Len(p)) = a
  BY ONLY <1>2, Trees!PathIsJoin
<1>4. q = p \o b <=> Trees!IsPrefix(p, q) /\ Trees!Drop(q, Len(p)) = b
  BY ONLY <1>2, Trees!PathIsJoin
<1>5. QED
  BY <1>1, <1>3, <1>4

LEMMA DigitAfter ==
  ASSUME NEW p \in Seq(Nat), NEW r \in Seq(Nat), r # <<>>
  PROVE  /\ (p \o r)[Len(p) + 1] = Head(r) /\ Head(r) \in Nat
         /\ Len(p) + 1 <= Len(p \o r) /\ p \o r # p
<1>1. /\ Len(p \o r) = Len(p) + Len(r)
      /\ \A i \in 1..Len(r) : (p \o r)[Len(p) + i] = r[i]
  BY Trees!JoinElements
<1>2. 1 \in 1..Len(r) /\ Head(r) = r[1] /\ Head(r) \in Nat
      /\ Len(p) \in Nat /\ Len(r) \in Nat /\ Len(r) # 0
  OBVIOUS
<1>3. Len(p) + 1 <= Len(p \o r) /\ Len(p) # Len(p \o r)
  BY <1>1, <1>2
<1>4. QED
  BY <1>1, <1>2, <1>3

LEMMA OneMoreDigit ==
  ASSUME NEW p \in Seq(Nat), NEW d \in Nat
  PROVE  /\ Append(p, d) \in Seq(Nat) /\ Append(p, d) # <<>>
         /\ Append(p, d) = p \o <<d>>
<1>1. Len(Append(p, d)) = Len(p) + 1 /\ Len(p) \in Nat
  OBVIOUS
<1>2. Append(p, d) # <<>>
  BY <1>1
<1>3. Append(p, d) \in Seq(Nat)
  OBVIOUS
<1>4. Append(p, d) = p \o <<d>>
  OBVIOUS
<1>5. QED
  BY <1>2, <1>3, <1>4

(* The longest common prefix of some paths is one of them that all the      *)
(* others go through, or the point at which two of them part.               *)
LEMMA CommonPrefix ==
  ASSUME NEW X \in SUBSET Seq(Nat), X # {}, NEW end \in Seq(Nat),
         \A x \in X : IsPrefix(end, x),
         \A p \in Seq(Nat) : (\A x \in X : IsPrefix(p, x)) => Len(p) <= Len(end)
  PROVE  LongestCommonPrefix(X) = end
<1> DEFINE C == CommonPrefixes(X)
<1>1. PICK one \in X : TRUE
  OBVIOUS
<1>2. ASSUME NEW x \in X, NEW p \in Prefixes(x)
      PROVE  p \in Seq(Nat)
  <2>1. PICK l \in 0..Len(x) : p = SubSeq(x, 1, l)
    BY DEF Prefixes
  <2>2. x \in Seq(Nat)
    OBVIOUS
  <2>3. QED
    BY ONLY <2>1, <2>2, SMTT(30)
<1>3. ASSUME NEW p \in C
      PROVE  p \in Seq(Nat) /\ \A x \in X : IsPrefix(p, x)
  BY <1>2, <1>3 DEF CommonPrefixes
<1>4. end \in C
  <2>1. one \in Seq(Nat) /\ IsPrefix(end, one)
    BY <1>1
  <2>2. Len(end) \in 0..Len(one) /\ end = SubSeq(one, 1, Len(end))
    BY <2>1 DEF IsPrefix
  <2>3. end \in Prefixes(one)
    BY <2>2 DEF Prefixes
  <2>4. QED
    BY <1>1, <2>3 DEF CommonPrefixes
<1> HIDE DEF C
<1>5. \A p \in C : Len(p) <= Len(end)
  BY <1>3
<1>6. PICK longest : /\ longest = LongestCommonPrefix(X)
                     /\ longest \in C
                     /\ \A other \in C : Len(other) <= Len(longest)
  <2>1. \E longest \in C : \A other \in C : Len(other) <= Len(longest)
    BY <1>4, <1>5
  <2>2. LongestCommonPrefix(X)
          = CHOOSE longest \in C : \A other \in C : Len(other) <= Len(longest)
    BY DEF LongestCommonPrefix, C
  <2>3. QED
    BY <2>1, <2>2
<1>7. longest \in Seq(Nat) /\ IsPrefix(longest, one) /\ IsPrefix(end, one)
      /\ one \in Seq(Nat)
  BY <1>1, <1>3, <1>6
<1>8. Len(longest) = Len(end)
  <2>1. Len(longest) \in Nat /\ Len(end) \in Nat
    BY <1>7
  <2>2. Len(longest) <= Len(end) /\ Len(end) <= Len(longest)
    BY <1>4, <1>5, <1>6
  <2>3. QED
    BY <2>1, <2>2
<1>9. longest = end
  <2>1. \A i \in 1..Len(end) : longest[i] = one[i] /\ end[i] = one[i]
    BY <1>7, <1>8, PrefixDigits
  <2>2. QED
    BY <1>7, <1>8, <2>1, Trees!EqualPaths
<1>10. QED
  BY <1>6, <1>9

(* A tree that has the fields of paths that are not too long, and no node   *)
(* but the root without a field or two children.                            *)
IsReduced(tree) ==
  HasWellFormedChildren(tree) /\ HasFieldsIn(tree, Paths) /\ Shallow(tree)

(* At or below every node but the root there is a field.                    *)
LEMMA FieldBelow ==
  ASSUME NEW tree, IsReduced(tree), NEW p \in Seq(Nat), p # <<>>,
         Trees!NodeAt(tree, p) # {}
  PROVE  \E r \in Seq(Nat) : ValueAt(tree, p \o r) # None
<1>1. PICK S : tree \in S /\ Trees!IsForest(S, Nat)
  BY WellFormedTree DEF IsReduced, IsDataTree
<1> DEFINE Has(o) == \E r \in Seq(Nat) : ValueAt(tree, o \o r) # None
           All(k) == \A o \in Seq(Nat) :
             o # <<>> /\ Trees!NodeAt(tree, o) # {} /\ MaxLength < Len(o) + k => Has(o)
           B == {k \in Nat : All(k)}
<1>2. \A o \in Seq(Nat) : Len(o) \in Nat
  OBVIOUS
<1>3. MaxLength \in Nat
  BY LengthAssumption
<1>4. \A o \in Seq(Nat) : Trees!NodeAt(tree, o) # {} => Len(o) <= MaxLength
  BY DEF IsReduced, Shallow
<1>5. 0 \in B
  <2> HIDE DEF Has
  <2>1. ASSUME NEW o \in Seq(Nat), Trees!NodeAt(tree, o) # {},
               MaxLength < Len(o) + 0
        PROVE  FALSE
    BY <1>2, <1>3, <1>4, <2>1
  <2>2. QED
    BY <2>1
<1>6. ASSUME NEW k \in Nat, k \in B PROVE k + 1 \in B
  <2>1. All(k)
    BY <1>6
  <2> HIDE DEF All
  <2>2. ASSUME NEW o \in Seq(Nat), o # <<>>, NEW n \in Trees!NodeAt(tree, o),
               MaxLength < Len(o) + (k + 1)
        PROVE  Has(o)
    <3>1. CASE n.field # None
      <4>1. PICK none : none = <<>>
        OBVIOUS
      <4>2. none \in Seq(Nat) /\ o \o none = o
        BY <4>1
      <4>3. ValueAt(tree, o) # None
        BY <1>1, <3>1, ValueOfNode
      <4>4. ValueAt(tree, o \o none) # None
        BY <4>2, <4>3
      <4>5. QED
        BY <4>2, <4>4
    <3>2. CASE n.field = None
      <4>1. DataNodeWellFormed(n)
        BY <2>2, NodesBelow DEF IsReduced
      <4>2. PICK d \in DOMAIN n.children : TRUE
        BY <3>2, <4>1 DEF DataNodeWellFormed
      <4>3. PICK e, to : e = EdgeTo(n, d) /\ to = o \o e
        OBVIOUS
      <4>4. /\ to \in Seq(Nat) /\ to # <<>> /\ Len(o) < Len(to)
            /\ Trees!NodeAt(tree, to) # {}
        BY <1>1, <4>3, ChildIsAt
      <4>5. MaxLength < Len(to) + k
        BY <1>2, <1>3, <2>2, <4>4
      <4>6. PICK r \in Seq(Nat) : ValueAt(tree, to \o r) # None
        <5>1. Has(to)
          BY <2>1, <4>4, <4>5 DEF All
        <5>2. QED
          BY <5>1
      <4>7. o \in Seq(Nat) /\ e \in Seq(Nat) /\ r \in Seq(Nat)
        <5>1. n \in S
          BY <1>1, OneNodeAtPath
        <5>2. QED
          BY <1>1, <4>3, <5>1, EdgeFacts
      <4>8. (o \o e) \o r = o \o (e \o r)
        BY ONLY <4>7, SMTT(60)
      <4>9. e \o r \in Seq(Nat)
        BY ONLY <4>7
      <4>10. ValueAt(tree, o \o (e \o r)) # None
        BY <4>3, <4>6, <4>8
      <4>11. QED
        BY <4>9, <4>10
    <3>3. QED
      BY <3>1, <3>2
  <2> HIDE DEF Has
  <2>3. All(k + 1)
    BY <2>2 DEF All
  <2>4. QED
    BY <2>3
<1> HIDE DEF B
<1>7. \A k \in Nat : k \in B
  BY <1>5, <1>6, Trees!NatSetInduction
<1>8. MaxLength + 1 \in B /\ MaxLength < Len(p) + (MaxLength + 1)
  BY <1>2, <1>3, <1>7
<1>9. Has(p)
  <2> HIDE DEF Has
  <2>1. QED
    BY <1>8 DEF B
<1>10. QED
  BY <1>9

(* The paths through a node with a field, or through one with two children, *)
(* part nowhere before it, and not all of them go on after it.              *)
LEMMA EndOfNode ==
  ASSUME NEW tree, IsReduced(tree), NEW p \in Seq(Nat), p # <<>>,
         Trees!NodeAt(tree, p) # {}
  PROVE  LongestCommonPrefix(Through(FieldsOf(tree), p)) = p
<1> DEFINE X == Through(FieldsOf(tree), p)
<1>1. PICK S : tree \in S /\ Trees!IsForest(S, Nat)
  BY WellFormedTree DEF IsReduced, IsDataTree
<1>2. DOMAIN FieldsOf(tree) = {q \in Seq(Nat) : ValueAt(tree, q) # None}
  BY FieldsAreValues, WellFormedTree DEF IsReduced
<1>3. \A q : q \in X <=> q \in Seq(Nat) /\ ValueAt(tree, q) # None /\ IsPrefix(p, q)
  BY <1>2 DEF Through
<1> HIDE DEF X
<1>4. \A r \in Seq(Nat) : ValueAt(tree, p \o r) # None => p \o r \in X
  <2>1. ASSUME NEW r \in Seq(Nat), ValueAt(tree, p \o r) # None
        PROVE  p \o r \in X
    <3>1. PICK q : q = p \o r
      OBVIOUS
    <3>2. q \in Seq(Nat)
      BY <3>1
    <3>3. IsPrefix(p, q)
      BY <3>1, <3>2, PrefixIsJoin
    <3>4. QED
      BY <1>3, <2>1, <3>1, <3>2, <3>3
  <2>2. QED
    BY <2>1
<1>5. PICK r \in Seq(Nat) : ValueAt(tree, p \o r) # None
  BY FieldBelow
<1>6. X # {} /\ X \in SUBSET Seq(Nat) /\ \A x \in X : IsPrefix(p, x)
  BY <1>3, <1>4, <1>5
<1>7. PICK n : n \in Trees!NodeAt(tree, p)
  OBVIOUS
<1>8. n \in S
  BY <1>1, <1>7, OneNodeAtPath
<1>9. ASSUME NEW q \in Seq(Nat), \A x \in X : IsPrefix(q, x)
      PROVE  Len(q) <= Len(p)
  <2>1. CASE n.field # None
    <3>1. p \in X
      <4>1. ValueAt(tree, p) # None
        BY <1>1, <1>7, <2>1, ValueOfNode
      <4>2. IsPrefix(p, p)
        BY PrefixDigits
      <4>3. QED
        BY <1>3, <4>1, <4>2
    <3>2. IsPrefix(q, p)
      BY <1>9, <3>1
    <3>3. QED
      BY <3>2, PrefixDigits
  <2>2. CASE n.field = None
    <3>1. ASSUME NEW d \in DOMAIN n.children
          PROVE  \E a \in Seq(Nat) : a # <<>> /\ Head(a) = d /\ p \o a \in X
      <4>1. PICK e, to : e = EdgeTo(n, d) /\ to = p \o e
        OBVIOUS
      <4>2. to \in Seq(Nat) /\ to # <<>> /\ Trees!NodeAt(tree, to) # {}
        BY <1>1, <1>7, <4>1, ChildIsAt
      <4>3. PICK b \in Seq(Nat) : ValueAt(tree, to \o b) # None
        BY <4>2, FieldBelow
      <4>4. e \in Seq(Nat) /\ e # <<>> /\ Head(e) = d
        BY <1>1, <1>8, <4>1, EdgeFacts
      <4>5. p \in Seq(Nat) /\ e \in Seq(Nat) /\ e # <<>> /\ b \in Seq(Nat)
        BY <4>4
      <4>6. (p \o e) \o b = p \o (e \o b)
        BY ONLY <4>5, SMTT(60)
      <4>7. e \o b \in Seq(Nat) /\ e \o b # <<>> /\ Head(e \o b) = Head(e)
        BY ONLY <4>5
      <4>8. p \o (e \o b) \in X
        BY <1>4, <4>1, <4>3, <4>6, <4>7
      <4>9. QED
        BY <4>4, <4>7, <4>8
    <3>2. DataNodeWellFormed(n)
      BY <1>7, NodesBelow DEF IsReduced
    <3>3. PICK c \in DOMAIN n.children, d \in DOMAIN n.children : c # d
      BY <2>2, <3>2 DEF DataNodeWellFormed
    <3>4. PICK a \in Seq(Nat) : a # <<>> /\ Head(a) = c /\ p \o a \in X
      BY <3>1
    <3>5. PICK b \in Seq(Nat) : b # <<>> /\ Head(b) = d /\ p \o b \in X
      BY <3>1
    <3>6. SUFFICES ASSUME Len(p) + 1 <= Len(q) PROVE FALSE
      <4>1. \A x, y \in Nat : y + 1 <= x \/ x <= y
        OBVIOUS
      <4>2. Len(p) \in Nat /\ Len(q) \in Nat
        OBVIOUS
      <4>3. QED
        BY <4>1, <4>2
    <3>7. Len(p) + 1 \in 1..Len(q)
      BY <3>6
    <3>8. /\ p \o a \in Seq(Nat) /\ IsPrefix(q, p \o a)
          /\ p \o b \in Seq(Nat) /\ IsPrefix(q, p \o b)
      BY <1>9, <3>4, <3>5
    <3>9. q[Len(p) + 1] = (p \o a)[Len(p) + 1] /\ q[Len(p) + 1] = (p \o b)[Len(p) + 1]
      BY <3>7, <3>8, PrefixDigits
    <3>10. (p \o a)[Len(p) + 1] = c /\ (p \o b)[Len(p) + 1] = d
      BY <3>4, <3>5, DigitAfter
    <3>11. QED
      BY <3>3, <3>9, <3>10
  <2>3. QED
    BY <2>1, <2>2
<1>10. LongestCommonPrefix(X) = p
  BY <1>6, <1>9, CommonPrefix
<1>11. QED
  BY <1>10 DEF X

LEMMA PrefixAfter ==
  ASSUME NEW e \in Seq(Nat), NEW a \in Seq(Nat), NEW b \in Seq(Nat)
  PROVE  IsPrefix(e \o a, e \o b) <=> IsPrefix(a, b)
<1>1. PICK x, y : x = e \o a /\ y = e \o b
  OBVIOUS
<1>2. e \in Seq(Nat) /\ a \in Seq(Nat) /\ b \in Seq(Nat) /\ y \in Seq(Nat)
  BY <1>1
<1>3. Trees!IsPrefix(e \o a, y)
        <=> Trees!IsPrefix(e, y) /\ Trees!IsPrefix(a, Trees!Drop(y, Len(e)))
  BY ONLY <1>2, Trees!PathAfterPath
<1>4. y = e \o b <=> Trees!IsPrefix(e, y) /\ Trees!Drop(y, Len(e)) = b
  BY ONLY <1>2, Trees!PathIsJoin
<1>5. /\ IsPrefix(x, y) <=> Trees!IsPrefix(x, y)
      /\ IsPrefix(a, b) <=> Trees!IsPrefix(a, b)
  BY DEF IsPrefix, Trees!IsPrefix
<1>6. QED
  BY <1>1, <1>3, <1>4, <1>5

LEMMA PrefixOfPrefix ==
  ASSUME NEW a \in Seq(Nat), NEW b \in Seq(Nat), NEW c \in Seq(Nat)
  PROVE  /\ IsPrefix(a, b) /\ IsPrefix(b, c) => IsPrefix(a, c)
         /\ IsPrefix(a, c) /\ IsPrefix(b, c) => IsPrefix(a, b) \/ IsPrefix(b, a)
<1>1. Len(a) \in Nat /\ Len(b) \in Nat /\ Len(c) \in Nat
  OBVIOUS
<1>2. IsPrefix(a, b) /\ IsPrefix(b, c) => IsPrefix(a, c)
  BY <1>1, PrefixDigits
<1>3. IsPrefix(a, c) /\ IsPrefix(b, c) => IsPrefix(a, b) \/ IsPrefix(b, a)
  BY <1>1, PrefixDigits
<1>4. QED
  BY <1>2, <1>3

LEMMA PrefixHead ==
  ASSUME NEW a \in Seq(Nat), NEW b \in Seq(Nat), a # <<>>, IsPrefix(a, b)
  PROVE  b # <<>> /\ Head(b) = Head(a)
<1>1. PICK r \in Seq(Nat) : b = a \o r
  BY PrefixIsJoin
<1>2. a \o r # <<>> /\ Head(a \o r) = Head(a)
  OBVIOUS
<1>3. QED
  BY <1>1, <1>2

(* A path that leads on to some node ends at one, or within the edge to one *)
(* to which all nodes beyond it are below.                                  *)
IsEnd(tree, p, end) ==
  /\ end \in Seq(Nat) /\ IsPrefix(p, end) /\ Trees!NodeAt(tree, end) # {}
  /\ \A x \in Seq(Nat) : Trees!NodeAt(tree, x) # {} /\ IsPrefix(p, x) => IsPrefix(end, x)

LEMMA EndAtRoot ==
  ASSUME NEW S, Trees!IsForest(S, Nat), NEW tree \in S
  PROVE  IsEnd(tree, <<>>, <<>>)
<1>1. PICK none : none = <<>>
  OBVIOUS
<1>2. none \in Seq(Nat) /\ Trees!NodeAt(tree, none) # {}
  BY <1>1, NodeAtRoot
<1>3. \A x \in Seq(Nat) : IsPrefix(none, x)
  <2>1. ASSUME NEW x \in Seq(Nat) PROVE IsPrefix(none, x)
    <3>1. Len(none) = 0 /\ Len(x) \in Nat
      BY <1>1
    <3>2. Len(none) <= Len(x) /\ 1..Len(none) = {}
      BY <3>1
    <3>3. QED
      BY <1>2, <3>2, PrefixDigits
  <2>2. QED
    BY <2>1
<1>4. IsEnd(tree, none, none)
  BY <1>2, <1>3 DEF IsEnd
<1>5. QED
  BY <1>1, <1>4

LEMMA EndWithinEdge ==
  ASSUME NEW S, Trees!IsForest(S, Nat), NEW tree \in S, NEW d \in DOMAIN tree.children,
         NEW p \in Seq(Nat), p # <<>>, IsPrefix(p, EdgeTo(tree, d))
  PROVE  IsEnd(tree, p, EdgeTo(tree, d))
<1>1. PICK e, c : e = EdgeTo(tree, d) /\ c = tree.children[d].node
  OBVIOUS
<1>2. e \in Seq(Nat) /\ e # <<>> /\ Head(e) = d /\ c \in S
  BY <1>1, EdgeFacts
<1>3. PICK none : none = <<>>
  OBVIOUS
<1>4. none \in Seq(Nat) /\ e \o none = e
  BY <1>2, <1>3
<1>5. Trees!NodeAt(tree, EdgeTo(tree, d) \o none) = Trees!NodeAt(tree.children[d].node, none)
  BY <1>4, AlongEdge
<1>6. Trees!NodeAt(tree, e) # {}
  BY <1>1, <1>2, <1>3, <1>4, <1>5, NodeAtRoot
<1>7. Head(p) = d
  BY <1>1, <1>2, PrefixHead
<1>8. ASSUME NEW x \in Seq(Nat), Trees!NodeAt(tree, x) # {}, IsPrefix(p, x)
      PROVE  IsPrefix(e, x)
  <2>1. x # <<>> /\ Head(x) = d
    BY <1>7, <1>8, PrefixHead
  <2>2. PICK r \in Seq(Nat) : x = EdgeTo(tree, d) \o r
    BY <1>8, <2>1, FirstEdge
  <2>3. QED
    BY <1>1, <1>2, <2>2, PrefixIsJoin
<1>9. QED
  BY <1>1, <1>2, <1>6, <1>8 DEF IsEnd

LEMMA EndBeyondEdge ==
  ASSUME NEW S, Trees!IsForest(S, Nat), NEW tree \in S, NEW d \in DOMAIN tree.children,
         NEW p \in Seq(Nat), NEW end, IsEnd(tree.children[d].node, p, end)
  PROVE  IsEnd(tree, EdgeTo(tree, d) \o p, EdgeTo(tree, d) \o end)
<1>1. PICK e, c : e = EdgeTo(tree, d) /\ c = tree.children[d].node
  OBVIOUS
<1>2. e \in Seq(Nat) /\ e # <<>> /\ Head(e) = d /\ c \in S
  BY <1>1, EdgeFacts
<1>3. /\ end \in Seq(Nat) /\ IsPrefix(p, end) /\ Trees!NodeAt(c, end) # {}
      /\ \A x \in Seq(Nat) : Trees!NodeAt(c, x) # {} /\ IsPrefix(p, x) => IsPrefix(end, x)
  BY <1>1 DEF IsEnd
<1>4. PICK u, v : u = e \o p /\ v = e \o end
  OBVIOUS
<1>5. u \in Seq(Nat) /\ v \in Seq(Nat) /\ u # <<>> /\ Head(u) = d
  BY <1>2, <1>3, <1>4
<1>6. IsPrefix(u, v)
  BY <1>2, <1>3, <1>4, PrefixAfter
<1>7. Trees!NodeAt(tree, v) # {}
  BY <1>1, <1>3, <1>4, AlongEdge
<1>8. ASSUME NEW x \in Seq(Nat), Trees!NodeAt(tree, x) # {}, IsPrefix(u, x)
      PROVE  IsPrefix(v, x)
  <2>1. x # <<>> /\ Head(x) = d
    BY <1>5, <1>8, PrefixHead
  <2>2. PICK r \in Seq(Nat) : /\ x = EdgeTo(tree, d) \o r
                              /\ Trees!NodeAt(tree, x)
                                   = Trees!NodeAt(tree.children[d].node, r)
    BY <1>8, <2>1, FirstEdge
  <2>3. x = e \o r /\ Trees!NodeAt(c, r) # {}
    BY <1>1, <1>8, <2>2
  <2>4. IsPrefix(p, r)
    BY <1>2, <1>4, <1>8, <2>3, PrefixAfter
  <2>5. IsPrefix(end, r)
    BY <1>3, <2>3, <2>4
  <2>6. QED
    BY <1>2, <1>3, <1>4, <2>3, <2>5, PrefixAfter
<1>9. IsEnd(tree, u, v)
  BY <1>5, <1>6, <1>7, <1>8 DEF IsEnd
<1>10. QED
  BY <1>1, <1>4, <1>9

LEMMA EndOfPath ==
  ASSUME NEW S, Trees!IsForest(S, Nat), NEW tree \in S, NEW p \in Seq(Nat),
         NEW q \in Seq(Nat), IsPrefix(p, q), Trees!NodeAt(tree, q) # {}
  PROVE  \E end : IsEnd(tree, p, end)
<1> DEFINE All(k) == \A t \in S, o, x \in Seq(Nat) :
             Len(o) < k /\ IsPrefix(o, x) /\ Trees!NodeAt(t, x) # {} =>
               \E end : IsEnd(t, o, end)
           B == {k \in Nat : All(k)}
<1>1. \A o \in Seq(Nat) : Len(o) \in Nat
  OBVIOUS
<1>2. 0 \in B
  BY <1>1
<1>3. ASSUME NEW k \in Nat, k \in B PROVE k + 1 \in B
  <2>1. All(k)
    BY <1>3
  <2> HIDE DEF All
  <2>2. ASSUME NEW t \in S, NEW o \in Seq(Nat), NEW x \in Seq(Nat),
               Len(o) < k + 1, IsPrefix(o, x), Trees!NodeAt(t, x) # {}
        PROVE  \E end : IsEnd(t, o, end)
    <3>1. CASE o = <<>>
      BY <3>1, EndAtRoot
    <3>2. CASE o # <<>>
      <4>1. PICK d : d = Head(x)
        OBVIOUS
      <4>2. x # <<>>
        BY <2>2, <3>2, PrefixHead
      <4>3. d \in DOMAIN t.children
        BY <2>2, <4>1, <4>2, FirstEdge
      <4>4. PICK r \in Seq(Nat) :
              /\ x = EdgeTo(t, d) \o r /\ Len(r) < Len(x)
              /\ Trees!NodeAt(t, x) = Trees!NodeAt(t.children[d].node, r)
        BY <2>2, <4>1, <4>2, FirstEdge
      <4>5. PICK e, c : e = EdgeTo(t, d) /\ c = t.children[d].node
        OBVIOUS
      <4>6. e \in Seq(Nat) /\ e # <<>> /\ c \in S
        BY <4>3, <4>5, EdgeFacts
      <4>7. CASE IsPrefix(o, e)
        <5>1. IsEnd(t, o, EdgeTo(t, d))
          BY <3>2, <4>3, <4>5, <4>7, EndWithinEdge
        <5>2. QED
          BY <5>1
      <4>8. CASE IsPrefix(e, o)
        <5>1. PICK rest \in Seq(Nat) : o = e \o rest
          BY <4>6, <4>8, PrefixIsJoin
        <5>2. Len(rest) < k
          <6>1. e \in Seq(Nat) /\ rest \in Seq(Nat) /\ e # <<>>
            BY <4>6, <5>1
          <6>2. Len(rest) < Len(e \o rest)
            BY ONLY <6>1
          <6>3. QED
            BY <1>1, <2>2, <5>1, <6>2
        <5>3. IsPrefix(rest, r)
          BY <2>2, <4>4, <4>5, <4>6, <5>1, PrefixAfter
        <5>4. Trees!NodeAt(c, r) # {}
          BY <2>2, <4>4, <4>5
        <5>5. PICK end : IsEnd(c, rest, end)
          BY <2>1, <4>4, <4>6, <5>1, <5>2, <5>3, <5>4 DEF All
        <5>6. IsEnd(t, e \o rest, e \o end)
          BY <4>3, <4>5, <5>1, <5>5, EndBeyondEdge
        <5>7. QED
          BY <5>1, <5>6
      <4>9. IsPrefix(e, x)
        BY <4>4, <4>5, <4>6, PrefixIsJoin
      <4>10. QED
        BY <2>2, <4>6, <4>7, <4>8, <4>9, PrefixOfPrefix
    <3>3. QED
      BY <3>1, <3>2
  <2>3. All(k + 1)
    BY <2>2 DEF All
  <2>4. QED
    BY <2>3
<1> HIDE DEF B
<1>4. \A k \in Nat : k \in B
  BY <1>2, <1>3, Trees!NatSetInduction
<1>5. Len(p) + 1 \in B /\ Len(p) < Len(p) + 1
  BY <1>1, <1>4
<1>6. QED
  BY <1>5 DEF B

(* The paths of fields through such a path part at that end.                *)
LEMMA FieldPaths ==
  ASSUME NEW tree, IsReduced(tree)
  PROVE  /\ IsDataTree(tree)
         /\ DOMAIN FieldsOf(tree) = {q \in Seq(Nat) : ValueAt(tree, q) # None}
         /\ \A q \in DOMAIN FieldsOf(tree) :
              q \in Seq(Nat) /\ Trees!NodeAt(tree, q) # {} /\ FieldsOf(tree)[q] # None
         /\ \A q \in Seq(Nat) :
              ValueAt(tree, q) = IF q \in DOMAIN FieldsOf(tree) THEN FieldsOf(tree)[q]
                                 ELSE None
<1>1. IsDataTree(tree) /\ HasFieldsIn(tree, Paths)
  BY WellFormedTree DEF IsReduced
<1>2. /\ DOMAIN FieldsOf(tree) = {q \in Seq(Nat) : ValueAt(tree, q) # None}
      /\ \A q \in DOMAIN FieldsOf(tree) : FieldsOf(tree)[q] = ValueAt(tree, q)
  BY <1>1, FieldsAreValues
<1>3. \A q : ValueAt(tree, q) # None => Trees!NodeAt(tree, q) # {}
  BY DEF ValueAt
<1>4. QED
  BY <1>1, <1>2, <1>3

LEMMA EndOfPaths ==
  ASSUME NEW tree, IsReduced(tree), NEW p \in Seq(Nat), p # <<>>,
         NEW end, IsEnd(tree, p, end)
  PROVE  LongestCommonPrefix(Through(FieldsOf(tree), p)) = end
<1>1. /\ end \in Seq(Nat) /\ IsPrefix(p, end) /\ Trees!NodeAt(tree, end) # {}
      /\ \A x \in Seq(Nat) : Trees!NodeAt(tree, x) # {} /\ IsPrefix(p, x) => IsPrefix(end, x)
  BY DEF IsEnd
<1>2. end # <<>>
  BY <1>1, PrefixHead
<1>3. \A q \in DOMAIN FieldsOf(tree) : IsPrefix(p, q) <=> IsPrefix(end, q)
  BY <1>1, FieldPaths, PrefixOfPrefix
<1>4. Through(FieldsOf(tree), p) = Through(FieldsOf(tree), end)
  BY <1>3 DEF Through
<1>5. QED
  BY <1>1, <1>2, <1>4, EndOfNode

(* So an edge of a node is what the paths of fields beyond it determine.    *)
LEMMA EdgeIsEnd ==
  ASSUME NEW S, Trees!IsForest(S, Nat), NEW tree \in S, NEW p \in Seq(Nat),
         NEW n \in Trees!NodeAt(tree, p), NEW d \in DOMAIN n.children
  PROVE  IsEnd(tree, Append(p, d), p \o EdgeTo(n, d)) /\ d \in Nat
<1>1. n \in S
  BY OneNodeAtPath
<1>2. PICK suffix, e : suffix = n.children[d].suffix /\ e = EdgeTo(n, d)
  OBVIOUS
<1>3. d \in Nat /\ suffix \in Seq(Nat) /\ e \in Seq(Nat) /\ e = <<d>> \o suffix
  BY <1>1, <1>2, EdgeFacts DEF EdgeTo
<1>4. PICK one : one = <<d>>
  OBVIOUS
<1>5. p \in Seq(Nat) /\ one \in Seq(Nat) /\ suffix \in Seq(Nat) /\ e \in Seq(Nat)
  BY <1>3, <1>4
<1>6. Append(p, d) = p \o one
  BY <1>3, <1>4
<1>7. PICK to : to = p \o e
  OBVIOUS
<1>8. to \in Seq(Nat) /\ Trees!NodeAt(tree, to) # {}
  BY <1>2, <1>7, ChildIsAt
<1>9. IsPrefix(one, e)
  BY <1>3, <1>4, <1>5, PrefixIsJoin
<1>10. IsPrefix(p \o one, to)
  BY <1>5, <1>7, <1>9, PrefixAfter
<1>11. ASSUME NEW x \in Seq(Nat), Trees!NodeAt(tree, x) # {}, IsPrefix(p \o one, x)
       PROVE  IsPrefix(to, x)
  <2>1. PICK po : po = p \o one
    OBVIOUS
  <2>2. po \in Seq(Nat)
    BY <1>5, <2>1
  <2>3. PICK r \in Seq(Nat) : x = po \o r
    BY <1>11, <2>1, <2>2, PrefixIsJoin
  <2>4. (p \o one) \o r = p \o (one \o r)
    <3>1. p \in Seq(Nat) /\ one \in Seq(Nat) /\ r \in Seq(Nat)
      BY <1>5, <2>3
    <3>2. QED
      BY ONLY <3>1, SMTT(60)
  <2>5. PICK rest : rest = one \o r
    OBVIOUS
  <2>6. rest \in Seq(Nat) /\ rest # <<>> /\ Head(rest) = d
    BY <1>3, <1>4, <2>5
  <2>7. x = p \o rest
    BY <2>1, <2>3, <2>4, <2>5
  <2>8. Trees!NodeAt(n, rest) # {}
    BY <1>11, <2>6, <2>7, PathBeyondNode
  <2>9. PICK after \in Seq(Nat) : rest = EdgeTo(n, d) \o after
    BY <1>1, <2>6, <2>8, FirstEdge
  <2>10. IsPrefix(e, rest)
    BY <1>2, <1>5, <2>6, <2>9, PrefixIsJoin
  <2>11. QED
    BY <1>5, <1>7, <2>6, <2>7, <2>10, PrefixAfter
<1>12. IsEnd(tree, p \o one, to)
  BY <1>8, <1>10, <1>11 DEF IsEnd
<1>13. QED
  BY <1>2, <1>3, <1>6, <1>7, <1>12

LEMMA EdgeOfNode ==
  ASSUME NEW tree, IsReduced(tree), NEW p \in Seq(Nat),
         NEW n \in Trees!NodeAt(tree, p), NEW d \in DOMAIN n.children
  PROVE  EdgeEnd(FieldsOf(tree), p, d) = p \o EdgeTo(n, d)
<1>1. PICK S : tree \in S /\ Trees!IsForest(S, Nat)
  BY FieldPaths DEF IsDataTree
<1>2. IsEnd(tree, Append(p, d), p \o EdgeTo(n, d))
  BY <1>1, EdgeIsEnd
<1>3. p \in Seq(Nat) /\ d \in Nat
  BY <1>1, EdgeIsEnd
<1>4. Append(p, d) \in Seq(Nat) /\ Append(p, d) # <<>>
  BY ONLY <1>3, OneMoreDigit
<1>5. QED
  BY <1>2, <1>4, EndOfPaths DEF EdgeEnd

LEMMA OnwardAlong ==
  ASSUME NEW tree, IsReduced(tree), NEW p \in Seq(Nat), NEW d
  PROVE  d \in Onward(FieldsOf(tree), p) <=>
           \E r \in Seq(Nat) : r # <<>> /\ Head(r) = d /\ p \o r \in DOMAIN FieldsOf(tree)
<1>1. ASSUME NEW r \in Seq(Nat), r # <<>>, Head(r) = d, p \o r \in DOMAIN FieldsOf(tree)
      PROVE  d \in Onward(FieldsOf(tree), p)
  <2>1. PICK q : q = p \o r
    OBVIOUS
  <2>2. q \in Seq(Nat) /\ q # p /\ q[Len(p) + 1] = d
    BY <1>1, <2>1, DigitAfter
  <2>3. IsPrefix(p, q)
    BY <2>1, <2>2, PrefixIsJoin
  <2>4. QED
    BY <1>1, <2>1, <2>2, <2>3 DEF Onward, Through
<1>2. ASSUME d \in Onward(FieldsOf(tree), p)
      PROVE  \E r \in Seq(Nat) : r # <<>> /\ Head(r) = d /\ p \o r \in DOMAIN FieldsOf(tree)
  <2>1. PICK q \in DOMAIN FieldsOf(tree) : IsPrefix(p, q) /\ q # p /\ d = q[Len(p) + 1]
    BY <1>2 DEF Onward, Through
  <2>2. q \in Seq(Nat)
    BY FieldPaths
  <2>3. PICK r \in Seq(Nat) : q = p \o r
    BY <2>1, <2>2, PrefixIsJoin
  <2>4. r # <<>>
    <3>1. p \o <<>> = p
      OBVIOUS
    <3>2. QED
      BY <2>1, <2>3, <3>1
  <2>5. Head(r) = d
    BY <2>1, <2>3, <2>4, DigitAfter
  <2>6. QED
    BY <2>3, <2>4, <2>5
<1>3. QED
  BY <1>1, <1>2

LEMMA OnwardOfNode ==
  ASSUME NEW tree, IsReduced(tree), NEW p \in Seq(Nat), NEW n \in Trees!NodeAt(tree, p)
  PROVE  Onward(FieldsOf(tree), p) = DOMAIN n.children
<1>1. PICK S : tree \in S /\ Trees!IsForest(S, Nat)
  BY FieldPaths DEF IsDataTree
<1>2. n \in S
  BY <1>1, OneNodeAtPath
<1>3. ASSUME NEW d \in Onward(FieldsOf(tree), p)
      PROVE  d \in DOMAIN n.children
  <2>1. PICK r \in Seq(Nat) : r # <<>> /\ Head(r) = d /\ p \o r \in DOMAIN FieldsOf(tree)
    BY <1>3, OnwardAlong
  <2>2. Trees!NodeAt(tree, p \o r) # {}
    BY <2>1, FieldPaths
  <2>3. Trees!NodeAt(n, r) # {}
    BY <1>1, <2>2, PathBeyondNode
  <2>4. QED
    BY <1>1, <1>2, <2>1, <2>3, FirstEdge
<1>4. ASSUME NEW d \in DOMAIN n.children
      PROVE  d \in Onward(FieldsOf(tree), p)
  <2>1. PICK e, to : e = EdgeTo(n, d) /\ to = p \o e
    OBVIOUS
  <2>2. to \in Seq(Nat) /\ to # <<>> /\ Trees!NodeAt(tree, to) # {}
    BY <1>1, <2>1, ChildIsAt
  <2>3. PICK r \in Seq(Nat) : ValueAt(tree, to \o r) # None
    BY <2>2, FieldBelow
  <2>4. e \in Seq(Nat) /\ e # <<>> /\ Head(e) = d
    BY <1>1, <1>2, <2>1, EdgeFacts
  <2>5. p \in Seq(Nat) /\ e \in Seq(Nat) /\ e # <<>> /\ r \in Seq(Nat)
    BY <2>4
  <2>6. (p \o e) \o r = p \o (e \o r)
    BY ONLY <2>5, SMTT(60)
  <2>7. PICK rest : rest = e \o r
    OBVIOUS
  <2>8. rest \in Seq(Nat) /\ rest # <<>> /\ Head(rest) = d
    BY <2>4, <2>5, <2>7
  <2>9. p \o rest \in Seq(Nat) /\ ValueAt(tree, p \o rest) # None
    BY <2>1, <2>3, <2>6, <2>7, <2>8
  <2>10. p \o rest \in DOMAIN FieldsOf(tree)
    BY <2>9, FieldPaths
  <2>11. QED
    BY <2>8, <2>10, OnwardAlong
<1>5. QED
  BY <1>3, <1>4

(* What CanonicalTree defines below a point, from what it defines further   *)
(* below, and the points.                                                   *)
PointsOf(fields) == {<<>>} \cup UNION {Prefixes(path) : path \in DOMAIN fields}
NodeFrom(fields, below, p) ==
  [field |-> IF p \in DOMAIN fields THEN fields[p] ELSE None,
   children |-> [d \in Onward(fields, p) |->
     LET end == EdgeEnd(fields, p, d)
     IN [suffix |-> SubSeq(end, Len(p) + 2, Len(end)), node |-> below[end]]]]
IsBelow(below, fields) ==
  below = [p \in PointsOf(fields) |-> NodeFrom(fields, below, p)]

LEMMA CanonicalIsBelow ==
  ASSUME NEW fields
  PROVE  CanonicalTree(fields) = (CHOOSE below : IsBelow(below, fields))[<<>>]
BY DEF CanonicalTree, IsBelow, NodeFrom, PointsOf

LEMMA PointFacts ==
  ASSUME NEW tree, IsReduced(tree)
  PROVE  \A p : p \in PointsOf(FieldsOf(tree)) <=>
           \/ p = <<>>
           \/ p \in Seq(Nat) /\ \E q \in DOMAIN FieldsOf(tree) : IsPrefix(p, q)
<1>1. ASSUME NEW q \in Seq(Nat), NEW p
      PROVE  p \in Prefixes(q) <=> p \in Seq(Nat) /\ IsPrefix(p, q)
  <2>1. ASSUME p \in Prefixes(q) PROVE p \in Seq(Nat) /\ IsPrefix(p, q)
    <3>1. PICK l \in 0..Len(q) : p = SubSeq(q, 1, l)
      BY <2>1 DEF Prefixes
    <3>2. p \in Seq(Nat) /\ Len(p) = l /\ l <= Len(q)
      BY <3>1
    <3>3. SubSeq(p, 1, Len(p)) = p
      BY <3>2
    <3>4. QED
      BY <3>1, <3>2, <3>3 DEF IsPrefix
  <2>2. ASSUME p \in Seq(Nat), IsPrefix(p, q) PROVE p \in Prefixes(q)
    <3>1. Len(p) \in 0..Len(q) /\ SubSeq(p, 1, Len(p)) = SubSeq(q, 1, Len(p))
      BY <2>2 DEF IsPrefix
    <3>2. SubSeq(p, 1, Len(p)) = p
      BY <2>2
    <3>3. QED
      BY <3>1, <3>2 DEF Prefixes
  <2>3. QED
    BY <2>1, <2>2
<1>2. \A q \in DOMAIN FieldsOf(tree) : q \in Seq(Nat)
  BY FieldPaths
<1>3. QED
  BY <1>1, <1>2 DEF PointsOf

LEMMA NodeIsPoint ==
  ASSUME NEW tree, IsReduced(tree), NEW p \in Seq(Nat), Trees!NodeAt(tree, p) # {}
  PROVE  p \in PointsOf(FieldsOf(tree))
<1>1. CASE p = <<>>
  BY <1>1, PointFacts
<1>2. CASE p # <<>>
  <2>1. PICK r \in Seq(Nat) : ValueAt(tree, p \o r) # None
    BY <1>2, FieldBelow
  <2>2. PICK q : q = p \o r
    OBVIOUS
  <2>3. q \in Seq(Nat)
    BY <2>2
  <2>4. q \in DOMAIN FieldsOf(tree)
    BY <2>1, <2>2, <2>3, FieldPaths
  <2>5. IsPrefix(p, q)
    BY <2>2, <2>3, PrefixIsJoin
  <2>6. QED
    BY <2>4, <2>5, PointFacts
<1>3. QED
  BY <1>1, <1>2

(* At every point, an edge ends at a node.                                  *)
LEMMA EdgeEndsAtNode ==
  ASSUME NEW tree, IsReduced(tree), NEW p \in Seq(Nat),
         NEW d \in Onward(FieldsOf(tree), p)
  PROVE  /\ EdgeEnd(FieldsOf(tree), p, d) \in Seq(Nat)
         /\ Trees!NodeAt(tree, EdgeEnd(FieldsOf(tree), p, d)) # {}
<1>1. PICK S : tree \in S /\ Trees!IsForest(S, Nat)
  BY FieldPaths DEF IsDataTree
<1>2. PICK r \in Seq(Nat) : r # <<>> /\ Head(r) = d /\ p \o r \in DOMAIN FieldsOf(tree)
  BY OnwardAlong
<1>3. PICK one, q : one = <<d>> /\ q = p \o r
  OBVIOUS
<1>4. d \in Nat
  BY <1>2
<1>5. p \in Seq(Nat) /\ d \in Nat
  BY <1>4
<1>6. /\ Append(p, d) \in Seq(Nat) /\ Append(p, d) # <<>>
      /\ Append(p, d) = p \o <<d>>
  BY ONLY <1>5, OneMoreDigit
<1>7. Append(p, d) = p \o one /\ one \in Seq(Nat)
  BY <1>3, <1>5, <1>6
<1>8. q \in Seq(Nat) /\ Trees!NodeAt(tree, q) # {}
  BY <1>2, <1>3, FieldPaths
<1>9. IsPrefix(one, r)
  <2>1. r = <<Head(r)>> \o Tail(r) /\ Tail(r) \in Seq(Nat)
    BY <1>2
  <2>2. QED
    BY <1>2, <1>3, <1>7, <2>1, PrefixIsJoin
<1>10. IsPrefix(Append(p, d), q)
  <2>1. p \in Seq(Nat) /\ one \in Seq(Nat) /\ r \in Seq(Nat)
    BY <1>7
  <2>2. IsPrefix(p \o one, p \o r)
    BY ONLY <1>9, <2>1, PrefixAfter
  <2>3. QED
    BY <1>3, <1>7, <2>2
<1>11. PICK end : IsEnd(tree, Append(p, d), end)
  BY <1>1, <1>6, <1>8, <1>10, EndOfPath
<1>12. EdgeEnd(FieldsOf(tree), p, d) = end
  BY <1>6, <1>11, EndOfPaths DEF EdgeEnd
<1>13. QED
  BY <1>11, <1>12 DEF IsEnd

(* A node of the tree is what its fields determine there.                   *)
LEMMA NodeIsFrom ==
  ASSUME NEW tree, IsReduced(tree), NEW p \in Seq(Nat), NEW n \in Trees!NodeAt(tree, p),
         NEW below,
         \A d \in DOMAIN n.children : below[p \o EdgeTo(n, d)] = n.children[d].node
  PROVE  NodeFrom(FieldsOf(tree), below, p) = n
<1>1. PICK S : tree \in S /\ Trees!IsForest(S, Nat) /\ \A m \in S : IsNode(m)
  BY FieldPaths DEF IsDataTree
<1>2. n \in S
  BY <1>1, OneNodeAtPath
<1>3. n.field = IF p \in DOMAIN FieldsOf(tree) THEN FieldsOf(tree)[p] ELSE None
  <2>1. ValueAt(tree, p) = n.field
    BY <1>1, ValueOfNode
  <2>2. QED
    BY <2>1, FieldPaths
<1> DEFINE F == FieldsOf(tree)
           edge(d) == LET end == EdgeEnd(F, p, d)
                      IN [suffix |-> SubSeq(end, Len(p) + 2, Len(end)), node |-> below[end]]
<1>4. ASSUME NEW d \in DOMAIN n.children
      PROVE  edge(d) = [suffix |-> n.children[d].suffix, node |-> n.children[d].node]
  <2>1. PICK suffix, e, end : /\ suffix = n.children[d].suffix /\ e = EdgeTo(n, d)
                              /\ end = p \o e
    OBVIOUS
  <2>2. EdgeEnd(F, p, d) = end
    BY <2>1, EdgeOfNode
  <2>3. d \in Nat /\ suffix \in Seq(Nat) /\ e = <<d>> \o suffix
    BY <1>1, <1>2, <2>1, EdgeFacts DEF EdgeTo
  <2>4. SubSeq(end, Len(p) + 2, Len(end)) = suffix
    <3>1. PICK one, po : one = <<d>> /\ po = p \o one
      OBVIOUS
    <3>2. p \in Seq(Nat) /\ one \in Seq(Nat) /\ suffix \in Seq(Nat)
      BY <2>3, <3>1
    <3>3. (p \o one) \o suffix = p \o (one \o suffix)
      BY ONLY <3>2, SMTT(60)
    <3>4. end = po \o suffix
      BY <2>1, <2>3, <3>1, <3>3
    <3>5. po \in Seq(Nat) /\ suffix \in Seq(Nat) /\ end \in Seq(Nat)
      BY <3>1, <3>2, <3>4
    <3>6. end = po \o suffix <=> Trees!IsPrefix(po, end) /\ Trees!Drop(end, Len(po)) = suffix
      BY ONLY <3>5, Trees!PathIsJoin
    <3>7. Len(po) + 1 = Len(p) + 2
      <4>1. Len(po) = Len(p) + 1 /\ Len(p) \in Nat
        BY <3>1, <3>2
      <4>2. QED
        BY ONLY <4>1
    <3>8. SubSeq(end, Len(po) + 1, Len(end)) = suffix
      BY <3>4, <3>6 DEF Trees!Drop
    <3>9. QED
      BY <3>7, <3>8
  <2>5. below[end] = n.children[d].node
    BY <2>1
  <2>6. QED
    BY <2>1, <2>2, <2>4, <2>5
<1>5. [d \in Onward(F, p) |-> edge(d)] = n.children
  <2>1. Onward(F, p) = DOMAIN n.children
    BY OnwardOfNode
  <2>2. n.children = [d \in DOMAIN n.children |->
                        [suffix |-> n.children[d].suffix, node |-> n.children[d].node]]
    BY <1>1, <1>2 DEF IsNode, HasEdges
  <2> HIDE DEF edge
  <2>3. [d \in DOMAIN n.children |-> edge(d)] = n.children
    BY <1>4, <2>2
  <2>4. QED
    BY <2>1, <2>3
<1>6. n = [field |-> n.field, children |-> n.children]
  BY <1>1, <1>2 DEF IsNode
<1>7. NodeFrom(F, below, p)
        = [field |-> IF p \in DOMAIN F THEN F[p] ELSE None,
           children |-> [d \in Onward(F, p) |-> edge(d)]]
  BY DEF NodeFrom
<1> HIDE DEF edge
<1>8. QED
  BY <1>3, <1>5, <1>6, <1>7

(* So CanonicalTree is defined for the fields of a tree, and is the tree.   *)
LEMMA BelowIsDefined ==
  ASSUME NEW tree, IsReduced(tree)
  PROVE  \E below : IsBelow(below, FieldsOf(tree))
<1>1. PICK S : tree \in S /\ Trees!IsForest(S, Nat)
  BY FieldPaths DEF IsDataTree
<1> DEFINE F == FieldsOf(tree)
           node(p) == CHOOSE n \in Trees!NodeAt(tree, p) : TRUE
           nodes == [p \in PointsOf(F) |-> node(p)]
           below == [p \in PointsOf(F) |->
                       IF Trees!NodeAt(tree, p) # {} THEN node(p) ELSE NodeFrom(F, nodes, p)]
<1>2. ASSUME NEW p \in Seq(Nat), Trees!NodeAt(tree, p) # {}
      PROVE  /\ p \in PointsOf(F) /\ node(p) \in Trees!NodeAt(tree, p)
             /\ nodes[p] = node(p) /\ below[p] = node(p)
  <2>1. p \in PointsOf(F)
    BY <1>2, NodeIsPoint
  <2>2. node(p) \in Trees!NodeAt(tree, p)
    BY <1>2
  <2> HIDE DEF node
  <2>3. QED
    BY <1>2, <2>1, <2>2
<1>3. \A p \in PointsOf(F) : p \in Seq(Nat)
  <2> HIDE DEF node, nodes, below
  <2>1. ASSUME NEW p \in PointsOf(F) PROVE p = <<>> \/ p \in Seq(Nat)
    BY ONLY <2>1, IsReduced(tree), PointFacts
  <2>2. PICK none : none = <<>>
    OBVIOUS
  <2>3. none \in Seq(Nat)
    BY ONLY <2>2
  <2> HIDE DEF F
  <2>4. QED
    BY ONLY <2>1, <2>2, <2>3
<1>4. ASSUME NEW p \in PointsOf(F), Trees!NodeAt(tree, p) # {}
      PROVE  NodeFrom(F, nodes, p) = node(p)
  <2>1. p \in Seq(Nat) /\ node(p) \in Trees!NodeAt(tree, p)
    BY <1>2, <1>3, <1>4
  <2>2. PICK n : n = node(p)
    OBVIOUS
  <2>3. n \in Trees!NodeAt(tree, p)
    BY <2>1, <2>2
  <2>4. ASSUME NEW d \in DOMAIN n.children
        PROVE  nodes[p \o EdgeTo(n, d)] = n.children[d].node
    <3>1. PICK to, c : to = p \o EdgeTo(n, d) /\ c = n.children[d].node
      OBVIOUS
    <3>2. to \in Seq(Nat) /\ c \in Trees!NodeAt(tree, to)
      BY <1>1, <2>1, <2>3, <3>1, ChildIsAt
    <3>3. Trees!NodeAt(tree, to) = {c}
      BY <1>1, <3>2, OneNodeAtPath
    <3>4. nodes[to] = node(to) /\ node(to) \in Trees!NodeAt(tree, to)
      BY <1>2, <3>2
    <3> HIDE DEF nodes, node
    <3>5. QED
      BY <3>1, <3>3, <3>4
  <2> HIDE DEF nodes, node
  <2>5. NodeFrom(F, nodes, p) = n
    BY <2>1, <2>3, <2>4, NodeIsFrom
  <2>6. QED
    BY <2>2, <2>5
<1>5. ASSUME NEW p \in PointsOf(F)
      PROVE  NodeFrom(F, below, p) = NodeFrom(F, nodes, p)
  <2>1. \A d \in Onward(F, p) : below[EdgeEnd(F, p, d)] = nodes[EdgeEnd(F, p, d)]
    BY <1>2, <1>3, EdgeEndsAtNode
  <2> HIDE DEF below, nodes
  <2>2. QED
    BY <2>1 DEF NodeFrom
<1> HIDE DEF node, nodes
<1>6. \A p \in PointsOf(F) : below[p] = NodeFrom(F, below, p)
  <2>1. ASSUME NEW p \in PointsOf(F)
        PROVE  below[p] = NodeFrom(F, nodes, p)
    BY <1>4
  <2> HIDE DEF below
  <2>2. QED
    BY <1>5, <2>1
<1>7. below = [p \in PointsOf(F) |-> below[p]]
  OBVIOUS
<1> HIDE DEF below
<1>8. IsBelow(below, F)
  BY <1>6, <1>7 DEF IsBelow
<1>9. QED
  BY <1>8

LEMMA BelowIsTree ==
  ASSUME NEW tree, IsReduced(tree), NEW below, IsBelow(below, FieldsOf(tree))
  PROVE  below[<<>>] = tree
<1>1. PICK S : tree \in S /\ Trees!IsForest(S, Nat)
  BY FieldPaths DEF IsDataTree
<1>2. \A o \in Seq(Nat) : Len(o) \in Nat
  OBVIOUS
<1>3. MaxLength \in Nat
  BY LengthAssumption
<1>4. \A o \in Seq(Nat) : Trees!NodeAt(tree, o) # {} => Len(o) <= MaxLength
  BY DEF IsReduced, Shallow
<1>5. \A p \in PointsOf(FieldsOf(tree)) : below[p] = NodeFrom(FieldsOf(tree), below, p)
  BY DEF IsBelow
<1> DEFINE All(k) == \A p \in Seq(Nat) : MaxLength < Len(p) + k =>
                       \A n \in Trees!NodeAt(tree, p) : below[p] = n
           B == {k \in Nat : All(k)}
<1>6. 0 \in B
  BY <1>2, <1>3, <1>4
<1>7. ASSUME NEW k \in Nat, k \in B PROVE k + 1 \in B
  <2>1. All(k)
    BY <1>7
  <2> HIDE DEF All
  <2>2. ASSUME NEW p \in Seq(Nat), MaxLength < Len(p) + (k + 1),
               NEW n \in Trees!NodeAt(tree, p)
        PROVE  below[p] = n
    <3>1. ASSUME NEW d \in DOMAIN n.children
          PROVE  below[p \o EdgeTo(n, d)] = n.children[d].node
      <4>1. PICK to, c : to = p \o EdgeTo(n, d) /\ c = n.children[d].node
        OBVIOUS
      <4>2. to \in Seq(Nat) /\ Len(p) < Len(to) /\ c \in Trees!NodeAt(tree, to)
        BY <1>1, <4>1, ChildIsAt
      <4>3. MaxLength < Len(to) + k
        BY <1>2, <1>3, <2>2, <4>2
      <4>4. below[to] = c
        BY <2>1, <4>2, <4>3 DEF All
      <4>5. QED
        BY <4>1, <4>4
    <3>2. NodeFrom(FieldsOf(tree), below, p) = n
      BY <3>1, NodeIsFrom
    <3>3. p \in PointsOf(FieldsOf(tree))
      BY NodeIsPoint
    <3>4. QED
      BY <1>5, <3>2, <3>3
  <2>3. All(k + 1)
    BY <2>2 DEF All
  <2>4. QED
    BY <2>3
<1> HIDE DEF B
<1>8. \A k \in Nat : k \in B
  BY <1>6, <1>7, Trees!NatSetInduction
<1>9. PICK none : none = <<>>
  OBVIOUS
<1>10. none \in Seq(Nat) /\ Len(none) = 0 /\ tree \in Trees!NodeAt(tree, none)
  BY <1>1, <1>9, NodeAtRoot
<1>11. MaxLength + 1 \in B /\ MaxLength < Len(none) + (MaxLength + 1)
  BY <1>3, <1>8, <1>10
<1>12. below[none] = tree
  BY <1>10, <1>11 DEF B
<1>13. QED
  BY <1>9, <1>12

(* The tree of an account, and so its hash, is determined by the fields     *)
(* that are set: two orders in which insert_into_data_tree sets the same    *)
(* fields make the same tree.                                               *)
THEOREM TreeIsCanonical == Spec => []Canonical
<1>1. /\ HasWellFormedChildren(data_tree) /\ HoldsFields(data_tree)
      /\ IsDataTree(data_tree) /\ Shallow(data_tree)
      => Canonical
  <2> SUFFICES ASSUME HasWellFormedChildren(data_tree), HoldsFields(data_tree),
                      Shallow(data_tree)
               PROVE  Canonical
    OBVIOUS
  <2>1. IsReduced(data_tree)
    BY DEF IsReduced, HoldsFields
  <2>2. PICK below : below = CHOOSE b : IsBelow(b, FieldsOf(data_tree))
    OBVIOUS
  <2>3. IsBelow(below, FieldsOf(data_tree))
    BY <2>1, <2>2, BelowIsDefined
  <2>4. below[<<>>] = data_tree
    BY <2>1, <2>3, BelowIsTree
  <2>5. CanonicalTree(FieldsOf(data_tree)) = below[<<>>]
    BY <2>2, CanonicalIsBelow
  <2>6. QED
    BY <2>4, <2>5 DEF Canonical, AccountFields
<1>2. QED
  BY <1>1, ChildrenAreWellFormed, FieldsAreHeld, TreesAreShallow, PTL
=============================================================================
