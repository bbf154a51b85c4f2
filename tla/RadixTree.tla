----------------------------- MODULE RadixTree -----------------------------
(***************************************************************************)
(* Radix hash trees: queries.rs follows a path down a tree, and            *)
(* account_construction.rs inserts a node at a path.  A hash is modelled   *)
(* as the node it is the hash of, so a tree is a nested value.  A node is  *)
(* a record with a field children, a partial function from digits to       *)
(* [suffix, node]: the digit and the suffix lead from the node to the      *)
(* child.  What a kind of node does with its children is a parameter, as   *)
(* it is a method of the trait RadixHashNode.                              *)
(*                                                                         *)
(* A name with an underscore is a faulty variant of the definition after   *)
(* it, which the checks put in its place.                                  *)
(***************************************************************************)
EXTENDS Naturals, SequencesExt

CONSTANTS
  ReplaceChildren(_, _),  \* replace_children(node, children)
  FromSingleChild(_, _),  \* from_single_child(path, child)
  NewNode(_, _)           \* get_new_node(option_node), given a value; the
                          \* option is a sequence of at most one node

Edge(path, node) == [suffix |-> Tail(path), node |-> node]
SingleChild(path, node) == [d \in {Head(path)} |-> Edge(path, node)]
WithChild_Alone(children, path, node) == SingleChild(path, node)
WithChild(children, path, node) ==
  [d \in DOMAIN children \cup {Head(path)} |->
     IF d = Head(path) THEN Edge(path, node) ELSE children[d]]

Drop(path, n) == SubSeq(path, n + 1, Len(path))
LongestPrefixLength_Short(xs, ys) ==
  Max({0} \cup {n - 1 : n \in {i \in 1..Len(xs) : /\ i <= Len(ys)
                                 /\ SubSeq(xs, 1, i) = SubSeq(ys, 1, i)}})
LongestPrefixLength(xs, ys) ==
  Max({n \in 0..Len(xs) : n <= Len(ys) /\ SubSeq(xs, 1, n) = SubSeq(ys, 1, n)})

(***************************************************************************)
(* rh_follow_path.  Its loop has come to a node, with the postfix of the   *)
(* path that is left there, or has left the tree within an edge: an Option *)
(* is the set of what is in it.  Turn is a turn of the loop; a turn that   *)
(* does not go on to a child changes nothing, and one that does takes a    *)
(* digit of the path at least.                                             *)
(***************************************************************************)
At(node, path) == [node |-> node, postfix |-> path]
GoesOn(at) == at.postfix # <<>> /\ Head(at.postfix) \in DOMAIN at.node.children

Turn_MidEdge(at) ==
  LET child == at.node.children[Head(at.postfix)]
      rest == Tail(at.postfix)
  IN IF ~GoesOn(at) THEN {at}
     ELSE IF IsPrefix(child.suffix, rest) \/ IsPrefix(rest, child.suffix)
     THEN {At(child.node, Drop(rest, Len(child.suffix)))}
     ELSE {}
Turn_AnySuffix(at) ==
  LET child == at.node.children[Head(at.postfix)]
  IN {IF GoesOn(at)
      THEN At(child.node, Drop(Tail(at.postfix), Len(child.suffix))) ELSE at}
Turn(at) ==
  LET child == at.node.children[Head(at.postfix)]
      rest == Tail(at.postfix)
  IN IF ~GoesOn(at) THEN {at}
     ELSE IF IsPrefix(child.suffix, rest)
     THEN {At(child.node, Drop(rest, Len(child.suffix)))}
     ELSE IF IsPrefix(rest, child.suffix) THEN {at}
     ELSE {}

AfterTurns(at, turns) ==
  LET turn[i \in Nat] ==
        IF i = 0 THEN {at} ELSE UNION {Turn(before) : before \in turn[i - 1]}
  IN turn[turns]
FollowPath(node, path) == AfterTurns(At(node, path), Len(path))

(* The node that the path leads to, and no further.                         *)
NodeAt(node, path) ==
  {at.node : at \in {a \in FollowPath(node, path) : a.postfix = <<>>}}

(***************************************************************************)
(* insert_into_rh_tree returns the new tree and the number of nodes put.   *)
(* A call is a tree and a path; unless the path is empty, or leads to no   *)
(* child, there is a call within it, for the child or for a new node in    *)
(* the middle of the edge to it.                                           *)
(***************************************************************************)
CallsAgain(call) ==
  call.path # <<>> /\ Head(call.path) \in DOMAIN call.tree.children
ChildOf(call) == call.tree.children[Head(call.path)]
SharedLength(call) == LongestPrefixLength(Tail(call.path), ChildOf(call).suffix)
TakesEdge(call) == IsPrefix(ChildOf(call).suffix, Tail(call.path))

InnerCall(call) ==
  LET child == ChildOf(call)
      n == SharedLength(call)
  IN IF ~CallsAgain(call) THEN call
     ELSE [tree |-> IF TakesEdge(call) THEN child.node
                    ELSE FromSingleChild(Drop(child.suffix, n), child.node),
           path |-> Drop(Tail(call.path), n)]

(* rh_node_insert_child: one more node is put.                              *)
InsertChild_Uncounted(tree, path, inserted) ==
  [node |-> ReplaceChildren(tree, WithChild(tree.children, path, inserted.node)),
   count |-> inserted.count]
InsertChild(tree, path, inserted) ==
  [node |-> ReplaceChildren(tree, WithChild(tree.children, path, inserted.node)),
   count |-> inserted.count + 1]

(* What a call returns, given what the call within it does.                 *)
Returns(call, value, inner) ==
  IF call.path = <<>>
  THEN [node |-> NewNode(<<call.tree>>, value), count |-> 1]
  ELSE IF ~CallsAgain(call)
  THEN InsertChild(call.tree, call.path,
                   [node |-> NewNode(<<>>, value), count |-> 1])
  ELSE InsertChild(call.tree, SubSeq(call.path, 1, 1 + SharedLength(call)),
                   [node |-> inner.node,
                    count |-> inner.count + IF TakesEdge(call) THEN 0 ELSE 1])

(* inner[i] is the call that the i-th call within a call is; result[i] is   *)
(* what the call returns within which there are i - 1 more.                 *)
CallsWithin(call) ==
  LET inner[i \in Nat] == IF i = 0 THEN call ELSE InnerCall(inner[i - 1])
  IN inner
ResultOf(call, value, depth) ==
  LET inner == CallsWithin(call)
      result[i \in Nat] ==
        IF i = 0 THEN <<>> ELSE Returns(inner[depth - i], value, result[i - 1])
  IN result[depth]

Insert(tree, path, value) ==
  ResultOf([tree |-> tree, path |-> path], value, Len(path) + 1)
=============================================================================
