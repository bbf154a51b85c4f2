----------------------------- MODULE QuorumTree -----------------------------
(***************************************************************************)
(* The radix hash tree of QuorumNodes that holds the accounts of a main    *)
(* block: blockdata.rs says how a node's statistics follow from those of   *)
(* its children, construction.rs adds a node, queries.rs and               *)
(* state_machine.rs read the accounts.  A hash is the node it is of.       *)
(*                                                                         *)
(* A name with an underscore is a faulty variant of the definition after   *)
(* it, which the checks put in its place.                                  *)
(***************************************************************************)
EXTENDS Naturals, SequencesExt

CONSTANTS
  PathLength,  \* the length of an account's path, 64 in the code
  None         \* an Option that is empty

(* A QuorumNode.  account stands for the data tree of an account node.      *)
(* failed records that an operation on the way to this node ended in an     *)
(* error, in place of which the code has no node.  Of the statistics, fee   *)
(* stands for gas as well, which is added up in the same way.               *)
EmptyNode(path) ==
  [path |-> path, children |-> <<>>, last_main |-> None, account |-> None,
   new_action |-> None, prize |-> 0, signatures |-> None,
   stats |-> [stake |-> 0, fee |-> 0, new_nodes |-> 0, prize |-> 0],
   failed |-> FALSE]

Digits(node) == DOMAIN node.children
Child(node, d) == node.children[d].node
SumOver(digits, Op(_)) == MapThenSumSet(Op, digits)

(* replace_children: the stake is what the children hold; fees, prizes and  *)
(* new nodes count only for children made after the same main block.        *)
ReplaceChildren_KeepsStake(node, children) ==
  LET recent == {d \in DOMAIN children : children[d].node.last_main = node.last_main}
  IN [node EXCEPT
        !.children = children,
        !.stats.fee = SumOver(recent, LAMBDA d : children[d].node.stats.fee),
        !.stats.new_nodes =
          1 + SumOver(recent, LAMBDA d : children[d].node.stats.new_nodes)]
ReplaceChildren(node, children) ==
  LET new == [node EXCEPT !.children = children, !.signatures = None]
      recent == {d \in Digits(new) : Child(new, d).last_main = node.last_main}
      RecentSum(Stat(_)) ==
        SumOver(recent, LAMBDA d : Stat(Child(new, d).stats))
  IN [new EXCEPT
        !.stats =
          [stake |-> SumOver(Digits(new), LAMBDA d : Child(new, d).stats.stake),
           fee |-> RecentSum(LAMBDA stats : stats.fee),
           prize |-> node.prize + RecentSum(LAMBDA stats : stats.prize),
           new_nodes |-> 1 + RecentSum(LAMBDA stats : stats.new_nodes)],
        !.failed =
          @ \/ \E d \in Digits(new) :
                 \/ Child(new, d).failed
                 \/ Child(new, d).path # node.path \o <<d>> \o children[d].suffix]

(* from_single_child *)
FromSingleChild(path, child) ==
  [EmptyNode(SubSeq(child.path, 1, Len(child.path) - Len(path))) EXCEPT
     !.children = [d \in {Head(path)} |-> [suffix |-> Tail(path), node |-> child]],
     !.last_main = child.last_main,
     !.stats = [child.stats EXCEPT !.new_nodes = @ + 1],
     !.failed = child.failed \/ ~IsSuffix(path, child.path)]

(* The closure "replace" of add_child_to_quorum_node.                       *)
Replace(option, child) ==
  IF option # <<>> /\ option[1].path # child.path
  THEN [child EXCEPT !.failed = TRUE]
  ELSE child

Tree == INSTANCE RadixTree WITH NewNode <- Replace

AddChildToQuorumNode(child, parent) ==
  LET relative_path == SubSeq(child.path, Len(parent.path) + 1, Len(child.path))
  IN IF IsPrefix(parent.path, child.path)
     THEN Tree!Insert(parent, relative_path, child).node
     ELSE [parent EXCEPT !.failed = TRUE]

LookupAccount(top, path) ==
  LET found == Tree!NodeAt(top, path)
  IN IF found = {} THEN None ELSE CHOOSE node \in found : TRUE

(* The nodes of a tree, level by level, down to the accounts, which is how  *)
(* get_account_states_under reads them.  A child has a longer path than its *)
(* parent, so there are no more levels than a path has digits.              *)
Below(node) ==
  IF Len(node.path) = PathLength THEN {} ELSE {Child(node, d) : d \in Digits(node)}
NodesOf(node) ==
  LET level[i \in Nat] ==
        IF i = 0 THEN {node} ELSE UNION {Below(n) : n \in level[i - 1]}
  IN UNION {level[i] : i \in 0..PathLength}
AccountsUnder(node) == {n \in NodesOf(node) : Len(n.path) = PathLength}

(* The conditions of verify_well_formed_quorum_node_body on the shape of a  *)
(* node.                                                                    *)
WellFormedNode(node) ==
  LET depth == Len(node.path)
      width == Cardinality(Digits(node))
  IN /\ depth <= PathLength
     /\ depth > 0 => width # 1
     /\ depth = PathLength => width = 0 /\ node.account # None
     /\ depth < PathLength => width # 0 /\ node.account = None
=============================================================================
