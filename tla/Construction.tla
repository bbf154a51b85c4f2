---------------------------- MODULE Construction ----------------------------
(***************************************************************************)
(* construction.rs: account nodes are made from actions, and combined into *)
(* nodes for shorter and shorter paths, until one is the root of the tree  *)
(* of the next main block.                                                 *)
(*                                                                         *)
(* A name with an underscore is a faulty variant of the definition after   *)
(* it, which the checks put in its place.                                  *)
(***************************************************************************)
EXTENDS Verification

CONSTANTS
  Requests,    \* [account, action, prize]: what accounts are asked to do
  Scores,      \* the scores that callers give to nodes
  SuperPaths,  \* the paths other than that of the root for which nodes are made
  MaxPool      \* bound: the number of scored nodes

VARIABLES
  pool,       \* the nodes made so far, with scores
  last_call,  \* the last call of best_super_node: its inputs and its result
  root,       \* the result of a call for the root
  main        \* what is read back: get_main_state of the last block and of root

vars == <<pool, last_call, root, main>>

Init == pool = {} /\ last_call = None /\ root = None /\ main = <<LastBlock>>

AddAction(request, score) ==
  /\ Cardinality(pool) < MaxPool
  /\ Actions!Accepts(LastMain, request.account, request.action)
  /\ pool' = pool \cup
       {[node |-> AddActionToAccount(request.account, request.action, request.prize),
         score |-> score]}
  /\ UNCHANGED <<last_call, root, main>>
-----------------------------------------------------------------------------
(* make_immediate_parent, which starts from the old node of the path.       *)
BaseNode(path, found) ==
  IF found = {} THEN EmptyNode(path) ELSE CHOOSE node \in found : TRUE
MakeImmediateParent_Fresh(path, children) ==
  [node |-> FoldLeft(LAMBDA parent, child : AddChildToQuorumNode(child.node, parent),
                     EmptyNode(path), children),
   score |-> FoldLeft(LAMBDA sum, child : sum + child.score, 0, children)]
MakeImmediateParent(path, children) ==
  LET Add(parent, child) == AddChildToQuorumNode(child.node, parent)
  IN [node |-> FoldLeft(Add, BaseNode(path, Tree!NodeAt(LastTree, path)), children),
      score |-> FoldLeft(LAMBDA sum, child : sum + child.score, 0, children)]

(* The order of the keys of a BTreeMap.                                     *)
PathLess(p, q) ==
  \/ IsStrictPrefix(p, q)
  \/ \E i \in DOMAIN p \cap DOMAIN q :
       p[i] < q[i] /\ \A j \in 1..(i - 1) : p[j] = q[j]

(* A turn of the loop of best_super_node, for the paths of length i.  best  *)
(* has a node with its score for some of the longer paths, all of which are *)
(* combined, the children of the nodes that were combined before included.  *)
Keep_Last(best, candidate) == (candidate.node.path :> candidate) @@ best
Keep(best, candidate) ==
  LET path == candidate.node.path
  IN IF path \notin DOMAIN best \/ best[path].score < candidate.score
     THEN (path :> candidate) @@ best ELSE best
Level(best, i, inputs) ==
  LET paths == SetToSortSeq(DOMAIN best, PathLess)
      Under(i_path) == SelectSeq(paths, LAMBDA path : IsPrefix(i_path, path))
      ParentOf(i_path) ==
        LET under == Under(i_path)
        IN MakeImmediateParent(i_path, [k \in DOMAIN under |-> best[under[k]]])
      i_paths == SetToSortSeq({SubSeq(path, 1, i) : path \in DOMAIN best}, PathLess)
      candidates == SelectSeq(inputs, LAMBDA input : Len(input.node.path) = i)
                    \o [k \in DOMAIN i_paths |-> ParentOf(i_paths[k])]
  IN FoldLeft(Keep, best, candidates)

BestSuperNode(super_path, inputs) ==
  LET levels == [k \in 1..(PathLength + 1 - Len(super_path)) |-> PathLength + 1 - k]
      TurnOfLoop(best, i) == Level(best, i, inputs)
  IN FoldLeft(TurnOfLoop, <<>>, levels)[super_path].node

(* A caller of best_super_node passes what it asserts of input_children.    *)
InputsFor(super_path) ==
  {chosen \in SUBSET pool :
     chosen # {} /\ \A input \in chosen : IsPrefix(super_path, input.node.path)}

MakeInnerNode(super_path, score) ==
  /\ Cardinality(pool) < MaxPool
  /\ \E chosen \in InputsFor(super_path) : \E inputs \in SetToSeqs(chosen) :
       \E result \in {BestSuperNode(super_path, inputs)} :
          /\ pool' = pool \cup {[node |-> result, score |-> score]}
          /\ last_call' = [inputs |-> inputs, result |-> result]
  /\ UNCHANGED <<root, main>>

MakeRoot ==
  /\ root = None
  /\ \E chosen \in InputsFor(<<>>) : \E inputs \in SetToSeqs(chosen) :
       \E result \in {BestSuperNode(<<>>, inputs)} :
          /\ root' = result
          /\ main' = Append(main, BlockOf(LastMain, result, LastMain))
          /\ last_call' = [inputs |-> inputs, result |-> result]
  /\ UNCHANGED pool

Next ==
  \/ \E request \in Requests, score \in Scores : AddAction(request, score)
  \/ \E super_path \in SuperPaths, score \in Scores : MakeInnerNode(super_path, score)
  \/ MakeRoot
Spec == Init /\ [][Next]_vars
-----------------------------------------------------------------------------
Made == {scored.node : scored \in pool} \cup (IF root = None THEN {} ELSE {root})

(* The diagram of state_machine.rs:1-10: whatever actions were run, in      *)
(* whatever order their nodes were combined, a subtree at a time or all at  *)
(* once, and whichever of several nodes for a path won, the tree is read    *)
(* back as a state that the state machine steps to from that of the last    *)
(* main block.  No account is lost, and none runs two actions.              *)
(* That is Chain!Spec, written so that TLC looks for a step of the ledger   *)
(* only where main changes.                                                 *)
Chain == INSTANCE Ledger WITH NoAccount <- None, MaxMain <- 2
ImplementsLedger == Chain!Init /\ [][main' # main => Chain!Next]_main

(* The stake of every node made is the sum over the accounts under it: a    *)
(* child that is put under a parent once more, as the nodes of all lower    *)
(* levels are, is not counted twice, and nor is the old node it replaces.   *)
StakeAddsUp ==
  \A made \in Made : \A node \in NodesOf(made) :
    node.stats.stake =
      MapThenSumSet(LAMBDA n : n.account.stake, AccountsUnder(node))

(* Of several nodes given for one account and nothing else, the result has  *)
(* one whose score no other exceeds, whatever their order.                  *)
Rivals == /\ last_call # None
          /\ \A i, j \in DOMAIN last_call.inputs :
               last_call.inputs[i].node.path = last_call.inputs[j].node.path
HighestScoreWins ==
  Rivals =>
    \E i \in DOMAIN last_call.inputs :
      /\ last_call.inputs[i].node \in NodesOf(last_call.result)
      /\ \A j \in DOMAIN last_call.inputs :
           last_call.inputs[j].score <= last_call.inputs[i].score
=============================================================================
