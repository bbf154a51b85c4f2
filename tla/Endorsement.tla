---------------------------- MODULE Endorsement ----------------------------
(***************************************************************************)
(* Quorum nodes that the nodes of a network make and sign after the last   *)
(* main block, rightly and wrongly, and what verification.rs says of them. *)
(* put holds what has been put; a node that is not in it yet is made from  *)
(* those that are, and from those of the last block.  Construction, which  *)
(* goes on beside it, is what construction.rs makes.                       *)
(***************************************************************************)
EXTENDS Construction

CONSTANTS
  Invented,    \* the accounts for which nodes are made without an action
  InnerPaths,  \* the paths at which nodes with children are made
  Signings,    \* the lists of signatures that a node may be given
  MaxPut       \* bound: the number of nodes put

VARIABLE put

PutInit == put = {}

(* What is made of a node before it is put: it is signed, or it is changed  *)
(* so that its main block, statistics or account do not follow any more.    *)
Versions(node) ==
  {node} \cup {[node EXCEPT !.signatures = s] : s \in Signings}
         \cup {[node EXCEPT !.last_main = None]}
         \cup {[node EXCEPT !.stats.stake = @ + 1]}
         \cup (IF node.account = None THEN {}
               ELSE {[node EXCEPT !.account.balance = @ + 1]})
Put(node) == \E version \in Versions(node) \ put : put' = put \cup {version}

PutAction(account, action, prize) ==
  /\ Actions!Accepts(LastMain, account, action)
  /\ Put(AddActionToAccount(account, action, prize))

(* "The resulting node is only valid in the genesis block"                  *)
(* (account_construction.rs:152-153): here it is made after the last block. *)
Initialize(account) == Put(InitializeAccountNode(LastMain, account, 1, 1))

(* A node over any of the others whose paths fit.                           *)
Combine(path) ==
  \E children \in SUBSET {n \in put \cup NodesOf(LastTree) :
                            IsStrictPrefix(path, n.path)} :
    LET DigitOf(n) == n.path[Len(path) + 1]
        At(d) == CHOOSE n \in children : DigitOf(n) = d
    IN /\ children # {}
       /\ \A m, n \in children : DigitOf(m) = DigitOf(n) => m = n
       /\ Put(ReplaceChildren(
                [EmptyNode(path) EXCEPT !.last_main = LastMain],
                [d \in {DigitOf(n) : n \in children} |->
                   [suffix |-> Tree!Drop(At(d).path, Len(path) + 1),
                    node |-> At(d)]]))

PutNext ==
  /\ Cardinality(put) < MaxPut
  /\ \/ \E request \in Requests :
          PutAction(request.account, request.action, request.prize)
     \/ \E account \in Invented : Initialize(account)
     \/ \E path \in InnerPaths : Combine(path)
-----------------------------------------------------------------------------
(* The nodes that the verification of a node has to look into: not those of *)
(* the last block, nor what is under a node with signatures.                *)
RECURSIVE LookedInto(_)
LookedInto(node) ==
  IF node.signatures # None \/ Unchanged(node) THEN {}
  ELSE {node} \cup UNION {LookedInto(Child(node, d)) : d \in Digits(node)}

Endorsed == {node \in put : VerifyEndorsed(node) = "ok"}

(* Whatever is combined, an account under an endorsed node, unless it is    *)
(* vouched for by signatures, is one that the account's action led to from  *)
(* the last block, with the fee of that action: "it follows correctly from  *)
(* the old node and the new children" (verification.rs:133-134).            *)
AccountsFollow ==
  \A node \in Endorsed : \A n \in LookedInto(node) :
    n.account # None =>
      [account |-> n.path, state |-> n.account, fee |-> n.stats.fee]
        \in Actions!Outcomes(LastMain, n.path)

(* "check that all old children are present" (verification.rs:161): no      *)
(* account of the last block is lost under an endorsed node, unless the     *)
(* node on the way to it is vouched for by signatures.                      *)
AccountsKept ==
  \A node \in Endorsed : \A old \in AccountsUnder(LastTree) :
    IsPrefix(node.path, old.path) =>
      \E n \in NodesOf(node) :
        \/ n.path = old.path
        \/ n.signatures # None /\ IsPrefix(n.path, old.path)

(* The stake by which miners and quorums are drawn: at an endorsed node it  *)
(* is the sum over what nothing in the node's verification looks into, and  *)
(* over the accounts that it does look into.                                *)
StakeOfParts(node) ==
  LET inner == {n \in LookedInto(node) : n.account = None}
      parts == {n \in {node} \cup UNION {{Child(m, d) : d \in Digits(m)} : m \in inner} :
                  n \notin inner}
  IN MapThenSumSet(LAMBDA n : n.stats.stake, parts)
EndorsedStake ==
  \A node \in Endorsed : node.stats.stake = StakeOfParts(node)

(* What an account was asked for, with no prize, is endorsed as it is: none *)
(* of the conditions on a node's shape and score stands in its way.         *)
ActionsEndorsed ==
  \A request \in Requests :
    LET node == AddActionToAccount(request.account, request.action, request.prize)
    IN request.prize = 0 /\ node \in put => node \in Endorsed

(* A node is valid "in the sense that it follows correctly from the old    *)
(* node and the new children" (verification.rs:133-134): without signatures *)
(* a well-formed node is endorsed if all accounts under the old node are    *)
(* present, its children are those of the last block or endorsed, and its   *)
(* statistics are what the children's make them.                            *)
FollowsCorrectly(node) ==
  /\ WellFormed(node) /\ Len(node.path) < PathLength
  /\ node.signatures = None /\ node.prize = 0
  /\ \A old \in AccountsUnder(LastTree) :
       IsPrefix(node.path, old.path) => \E n \in NodesOf(node) : n.path = old.path
  /\ \A d \in Digits(node) :
       Unchanged(Child(node, d)) \/ VerifyEndorsed(Child(node, d)) = "ok"
  /\ HasChildrensStats(node) = "ok"
ValidNodesAreEndorsed == \A node \in put : FollowsCorrectly(node) => node \in Endorsed
=============================================================================
