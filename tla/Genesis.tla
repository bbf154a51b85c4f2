------------------------------ MODULE Genesis ------------------------------
(***************************************************************************)
(* The genesis block, to whose quorum tree genesis_block_body adds one     *)
(* account after the other, and the random choice of an account by its     *)
(* stake, stake_indexed_account of queries.rs, in the finished tree.       *)
(*                                                                         *)
(* A name with an underscore is a faulty variant of the definition after   *)
(* it, which the checks put in its place.                                  *)
(***************************************************************************)
EXTENDS QuorumTree

CONSTANTS
  AccountPaths,  \* the paths of the accounts that may be in the list
  Stakes,        \* their stakes
  DataNodes      \* the nodes of a new account's data tree

ASSUME GenesisAssumption ==
  /\ PathLength \in Nat \ {0}
  /\ AccountPaths \subseteq Seq(Nat)
  /\ \A path \in AccountPaths : Len(path) = PathLength
  /\ Stakes \subseteq Nat
  /\ None \notin Stakes

VARIABLES
  top,       \* the root of the tree
  walk,      \* how far stake_indexed_account is
  stake_ix   \* its index

vars == <<top, walk, stake_ix>>

Init ==
  /\ top = [EmptyNode(<<>>) EXCEPT !.stats.new_nodes = 1]
  /\ walk = "none"
  /\ stake_ix = 0

(* initialize_account_node; the balance and the key are like the stake in   *)
(* that they are written to the data tree, and are left out.                *)
InitializeAccountNode(path, stake) ==
  [EmptyNode(path) EXCEPT
     !.account = stake,
     !.stats.stake = stake,
     !.stats.new_nodes = DataNodes]

ASSUME NoneAssumption ==
  \A path \in AccountPaths, stake \in Stakes :
    InitializeAccountNode(path, stake) # None

AddAccount(path, stake) ==
  /\ walk = "none"
  /\ top' = AddChildToQuorumNode(InitializeAccountNode(path, stake), top)
  /\ UNCHANGED <<walk, stake_ix>>

(* random_account: an index below the total stake, if there is any.         *)
RandomAccount ==
  /\ walk = "none"
  /\ top.stats.stake # 0
  /\ walk' = "walking"
  /\ stake_ix' \in 0..(top.stats.stake - 1)
  /\ UNCHANGED top

(* An iteration of the loop of stake_indexed_account.  It subtracts the     *)
(* stakes of the children before the one that the index falls on, and       *)
(* continues with the same node.                                            *)
StakeBefore(d) ==
  SumOver({c \in Digits(top) : c < d}, LAMBDA c : Child(top, c).stats.stake)
FallsOn_Strict(d) ==
  StakeBefore(d) < stake_ix /\ stake_ix < StakeBefore(d) + Child(top, d).stats.stake
FallsOn(d) ==
  StakeBefore(d) <= stake_ix /\ stake_ix < StakeBefore(d) + Child(top, d).stats.stake
Iterate ==
  /\ walk = "walking"
  /\ LET chosen == {d \in Digits(top) : FallsOn(d)}
     IN IF stake_ix >= top.stats.stake
        THEN walk' = "index exceeds total stake" /\ UNCHANGED stake_ix
        ELSE IF Len(top.path) = PathLength
        THEN walk' = "returned" /\ UNCHANGED stake_ix
        ELSE IF chosen = {}
        THEN walk' = "total is not the sum" /\ UNCHANGED stake_ix
        ELSE /\ \E d \in chosen : stake_ix' = stake_ix - StakeBefore(d)
             /\ UNCHANGED walk
  /\ UNCHANGED top

Next == \/ \E path \in AccountPaths, stake \in Stakes : AddAccount(path, stake)
        \/ RandomAccount
        \/ Iterate
Spec == Init /\ [][Next]_vars
FairSpec == Spec /\ WF_vars(Iterate)
-----------------------------------------------------------------------------
(* The accounts of the tree and their stakes, get_main_state.               *)
MainStakes ==
  LET nodes == AccountsUnder(top)
  IN [path \in {n.path : n \in nodes} |->
        (CHOOSE n \in nodes : n.path = path).account]

(* "Starting from genesis state" the tree of the genesis block is read back *)
(* as the state that genesis_state computes (state_machine.rs:1-10): the    *)
(* map from accounts to what the list said of them last.                    *)
StakesOrNone ==
  [path \in AccountPaths \cup DOMAIN MainStakes |->
     IF path \in DOMAIN MainStakes THEN MainStakes[path] ELSE None]
Abstract == INSTANCE FieldMap WITH Fields <- AccountPaths, Paths <- AccountPaths,
                                   Values <- Stakes, fields <- StakesOrNone
CommutesWithState == Abstract!Spec

(* No step of the construction fails, and whatever edges were split on the  *)
(* way, every node but an empty root has the shape that verification asks   *)
(* of it.                                                                   *)
GenesisIsWellFormed ==
  /\ ~top.failed
  /\ \A node \in NodesOf(top) : node # top => WellFormedNode(node)

(* At every node of the tree the stake is the sum over the accounts under   *)
(* it, so no stake is counted twice or lost when an account is replaced.    *)
StakeAddsUp ==
  \A node \in NodesOf(top) :
    node.stats.stake = MapThenSumSet(LAMBDA n : n.account, AccountsUnder(node))

(* The errors "index exceeds total stake" and "total stake does not equal   *)
(* sum of child node total stakes!" are never returned for such a tree.     *)
NoWalkError == walk \in {"none", "walking", "returned"}

(* An account is found at its path, and nothing at another one.             *)
LookupFindsAccounts ==
  \A path \in AccountPaths :
    LET found == LookupAccount(top, path)
    IN IF path \in DOMAIN MainStakes
       THEN found # None /\ found.path = path /\ found.account = MainStakes[path]
       ELSE found = None

(* stake_indexed_account "gets the account whose stake corresponds to the   *)
(* given index" (queries.rs:158).                                           *)
WalkReturns == walk = "walking" ~> walk = "returned"
=============================================================================
