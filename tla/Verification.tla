---------------------------- MODULE Verification ----------------------------
(***************************************************************************)
(* verification.rs: whether the quorum tree of a main block follows from   *)
(* that of its predecessor, the last main block, by actions of accounts,   *)
(* or is vouched for by quorums.  Operators only; the specifications       *)
(* Endorsement and Construction use them.                                  *)
(*                                                                         *)
(* The last main block is a genesis block.  An account is its path.  The   *)
(* data tree of an account is the AccountState that can be read from it    *)
(* (DataTree); a signature is the account that made it, or None if invalid. *)
(*                                                                         *)
(* A name with an underscore is a faulty variant of the definition after   *)
(* it, which the checks put in its place.                                  *)
(***************************************************************************)
EXTENDS QuorumTree

CONSTANTS
  Accounts,        \* paths of length PathLength
  GenesisBalance, GenesisStake, Amounts, Fees, MaxU128,  \* see LedgerTypes
  DataNodes,       \* the data nodes that an action puts
  Quorums(_)       \* the quorums of a path: a set of [members, threshold]

ASSUME VerificationAssumption ==
  /\ \A a \in Accounts : Len(a) = PathLength
  /\ DOMAIN GenesisBalance \subseteq Accounts
  /\ DataNodes \in Nat

(***************************************************************************)
(* The last main block, which genesis_block_body made.                     *)
(***************************************************************************)
LastMain == 1

InitializeAccountNode(last_main, account, balance, stake) ==
  [EmptyNode(account) EXCEPT
     !.last_main = last_main,
     !.account = [balance |-> balance, stake |-> stake, sends |-> {}, received |-> {}],
     !.stats.stake = stake,
     !.stats.new_nodes = DataNodes]
LastTree ==
  LET AddAccount(a, top) ==
        AddChildToQuorumNode(
          InitializeAccountNode(None, a, GenesisBalance[a], GenesisStake[a]), top)
  IN FoldSet(AddAccount, [EmptyNode(<<>>) EXCEPT !.stats.new_nodes = 1],
             DOMAIN GenesisBalance)

(* A main block as Ledger sees it: get_main_state, and the fees of the      *)
(* accounts whose nodes were made after the main block last_main.           *)
BlockOf(prev, top, last_main) ==
  LET nodes == AccountsUnder(top)
      At(a) == CHOOSE n \in nodes : n.path = a
      Held == {n.path : n \in nodes}
  IN [prev |-> prev,
      accounts |-> [a \in Accounts |-> IF a \in Held THEN At(a).account ELSE None],
      fees |-> [a \in Accounts |->
                  IF a \in Held /\ At(a).last_main = last_main
                  THEN At(a).stats.fee ELSE 0]]
LastBlock == BlockOf(0, LastTree, LastMain)

Actions == INSTANCE Ledger WITH
             main <- <<LastBlock>>, NoAccount <- None, MaxMain <- 1

(* add_action_to_account, given an action that run_action accepts.          *)
AddActionToAccount(account, action, prize) ==
  LET state == Actions!RunAction(LastMain, account, action)
  IN [EmptyNode(account) EXCEPT
        !.last_main = LastMain,
        !.account = state,
        !.new_action = action,
        !.prize = prize,
        !.stats = [stake |-> state.stake, fee |-> action.fee, prize |-> prize,
                   new_nodes |-> DataNodes + 1]]
-----------------------------------------------------------------------------
(***************************************************************************)
(* An outcome is "ok", "error", or "panic" where an index is out of range. *)
(***************************************************************************)
FirstFailure(outcomes) ==
  LET failures == SelectSeq(outcomes, LAMBDA o : o # "ok")
  IN IF failures = <<>> THEN "ok" ELSE Head(failures)
OkIf(condition) == IF condition THEN "ok" ELSE "error"

(* Whether quorum_node_body_score is not None.  No node has gas: account    *)
(* nodes are made without, and the others add up what their children have.  *)
HasScore_Positive(node) == node.stats.fee > node.stats.prize
HasScore(node) == node.stats.fee >= node.stats.prize

WellFormed(node) ==
  /\ node.last_main = LastMain
  /\ WellFormedNode(node)
  /\ Len(node.path) < PathLength => node.new_action = None
  /\ HasScore(node)

(* signatures_to_signers, and the loop over the quorums of the path.        *)
SignedByQuorum(node) ==
  LET signers == ToSet(node.signatures)
  IN /\ None \notin signers
     /\ Cardinality(signers) = Len(node.signatures)
     /\ \E quorum \in Quorums(node.path) :
          /\ Len(node.signatures) >= quorum.threshold
          /\ quorum.members \subseteq signers

LookupQuorumNode(path) == Tree!FollowPath(LastTree, path)
Unchanged(node) ==
  LookupQuorumNode(node.path) = {[node |-> node, postfix |-> <<>>]}

(* Whether a new child leads to the old child at the end of old_suffix.     *)
(* Both start from the old node, and suffix leads from it to the new node;  *)
(* but the end of suffix is taken, from the length of old_suffix on.        *)
KeepsChild_Any(node, suffix, old_suffix) == "ok"
KeepsChild(node, suffix, old_suffix) ==
  IF Len(old_suffix) > Len(suffix)
  THEN "panic"
  ELSE OkIf(\E d \in Digits(node) :
              IsPrefix(<<d>> \o node.children[d].suffix,
                       SubSeq(suffix, Len(old_suffix) + 1, Len(suffix))))
KeepsChildren(node) ==
  LET found == LookupQuorumNode(node.path)
      old == CHOOSE at \in found : TRUE
      OldSuffix(d) == <<d>> \o old.node.children[d].suffix
      Under(d) == IsPrefix(old.postfix, OldSuffix(d))
      under == SelectSeq(SetToSortSeq(Digits(old.node), <), Under)
  IN IF found = {} THEN "ok"
     ELSE FirstFailure([i \in DOMAIN under |->
                          KeepsChild(node, old.postfix, OldSuffix(under[i]))])

VerifyAccount_Signed(node) ==
  OkIf(/\ node.new_action # None
       /\ node.new_action.signer = node.path
       /\ node.new_action.last_main = LastMain
       /\ node.stats.fee = node.new_action.fee)
VerifyAccount(node) ==
  OkIf(/\ node.new_action # None
       /\ Actions!Accepts(LastMain, node.path, node.new_action)
       /\ node = AddActionToAccount(node.path, node.new_action, node.prize))

(* verify_endorsed_quorum_node.  The part for a node without signatures is  *)
(* verify_valid_quorum_node_body, which checks well-formedness once more.   *)
HasChildrensStats_Not(node) == "ok"
HasChildrensStats(node) == OkIf(node = ReplaceChildren(node, node.children))
RECURSIVE VerifyEndorsed(_)
VerifyEndorsed(node) ==
  LET digits == SetToSortSeq(Digits(node), <)
      VerifyChild(child) == IF Unchanged(child) THEN "ok" ELSE VerifyEndorsed(child)
      children == [i \in DOMAIN digits |-> VerifyChild(Child(node, digits[i]))]
  IN CASE ~WellFormed(node) -> "error"
       [] WellFormed(node) /\ node.signatures # None -> OkIf(SignedByQuorum(node))
       [] WellFormed(node) /\ node.signatures = None /\ node.prize # 0 -> "error"
       [] OTHER ->
            IF Len(node.path) = PathLength THEN VerifyAccount(node)
            ELSE FirstFailure(<<KeepsChildren(node), FirstFailure(children),
                                HasChildrensStats(node)>>)

(* verify_valid_main_block_body, of the tree of the next main block.        *)
VerifyTree(top) ==
  IF top.path # <<>> THEN "error"
  ELSE IF top = LastTree THEN "ok" ELSE VerifyEndorsed(top)
=============================================================================
