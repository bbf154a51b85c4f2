--------------------------- MODULE MCEndorsement ---------------------------
(* Construction and Endorsement with paths of three digits, after a genesis *)
(* block with three accounts, two of which have a common parent.            *)
EXTENDS Endorsement

A == <<0, 0, 0>>
B == <<0, 0, 1>>
C == <<1, 0, 0>>
D == <<1, 1, 0>>
E == <<1, 1, 1>>
MCAccounts == {A, B, C}
MCGenesisBalance == A :> 2 @@ B :> 1 @@ C :> 1
MCGenesisStake == A :> 1 @@ B :> 2 @@ C :> 1

SendTo(recipient, signer, fee) ==
  [command |-> "send", last_main |-> LastMain, fee |-> fee,
   recipient |-> recipient, send_amount |-> 1, signer |-> signer]
MCRequests ==
  {[account |-> A, action |-> SendTo(B, A, 0), prize |-> 0],
   [account |-> A, action |-> SendTo(C, A, 1), prize |-> 1],
   [account |-> B, action |-> SendTo(A, B, 0), prize |-> 0],
   [account |-> C, action |-> SendTo(A, C, 0), prize |-> 0]}
MCSuperPaths == {<<0>>, <<0, 0>>}
MCInvented == {D, E}
MCInnerPaths == {<<>>, <<0, 0>>, <<1, 1>>}

(* A quorum of three, in which one account was drawn twice.                 *)
MCQuorums(path) == {[members |-> {A, B}, threshold |-> 3]}
MCSignings == {<<A, B, C>>, <<A, C>>}

(* What Construction and what Endorsement makes does not depend on each     *)
(* other.  Either is explored while the other has not begun, so that their  *)
(* states add up and do not multiply.                                       *)
NothingMade == pool = {} /\ root = None
NothingPut == put = {}
MCInit == Init /\ PutInit
MCNext == \/ NothingPut /\ Next /\ UNCHANGED put
          \/ NothingMade /\ PutNext /\ UNCHANGED vars
MCSpec == MCInit /\ [][MCNext]_<<vars, put>>
=============================================================================
