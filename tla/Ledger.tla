------------------------------ MODULE Ledger ------------------------------
(***************************************************************************)
(* The state machine of the blockchain: state_machine.rs steps the state   *)
(* of all accounts from one main block to the next by running at most one  *)
(* action per account, as account_transform.rs runs it.  Main blocks form  *)
(* a tree, since any block may be extended.                                *)
(*                                                                         *)
(* A name with an underscore is a faulty variant of the definition after   *)
(* it, which the checks put in its place.                                  *)
(***************************************************************************)
EXTENDS LedgerTypes

CONSTANT MaxMain   \* bound: the number of main blocks

VARIABLE main      \* main[b] is block b; block 1 is the genesis block

(***************************************************************************)
(* AccountTransform.  Inside an action a field is read from fields_set if  *)
(* the action set it, and else from the last main block; `at` is the       *)
(* account's state with the fields set so far merged in.                   *)
(***************************************************************************)

(* get_data_field_bytes asked for the "send" field of account acct.  The    *)
(* argument acct decides only whether fields_set is consulted first (no     *)
(* action sets a send field before it reads one): either way the lookup in  *)
(* the last main block reads the data of this_account, so acct is not used. *)
HasSendField(at, acct, s) == s \in at.sends

CanPayFee_Unchecked(at, fee) == TRUE
CanPayFee(at, fee) == at.balance >= fee
PayFee(at, fee) == [at EXCEPT !.balance = @ - fee]

CanSend(at, p, this, s) ==
  /\ s.sender = this
  /\ s.last_main = p
  /\ at.balance >= s.send_amount
  /\ ~HasSendField(at, this, s)
DoSend_KeepsBalance(at, s) == [at EXCEPT !.sends = @ \cup {s}]
DoSend_OneSlot(at, s) == [at EXCEPT !.balance = @ - s.send_amount,
                                    !.sends = {s}]
DoSend(at, s) == [at EXCEPT !.balance = @ - s.send_amount,
                            !.sends = @ \cup {s}]

(* An overflowing u128 addition panics in the dev and test profiles, and    *)
(* then there is no next state; NoOverflow shows that the case never occurs.*)
CanReceive_Again(at, this, sender, s) ==
  /\ HasSendField(at, sender, s)
  /\ s.recipient = this
  /\ at.balance + s.send_amount <= MaxU128
CanReceive_AnyRecipient(at, this, sender, s) ==
  /\ HasSendField(at, sender, s)
  /\ s \notin at.received
  /\ at.balance + s.send_amount <= MaxU128
CanReceive(at, this, sender, s) ==
  /\ HasSendField(at, sender, s)
  /\ s.recipient = this
  /\ s \notin at.received
  /\ at.balance + s.send_amount <= MaxU128
DoReceive_Unmarked(at, s) == [at EXCEPT !.balance = @ + s.send_amount]
DoReceive(at, s) == [at EXCEPT !.balance = @ + s.send_amount,
                               !.received = @ \cup {s}]

(***************************************************************************)
(* Actions.  signer is the account whose key made a valid signature over   *)
(* the action; an invalid signature is one that no account made.  "other"  *)
(* is an unknown command, or arguments that are missing or do not decode:  *)
(* run_action leaves on each of these before it sets a field.  A receive   *)
(* of a hash that no account holds is refused like one of a hash that the  *)
(* account does not hold, so the sends enumerated are those of some block. *)
(***************************************************************************)
NoSigner == NoAccount
Signers == Accounts \cup {NoSigner}

Existing(b) == {a \in Accounts : main[b].accounts[a] # NoAccount}
KnownSends ==
  UNION {UNION {main[b].accounts[a].sends : a \in Existing(b)} :
           b \in DOMAIN main}

SendActions == [command : {"send"}, last_main : DOMAIN main, fee : Fees,
                recipient : Accounts, send_amount : Amounts,
                signer : Signers]
ReceiveActions == [command : {"receive"}, last_main : DOMAIN main,
                   fee : Fees, sender : Accounts, send : KnownSends,
                   signer : Signers]
OtherActions == [command : {"other"}, last_main : DOMAIN main, fee : Fees,
                 signer : Signers]
Actions == SendActions \cup ReceiveActions \cup OtherActions

SendInfoOf(act, this) ==
  [last_main |-> act.last_main, sender |-> this,
   recipient |-> act.recipient, send_amount |-> act.send_amount]

(* run_action accepts act on account this of block p.  `at` is the account  *)
(* before the action, with the initial fields set if it is initializing.    *)
Accepts(p, this, act) ==
  LET is_initializing == main[p].accounts[this] = NoAccount
      at == IF is_initializing THEN FreshAccount ELSE main[p].accounts[this]
  IN /\ act.last_main = p
     /\ act.signer = this
     /\ \/ /\ act.command = "send"
           /\ ~is_initializing
           /\ CanPayFee(at, act.fee)
           /\ CanSend(PayFee(at, act.fee), p, this, SendInfoOf(act, this))
        \/ /\ act.command = "receive"
           /\ CanReceive(at, this, act.sender, act.send)
           /\ CanPayFee(DoReceive(at, act.send), act.fee)

(* The state that get_next_account_state computes when run_action accepts.  *)
RunAction(p, this, act) ==
  LET at == IF main[p].accounts[this] = NoAccount
            THEN FreshAccount ELSE main[p].accounts[this]
  IN IF act.command = "send"
     THEN DoSend(PayFee(at, act.fee), SendInfoOf(act, this))
     ELSE PayFee(DoReceive(at, act.send), act.fee)

(***************************************************************************)
(* The next state.  get_next_main_state takes a map from accounts to       *)
(* actions; an account with no action, or with one that run_action         *)
(* refuses, keeps its state.  The outcomes of the accounts are enumerated  *)
(* in place of the actions, most of which are refused.                     *)
(***************************************************************************)
Outcomes(p, a) ==
  {[account |-> a, state |-> main[p].accounts[a], fee |-> 0]}
  \cup {[account |-> a, state |-> RunAction(p, a, act), fee |-> act.fee] :
          act \in {x \in Actions : Accepts(p, a, x)}}

NextMain(p) ==
  /\ Len(main) < MaxMain
  /\ \E next \in [Accounts -> UNION {Outcomes(p, a) : a \in Accounts}] :
       /\ \A a \in Accounts : next[a].account = a
       /\ main' = Append(main,
                     [prev |-> p,
                      accounts |-> [a \in Accounts |-> next[a].state],
                      fees |-> [a \in Accounts |-> next[a].fee]])

Init == main = <<GenesisBlock>>
Next == \E p \in DOMAIN main : NextMain(p)
Spec == Init /\ [][Next]_main
-----------------------------------------------------------------------------
(* The type invariant: among others, no u128 balance goes below zero.       *)
TypeOK == main \in Seq(MainBlock)

(* The blocks other than the genesis block.                                 *)
Children == {b \in DOMAIN main : main[b].prev # 0}
Before(b) == main[main[b].prev].accounts
After(b) == main[b].accounts

(* Money neither appears nor disappears: from a block to the next, what the *)
(* accounts hold together with what was sent and not yet received decreases *)
(* by exactly the fees paid.  A send received twice, a receive that is not  *)
(* marked, or a balance changed by only one half of an action breaks it.    *)
Balance(state, a) == IF state[a] = NoAccount THEN 0 ELSE state[a].balance
InTransit(state, a) ==
  IF state[a] = NoAccount THEN 0
  ELSE MapThenSumSet(LAMBDA s : s.send_amount,
                     {s \in state[a].sends : ~Received(state, s)})
Worth(state) == Total([a \in Accounts |-> Balance(state, a)
                                           + InTransit(state, a)])
MoneyConserved ==
  \A b \in Children : Worth(After(b)) + Total(main[b].fees) = Worth(Before(b))

(* do_receive only ever credits an account with a send that names it as the *)
(* recipient and that is recorded in the data of the account that sent it.  *)
ReceivedWereSent ==
  \A b \in DOMAIN main : \A a \in Existing(b) :
    \A s \in main[b].accounts[a].received :
      s.recipient = a /\ Sent(main[b].accounts, s)

(* A send is tied to the block it was made after: along every branch the    *)
(* sends of an account only grow, by at most one per block, and the new one *)
(* carries the hash of the predecessor.  Hence no SendInfo, and no action,  *)
(* takes effect twice on a branch, and none made for another branch does.   *)
SendsOf(state, a) == IF state[a] = NoAccount THEN {} ELSE state[a].sends
SendsTiedToBranch ==
  \A b \in Children : \A a \in Accounts :
    LET old == SendsOf(Before(b), a)
        new == SendsOf(After(b), a)
    IN /\ old \subseteq new
       /\ \A s \in new \ old : s.last_main = main[b].prev /\ s.sender = a
       /\ \A s, t \in new \ old : s = t

(* The sum in do_receive never exceeds a u128, whatever balances the        *)
(* genesis block was given: what an account may still receive was once part *)
(* of its own balance.                                                      *)
NoOverflow ==
  \A b \in DOMAIN main : \A a \in Existing(b) :
    LET at == main[b].accounts[a]
        pending == {s \in at.sends : s.recipient = a /\ s \notin at.received}
    IN at.balance + MapThenSumSet(LAMBDA s : s.send_amount, pending)
         <= MaxU128

(* The ledger implements the abstract transfers: every block follows from   *)
(* its predecessor by accounts standing still, spending or collecting.      *)
Abstract == INSTANCE Transfers
ImplementsTransfers == Abstract!Spec

(* What field_send and field_received are for (account_transform.rs:58-66,  *)
(* "a SendInfo stored in the sender's data", "whether a SendInfo has been   *)
(* received in the receiver's data"): a send recorded by its sender can be  *)
(* received, free of charge, by the existing account it names.              *)
SentCanBeReceived ==
  \A b \in DOMAIN main : \A s \in KnownSends :
    /\ Sent(main[b].accounts, s)
    /\ s.recipient \in Existing(b)
    /\ ~Received(main[b].accounts, s)
    => Accepts(b, s.recipient,
               [command |-> "receive", last_main |-> b, fee |-> 0,
                sender |-> s.sender, send |-> s, signer |-> s.recipient])
=============================================================================
