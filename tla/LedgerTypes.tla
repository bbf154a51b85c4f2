---------------------------- MODULE LedgerTypes ----------------------------
(***************************************************************************)
(* The data of the ledger, shared by the detailed specification (Ledger)   *)
(* and by the abstract one (Transfers).                                    *)
(*                                                                         *)
(* Hashes are modelled as the identity of what they hash: a main block is  *)
(* the number under which it entered the block tree, a Hash<SendInfo> is   *)
(* the SendInfo itself, and an account (the hash of a public key) is an    *)
(* element of Accounts.                                                    *)
(***************************************************************************)
EXTENDS Naturals, Sequences, FiniteSetsExt

CONSTANTS
  Accounts,        \* the accounts that have a key pair
  NoAccount,       \* stands for "no node at the account's path"
  GenesisBalance,  \* the balance of each account of the genesis block
  GenesisStake,    \* its stake
  Amounts,         \* the send_amount values that actions carry
  Fees,            \* the fee values that actions carry
  MaxU128          \* the largest u128

U128 == 0..MaxU128

ASSUME LedgerAssumption ==
  /\ MaxU128 \in Nat
  /\ Amounts \subseteq U128
  /\ Fees \subseteq U128
  /\ DOMAIN GenesisBalance \subseteq Accounts
  /\ DOMAIN GenesisStake = DOMAIN GenesisBalance
  /\ \A a \in DOMAIN GenesisBalance :
       GenesisBalance[a] \in U128 /\ GenesisStake[a] \in U128

(* There are finitely many key pairs: what accounts hold can be summed up.  *)
ASSUME AccountsAreFinite == IsFiniteSet(Accounts)

(* What a send records: blockdata.rs, struct SendInfo.  Its initialize_spec *)
(* and message are carried along and never read.                            *)
SendInfo == [last_main : Nat, sender : Accounts, recipient : Accounts,
             send_amount : U128]

(* The data fields of an account: balance, stake, one "send" field for each *)
(* SendInfo it sent and one "received" field for each it received.  The     *)
(* public_key field is determined by the account and is left out.           *)
AccountState == [balance : U128, stake : U128,
                 sends : SUBSET SendInfo, received : SUBSET SendInfo]

ASSUME NoAccountAssumption == NoAccount \notin AccountState

(* The fields that run_action sets before anything else when the account is *)
(* initializing.                                                            *)
FreshAccount == [balance |-> 0, stake |-> 0, sends |-> {}, received |-> {}]

(* The state of every account after a main block, get_main_state.           *)
MainState == [Accounts -> AccountState \cup {NoAccount}]

(* A main block: its predecessor (0 for none), the accounts its tree holds, *)
(* and the stats.fee of each account's node, what its action paid.          *)
MainBlock == [prev : Nat, accounts : MainState, fees : [Accounts -> U128]]

GenesisState ==
  [a \in Accounts |->
     IF a \in DOMAIN GenesisBalance
     THEN [FreshAccount EXCEPT !.balance = GenesisBalance[a],
                               !.stake = GenesisStake[a]]
     ELSE NoAccount]

GenesisBlock == [prev |-> 0, accounts |-> GenesisState,
                 fees |-> [a \in Accounts |-> 0]]

(* The total of a quantity over the accounts.                               *)
Total(quantity) == MapThenSumSet(LAMBDA a : quantity[a], Accounts)

(* The send s is recorded in the data of its sender.                        *)
Sent(state, s) == /\ state[s.sender] # NoAccount
                  /\ s \in state[s.sender].sends

(* The send s is marked as received in the data of its recipient.           *)
Received(state, s) == /\ state[s.recipient] # NoAccount
                      /\ s \in state[s.recipient].received
=============================================================================
