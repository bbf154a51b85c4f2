----------------------------- MODULE MCLedger -----------------------------
(* Ledger on three accounts, two of which the genesis block holds. *)
EXTENDS Ledger, TLC

CONSTANTS a1, a2, a3

MCAccounts == {a1, a2, a3}
MCGenesisBalance == a1 :> 4 @@ a2 :> 2
MCGenesisStake == a1 :> 1 @@ a2 :> 0
=============================================================================
