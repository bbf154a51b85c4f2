----------------------------- MODULE Transfers -----------------------------
(***************************************************************************)
(* What the ledger promises, without actions, signatures or data fields: a *)
(* tree of main blocks in which every block follows from its predecessor   *)
(* by each account standing still, spending, or collecting what was sent   *)
(* to it.  Ledger is shown to implement this specification.                *)
(***************************************************************************)
EXTENDS LedgerTypes

VARIABLE main      \* main[b] is block b; block 1 is the genesis block

Stand(old, new, a, fee) == new[a] = old[a] /\ fee = 0

(* a spends fee + amount and records a send that it had not recorded.       *)
Spend(p, old, new, a, fee) ==
  /\ old[a] # NoAccount
  /\ \E recipient \in Accounts, amount \in Amounts :
       LET s == [last_main |-> p, sender |-> a, recipient |-> recipient,
                 send_amount |-> amount]
       IN /\ s \notin old[a].sends
          /\ fee + amount <= old[a].balance
          /\ new[a] = [old[a] EXCEPT !.balance = @ - (fee + amount),
                                     !.sends = @ \cup {s}]

(* a collects, once, a send that its sender recorded for it.                *)
Collect(old, new, a, fee) ==
  LET mine == IF old[a] = NoAccount THEN FreshAccount ELSE old[a]
  IN \E sender \in {c \in Accounts : old[c] # NoAccount} :
     \E s \in old[sender].sends :
       /\ Sent(old, s) /\ s.recipient = a /\ s \notin mine.received
       /\ fee <= mine.balance + s.send_amount
       /\ new[a] = [mine EXCEPT !.balance = (@ + s.send_amount) - fee,
                                !.received = @ \cup {s}]

(* A block is added after block p.  What the accounts pay as fees leaves    *)
(* the ledger.                                                              *)
Extend(p) ==
  LET block == main'[Len(main) + 1]
  IN /\ main' = Append(main, block)
     /\ block \in MainBlock
     /\ block.prev = p
     /\ \A a \in Accounts :
          LET old == main[p].accounts
              new == block.accounts
              fee == block.fees[a]
          IN Stand(old, new, a, fee) \/ Spend(p, old, new, a, fee)
                                    \/ Collect(old, new, a, fee)

Init == main = <<GenesisBlock>>
Next == \E p \in DOMAIN main : Extend(p)
Spec == Init /\ [][Next]_main
=============================================================================
