--------------------------- MODULE LedgerProofs ---------------------------
(***************************************************************************)
(* Theorems of Ledger, for every set of accounts, genesis block, amounts,  *)
(* fees, width of a balance and number of blocks.                          *)
(***************************************************************************)
EXTENDS Ledger, FiniteSetTheorems, TLAPS

(* What is known of sums, which do not depend on the kind of a tree.        *)
Left(a, b) == a
Sums == INSTANCE RadixTreeProofs
          WITH ReplaceChildren <- Left, FromSingleChild <- Left, NewNode <- Left

SumOf(f, S) == MapThenSumSet(LAMBDA x : f[x], S)
LEMMA SameSum == ASSUME NEW f, NEW S PROVE SumOf(f, S) = Sums!SumOf(f, S)
BY DEF SumOf, Sums!SumOf, MapThenSumSet, Sums!MapThenSumSet,
       MapThenFoldSet, Sums!MapThenFoldSet

LEMMA SameFinite == ASSUME NEW S PROVE IsFiniteSet(S) <=> Sums!IsFiniteSet(S)
BY DEF IsFiniteSet, Sums!IsFiniteSet

LEMMA SumOfNone == ASSUME NEW f PROVE SumOf(f, {}) = 0
BY SameSum, Sums!SumOfNone

LEMMA SumInNat ==
  ASSUME NEW f, NEW S, IsFiniteSet(S), \A x \in S : f[x] \in Nat
  PROVE  SumOf(f, S) \in Nat
BY SameSum, SameFinite, Sums!SumInNat

LEMMA SumTakesOut ==
  ASSUME NEW f, NEW S, IsFiniteSet(S), \A x \in S : f[x] \in Nat,
         NEW e \in S
  PROVE  SumOf(f, S) = f[e] + SumOf(f, S \ {e})
BY SameSum, SameFinite, Sums!SumTakesOut

LEMMA SumPutsIn ==
  ASSUME NEW f, NEW S, IsFiniteSet(S), NEW e, e \notin S,
         \A x \in S \cup {e} : f[x] \in Nat
  PROVE  SumOf(f, S \cup {e}) = f[e] + SumOf(f, S)
BY SameSum, SameFinite, Sums!SumPutsIn

LEMMA SumsAdd ==
  ASSUME NEW f, NEW g, NEW h, NEW S, IsFiniteSet(S),
         \A x \in S : f[x] \in Nat /\ g[x] \in Nat /\ h[x] = f[x] + g[x]
  PROVE  SumOf(h, S) = SumOf(f, S) + SumOf(g, S)
BY SameSum, SameFinite, Sums!SumsAdd

(* What Outcomes guarantees of one account of a block: the account stands   *)
(* still, or an action of the code was accepted and ran.                    *)
Ran(p, a, state, fee) ==
  \E act \in Actions : /\ Accepts(p, a, act)
                       /\ state = RunAction(p, a, act)
                       /\ fee = act.fee

(* A block that NextMain may add after block p.                             *)
NewBlock(p, block) ==
  /\ block = [prev |-> p, accounts |-> block.accounts, fees |-> block.fees]
  /\ block.accounts = [a \in Accounts |-> block.accounts[a]]
  /\ block.fees = [a \in Accounts |-> block.fees[a]]
  /\ \A a \in Accounts :
       \/ block.accounts[a] = main[p].accounts[a] /\ block.fees[a] = 0
       \/ Ran(p, a, block.accounts[a], block.fees[a])

LEMMA NextAddsBlock ==
  ASSUME Next
  PROVE  \E p \in DOMAIN main : \E block : /\ NewBlock(p, block)
                                           /\ main' = Append(main, block)
<1>1. PICK p \in DOMAIN main : NextMain(p)
  BY DEF Next
<1>2. PICK next \in [Accounts -> UNION {Outcomes(p, a) : a \in Accounts}] :
         /\ \A a \in Accounts : next[a].account = a
         /\ main' = Append(main, [prev |-> p,
                      accounts |-> [a \in Accounts |-> next[a].state],
                      fees |-> [a \in Accounts |-> next[a].fee]])
  BY <1>1 DEF NextMain
<1> DEFINE block == [prev |-> p,
                     accounts |-> [a \in Accounts |-> next[a].state],
                     fees |-> [a \in Accounts |-> next[a].fee]]
<1>3. ASSUME NEW a \in Accounts
      PROVE  \/ next[a].state = main[p].accounts[a] /\ next[a].fee = 0
             \/ Ran(p, a, next[a].state, next[a].fee)
  <2>1. PICK c \in Accounts : next[a] \in Outcomes(p, c)
    BY <1>2
  <2>2. c = a
    BY <1>2, <2>1 DEF Outcomes
  <2>3. QED
    BY <2>1, <2>2 DEF Outcomes, Ran
<1>4. NewBlock(p, block)
  BY <1>3 DEF NewBlock
<1>5. QED
  BY <1>2, <1>4
-----------------------------------------------------------------------------
(* The two ways in which an accepted action changes an account.  It is an   *)
(* account of block p in both: an initializing one can neither send nor     *)
(* find the send that it would receive.                                     *)
SentOne(p, a, old, state, fee) ==
  \E s \in SendInfo :
    /\ s.sender = a /\ s.last_main = p /\ s.send_amount \in Amounts
    /\ s \notin old.sends
    /\ fee + s.send_amount <= old.balance
    /\ state = [balance |-> old.balance - (fee + s.send_amount),
                stake |-> old.stake, sends |-> old.sends \cup {s},
                received |-> old.received]
ReceivedOne(a, old, state, fee) ==
  \E s \in old.sends :
    /\ s.recipient = a /\ s \notin old.received
    /\ old.balance + s.send_amount <= MaxU128
    /\ fee <= old.balance + s.send_amount
    /\ state = [balance |-> (old.balance + s.send_amount) - fee,
                stake |-> old.stake, sends |-> old.sends,
                received |-> old.received \cup {s}]

LEMMA TypeOfBlock ==
  ASSUME TypeOK, NEW p \in DOMAIN main
  PROVE  /\ main[p] \in MainBlock
         /\ \A a \in Accounts : main[p].accounts[a] \in AccountState \cup {NoAccount}
         /\ p \in Nat /\ p > 0 /\ p <= Len(main)
<1>1. main \in Seq(MainBlock)
  BY DEF TypeOK
<1>2. /\ p \in 1..Len(main) /\ Len(main) \in Nat
      /\ main[p] \in MainBlock
  BY <1>1
<1>3. main[p].accounts \in MainState
  BY <1>2 DEF MainBlock
<1>4. QED
  BY <1>2, <1>3 DEF MainState

LEMMA RanChanges ==
  ASSUME TypeOK, NEW p \in DOMAIN main, NEW a \in Accounts, NEW state, NEW fee,
         Ran(p, a, state, fee)
  PROVE  /\ main[p].accounts[a] \in AccountState
         /\ fee \in U128
         /\ \/ SentOne(p, a, main[p].accounts[a], state, fee)
            \/ ReceivedOne(a, main[p].accounts[a], state, fee)
<1> DEFINE old == main[p].accounts[a]
           at == IF old = NoAccount THEN FreshAccount ELSE old
<1>1. PICK act \in Actions : /\ Accepts(p, a, act)
                             /\ state = RunAction(p, a, act)
                             /\ fee = act.fee
  BY DEF Ran
<1>2. old \in AccountState \cup {NoAccount} /\ p \in Nat
  BY TypeOfBlock
<1>3. act.fee \in U128
  BY LedgerAssumption DEF Actions, SendActions, ReceiveActions, OtherActions
<1>4. CASE act.command = "send"
  <2> DEFINE s == SendInfoOf(act, a)
  <2>1. act \in SendActions
    BY <1>4 DEF Actions, SendActions, ReceiveActions, OtherActions
  <2>2. /\ old # NoAccount
        /\ act.last_main = p
        /\ CanPayFee(old, fee)
        /\ CanSend(PayFee(old, fee), p, a, s)
        /\ state = DoSend(PayFee(old, fee), s)
    BY <1>1, <1>4 DEF Accepts, RunAction
  <2>3. old \in AccountState
    BY <1>2, <2>2
  <2>4. s \in SendInfo /\ s.send_amount \in Amounts
    BY <1>2, <2>1, <2>2, LedgerAssumption DEF SendActions, SendInfoOf, SendInfo
  <2>5. SentOne(p, a, old, state, fee)
    <3> HIDE DEF s
    <3>1. PICK x \in SendInfo : x = s
      BY <2>4
    <3>2. x.send_amount \in Nat /\ fee \in Nat /\ old.balance \in Nat
      BY <1>1, <1>3, <2>3, LedgerAssumption DEF SendInfo, AccountState, U128
    <3>3. /\ x.sender = a /\ x.last_main = p /\ x \notin old.sends
          /\ fee <= old.balance /\ x.send_amount <= old.balance - fee
      BY <2>2, <2>3, <3>1
         DEF CanPayFee, CanSend, PayFee, HasSendField, AccountState
    <3>4. state = [balance |-> old.balance - fee - x.send_amount,
                   stake |-> old.stake, sends |-> old.sends \cup {x},
                   received |-> old.received]
      BY <2>2, <2>3, <3>1 DEF DoSend, PayFee, AccountState
    <3> HIDE DEF old
    <3>5. /\ fee + x.send_amount <= old.balance
          /\ old.balance - fee - x.send_amount = old.balance - (fee + x.send_amount)
      BY <3>2, <3>3
    <3>6. QED
      BY <2>4, <3>1, <3>3, <3>4, <3>5 DEF SentOne
  <2>6. QED
    BY <1>1, <1>3, <2>3, <2>5
<1>5. CASE act.command # "send"
  <2>1. /\ act.command = "receive"
        /\ CanReceive(at, a, act.sender, act.send)
        /\ CanPayFee(DoReceive(at, act.send), fee)
        /\ state = PayFee(DoReceive(at, act.send), fee)
    BY <1>1, <1>5 DEF Accepts, RunAction
  <2>2. old # NoAccount
    BY <2>1 DEF CanReceive, HasSendField, FreshAccount
  <2>3. old \in AccountState /\ at = old
    BY <1>2, <2>2
  <2>4. PICK s \in old.sends : s = act.send
    BY <2>1, <2>3 DEF CanReceive, HasSendField
  <2>5. s.send_amount \in Nat /\ fee \in Nat /\ old.balance \in Nat
    BY <1>1, <1>3, <2>3, LedgerAssumption DEF SendInfo, AccountState, U128
  <2>6. /\ s.recipient = a /\ s \notin old.received
        /\ old.balance + s.send_amount <= MaxU128
    BY <2>1, <2>3, <2>4 DEF CanReceive
  <2>7. /\ fee <= old.balance + s.send_amount
        /\ state = [balance |-> (old.balance + s.send_amount) - fee,
                    stake |-> old.stake, sends |-> old.sends,
                    received |-> old.received \cup {s}]
    BY <2>1, <2>3, <2>4 DEF CanPayFee, PayFee, DoReceive, AccountState
  <2>8. ReceivedOne(a, old, state, fee)
    BY <2>6, <2>7 DEF ReceivedOne
  <2>9. QED
    BY <1>1, <1>3, <2>3, <2>8
<1>6. QED
  BY <1>4, <1>5
-----------------------------------------------------------------------------
(* The inductive invariant.  That a send is received by the account it      *)
(* names follows from more than the receive's guard: the send was found     *)
(* among the receiver's own, so it has to be known that an account holds    *)
(* only sends of its own, and that nothing removes a send once recorded.    *)
PrevIsOlder == \A b \in DOMAIN main : main[b].prev < b
SendsAreOwn ==
  \A b \in DOMAIN main : \A a \in Accounts :
    main[b].accounts[a] # NoAccount =>
      \A s \in main[b].accounts[a].sends : s.sender = a
ReceivedAreOwn ==
  \A b \in DOMAIN main : \A a \in Accounts :
    main[b].accounts[a] # NoAccount =>
      \A s \in main[b].accounts[a].received :
        s.recipient = a /\ s \in main[b].accounts[a].sends
IInv == /\ TypeOK
        /\ PrevIsOlder
        /\ SendsAreOwn
        /\ ReceivedAreOwn
        /\ SendsTiedToBranch

(* What an accepted action makes of an account of block p.                  *)
LEMMA RanPreserves ==
  ASSUME IInv, NEW p \in DOMAIN main, NEW a \in Accounts, NEW state, NEW fee,
         Ran(p, a, state, fee)
  PROVE  /\ state \in AccountState
         /\ \A s \in state.sends : s.sender = a
         /\ \A s \in state.received : s.recipient = a /\ s \in state.sends
         /\ LET old == main[p].accounts[a].sends
            IN /\ old \subseteq state.sends
               /\ \A s \in state.sends \ old : s.last_main = p /\ s.sender = a
               /\ \A s, t \in state.sends \ old : s = t
<1> DEFINE old == main[p].accounts[a]
<1>1. /\ old \in AccountState /\ fee \in U128
      /\ SentOne(p, a, old, state, fee) \/ ReceivedOne(a, old, state, fee)
  BY RanChanges DEF IInv
<1>2. old # NoAccount
  BY <1>1, NoAccountAssumption
<1>3. /\ \A s \in old.sends : s.sender = a
      /\ \A s \in old.received : s.recipient = a /\ s \in old.sends
  BY <1>2 DEF IInv, SendsAreOwn, ReceivedAreOwn
<1> HIDE DEF old
<1>4. /\ old.balance \in Nat /\ old.balance <= MaxU128 /\ old.stake \in U128
      /\ old.sends \subseteq SendInfo /\ old.received \subseteq SendInfo
      /\ fee \in Nat /\ MaxU128 \in Nat
  BY <1>1, LedgerAssumption DEF AccountState, U128
<1>5. CASE SentOne(p, a, old, state, fee)
  <2>1. PICK s \in SendInfo :
          /\ s.sender = a /\ s.last_main = p
          /\ fee + s.send_amount <= old.balance
          /\ state = [balance |-> old.balance - (fee + s.send_amount),
                      stake |-> old.stake, sends |-> old.sends \cup {s},
                      received |-> old.received]
    BY <1>5 DEF SentOne
  <2>2. s.send_amount \in Nat
    BY <1>4 DEF SendInfo, U128
  <2>3. old.balance - (fee + s.send_amount) \in U128
    BY <1>4, <2>1, <2>2 DEF U128
  <2>4. state \in AccountState
    BY <1>4, <2>1, <2>3 DEF AccountState
  <2>5. QED
    BY <1>3, <2>1, <2>4 DEF old
<1>6. CASE ReceivedOne(a, old, state, fee)
  <2>1. PICK s \in old.sends :
          /\ s.recipient = a
          /\ old.balance + s.send_amount <= MaxU128
          /\ fee <= old.balance + s.send_amount
          /\ state = [balance |-> (old.balance + s.send_amount) - fee,
                      stake |-> old.stake, sends |-> old.sends,
                      received |-> old.received \cup {s}]
    BY <1>6 DEF ReceivedOne
  <2>2. s \in SendInfo /\ s.send_amount \in Nat
    BY <1>4, <2>1 DEF SendInfo, U128
  <2>3. (old.balance + s.send_amount) - fee \in U128
    BY <1>4, <2>1, <2>2 DEF U128
  <2>4. state \in AccountState
    BY <1>4, <2>1, <2>2, <2>3 DEF AccountState
  <2>5. QED
    BY <1>3, <2>1, <2>4 DEF old
<1>7. QED
  BY <1>1, <1>5, <1>6

LEMMA InitIInv == ASSUME Init PROVE IInv
<1>1. FreshAccount \in AccountState
  BY LedgerAssumption DEF FreshAccount, AccountState, U128
<1>2. GenesisState \in MainState
  <2>1. ASSUME NEW a \in DOMAIN GenesisBalance
        PROVE  [FreshAccount EXCEPT !.balance = GenesisBalance[a],
                                    !.stake = GenesisStake[a]] \in AccountState
    BY <1>1, LedgerAssumption DEF FreshAccount, AccountState
  <2>2. QED
    BY <2>1 DEF GenesisState, MainState
<1>3. GenesisBlock \in MainBlock
  BY <1>2, LedgerAssumption DEF GenesisBlock, MainBlock, U128
<1>4. main \in Seq(MainBlock) /\ DOMAIN main = {1} /\ main[1] = GenesisBlock
  BY <1>3 DEF Init
<1>5. ASSUME NEW a \in Accounts, GenesisState[a] # NoAccount
      PROVE  GenesisState[a].sends = {} /\ GenesisState[a].received = {}
  BY <1>5 DEF GenesisState, FreshAccount
<1>6. PrevIsOlder /\ SendsTiedToBranch
  BY <1>4 DEF GenesisBlock, PrevIsOlder, SendsTiedToBranch, Children
<1>7. SendsAreOwn /\ ReceivedAreOwn
  BY <1>4, <1>5 DEF GenesisBlock, SendsAreOwn, ReceivedAreOwn
<1>8. QED
  BY <1>4, <1>6, <1>7 DEF IInv, TypeOK

(* The blocks after a step are the blocks before it and the new one.        *)
LEMMA AppendBlock ==
  ASSUME TypeOK, NEW block \in MainBlock, main' = Append(main, block)
  PROVE  /\ main' \in Seq(MainBlock)
         /\ DOMAIN main' = DOMAIN main \cup {Len(main) + 1}
         /\ \A b \in DOMAIN main : b < Len(main) + 1 /\ b \in Nat /\ b # 0
                                  /\ main'[b] = main[b]
         /\ main'[Len(main) + 1] = block
         /\ Len(main) \in Nat
BY DEF TypeOK

LEMMA NewBlockType ==
  ASSUME IInv, NEW p \in DOMAIN main, NEW block, NewBlock(p, block)
  PROVE  /\ block \in MainBlock
         /\ block.prev = p
<1>1. ASSUME NEW a \in Accounts
      PROVE  /\ block.accounts[a] \in AccountState \cup {NoAccount}
             /\ block.fees[a] \in U128
  <2>1. CASE block.accounts[a] = main[p].accounts[a] /\ block.fees[a] = 0
    BY <2>1, TypeOfBlock, LedgerAssumption DEF IInv, U128
  <2>2. CASE Ran(p, a, block.accounts[a], block.fees[a])
    BY <2>2, RanPreserves, RanChanges DEF IInv
  <2>3. QED
    BY <2>1, <2>2 DEF NewBlock
<1>2. block.accounts \in MainState
  BY <1>1 DEF NewBlock, MainState
<1>3. block.fees \in [Accounts -> U128]
  BY <1>1 DEF NewBlock
<1>4. p \in Nat
  BY TypeOfBlock DEF IInv
<1>5. QED
  BY <1>2, <1>3, <1>4 DEF NewBlock, MainBlock

LEMMA NextIInv == ASSUME IInv, Next PROVE IInv'
<1>0. PICK p \in DOMAIN main : \E block : /\ NewBlock(p, block)
                                        /\ main' = Append(main, block)
  BY NextAddsBlock
<1>1. PICK block : NewBlock(p, block) /\ main' = Append(main, block)
  BY <1>0
<1>2. block \in MainBlock /\ block.prev = p
  BY <1>1, NewBlockType
<1> DEFINE n == Len(main) + 1
<1>3. /\ main' \in Seq(MainBlock)
      /\ DOMAIN main' = DOMAIN main \cup {n}
      /\ \A b \in DOMAIN main : b < n /\ b \in Nat /\ b # 0 /\ main'[b] = main[b]
      /\ main'[n] = block
      /\ n \in Nat
  BY <1>1, <1>2, AppendBlock DEF IInv
<1> HIDE DEF n
<1>4. TypeOK'
  BY <1>3 DEF TypeOK
<1>5. PrevIsOlder'
  BY <1>2, <1>3 DEF IInv, PrevIsOlder
<1>6. ASSUME NEW a \in Accounts, block.accounts[a] # NoAccount
      PROVE  /\ \A s \in block.accounts[a].sends : s.sender = a
             /\ \A s \in block.accounts[a].received :
                  s.recipient = a /\ s \in block.accounts[a].sends
  <2>1. CASE block.accounts[a] = main[p].accounts[a]
    BY <1>6, <2>1 DEF IInv, SendsAreOwn, ReceivedAreOwn
  <2>2. CASE Ran(p, a, block.accounts[a], block.fees[a])
    BY <2>2, RanPreserves
  <2>3. QED
    BY <1>1, <2>1, <2>2 DEF NewBlock
<1>7. SendsAreOwn' /\ ReceivedAreOwn'
  BY <1>3, <1>6 DEF IInv, SendsAreOwn, ReceivedAreOwn
<1>8. SendsTiedToBranch'
  <2>1. SUFFICES ASSUME NEW b \in DOMAIN main', main'[b].prev # 0,
                        NEW a \in Accounts
                 PROVE  LET old == SendsOf(main'[main'[b].prev].accounts, a)
                            new == SendsOf(main'[b].accounts, a)
                        IN /\ old \subseteq new
                           /\ \A s \in new \ old : s.last_main = main'[b].prev
                                                  /\ s.sender = a
                           /\ \A s, t \in new \ old : s = t
    BY DEF SendsTiedToBranch, Children, Before, After, SendsOf
  <2>2. CASE b \in DOMAIN main
    <3>1. main'[b] = main[b] /\ main[b].prev # 0
      BY <1>3, <2>1, <2>2
    <3>2. main[b].prev \in DOMAIN main
      <4>1. main[b].prev \in Nat /\ main[b].prev < b
        BY <2>2, TypeOfBlock DEF IInv, PrevIsOlder, MainBlock
      <4>2. b \in 1..Len(main) /\ Len(main) \in Nat /\ DOMAIN main = 1..Len(main)
        BY <2>2 DEF IInv, TypeOK
      <4>3. QED
        BY <3>1, <4>1, <4>2
    <3>3. main'[main[b].prev] = main[main[b].prev]
      BY <1>3, <3>2
    <3>4. QED
      BY <2>2, <3>1, <3>3
         DEF IInv, SendsTiedToBranch, Children, Before, After
  <2>3. CASE b = n
    <3>1. /\ main'[b] = block /\ main'[b].prev = p /\ main'[p] = main[p]
      BY <1>2, <1>3, <2>3
    <3>2. CASE block.accounts[a] = main[p].accounts[a]
      BY <3>1, <3>2 DEF SendsOf
    <3>3. CASE Ran(p, a, block.accounts[a], block.fees[a])
      <4>1. main[p].accounts[a] # NoAccount
        BY <3>3, RanChanges, NoAccountAssumption DEF IInv
      <4>2. block.accounts[a] # NoAccount
        BY <3>3, RanPreserves, NoAccountAssumption
      <4>3. QED
        BY <3>1, <3>3, <4>1, <4>2, RanPreserves DEF SendsOf
    <3>4. QED
      BY <1>1, <3>2, <3>3 DEF NewBlock
  <2>4. QED
    BY <1>3, <2>2, <2>3
<1>9. QED
  BY <1>4, <1>5, <1>7, <1>8 DEF IInv

THEOREM Invariant == Spec => []IInv
<1>1. ASSUME IInv, UNCHANGED main
      PROVE  IInv'
  <2>1. TypeOK' /\ PrevIsOlder'
    BY <1>1 DEF IInv, TypeOK, PrevIsOlder
  <2>2. SendsAreOwn' /\ ReceivedAreOwn'
    BY <1>1 DEF IInv, SendsAreOwn, ReceivedAreOwn
  <2>3. SendsTiedToBranch'
    BY <1>1 DEF IInv, SendsTiedToBranch, Children, Before, After, SendsOf
  <2>4. QED
    BY <2>1, <2>2, <2>3 DEF IInv
<1>2. IInv /\ [Next]_main => IInv'
  BY <1>1, NextIInv
<1>3. QED
  BY <1>2, InitIInv, PTL DEF Spec
-----------------------------------------------------------------------------
(* Every block of the tree is well typed; in particular no balance is below *)
(* zero or above the largest u128, whatever actions the blocks carry.       *)
THEOREM TypeCorrect == Spec => []TypeOK
<1>1. IInv => TypeOK
  BY DEF IInv
<1>2. QED
  BY <1>1, Invariant, PTL

(* An account is only ever credited with sends that name it and that their  *)
(* senders recorded.                                                        *)
THEOREM CreditsWereSent == Spec => []ReceivedWereSent
<1>1. IInv => ReceivedWereSent
  <2>1. SUFFICES ASSUME IInv, NEW b \in DOMAIN main, NEW a \in Existing(b),
                        NEW s \in main[b].accounts[a].received
                 PROVE  s.recipient = a /\ Sent(main[b].accounts, s)
    BY DEF ReceivedWereSent
  <2>2. a \in Accounts /\ main[b].accounts[a] # NoAccount
    BY DEF Existing
  <2>3. s.recipient = a /\ s \in main[b].accounts[a].sends
    BY <2>1, <2>2 DEF IInv, ReceivedAreOwn
  <2>4. s.sender = a
    BY <2>1, <2>2, <2>3 DEF IInv, SendsAreOwn
  <2>5. QED
    BY <2>2, <2>3, <2>4 DEF Sent
<1>2. QED
  BY <1>1, Invariant, PTL

(* A send takes effect at most once on a branch, and only on the branch it  *)
(* was made for.                                                            *)
THEOREM NoReplay == Spec => []SendsTiedToBranch
<1>1. IInv => SendsTiedToBranch
  BY DEF IInv
<1>2. QED
  BY <1>1, Invariant, PTL

(* The action of an account, as the abstract specification sees it.         *)
LEMMA RanIsTransfer ==
  ASSUME IInv, NEW p \in DOMAIN main, NEW block, NEW a \in Accounts,
         Ran(p, a, block.accounts[a], block.fees[a])
  PROVE  \/ Abstract!Spend(p, main[p].accounts, block.accounts, a, block.fees[a])
         \/ Abstract!Collect(main[p].accounts, block.accounts, a, block.fees[a])
<1> DEFINE old == main[p].accounts[a]
           new == block.accounts[a]
           fee == block.fees[a]
<1>1. /\ old \in AccountState
      /\ SentOne(p, a, old, new, fee) \/ ReceivedOne(a, old, new, fee)
  BY RanChanges DEF IInv
<1>2. old # NoAccount
  BY <1>1, NoAccountAssumption
<1>3. CASE SentOne(p, a, old, new, fee)
  <2> HIDE DEF old, new, fee
  <2>1. PICK s \in SendInfo :
          /\ s.sender = a /\ s.last_main = p /\ s.send_amount \in Amounts
          /\ s \notin old.sends
          /\ fee + s.send_amount <= old.balance
          /\ new = [balance |-> old.balance - (fee + s.send_amount),
                    stake |-> old.stake, sends |-> old.sends \cup {s},
                    received |-> old.received]
    BY <1>3 DEF SentOne
  <2>2. /\ s = [last_main |-> p, sender |-> a, recipient |-> s.recipient,
                send_amount |-> s.send_amount]
        /\ s.recipient \in Accounts
    BY <2>1 DEF SendInfo
  <2>3. new = [old EXCEPT !.balance = @ - (fee + s.send_amount),
                          !.sends = @ \cup {s}]
    <3> DEFINE x == old.balance - (fee + s.send_amount)
               y == old.sends \cup {s}
    <3>1. new = [balance |-> x, stake |-> old.stake, sends |-> y,
                 received |-> old.received]
      BY <2>1
    <3> HIDE DEF x, y
    <3>2. PICK spent : spent = [old EXCEPT !.balance = x, !.sends = y]
      OBVIOUS
    <3>3. new = spent
      BY <1>1, <3>1, <3>2 DEF AccountState
    <3>4. QED
      BY <3>2, <3>3 DEF x, y
  <2>4. \E recipient \in Accounts, amount \in Amounts :
          LET info == [last_main |-> p, sender |-> a, recipient |-> recipient,
                       send_amount |-> amount]
          IN /\ info \notin old.sends
             /\ fee + amount <= old.balance
             /\ new = [old EXCEPT !.balance = @ - (fee + amount),
                                  !.sends = @ \cup {info}]
    <3> s.recipient \in Accounts /\ s.send_amount \in Amounts
      BY <2>1, <2>2
    <3> WITNESS s.recipient \in Accounts, s.send_amount \in Amounts
    <3> QED
      BY <2>1, <2>2, <2>3
  <2>5. Abstract!Spend(p, main[p].accounts, block.accounts, a, block.fees[a])
    BY <1>2, <2>4 DEF Abstract!Spend, old, new, fee
  <2>6. QED
    BY <2>5
<1>4. CASE ReceivedOne(a, old, new, fee)
  <2> HIDE DEF old, new, fee
  <2>1. PICK s \in old.sends :
          /\ s.recipient = a /\ s \notin old.received
          /\ fee <= old.balance + s.send_amount
          /\ new = [balance |-> (old.balance + s.send_amount) - fee,
                    stake |-> old.stake, sends |-> old.sends,
                    received |-> old.received \cup {s}]
    BY <1>4 DEF ReceivedOne
  <2>2. s.sender = a
    BY <1>2, <2>1 DEF old, IInv, SendsAreOwn
  <2>3. Sent(main[p].accounts, s)
    BY <1>2, <2>1, <2>2 DEF Sent, old
  <2>4. new = [old EXCEPT !.balance = (@ + s.send_amount) - fee,
                          !.received = @ \cup {s}]
    <3> DEFINE x == (old.balance + s.send_amount) - fee
               y == old.received \cup {s}
    <3>1. new = [balance |-> x, stake |-> old.stake, sends |-> old.sends,
                 received |-> y]
      BY <2>1
    <3> HIDE DEF x, y
    <3>2. PICK collected : collected = [old EXCEPT !.balance = x, !.received = y]
      OBVIOUS
    <3>3. new = collected
      BY <1>1, <3>1, <3>2 DEF AccountState
    <3>4. QED
      BY <3>2, <3>3 DEF x, y
  <2>5. Abstract!Collect(main[p].accounts, block.accounts, a, block.fees[a])
    BY <1>2, <2>1, <2>3, <2>4 DEF Abstract!Collect, Sent, Abstract!Sent, old, new, fee
  <2>6. QED
    BY <2>5
<1>5. QED
  BY <1>1, <1>3, <1>4

(* Running actions as account_transform.rs does amounts to spending once    *)
(* and collecting once, atomically with the block.                          *)
THEOREM LedgerImplementsTransfers == Spec => ImplementsTransfers
<1>1. Init => Abstract!Init
  BY DEF Init, Abstract!Init, GenesisBlock, Abstract!GenesisBlock,
         GenesisState, Abstract!GenesisState, FreshAccount, Abstract!FreshAccount
<1>2. ASSUME IInv, Next
      PROVE  Abstract!Next
  <2>0. PICK p \in DOMAIN main : \E block : /\ NewBlock(p, block)
                                            /\ main' = Append(main, block)
    BY <1>2, NextAddsBlock
  <2>1. PICK block : NewBlock(p, block) /\ main' = Append(main, block)
    BY <2>0
  <2>2. block \in MainBlock /\ block.prev = p
    BY <1>2, <2>1, NewBlockType
  <2>3. main'[Len(main) + 1] = block
    BY <1>2, <2>1, <2>2, AppendBlock DEF IInv
  <2>4. ASSUME NEW a \in Accounts
        PROVE  \/ Abstract!Stand(main[p].accounts, block.accounts, a, block.fees[a])
               \/ Abstract!Spend(p, main[p].accounts, block.accounts, a, block.fees[a])
               \/ Abstract!Collect(main[p].accounts, block.accounts, a, block.fees[a])
    BY <1>2, <2>1, RanIsTransfer DEF NewBlock, Abstract!Stand
  <2>5. Abstract!Extend(p)
    BY <2>1, <2>2, <2>3, <2>4
       DEF Abstract!Extend, MainBlock, Abstract!MainBlock, MainState,
           Abstract!MainState, AccountState, Abstract!AccountState, SendInfo,
           Abstract!SendInfo, U128, Abstract!U128
  <2>6. QED
    BY <2>1, <2>5 DEF Abstract!Next
<1>3. IInv /\ [Next]_main => [Abstract!Next]_main
  BY <1>2
<1>4. QED
  BY <1>1, <1>3, Invariant, PTL DEF Spec, ImplementsTransfers, Abstract!Spec
-----------------------------------------------------------------------------
(***************************************************************************)
(* What accounts hold.  The two sums of Ledger, over the sends that are in *)
(* transit and over those that an account may still receive, are sums of   *)
(* the same values.                                                        *)
(***************************************************************************)
Amount == [s \in SendInfo |-> s.send_amount]
Outstanding(at) == {s \in at.sends : s \notin at.received}
Pending(at, a) == {s \in at.sends : s.recipient = a /\ s \notin at.received}

LEMMA SumOfAmounts ==
  ASSUME NEW S, S \subseteq SendInfo
  PROVE  MapThenSumSet(LAMBDA s : s.send_amount, S) = SumOf(Amount, S)
<1> DEFINE P(it) == it = [s \in SUBSET S |->
                            IF s = {} THEN 0
                            ELSE Sums!First(s).send_amount + it[s \ {Sums!First(s)}]]
<1>1. MapThenSumSet(LAMBDA s : s.send_amount, S) = (CHOOSE it : P(it))[S]
  BY DEF MapThenSumSet, MapThenFoldSet, Sums!First
<1>2. ASSUME NEW it
      PROVE  P(it) <=> Sums!IsSum(Amount, S, it)
  <2>1. ASSUME NEW s \in SUBSET S, s # {}
        PROVE  Sums!First(s).send_amount = Amount[Sums!First(s)]
    BY <2>1, Sums!FirstIsElement DEF Amount
  <2>2. [s \in SUBSET S |-> IF s = {} THEN 0
                            ELSE Sums!First(s).send_amount + it[s \ {Sums!First(s)}]]
        = [s \in SUBSET S |-> IF s = {} THEN 0
                              ELSE Amount[Sums!First(s)] + it[s \ {Sums!First(s)}]]
    BY <2>1
  <2>3. QED
    BY <2>2 DEF Sums!IsSum
<1> HIDE DEF P
<1>3. (CHOOSE it : P(it)) = (CHOOSE it : Sums!IsSum(Amount, S, it))
  BY <1>2
<1>4. QED
  BY <1>1, <1>3, Sums!SumIsChosen, SameSum

LEMMA HoldingsInNat ==
  ASSUME NEW a, NEW at \in AccountState, IsFiniteSet(at.sends)
  PROVE  /\ at.balance + SumOf(Amount, Pending(at, a)) \in Nat
         /\ at.balance + SumOf(Amount, Outstanding(at)) \in Nat
         /\ Pending(at, a) \subseteq SendInfo /\ Outstanding(at) \subseteq SendInfo
<1>1. /\ Pending(at, a) \in SUBSET at.sends /\ Outstanding(at) \in SUBSET at.sends
      /\ at.sends \subseteq SendInfo
  BY DEF Pending, Outstanding, AccountState
<1>2. \A s \in SendInfo : Amount[s] \in Nat
  BY LedgerAssumption DEF Amount, SendInfo, U128
<1>3. SumOf(Amount, Pending(at, a)) \in Nat /\ SumOf(Amount, Outstanding(at)) \in Nat
  BY <1>1, <1>2, FS_Subset, SumInNat
<1>4. at.balance \in Nat
  BY LedgerAssumption DEF AccountState, U128
<1>5. QED
  BY <1>1, <1>3, <1>4

(* What a block makes of an account: it stands still, or one of the two     *)
(* changes happens to it.                                                   *)
Moved(p, a, old, new, fee) ==
  \/ new = old /\ fee = 0
  \/ /\ old \in AccountState /\ new \in AccountState
     /\ fee \in U128
     /\ SentOne(p, a, old, new, fee) \/ ReceivedOne(a, old, new, fee)

(* The balance of an account and what it sent and has not received add up   *)
(* to less than before by the fee, and its balance and what it may still    *)
(* receive to no more than before.                                          *)
LEMMA MovedSums ==
  ASSUME NEW p, NEW a \in Accounts, NEW old \in AccountState,
         IsFiniteSet(old.sends), old.received \subseteq old.sends,
         NEW new \in AccountState, NEW fee \in Nat, Moved(p, a, old, new, fee)
  PROVE  /\ IsFiniteSet(new.sends)
         /\ old.balance + SumOf(Amount, Outstanding(old))
              = (new.balance + SumOf(Amount, Outstanding(new))) + fee
         /\ new.balance + SumOf(Amount, Pending(new, a))
              <= old.balance + SumOf(Amount, Pending(old, a))
<1>1. /\ old.balance \in Nat /\ new.balance \in Nat
      /\ old.sends \subseteq SendInfo /\ new.sends \subseteq SendInfo
  BY LedgerAssumption DEF AccountState, U128
<1>2. \A s \in SendInfo : Amount[s] \in Nat /\ Amount[s] = s.send_amount
  BY LedgerAssumption DEF Amount, SendInfo, U128
<1>3. ASSUME NEW S \in SUBSET old.sends
      PROVE  IsFiniteSet(S) /\ SumOf(Amount, S) \in Nat
  BY <1>1, <1>2, FS_Subset, SumInNat
<1> DEFINE out == SumOf(Amount, Outstanding(old))
           pend == SumOf(Amount, Pending(old, a))
<1>4. /\ Outstanding(old) \in SUBSET old.sends
      /\ Pending(old, a) \in SUBSET old.sends
  BY DEF Outstanding, Pending
<1>5. out \in Nat /\ pend \in Nat
  BY <1>3, <1>4
<1>6. ASSUME NEW S \in SUBSET old.sends, NEW s \in SendInfo, s \notin S
      PROVE  SumOf(Amount, S \cup {s}) = s.send_amount + SumOf(Amount, S)
  <2>1. IsFiniteSet(S) /\ \A x \in S \cup {s} : Amount[x] \in Nat
    BY <1>1, <1>2, <1>3, <1>6
  <2>2. SumOf(Amount, S \cup {s}) = Amount[s] + SumOf(Amount, S)
    BY ONLY <1>6, <2>1, SumPutsIn
  <2>3. QED
    BY <1>2, <2>2
<1>7. ASSUME NEW S \in SUBSET old.sends, NEW s \in S
      PROVE  SumOf(Amount, S) = s.send_amount + SumOf(Amount, S \ {s})
  <2>1. IsFiniteSet(S) /\ s \in SendInfo /\ \A x \in S : Amount[x] \in Nat
    BY <1>1, <1>2, <1>3
  <2>2. SumOf(Amount, S) = Amount[s] + SumOf(Amount, S \ {s})
    BY ONLY <1>7, <2>1, SumTakesOut
  <2>3. QED
    BY <1>2, <2>1, <2>2
<1>8. CASE new = old /\ fee = 0
  BY <1>1, <1>5, <1>8
<1>9. CASE SentOne(p, a, old, new, fee)
  <2>1. PICK s \in SendInfo :
          /\ s \notin old.sends
          /\ fee + s.send_amount <= old.balance
          /\ new = [balance |-> old.balance - (fee + s.send_amount),
                    stake |-> old.stake, sends |-> old.sends \cup {s},
                    received |-> old.received]
    BY <1>9 DEF SentOne
  <2>2. IsFiniteSet(new.sends)
    BY <2>1, FS_AddElement
  <2>3. Outstanding(new) = Outstanding(old) \cup {s} /\ s \notin Outstanding(old)
    BY <2>1 DEF Outstanding
  <2>4. SumOf(Amount, Outstanding(new)) = s.send_amount + out
    BY <1>6, <1>4, <2>3
  <2>5. \/ Pending(new, a) = Pending(old, a)
        \/ Pending(new, a) = Pending(old, a) \cup {s} /\ s \notin Pending(old, a)
    BY <2>1 DEF Pending
  <2>6. \/ SumOf(Amount, Pending(new, a)) = pend
        \/ SumOf(Amount, Pending(new, a)) = s.send_amount + pend
    BY <1>6, <1>4, <2>5
  <2>7. s.send_amount \in Nat /\ new.balance = old.balance - (fee + s.send_amount)
    BY <1>2, <2>1
  <2> HIDE DEF out, pend
  <2>8. /\ old.balance + out = (new.balance + (s.send_amount + out)) + fee
        /\ new.balance + pend <= old.balance + pend
        /\ new.balance + (s.send_amount + pend) <= old.balance + pend
    BY <1>1, <1>5, <2>1, <2>7
  <2>9. QED
    BY <2>2, <2>4, <2>6, <2>8 DEF out, pend
<1>10. CASE ReceivedOne(a, old, new, fee)
  <2>1. PICK s \in old.sends :
          /\ s.recipient = a /\ s \notin old.received
          /\ fee <= old.balance + s.send_amount
          /\ new = [balance |-> (old.balance + s.send_amount) - fee,
                    stake |-> old.stake, sends |-> old.sends,
                    received |-> old.received \cup {s}]
    BY <1>10 DEF ReceivedOne
  <2>2. IsFiniteSet(new.sends)
    BY <2>1
  <2>3. Outstanding(new) = Outstanding(old) \ {s} /\ s \in Outstanding(old)
    BY <2>1 DEF Outstanding
  <2>4. Pending(new, a) = Pending(old, a) \ {s} /\ s \in Pending(old, a)
    BY <2>1 DEF Pending
  <2>5. /\ out = s.send_amount + SumOf(Amount, Outstanding(new))
        /\ pend = s.send_amount + SumOf(Amount, Pending(new, a))
    BY <1>7, <1>4, <2>3, <2>4
  <2>6. /\ SumOf(Amount, Outstanding(new)) \in Nat
        /\ SumOf(Amount, Pending(new, a)) \in Nat
    BY <1>3, <1>4, <2>3, <2>4
  <2>7. /\ s.send_amount \in Nat
        /\ new.balance = (old.balance + s.send_amount) - fee
    BY <1>1, <1>2, <2>1
  <2> DEFINE outNew == SumOf(Amount, Outstanding(new))
             pendNew == SumOf(Amount, Pending(new, a))
  <2> HIDE DEF out, pend, outNew, pendNew
  <2>8. /\ outNew \in Nat /\ pendNew \in Nat
        /\ out = s.send_amount + outNew /\ pend = s.send_amount + pendNew
    BY <2>5, <2>6 DEF outNew, pendNew
  <2>9. /\ old.balance + out = (new.balance + outNew) + fee
        /\ new.balance + pendNew <= old.balance + pend
    BY <1>1, <2>1, <2>7, <2>8
  <2>10. QED
    BY <2>2, <2>9 DEF out, pend, outNew, pendNew
<1>11. QED
  BY <1>8, <1>9, <1>10 DEF Moved

(* The invariant that the sums need: every block follows from the one it    *)
(* extends by moves of its accounts, an account holds finitely many sends,  *)
(* and what it may still receive fits on top of its balance.                *)
BlocksMove ==
  \A b \in Children : /\ main[b].prev \in DOMAIN main
                      /\ \A a \in Accounts :
                           Moved(main[b].prev, a, Before(b)[a], After(b)[a],
                                 main[b].fees[a])
SendsAreFinite ==
  \A b \in DOMAIN main : \A a \in Existing(b) :
    IsFiniteSet(main[b].accounts[a].sends)
Covered(at, a) == at.balance + SumOf(Amount, Pending(at, a)) <= MaxU128
PendingIsCovered ==
  \A b \in DOMAIN main : \A a \in Existing(b) :
    Covered(main[b].accounts[a], a)
SumInv == BlocksMove /\ SendsAreFinite /\ PendingIsCovered

LEMMA InitSumInv == ASSUME Init PROVE SumInv
<1>1. DOMAIN main = {1} /\ main[1] = GenesisBlock
  BY DEF Init
<1>2. BlocksMove
  BY <1>1 DEF BlocksMove, Children, GenesisBlock
<1>3. ASSUME NEW b \in DOMAIN main, NEW a \in Existing(b)
      PROVE  /\ IsFiniteSet(main[b].accounts[a].sends)
             /\ Covered(main[b].accounts[a], a)
  <2> DEFINE at == main[b].accounts[a]
  <2>1. a \in Accounts /\ at = GenesisState[a] /\ at # NoAccount
    BY <1>1 DEF Existing, GenesisBlock
  <2>2. /\ a \in DOMAIN GenesisBalance
        /\ at = [FreshAccount EXCEPT !.balance = GenesisBalance[a],
                                     !.stake = GenesisStake[a]]
    BY <2>1 DEF GenesisState
  <2>3. at.sends = {} /\ at.balance \in Nat /\ at.balance <= MaxU128
    BY <2>2, LedgerAssumption DEF FreshAccount, U128
  <2> HIDE DEF at
  <2>4. Pending(at, a) = {}
    BY <2>3 DEF Pending
  <2>5. Covered(at, a)
    BY <2>3, <2>4, SumOfNone DEF Covered
  <2>6. QED
    BY <2>3, <2>5, FS_EmptySet DEF at
<1>4. QED
  BY <1>2, <1>3 DEF SumInv, SendsAreFinite, PendingIsCovered

LEMMA NewBlockMoves ==
  ASSUME IInv, NEW p \in DOMAIN main, NEW block, NewBlock(p, block),
         NEW a \in Accounts
  PROVE  Moved(p, a, main[p].accounts[a], block.accounts[a], block.fees[a])
<1>1. CASE Ran(p, a, block.accounts[a], block.fees[a])
  BY <1>1, RanChanges, RanPreserves DEF IInv, Moved
<1>2. QED
  BY <1>1 DEF NewBlock, Moved

(* What an account of block p is known to be.                               *)
LEMMA ExistingAccount ==
  ASSUME IInv, SendsAreFinite, NEW p \in DOMAIN main, NEW a \in Accounts,
         main[p].accounts[a] # NoAccount
  PROVE  /\ main[p].accounts[a] \in AccountState
         /\ IsFiniteSet(main[p].accounts[a].sends)
         /\ main[p].accounts[a].received \subseteq main[p].accounts[a].sends
         /\ \A s \in main[p].accounts[a].sends : s.sender = a
         /\ \A s \in main[p].accounts[a].received : s.recipient = a
BY TypeOfBlock DEF IInv, SendsAreFinite, Existing, ReceivedAreOwn, SendsAreOwn

LEMMA NextSumInv == ASSUME IInv, SumInv, Next PROVE SumInv'
<1>1. PICK p \in DOMAIN main : \E block : /\ NewBlock(p, block)
                                        /\ main' = Append(main, block)
  BY NextAddsBlock
<1>2. PICK block : NewBlock(p, block) /\ main' = Append(main, block)
  BY <1>1
<1>3. block \in MainBlock /\ block.prev = p
  BY <1>2, NewBlockType
<1> DEFINE n == Len(main) + 1
<1>4. /\ DOMAIN main' = DOMAIN main \cup {n}
      /\ \A b \in DOMAIN main : main'[b] = main[b]
      /\ main'[n] = block
  BY <1>2, <1>3, AppendBlock DEF IInv
<1> HIDE DEF n
<1>5. BlocksMove'
  <2>1. SUFFICES ASSUME NEW b \in DOMAIN main', main'[b].prev # 0
                 PROVE  LET q == main'[b].prev
                        IN /\ q \in DOMAIN main'
                           /\ \A a \in Accounts :
                                Moved(q, a, main'[q].accounts[a],
                                      main'[b].accounts[a], main'[b].fees[a])
    BY DEF BlocksMove, Children, Before, After, Moved, SentOne, ReceivedOne
  <2>2. CASE b \in DOMAIN main
    <3>1. main'[b] = main[b] /\ main[b].prev \in DOMAIN main /\ b \in Children
      BY <1>4, <2>1, <2>2 DEF SumInv, BlocksMove, Children
    <3>2. main'[main[b].prev] = main[main[b].prev]
      BY <1>4, <3>1
    <3>3. QED
      BY <1>4, <3>1, <3>2 DEF SumInv, BlocksMove, Before, After
  <2>3. CASE b = n
    <3>1. main'[b] = block /\ main'[p] = main[p]
      BY <1>4, <2>3
    <3>2. QED
      BY <1>2, <1>3, <1>4, <3>1, NewBlockMoves
  <2>4. QED
    BY <1>4, <2>2, <2>3
<1>6. ASSUME NEW a \in Accounts, block.accounts[a] # NoAccount
      PROVE  /\ IsFiniteSet(block.accounts[a].sends)
             /\ Covered(block.accounts[a], a)
  <2> DEFINE old == main[p].accounts[a]
             new == block.accounts[a]
             fee == block.fees[a]
  <2>1. Moved(p, a, old, new, fee)
    BY <1>2, NewBlockMoves
  <2>2. old # NoAccount
    BY <1>6, <2>1, NoAccountAssumption DEF Moved
  <2>3. /\ old \in AccountState /\ IsFiniteSet(old.sends)
        /\ old.received \subseteq old.sends
    BY <2>2, ExistingAccount DEF SumInv
  <2>4. new \in AccountState /\ fee \in Nat
    BY <1>3, <1>6, LedgerAssumption DEF MainBlock, MainState, U128
  <2>5. Covered(old, a)
    BY <2>2 DEF SumInv, PendingIsCovered, Existing
  <2> HIDE DEF old, new, fee
  <2>6. /\ IsFiniteSet(new.sends)
        /\ new.balance + SumOf(Amount, Pending(new, a))
             <= old.balance + SumOf(Amount, Pending(old, a))
    BY <2>1, <2>3, <2>4, MovedSums
  <2>7. /\ new.balance + SumOf(Amount, Pending(new, a)) \in Nat
        /\ old.balance + SumOf(Amount, Pending(old, a)) \in Nat
    BY <2>3, <2>4, <2>6, HoldingsInNat
  <2>8. Covered(new, a)
    BY <2>5, <2>6, <2>7, LedgerAssumption DEF Covered
  <2>9. QED
    BY <2>6, <2>8 DEF new
<1>7. ASSUME NEW b \in DOMAIN main', NEW a \in Accounts,
             main'[b].accounts[a] # NoAccount
      PROVE  /\ IsFiniteSet(main'[b].accounts[a].sends)
             /\ Covered(main'[b].accounts[a], a)
  BY <1>4, <1>6, <1>7 DEF SumInv, SendsAreFinite, PendingIsCovered, Existing
<1>8. QED
  BY <1>5, <1>7 DEF SumInv, SendsAreFinite, PendingIsCovered, Existing, Covered,
                    Pending

LEMMA SumInvariant == Spec => [](IInv /\ SumInv)
<1>1. ASSUME SumInv, UNCHANGED main
      PROVE  SumInv'
  <2>1. BlocksMove'
    <3>1. SUFFICES ASSUME NEW b \in DOMAIN main', main'[b].prev # 0
                   PROVE  LET q == main'[b].prev
                          IN /\ q \in DOMAIN main'
                             /\ \A a \in Accounts :
                                  Moved(q, a, main'[q].accounts[a],
                                        main'[b].accounts[a], main'[b].fees[a])
      BY DEF BlocksMove, Children, Before, After, Moved, SentOne, ReceivedOne
    <3>2. QED
      BY <1>1, <3>1 DEF SumInv, BlocksMove, Children, Before, After
  <2>2. SendsAreFinite' /\ PendingIsCovered'
    BY <1>1 DEF SumInv, SendsAreFinite, PendingIsCovered, Existing, Covered,
                Pending
  <2>3. QED
    BY <2>1, <2>2 DEF SumInv
<1>2. IInv /\ SumInv /\ [Next]_main => SumInv'
  BY <1>1, NextSumInv
<1>3. QED
  BY <1>2, InitSumInv, Invariant, PTL DEF Spec

(* No sum of balances that do_receive computes exceeds a u128, for every    *)
(* width of a balance and every genesis block: the case in which the        *)
(* program would panic does not occur.                                      *)
THEOREM BalancesDoNotOverflow == Spec => []NoOverflow
<1>1. IInv /\ SumInv => NoOverflow
  <2>1. SUFFICES ASSUME IInv, SumInv, NEW b \in DOMAIN main, NEW a \in Existing(b)
                 PROVE  LET at == main[b].accounts[a]
                        IN at.balance + MapThenSumSet(LAMBDA s : s.send_amount,
                                                      Pending(at, a))
                             <= MaxU128
    BY DEF NoOverflow, Pending
  <2> DEFINE at == main[b].accounts[a]
  <2>2. at \in AccountState /\ IsFiniteSet(at.sends)
    BY <2>1, ExistingAccount DEF Existing, SumInv
  <2>3. Covered(at, a)
    BY <2>1 DEF SumInv, PendingIsCovered
  <2> HIDE DEF at
  <2>4. Pending(at, a) \subseteq SendInfo
    BY <2>2, HoldingsInNat
  <2>5. MapThenSumSet(LAMBDA s : s.send_amount, Pending(at, a))
          = SumOf(Amount, Pending(at, a))
    BY <2>4, SumOfAmounts
  <2>6. at.balance + MapThenSumSet(LAMBDA s : s.send_amount, Pending(at, a))
          <= MaxU128
    BY <2>3, <2>5 DEF Covered
  <2>7. QED
    BY <2>6 DEF at
<1>2. QED
  BY <1>1, SumInvariant, PTL

(* What an account holds or has in transit.  Its sends can be received by   *)
(* nobody else, so that what it has in transit depends on its own data.     *)
Held(state, a) == Balance(state, a) + InTransit(state, a)

LEMMA HeldByExisting ==
  ASSUME IInv, SendsAreFinite, NEW p \in DOMAIN main, NEW a \in Accounts,
         main[p].accounts[a] # NoAccount
  PROVE  LET at == main[p].accounts[a]
         IN Held(main[p].accounts, a) = at.balance + SumOf(Amount, Outstanding(at))
<1> DEFINE state == main[p].accounts
           at == state[a]
<1>1. /\ at \in AccountState /\ IsFiniteSet(at.sends)
      /\ \A s \in at.sends : s.sender = a
      /\ \A s \in at.received : s.recipient = a
  BY ExistingAccount
<1>2. ASSUME NEW s \in at.sends
      PROVE  Received(state, s) <=> s \in at.received
  <2>1. CASE s \in at.received
    BY <1>1, <2>1 DEF Received
  <2>2. CASE Received(state, s)
    <3>1. s \in SendInfo
      BY <1>1 DEF AccountState
    <3>2. /\ s.recipient \in Accounts /\ state[s.recipient] # NoAccount
          /\ s \in state[s.recipient].received
      BY <2>2, <3>1 DEF Received, SendInfo
    <3>3. s.sender = s.recipient
      BY <3>2, ExistingAccount
    <3>4. s.recipient = a
      BY <1>1, <3>3
    <3>5. QED
      BY <2>2, <3>2, <3>4
  <2>3. QED
    BY <2>1, <2>2
<1>3. {s \in at.sends : ~ Received(state, s)} = Outstanding(at)
  BY <1>2 DEF Outstanding
<1>4. InTransit(state, a) = MapThenSumSet(LAMBDA s : s.send_amount, Outstanding(at))
  BY <1>3 DEF InTransit
<1>5. MapThenSumSet(LAMBDA s : s.send_amount, Outstanding(at))
        = SumOf(Amount, Outstanding(at))
  BY <1>1, HoldingsInNat, SumOfAmounts
<1>6. QED
  BY <1>4, <1>5 DEF Held, Balance

(* From a block to the next, what an account holds decreases by the fee     *)
(* that it paid.                                                            *)
LEMMA HeldDecreases ==
  ASSUME IInv, SumInv, NEW b \in Children, NEW a \in Accounts
  PROVE  /\ Held(After(b), a) \in Nat
         /\ main[b].fees[a] \in Nat
         /\ Held(Before(b), a) = Held(After(b), a) + main[b].fees[a]
<1> DEFINE p == main[b].prev
           old == main[p].accounts[a]
           new == main[b].accounts[a]
           fee == main[b].fees[a]
<1>1. b \in DOMAIN main /\ p \in DOMAIN main /\ Moved(p, a, old, new, fee)
  BY DEF SumInv, BlocksMove, Children, Before, After
<1>2. new \in AccountState \cup {NoAccount} /\ fee \in Nat
  BY <1>1, TypeOfBlock, LedgerAssumption DEF IInv, MainBlock, U128
<1>3. Before(b) = main[p].accounts /\ After(b) = main[b].accounts
  BY DEF Before, After
<1>4. CASE old = NoAccount
  <2>1. new = NoAccount /\ fee = 0
    BY <1>1, <1>4, NoAccountAssumption DEF Moved
  <2>2. Held(main[p].accounts, a) = 0 /\ Held(main[b].accounts, a) = 0
    BY <1>4, <2>1 DEF Held, Balance, InTransit
  <2>3. QED
    BY <1>3, <2>1, <2>2
<1>5. CASE old # NoAccount
  <2>1. /\ old \in AccountState /\ IsFiniteSet(old.sends)
        /\ old.received \subseteq old.sends
        /\ Held(main[p].accounts, a)
             = old.balance + SumOf(Amount, Outstanding(old))
    BY <1>1, <1>5, ExistingAccount, HeldByExisting DEF SumInv
  <2>2. new \in AccountState /\ new # NoAccount
    BY <1>1, <2>1, NoAccountAssumption DEF Moved
  <2>3. Held(main[b].accounts, a) = new.balance + SumOf(Amount, Outstanding(new))
    BY <1>1, <2>2, HeldByExisting DEF SumInv
  <2>4. IsFiniteSet(new.sends)
    BY <1>1, <2>2, ExistingAccount DEF SumInv
  <2> HIDE DEF old, new, fee, p
  <2>5. old.balance + SumOf(Amount, Outstanding(old))
          = (new.balance + SumOf(Amount, Outstanding(new))) + fee
    BY <1>1, <1>2, <2>1, <2>2, MovedSums
  <2>6. new.balance + SumOf(Amount, Outstanding(new)) \in Nat
    BY <2>2, <2>4, HoldingsInNat
  <2>7. QED
    BY <1>2, <1>3, <2>1, <2>3, <2>5, <2>6 DEF fee
<1>6. QED
  BY <1>4, <1>5

(* Over a block, what all accounts hold or have in transit decreases by     *)
(* exactly the fees of the block, for any number of accounts, transfers     *)
(* and branches: no action makes or destroys money.                         *)
THEOREM MoneyIsConserved == Spec => []MoneyConserved
<1>1. IInv /\ SumInv => MoneyConserved
  <2>1. SUFFICES ASSUME IInv, SumInv, NEW b \in Children
                 PROVE  Worth(After(b)) + Total(main[b].fees) = Worth(Before(b))
    BY DEF MoneyConserved
  <2> DEFINE before == [a \in Accounts |-> Held(Before(b), a)]
             after == [a \in Accounts |-> Held(After(b), a)]
             fees == main[b].fees
  <2>2. \A a \in Accounts : /\ after[a] \in Nat /\ fees[a] \in Nat
                            /\ before[a] = after[a] + fees[a]
    BY <2>1, HeldDecreases
  <2>3. /\ Worth(After(b)) = SumOf(after, Accounts)
        /\ Worth(Before(b)) = SumOf(before, Accounts)
        /\ Total(fees) = SumOf(fees, Accounts)
    BY DEF Worth, Total, SumOf, Held
  <2> HIDE DEF before, after, fees
  <2>4. SumOf(before, Accounts) = SumOf(after, Accounts) + SumOf(fees, Accounts)
    BY <2>2, AccountsAreFinite, SumsAdd
  <2>5. QED
    BY <2>3, <2>4 DEF fees
<1>2. QED
  BY <1>1, SumInvariant, PTL
=============================================================================
