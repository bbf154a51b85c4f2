CONSTANTS
  a1 = a1
  a2 = a2
  a3 = a3
  Accounts <- MCAccounts
  NoAccount = NoAccount
  GenesisBalance <- MCGenesisBalance
  GenesisStake <- MCGenesisStake
  Amounts = {1}
  Fees = {0, 2}
  MaxU128 = 4
  MaxMain = 4
SPECIFICATION Spec
INVARIANTS
  TypeOK
  MoneyConserved
  ReceivedWereSent
  SendsTiedToBranch
  NoOverflow
PROPERTY ImplementsTransfers
\* The tree of blocks is complete when it has MaxMain blocks.
CHECK_DEADLOCK FALSE
