CONSTANTS
  a1 = a1
  a2 = a2
  a3 = a3
  Accounts <- MCAccounts
  NoAccount = NoAccount
  GenesisBalance <- MCGenesisBalance
  GenesisStake <- MCGenesisStake
  Amounts = {2}
  Fees = {0, 1}
  MaxU128 = 8
  MaxMain = 3
SPECIFICATION Spec
INVARIANT SentCanBeReceived
CHECK_DEADLOCK FALSE
