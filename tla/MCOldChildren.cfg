CONSTANTS
  PathLength = 3
  None = None
  Accounts <- MCAccounts
  GenesisBalance <- MCGenesisBalance
  GenesisStake <- MCGenesisStake
  Amounts = {1}
  Fees = {0, 1}
  MaxU128 = 2
  DataNodes = 4
  Quorums <- MCQuorums
  Requests <- MCRequests
  Scores = {1, 3}
  SuperPaths <- MCSuperPaths
  MaxPool = 3
  Invented <- MCInvented
  InnerPaths <- MCInnerPaths
  Signings <- MCSignings
  MaxPut = 3
SPECIFICATION MCSpec
INVARIANT ValidNodesAreEndorsed
\* The nodes made, and those put, are bounded.
CHECK_DEADLOCK FALSE
