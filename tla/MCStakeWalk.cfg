CONSTANTS
  PathLength = 3
  None = None
  AccountPaths <- MCAccountPaths
  Stakes = {0, 1, 2}
  DataNodes = 4
SPECIFICATION FairSpec
PROPERTY WalkReturns
