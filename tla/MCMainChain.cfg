CONSTANTS
  None = None
  a1 = a1
  a2 = a2
  a3 = a3
  t1 = t1
  t2 = t2
  t3 = t3
  Accounts <- MCAccounts
  Trees <- MCTrees
  Stake <- MCStake
  AccountAt <- MCAccountAt
  RandVal <- MCRandVal
  Options <- MCAllOptions
  Timestamps <- MCTimestamps
  Genesis <- MCGenesis
  TreeEndorsed <- MCTreeEndorsed
  TopPath <- MCTopPath
  SignatureLists <- MCSignatureLists
  Paths <- MCPaths
  MaxVersion = 4
  MaxKnown = 5
SPECIFICATION Spec
INVARIANTS
  TypeOK
  OneBlockPerPeriod
  NoVersionError
  NoInfluence
  StakeSettled
  QuorumsKept
  ProposalsAreAccepted
\* Known blocks are complete when there are MaxKnown, or no later timestamp.
CHECK_DEADLOCK FALSE
