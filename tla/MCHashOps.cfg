CONSTANTS
  Nodes = {1, 2}
  Pids <- MCPids
  Bits = 3
  PidHash <- MCPidHash
  Copies = 2
  q1 = q1
  q2 = q2
  q3 = q3
  e1 = e1
  e2 = e2
  Queries <- MCQueries
  EventTasks <- MCEventTasks
  Timeouts = {0, 1}
  MaxTime = 1
  None = None
SPECIFICATION MCSpec
INVARIANTS
  TypeOK
  NoPanic
  RepliesMatch
  LookupsMeet
SYMMETRY Symmetry
