CONSTANTS
  q1 = q1
  q2 = q2
  e1 = e1
  Queries <- MCQueries
  EventTasks <- MCEventTasks
  Timeouts = {0}
  MaxTime = 1
  None = None
SPECIFICATION FairSpec
PROPERTY QueriesAreAnswered
