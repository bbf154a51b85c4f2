CONSTANTS
  a1 = a1
  a2 = a2
  c1 = c1
  c2 = c2
  c3 = c3
  m0 = m0
  m1 = m1
  m2 = m2
  m3 = m3
  Addrs <- MCAddrs
  Comps <- MCComps
  Msgs <- MCMsgs
  None = None
  WhenToRun <- MCWhenToRun
  WhoRuns <- MCWhoRuns
  MessageComp <- MCMessageComp
  Outputs <- MCOutputs
  Sources <- MCSources
  MayFail <- MCMayFail
  MaxTime = 2
SPECIFICATION FairSpec
INVARIANTS
  TypeOK
  TimestampsHaveInputs
  RunsOnce
  RunsWithInputs
PROPERTY RunsWhereNothingFails
