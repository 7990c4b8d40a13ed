SPECIFICATION Spec
CONSTANTS
  c1 = c1
  c2 = c2
  g1 = g1
  g2 = g2
  broken = broken
  Nobody = Nobody
  Callers <- TwoCallers
  Graphs <- ThreeGraphs
  Valid <- TwoValid
  First <- g1
  Calls <- EachAll
  MaxSchedulers = 4
  MaxHeld = 2
INVARIANTS
  TypeOK
  OneScheduler
  IdleIsIdle
  RunsWhatIsConnected
PROPERTIES
  WaitIsForCompletion
  UnlockReturns
