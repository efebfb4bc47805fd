SPECIFICATION PageSpec
CONSTANTS
  RankJobs <- MCJobs
  Regions <- MCRegions
  NODES = 3
  DEG = 1
  ITERS = 3
  TickDivs = {1, 2, 3}
  Hows <- MCHows
  TraceLen = 3
INVARIANTS
  RanksStillRight
  TraversalUntouched
  BurstPerIteration
  OutputInCycleOrder
PROPERTY
  ImplementsWindowBuffer
