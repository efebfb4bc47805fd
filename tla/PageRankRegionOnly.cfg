SPECIFICATION PageSpec
CONSTANTS
  RankJobs <- NoJobs
  Regions <- MCRegions
  NODES = 3
  DEG = 1
  ITERS = 2
  TickDivs = {2}
  Hows <- MCHows
  TraceLen = 0
INVARIANT
  RankOnlyReadsPrevious
