SPECIFICATION CoarsenSpec
CONSTANTS
  MAX_EDGES = 7
  MAX_LEVELS = 3
  MIN_COARSE_SIZE = 1
  NNodes = 4
  DEG = 2
INVARIANTS
  GreedyMatching
  EveryNodeNumbered
  Quotient
  LevelMarkers
