SPECIFICATION BothSpec
CONSTANTS
  Inputs <- MCInputs
  Deltas <- MCDeltas
  DefaultDelta <- MCDefault
  Gaps <- MCGaps
  WindowIds = {0, 1, 2}
  TraceLen = 3
INVARIANTS
  Conservation
  DependencesKept
  RewritersAgree
  RangesAgree
  GcellOnlyAgrees
  FinalCyclesAgree
