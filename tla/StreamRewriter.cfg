SPECIFICATION FairSpec
CONSTANTS
  Jobs <- MCJobs
  WindowIds = {0, 1, 2}
  MaxRuns = 3
  TraceLen = 3
INVARIANTS
  TypeOK
  Conservation
  OnlyOwnLines
  OutputInCycleOrder
  DependencesKept
  SummaryMatchesOutput
PROPERTIES
  ImplementsWindowBuffer
  EventuallyDone
