SPECIFICATION SpecAnyInput
CONSTANTS
  Jobs <- MCOneLineJobs
  WindowIds = {0, 1, 2}
  MaxRuns = 2
  TraceLen = 1
INVARIANTS
  SummaryMatchesOutput
