SPECIFICATION Spec
CONSTANTS
  Pipelines <- BaselinePipelines
  Versions = 2
INVARIANTS
  ResultsOfThisRun
  WindowsOfTheTrace
