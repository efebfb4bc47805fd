SPECIFICATION Spec
CONSTANTS
  Pipelines <- BaselinePipelines
  Versions = 2
INVARIANT
  AtEachIterationBegin
