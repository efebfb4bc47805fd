SPECIFICATION Spec
CONSTANTS
  FFT_N = 8
  P = 17
  Root = 2
  Inputs <- MCInputs
  Buf = 8
  Options <- MCOptions
  AnyFiles <- MCFiles
INVARIANTS
  ComputesDFT
  ReadsBeforeWrites
  FieldMoved
  FlowKept
