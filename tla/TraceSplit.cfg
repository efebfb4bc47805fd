SPECIFICATION SplitSpec
CONSTANTS
  SplitJobs <- MCJobs
  IterIds <- MCIds
  MaxTick = 6
  NPackets = 3
  MaxMarks = 4
  Fields <- MCFields
  Converters = {"parse_gem5_trace"}
INVARIANTS
  SplitByCycle
  WithinACycle
  ZeroedFits
  LogReadersAgree
