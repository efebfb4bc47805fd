SPECIFICATION SplitSpec
CONSTANTS
  SplitJobs <- MCJobs
  IterIds <- MCIds
  MaxTick = 4
  NPackets = 1
  MaxMarks = 0
  Fields <- NewDecoder
  Converters = {"convert_trace"}
INVARIANT
  SplitByCycle
