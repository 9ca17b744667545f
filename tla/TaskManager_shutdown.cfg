SPECIFICATION MainFairSpec
CONSTANTS
  MaxRuns = 2
  Ids = {a}
  Kinds = {"shell"}
  Outcomes = {"Success"}
  ChainLen = 2
  MaxConcurrent = 1
  ChanCap = 1
  MaxBatch = 1
  MaxContinuous = 0
  StoreMayFail = TRUE
  None = None
PROPERTY
  ShutdownCompletes
