SPECIFICATION FairSpec
CONSTANTS
  MaxRuns = 2
  Ids = {a}
  Kinds = {"shell", "continuous", "chain"}
  Outcomes = {"Success"}
  ChainLen = 2
  MaxConcurrent = 1
  ChanCap = 1
  MaxBatch = 1
  MaxContinuous = 1
  StoreMayFail = FALSE
  None = None
PROPERTIES
  EveryTaskEnds
