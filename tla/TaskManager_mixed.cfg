SPECIFICATION Spec
CONSTANTS
  MaxRuns = 2
  Ids = {a, b}
  Kinds = {"shell", "sidecar", "continuous", "routed", "chain"}
  Outcomes = {"Success", "Failed"}
  ChainLen = 2
  MaxConcurrent = 1
  ChanCap = 2
  MaxBatch = 2
  MaxContinuous = 1
  StoreMayFail = FALSE
  None = None
SYMMETRY IdSymmetry
INVARIANTS
  LiveIsCancellable
  CountsAccurate
  EntryIsLive
  PermitsExact
  JournalBeforeSend
  SentOnce
  StepOrder
