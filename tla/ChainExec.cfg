SPECIFICATION FairSpec
CONSTANT NSteps = 3
INVARIANTS
  ReturnsChainResult
  RollbackOrder
  RollbackComplete
  CancelBound
PROPERTY
  Terminates
