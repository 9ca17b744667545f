SPECIFICATION Spec
CONSTANT NSteps = 2
INVARIANT CompletedMeansAllSteps
