SPECIFICATION FairSpec
CONSTANTS
  Base = 4
  MAX_MESSAGE_SIZE = 2
  Callers = {"exec", "other"}
  Foreign = {"other"}
  MaxServerStops = 1
  OthersCall <- MCOthersCall
  CredentialRefs <- MCCredentialRefs
INVARIANTS
  SuccessIsCompleted
  GivesUpByCancelling
  FrameIntact
PROPERTIES
  OneEffect
  GivesUp
