SPECIFICATION FairSpec
CONSTANTS
  Kinds = {"sidecar", "package"}
  MaxOps = 3
  MaxSidecarOps = 2
  MaxPids = 3
  MaxCrashes = 1
  StoreMayFail = TRUE
INVARIANTS
  RowTellsDisk
  NoOrphan
  SocketIsRows
PROPERTIES
  HealthReported
