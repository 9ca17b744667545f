SPECIFICATION FairSpec
CONSTANTS
  Modes = {"poll", "grpc"}
  MaxItems = 3
  MaxBatch = 2
  MaxConns = 2
  QueueCap = 1
  MAX_BACKOFF = 3
INVARIANTS
  NoWorkSkipped
  OkIsOnItsWay
PROPERTIES
  InOrderWork
  KeepsFetching
  Stops
