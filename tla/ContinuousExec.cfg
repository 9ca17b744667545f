SPECIFICATION FairSpec
CONSTANTS
  MaxTicks = 3
  StoreMayFail = TRUE
INVARIANTS
  ReportsLastTick
  OneLateTick
  NoTickLeft
  HonestTicks
PROPERTY
  CancelledEnds
