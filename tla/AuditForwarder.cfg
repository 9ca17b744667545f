SPECIFICATION FairSpec
CONSTANTS
  BatchSize = 2
  MaxBackoff = 4
  MaxRows = 4
  MaxStops = 2
INVARIANTS
  ForwardedIsReceived
PROPERTIES
  InOrderDelivery
  EventuallyReceived
