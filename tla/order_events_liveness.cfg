SPECIFICATION FairSpec
CONSTANTS
  r1 = r1
  r2 = r2
  i1 = i1
  i2 = i2
  NoInstance = NoInstance
  NoEvent = NoEvent
  Requests <- TwoCalls
  Instances <- OneProcess
  MaxCrashes = 1
  MaxFaults = 1
  Prefetch = 1
PROPERTIES QueuedIsSettled ImplementsDelivery
