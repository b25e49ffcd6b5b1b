SPECIFICATION Spec
CONSTANTS
  r1 = r1
  r2 = r2
  i1 = i1
  i2 = i2
  NoInstance = NoInstance
  NoEvent = NoEvent
  Requests <- TwoCalls
  Instances <- TwoProcesses
  MaxCrashes = 1
  MaxFaults = 1
  Prefetch = 2
SYMMETRY CallSymmetry
INVARIANTS TypeOK OneNotificationPerOrderId CustodyIsExclusive SettledWasConsumed IndInv
PROPERTIES DroppedOnlyOnIdReuse NotificationsStay HandledOnceUntilFault
