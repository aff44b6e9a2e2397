SPECIFICATION LifespanSpec
CONSTANTS
  Publish = {p1, p2}
  Boot = boot
  MaxRetries = 2
  MaxClients = 5
INVARIANTS
  LifespanTypeOK
  SuccessIsStored
  ConnectedHasClient
  RaisesOnlyAfterRetry
  ShutdownComplete
PROPERTIES
  EveryCallerEnds
  UsesPublisherRightly
  StartsAndEnds
CHECK_DEADLOCK FALSE
