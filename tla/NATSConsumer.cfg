SPECIFICATION Spec
CONSTANTS
  Message = {m1}
  MaxDeliver = 2
  BatchSize = 1
  MaxClients = 4
  MaxFaults = 1
  MaxRetries = 2
INVARIANTS
  TypeOK
  AckedOnlyAfterHandled
  UnrepliedOnlyIfClosed
  StopAwaitsTasks
PROPERTIES
  EveryMessageSettles
  LivesAsService
  LoopEnds
CHECK_DEADLOCK FALSE
