SPECIFICATION Spec
CONSTANTS
  Message = {m1}
  MaxDeliver = 1
  BatchSize = 1
  MaxClients = 2
  MaxFaults = 1
  MaxRetries = 1
INVARIANTS
  DisconnectedAfterStop
CHECK_DEADLOCK FALSE
