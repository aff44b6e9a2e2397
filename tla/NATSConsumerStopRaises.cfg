SPECIFICATION Spec
CONSTANTS
  Message = {m1}
  MaxDeliver = 1
  BatchSize = 1
  MaxClients = 1
  MaxFaults = 0
  MaxRetries = 1
INVARIANTS
  StopReturns
CHECK_DEADLOCK FALSE
