SPECIFICATION Spec
CONSTANTS
  Call = {c1, c2}
  Foreign = {f1}
INVARIANTS
  TypeOK
  NoOrphan
  NoLeak
PROPERTIES
  SettledOnce
  StopReleasesCalls
  KeepsPromise
  EveryCallEnds
  LivesAsService
CHECK_DEADLOCK FALSE
