SPECIFICATION Spec
CONSTANTS
  Save = {s1}
  Uow = {u1, u2}
  Key = {k1, k2}
  PoolSize = 2
INVARIANTS
  TypeOK
  OneRowPerKey
  SavedIsStored
  DuplicateIsStored
  NothingLeftBehind
PROPERTIES
  IsTransactional
  EverySaveEnds
CHECK_DEADLOCK FALSE
