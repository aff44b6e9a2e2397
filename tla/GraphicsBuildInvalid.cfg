SPECIFICATION Spec
CONSTANTS
  Build = {b1}
  Code = {"PY"}
  PositionMetrics = {"PY"}
  Product = {"metrics"}
  Entity = {"query"}
  SupportedProducts = {"metrics", "projects", "alerts"}
  SupportedEntities = {"query"}
  Visuals <- OneVisual
  MaxItems = 1
  MaxEpoch = 0
INVARIANT
  InvalidOnlyIfRequestIs
CHECK_DEADLOCK FALSE
