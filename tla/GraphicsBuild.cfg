SPECIFICATION Spec
CONSTANTS
  Build = {b1}
  Code = {"PY", "CTR"}
  PositionMetrics = {"PY"}
  Product = {"metrics", "projects", "alerts", "reports"}
  Entity = {"query", "galaxy"}
  SupportedProducts = {"metrics", "projects", "alerts"}
  SupportedEntities = {"query"}
  Visuals <- AllVisuals
  MaxItems = 2
  MaxEpoch = 1
INVARIANTS
  TypeOK
  AnswersEveryItem
  OneFreshCatalogue
  CallsBounded
  DiagramsMatchSeries
PROPERTIES
  EveryBuildEnds
CHECK_DEADLOCK FALSE
