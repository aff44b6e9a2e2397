SPECIFICATION Spec
CONSTANTS
  MaxPoints = 3
  Value <- SomeValues
  MaxDatasets = 2
  Rules <- SomeRules
  BucketCount = 10
INVARIANTS
  PiePartition
  PieMirrored
  LineFollowsData
  PositionsPartition
CHECK_DEADLOCK FALSE
