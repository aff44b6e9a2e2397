SPECIFICATION Spec
CONSTANTS
  MaxPoints = 1
  Value <- WholeValues
  MaxDatasets = 2
  Rules <- OneRule
  BucketCount = 10
INVARIANT
  HistogramCountsAll
CHECK_DEADLOCK FALSE
