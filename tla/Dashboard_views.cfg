SPECIFICATION DashboardSpec
CONSTANTS
  none = none
  Null = none
  Snapshots <- Readable
  ThresholdSets <- TwoSets
  Days <- SomeDays
  MaxEntries = 2
  SkippedGpus <- Virtual
  DiscreteGpus <- Discrete
CHECK_DEADLOCK FALSE

  
PROPERTIES
  TrendIsHonest
