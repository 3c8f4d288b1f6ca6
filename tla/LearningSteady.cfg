SPECIFICATION Spec
CONSTANTS
  MinMalware = 2
  MinBenign = 2
  RetrainThreshold = 2
  GoodwareBudget = 2
  MalwareBudget = 3
  HoldoutTrain = 70
  HoldoutVal = 15
  FitPercent = 85
  LocalBenign = 1
  MaxBatch = 4
  MaxRows = 7
  MaxAborts = 1
  MaxUpgrades = 0
INVARIANTS
  StrictHoldoutExcluded
  StrictBaselineHonest
PROPERTIES
  MarkedRowsWereLearned
