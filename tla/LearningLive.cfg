SPECIFICATION FairSpec
CONSTANTS
  MinMalware = 2
  MinBenign = 2
  RetrainThreshold = 2
  GoodwareBudget = 2
  MalwareBudget = 3
  HoldoutTrain = 70
  HoldoutVal = 15
  FitPercent = 85
  LocalBenign = 0
  MaxBatch = 3
  MaxRows = 5
  MaxAborts = 0
  MaxUpgrades = 1
PROPERTIES
  TargetsLeadToModel
