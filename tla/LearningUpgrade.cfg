SPECIFICATION Spec
CONSTANTS
  MinMalware = 2
  MinBenign = 2
  RetrainThreshold = 2
  GoodwareBudget = 2
  MalwareBudget = 3
  HoldoutTrain = 70
  HoldoutVal = 15
  FitPercent = 85
  LocalBenign = 1
  MaxBatch = 4
  MaxRows = 5
  MaxAborts = 1
  MaxUpgrades = 1
INVARIANTS
  TypeOK
  ReadyMeansSteady
