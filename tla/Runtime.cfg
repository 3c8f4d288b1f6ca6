SPECIFICATION FairSpec
CONSTANTS
  EvalEvery = 2
  BootstrapMax = 2
  MinRows = 2
  MaxEvals = 2
  MaxEvents = 2
  MaxTasks = 2
  MaxLines = 2
  MaxFaults = 1
INVARIANTS TypeOK HistoryFits DriftLogFits EvaluationIsDue BackfilledOnce
PROPERTIES PassesGoOn BootstrapStops
