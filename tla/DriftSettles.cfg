SPECIFICATION Spec
CONSTANTS
  Concepts = {old, new}
  Selections = {ranked}
  FirstFeatures = first
  Window = 2
  MaxBatch = 2
  MaxAborts = 1
INVARIANTS
  TypeOK
  FullContrast
  QuietOnceSettled
