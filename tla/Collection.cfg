SPECIFICATION Spec
CONSTANTS
  m1 = m1
  m2 = m2
  m3 = m3
  g1 = g1
  g2 = g2
  Lists <- Listed
  Active <- ActiveSources
  MalwareFallback <- Fallbacks
  BenignPool <- Publishers
  LlmChoices <- Named
  FetchLimit = 4
  MinMalware = 1
  MinBenign = 1
  EveryN = 2
  ZeroRuns = 2
  MinAttempts = 5
  MaxSamples = 3
  MaxAborts = 1
INVARIANTS
  TypeOK
  CandidatesAreFresh
  ReturnedIsFetched
  BenignIsAsked
  BenignIsRefreshed
