SPECIFICATION FairSpec
CONSTANTS
  m1 = m1
  m2 = m2
  m3 = m3
  g1 = g1
  g2 = g2
  Lists <- ShortList
  Active <- ActiveSources
  MalwareFallback <- NoFallbacks
  BenignPool <- Publishers
  LlmChoices <- NamedBenign
  FetchLimit = 4
  MinMalware = 1
  MinBenign = 1
  EveryN = 2
  ZeroRuns = 1
  MinAttempts = 5
  MaxSamples = 1
  MaxAborts = 0
PROPERTIES
  CooledProvidersReturn
  BootstrapEnds
