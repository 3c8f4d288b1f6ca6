SPECIFICATION FairSpec
CONSTANTS
  prog = prog
  late = late
  other = other
  Shas = {prog, late, other}
  NoSha = NoSha
  Attempts = 2
  Threshold = 3
  OpenTicks = 1
  OpenTicks429 = 2
  MaxInfoCalls = 1
  DailyLimit = 1
  TtlDays = 0
  MaxDepth = 1
  FirstKnown <- KnownAtFirst
  MaxOutages = 1
  MaxDays = 1
  MaxRestarts = 0
  MaxUploads = 0
  MaxSpoiled = 0
  Rounds <- RecoverOrders
  Feed <- RecoverFeed
  Linked = {}
  Likely = {}
  ListStages <- RecoverLoops
  Limit = 1
  TagQueries = 1
PROPERTIES
  CallsEnd
  OutageIsForgotten
  EveryHashIsJudged
