SPECIFICATION Spec
CONSTANTS
  prog = prog
  late = late
  other = other
  Shas = {prog, late}
  NoSha = NoSha
  Attempts = 2
  Threshold = 3
  OpenTicks = 1
  OpenTicks429 = 1
  MaxInfoCalls = 1
  DailyLimit = 1
  TtlDays = 0
  MaxDepth = 1
  FirstKnown <- KnownAtFirst
  MaxOutages = 1
  MaxDays = 1
  MaxRestarts = 1
  MaxUploads = 1
  MaxSpoiled = 1
  Rounds <- SharedOrders
  Feed <- SharedFeed
  Linked <- LinkedHashes
  Likely <- LikelyHashes
  ListStages <- SharedLoops
  Limit = 1
  TagQueries = 1
INVARIANTS
  TypeOK
  VerdictsWereAnswered
  QuotaAccounts
  KeptIsVouchedFor
  OneFailureIsForgiven
