CONSTANTS
  a1 = a1
  a2 = a2
  a3 = a3
  w1 = w1
  v1 = v1
  p1 = p1
  p2 = p2
  Servers <- TwoServers
  Readers <- TwoReaders
  Writers <- OneWriter
  Viewers <- OneViewer
  Home <- ReadersApart
  Nothing = Nothing
  Loading = Loading
  MaxVersion = 1
  MaxFaults = 1
  Logins <- Three
  MaxAttempts = 2
  MaxOutages = 1
  Holders <- Three
  Free = Free
  Calls <- Three
  HitLimit = 2
  MaxHits = 6
SPECIFICATION Spec
INVARIANTS
  TypeOK
  StaleOnlyWhenKnown
  InFlightExact
  GuessesBounded
  LockExclusive
PROPERTIES
  CacheConverges
  GhostsLeave
  ThrottleExact
  RankingKept
CHECK_DEADLOCK FALSE
