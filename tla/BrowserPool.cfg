SPECIFICATION FairSpec
CONSTANTS
  Fetches <- MCFetches
  Drops <- MCDrops
  Arrivals <- MCArrivals
  SearchSid = "search"
  MaxTabs = 3
  MaxContexts = 2
  RestartLimit = 1
  MaxCrashes = 1
  Nobody = Nobody
INVARIANTS
  TypeOK
  ActiveExact
  OneContextPerSession
  OpenWithinLimit
PROPERTIES
  FetchesEnd
  DropsEnd
CHECK_DEADLOCK FALSE
