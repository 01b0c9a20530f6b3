SPECIFICATION LateCancelSpec
CONSTANTS
  Fetches <- ThreeFetches
  Drops <- MCDrops
  Arrivals <- ThreeSessions
  SearchSid = "search"
  MaxTabs = 2
  MaxContexts = 1
  RestartLimit = 1
  MaxCrashes = 0
  Nobody = Nobody
PROPERTIES
  WaiterServed
CHECK_DEADLOCK FALSE
