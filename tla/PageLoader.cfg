SPECIFICATION FairSpec
CONSTANTS
  Gets <- MCGets
  Arrivals <- MCArrivals
  Urls <- MCUrls
  FinalOf <- MCFinalOf
  Hosts = {"h"}
  HostOf <- MCHostOf
  AdapterUrls <- MCAdapterUrls
  AutoMode = FALSE
  Fallbacks <- MCFallbacks
  Memory = 1
  NoLoad = NoLoad
  NoPage = NoPage
INVARIANTS
  TypeOK
  OneLoadPerUrl
  RightPage
  FailureNotRemembered
  NoNeedlessLoad
PROPERTIES
  GetsEnd
CHECK_DEADLOCK FALSE
