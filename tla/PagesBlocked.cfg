SPECIFICATION Spec
CONSTANTS
  Gets <- MCGets
  Arrivals <- MCArrivals
  Urls <- MCUrls
  FinalOf <- MCFinalOf
  Hosts = {"h"}
  HostOf <- MCHostOf
  AdapterUrls <- MCAdapterUrls
  AutoMode = FALSE
  Fallbacks <- MCFallbacks
  Memory = 1
  NoLoad = NoLoad
  NoPage = NoPage
PROPERTIES
  BlockedSkipsBrowser
CHECK_DEADLOCK FALSE
