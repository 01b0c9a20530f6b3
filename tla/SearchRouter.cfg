SPECIFICATION FairSpec
CONSTANTS
  Searches = {q1, q2}
  Backends <- MCBackends
  Interval <- MCInterval
  MaxWait = 2
  Cooldown = 3
  Threshold = 2
INVARIANTS
  TypeOK
PROPERTIES
  RequestsSpaced
  SearchesEnd
