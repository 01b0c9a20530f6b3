SPECIFICATION Spec
CONSTANTS
  Loads = {t1, t2}
  Urls = {1, 2, 3}
  Hosts = {"site", "local"}
  HostOf <- MCHostOf
  Local = {"local"}
  Plan <- MCPlan
  ApiOf <- MCApiOf
  Redirects <- MCRedirects
  MaxHops = 1
  Responses <- MCResponses
  DnsTTL = 2
  Interval = 2
  MaxWait = 3
  RespectRobots = TRUE
  None = None
SYMMETRY Symmetry
INVARIANTS
  TypeOK
  VerdictsFresh
  PagesInspected
  ContentOnly
PROPERTIES
  TurnsSpaced
CHECK_DEADLOCK FALSE
