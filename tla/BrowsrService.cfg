SPECIFICATION FairService
CONSTANTS
  c1 = c1
  c2 = c2
  c3 = c3
  l1 = l1
  l2 = l2
  l3 = l3
  l4 = l4
  l5 = l5
  Calls <- MCCalls
  Sids = {"s1"}
  Locks <- MCLocks
  TTL = 2
  Nobody = Nobody
  NoLock = NoLock
  NoSid = NoSid
  Keys <- MCKeys
  Pages <- MCPages
  PageTTL = 1
  MaxPages = 2
  Queries = {"q"}
  SearchTTL = 1
  Every = 2
  MaxDelay = 1
  NoPage = NoPage
INVARIANTS
  ServiceTypeOK
  InOrder
  SessionKept
PROPERTIES
  CallsReturn
  IdleSessionsExpire
  StoreImplemented
  SweepExact
  ExpiredRemoved
