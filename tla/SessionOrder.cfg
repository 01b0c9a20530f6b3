SPECIFICATION Spec
CONSTANTS
  c1 = c1
  c2 = c2
  c3 = c3
  c4 = c4
  l1 = l1
  l2 = l2
  l3 = l3
  l4 = l4
  l5 = l5
  l6 = l6
  Calls <- MCCalls
  Sids = {"s1", "s2"}
  Locks <- MCLocks
  TTL = 2
  Nobody = Nobody
  NoLock = NoLock
  NoSid = NoSid
INVARIANT
  InOrder
