SPECIFICATION MCSpec
CONSTANTS
  k1 = k1
  k2 = k2
  k3 = k3
  t1 = t1
  t2 = t2
  l1 = l1
  l2 = l2
  Keys <- MCKeys
  Vals = {1}
  None = 0
  HashOf <- MCHash
  Capacity = 1
  Addresses = {1, 2, 3, 4}
  Threads <- MCThreads
  Listeners <- MCListeners
  Nobody = Nobody
  LogScenes <- MCLogScenes
  r1 = r1
  r2 = r2
  r3 = r3
  Nil = Nil
  Recs <- MCRecs
  NCol = 2
  U32 = 4
CHECK_DEADLOCK FALSE
INVARIANT EnumVisitsOnce
INVARIANT RingIntact
INVARIANT LogDelivers
INVARIANT ListSound
PROPERTY MapIsFunction
PROPERTY ImplementsColumnList
