\* Two threads over two shards, one of which overflows: two of the three keys
\* compete for its one place.
SPECIFICATION FairHistorySpec
CONSTANTS
  k1 = k1  k2 = k2  k3 = k3  k4 = k4  k5 = k5
  t1 = t1  t2 = t2
  Threads = {t1, t2}
  Keys = {k1, k2, k3}
  KeyHash <- MCKeyHash
  Lists <- MCLists
  MaxEntries = 2
  ShardCount = 2
  EvictionBatchDivisor = 8
  SizeModulus = 64
  MaxCalls = 2
  Absent = Absent
  NoThread = NoThread
INVARIANTS TypeOK IteratorsStayValid ShardsWithinLimit SizeWithinCall
PROPERTIES StoreSpec CallsReturn
