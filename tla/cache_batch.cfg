\* Two threads at a shard whose share is four and is used up: a fifth key has two
\* of them evicted at a time.
SPECIFICATION FullSpec
CONSTANTS
  k1 = k1  k2 = k2  k3 = k3  k4 = k4  k5 = k5
  t1 = t1  t2 = t2
  Threads = {t1, t2}
  Keys = {k1, k2, k3, k4, k5}
  KeyHash <- MCCrowdedHash
  Lists <- MCOneList
  MaxEntries = 7
  ShardCount = 2
  EvictionBatchDivisor = 2
  SizeModulus = 64
  MaxCalls = 2
  Absent = Absent
  NoThread = NoThread
PROPERTIES HotEntriesOutlast EvictsOnlyForRoom
