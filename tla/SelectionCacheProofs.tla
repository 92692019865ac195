------------------------- MODULE SelectionCacheProofs -------------------------
(***************************************************************************)
(* Theorems about SelectionCache and its history, for every set of threads *)
(* and keys, every limit, shard count and batch divisor.                   *)
(*                                                                         *)
(* TypeOK is not inductive: counting a hit writes through an iterator, and *)
(* is type correct only because the entry is still there. That is          *)
(* IteratorsStayValid, which holds because a thread between its lookup and *)
(* its unlock holds the shard's mutex shared and an evicting thread holds  *)
(* it exclusively: LockInv. The three together are inductive.              *)
(***************************************************************************)
EXTENDS SelectionHistory, TLAPS, FiniteSetTheorems, FunctionTheorems

InSharedFind == {"findLookup", "findCount", "findCopy", "findUnlock"}
InExclusive == {"publishRoom", "publishEmplace", "publishUnlock"}
InSharedSize == {"sizeAdd", "sizeUnlock"}

\* Who is where in the code holds which lock, and a shard that has a writer
\* has no readers.
LockInv ==
  /\ \A t \in Threads : pc[t] \in InSharedFind => t \in readers[ShardFor(key[t])]
  /\ \A t \in Threads : pc[t] \in InExclusive => writer[ShardFor(key[t])] = t
  /\ \A t \in Threads : pc[t] \in InSharedSize => t \in readers[cursor[t]]
  /\ \A s \in Shards : writer[s] # NoThread => readers[s] = {}

CoreInv == TypeOK /\ LockInv /\ IteratorsStayValid

-----------------------------------------------------------------------------
(* Facts about the operators. *)

LEMMA ShardForType == \A k \in Keys : ShardFor(k) \in Shards
  BY CacheAssumption DEF ShardFor, Shards

LEMMA Fresh ==
  /\ \A e \in Entry : e # Absent
  /\ \A t \in Threads : t # NoThread
  BY CacheAssumption

LEMMA ShardZero == 0 \in Shards
  BY CacheAssumption DEF Shards

LEMMA ShardLimitType == ShardLimit \in Nat \ {0}
  BY CacheAssumption DEF ShardLimit

LEMMA ShardKeysFinite ==
  \A s \in Shards : /\ IsFiniteSet(ShardKeys(s))
                    /\ Cardinality(ShardKeys(s)) \in Nat
<1> SUFFICES ASSUME NEW s \in Shards
             PROVE  IsFiniteSet(ShardKeys(s)) /\ Cardinality(ShardKeys(s)) \in Nat
  OBVIOUS
<1>1. ShardKeys(s) \in SUBSET Keys
  BY DEF ShardKeys, Stored
<1> QED  BY <1>1, CacheAssumption, FS_Subset, FS_CardinalityType

LEMMA BatchSizePositive == \A s \in Shards : BatchSize(s) \in Nat \ {0}
  BY CacheAssumption, ShardKeysFinite DEF BatchSize

\* What is erased of a shard: as many keys of it as a batch has, none of more
\* hits than one that stays.
LEMMA LeastOfShard ==
  ASSUME NEW s \in Shards, Cardinality(ShardKeys(s)) >= 1, NEW batch \in EvictionBatches(s)
  PROVE  /\ batch \subseteq ShardKeys(s) /\ Cardinality(batch) = BatchSize(s)
         /\ \A k \in batch, other \in ShardKeys(s) \ batch :
              entries[k].hits <= entries[other].hits
<1> DEFINE n == Cardinality(ShardKeys(s))
           m == BatchSize(s)
<1>1. n \in Nat /\ n >= 1 /\ m \in Nat /\ 1 <= m /\ m <= n
  BY ShardKeysFinite, CacheAssumption DEF BatchSize
<1>2. PICK order \in NthElement(s, m) : batch = {order[i] : i \in 1 .. m}
  BY DEF EvictionBatches
<1> HIDE DEF m
<1>3. order \in Bijection(1 .. n, ShardKeys(s))
  BY <1>2 DEF NthElement
<1>4. \A i, j \in 1 .. n : i <= m /\ m <= j => entries[order[i]].hits <= entries[order[j]].hits
  BY <1>2 DEF NthElement
<1> HIDE DEF n
<1>5. /\ order \in [1 .. n -> ShardKeys(s)]
      /\ \A i, j \in 1 .. n : order[i] = order[j] => i = j
      /\ \A k \in ShardKeys(s) : \E i \in 1 .. n : order[i] = k
  BY <1>3 DEF Bijection, Injection, IsInjective, Surjection
<1>6. 1 .. m \subseteq 1 .. n
  BY <1>1
<1>7. batch \subseteq ShardKeys(s)
  BY <1>2, <1>5, <1>6
<1>8. Cardinality(batch) = m
  <2> DEFINE first == [i \in 1 .. m |-> order[i]]
  <2>1. \A i \in 1 .. m : order[i] \in batch
    BY <1>2
  <2>2. first \in [1 .. m -> batch]
    BY <2>1
  <2>3. \A i, j \in 1 .. m : first[i] = first[j] => i = j
    BY <1>5, <1>6
  <2>4. \A k \in batch : \E i \in 1 .. m : first[i] = k
    BY <1>2
  <2> HIDE DEF first
  <2>5. first \in Bijection(1 .. m, batch)
    BY <2>2, <2>3, <2>4, Fun_IsBij
  <2>6. ExistsBijection(1 .. m, batch)
    BY <2>5, Fun_ExistsBij
  <2>7. IsFiniteSet(1 .. m) /\ Cardinality(1 .. m) = m
    BY <1>1, FS_Interval
  <2> QED BY <2>6, <2>7, FS_Bijection
<1>9. ASSUME NEW k \in batch, NEW other \in ShardKeys(s) \ batch
      PROVE  entries[k].hits <= entries[other].hits
  <2>1. PICK i \in 1 .. m : k = order[i]
    BY <1>2
  <2>2. PICK j \in 1 .. n : other = order[j]
    BY <1>5
  <2>3. j \notin 1 .. m
    BY <1>2, <2>2
  <2>4. i \in 1 .. n /\ i <= m /\ m <= j
    BY <1>1, <2>3
  <2> QED BY <1>4, <2>1, <2>2, <2>4
<1> QED BY <1>7, <1>8, <1>9 DEF m

\* A shard that needs room has an entry.
LEMMA NeedsOfShard ==
  ASSUME NEW t \in Threads, key[t] \in Keys, NeedsRoom(t)
  PROVE  ShardFor(key[t]) \in Shards /\ Cardinality(ShardKeys(ShardFor(key[t]))) >= 1
<1>1. ShardFor(key[t]) \in Shards
  BY ShardForType
<1>2. Cardinality(ShardKeys(ShardFor(key[t]))) \in Nat
  BY <1>1, ShardKeysFinite
<1> QED BY <1>1, <1>2, ShardLimitType DEF NeedsRoom

\* What a publication that makes room does to the entries.
LEMMA ErasedOfShard ==
  ASSUME NEW t \in Threads, key[t] \in Keys, PublishRoom(t)
  PROVE  \/ UNCHANGED entries
         \/ \E batch \in SUBSET ShardKeys(ShardFor(key[t])) : entries' = Without(batch)
<1>1. CASE /\ NeedsRoom(t)
           /\ \E batch \in EvictionBatches(ShardFor(key[t])) : entries' = Without(batch)
  <2>1. PICK batch \in EvictionBatches(ShardFor(key[t])) : entries' = Without(batch)
    BY <1>1
  <2>2. batch \subseteq ShardKeys(ShardFor(key[t]))
    BY <1>1, <2>1, NeedsOfShard, LeastOfShard
  <2> QED BY <2>1, <2>2
<1> QED BY <1>1 DEF PublishRoom

LEMMA ReplyType ==
  /\ \A status \in Statuses, l \in Lists : Reply(status, l) \in Replies
  /\ \A status \in Statuses : Status(status) \in Replies
  /\ NoList \in Lists
  BY CacheAssumption DEF Reply, Replies, Status, NoList

-----------------------------------------------------------------------------
(* The core invariant. *)

LEMMA CoreInit == Init => CoreInv
<1> SUFFICES ASSUME Init PROVE CoreInv
  OBVIOUS
<1>1. AnyKey \in Keys
  BY CacheAssumption DEF AnyKey
<1>2. NoReply \in Replies
  BY ReplyType DEF NoReply, Statuses
<1>3. TypeOK
  BY <1>1, <1>2, ShardZero, ReplyType, CacheAssumption DEF Init, TypeOK, Labels
<1>4. LockInv
  BY DEF Init, LockInv, InSharedFind, InExclusive, InSharedSize
<1>5. IteratorsStayValid
  BY DEF Init, IteratorsStayValid
<1> QED  BY <1>3, <1>4, <1>5 DEF CoreInv

LEMMA CoreNext == CoreInv /\ [Next]_vars => CoreInv'
<1> SUFFICES ASSUME CoreInv, [Next]_vars PROVE CoreInv'
  OBVIOUS
<1> USE DEF CoreInv, TypeOK, LockInv, IteratorsStayValid, InSharedFind, InExclusive,
            InSharedSize, Labels, FindLabels, PublishLabels, SizeLabels,
            Statuses, Answer, Goto, callVars, sizeVars
<1>1. ASSUME UNCHANGED vars PROVE CoreInv'
  BY <1>1 DEF vars, Entry
<1>2. ASSUME NEW t \in Threads, NEW k \in Keys, BeginFind(t, k) PROVE CoreInv'
  BY <1>2 DEF BeginFind, Begin
<1>3. ASSUME NEW t \in Threads, NEW k \in Keys, NEW l \in Lists, BeginPublish(t, k, l)
      PROVE  CoreInv'
  BY <1>3 DEF BeginPublish, Begin
<1>4. ASSUME NEW t \in Threads, BeginSize(t) PROVE CoreInv'
  BY <1>4 DEF BeginSize, Begin
<1>5. ASSUME NEW t \in Threads, FindLock(t) PROVE CoreInv'
  BY <1>5, ShardForType DEF FindLock, LockShared
<1>6. ASSUME NEW t \in Threads, FindLookup(t) PROVE CoreInv'
  <2>1. reply' \in [Threads -> Replies]
    BY <1>6, ReplyType DEF FindLookup
  <2>2. TypeOK'
    BY <1>6, <2>1 DEF FindLookup
  <2>3. LockInv'
    BY <1>6 DEF FindLookup
  <2>4. IteratorsStayValid'
    BY <1>6 DEF FindLookup
  <2> QED  BY <2>2, <2>3, <2>4
<1>7. ASSUME NEW t \in Threads, FindCount(t) PROVE CoreInv'
  <2> DEFINE counted == [entries[key[t]] EXCEPT !.hits = entries[key[t]].hits + 1]
  <2>1. pc[t] = "findCount" /\ key[t] \in Keys /\ entries[key[t]] \in Entry
    BY <1>7 DEF FindCount
  <2>2. counted \in Entry
    BY <2>1 DEF Entry
  <2>3. entries' = [entries EXCEPT ![key[t]] = counted]
    BY <1>7 DEF FindCount
  <2> HIDE DEF counted
  <2>4. /\ entries' \in [Keys -> Entry \cup {Absent}]
        /\ \A k \in Keys : entries[k] # Absent => entries'[k] # Absent
    BY <2>1, <2>2, <2>3, CacheAssumption
  <2>5. TypeOK'
    BY <1>7, <2>4 DEF FindCount
  <2>6. LockInv'
    BY <1>7 DEF FindCount
  <2>7. IteratorsStayValid'
    BY <1>7, <2>4 DEF FindCount
  <2> QED  BY <2>5, <2>6, <2>7
<1>8. ASSUME NEW t \in Threads, FindCopy(t) PROVE CoreInv'
  <2>1. pc[t] = "findCopy" /\ entries[key[t]] \in Entry
    BY <1>8 DEF FindCopy
  <2>2. entries[key[t]].positions \in Lists
    BY <2>1 DEF Entry
  <2>3. reply' \in [Threads -> Replies]
    BY <1>8, <2>2, ReplyType DEF FindCopy
  <2> QED  BY <1>8, <2>3 DEF FindCopy
<1>9. ASSUME NEW t \in Threads, FindUnlock(t) PROVE CoreInv'
  BY <1>9, ShardForType DEF FindUnlock, UnlockShared
<1>10. ASSUME NEW t \in Threads, PublishCheck(t) PROVE CoreInv'
  <2>1. reply' \in [Threads -> Replies]
    BY <1>10, ReplyType DEF PublishCheck
  <2>2. TypeOK'
    BY <1>10, <2>1 DEF PublishCheck
  <2>3. LockInv' /\ IteratorsStayValid'
    BY <1>10 DEF PublishCheck
  <2> QED  BY <2>2, <2>3
<1>11. ASSUME NEW t \in Threads, PublishLock(t) PROVE CoreInv'
  BY <1>11, ShardForType, CacheAssumption DEF PublishLock, LockExclusive
<1>12. ASSUME NEW t \in Threads, PublishRoom(t) PROVE CoreInv'
  <2>1. \A k \in Keys : (entries[k] # Absent /\ entries'[k] = Absent)
                            => ShardFor(k) = ShardFor(key[t])
    <3>1. key[t] \in Keys
      OBVIOUS
    <3> QED BY <1>12, <3>1, ErasedOfShard DEF ShardKeys, Stored, Without
  <2>2. entries' \in [Keys -> Entry \cup {Absent}]
    BY <1>12 DEF PublishRoom, Without
  <2>3. TypeOK'
    <3>1. UNCHANGED reply \/ Answer(t, Status("OUT_OF_MEMORY"))
      BY <1>12 DEF PublishRoom
    <3>2. reply' \in [Threads -> Replies]
      BY <3>1, ReplyType
    <3> QED  BY <1>12, <2>2, <3>2 DEF PublishRoom
  <2>4. LockInv'
    BY <1>12 DEF PublishRoom
  <2>5. \A u \in Threads : pc'[u] \in {"findCount", "findCopy"}
           => pc[u] = pc'[u] /\ key'[u] = key[u] /\ ShardFor(key[u]) # ShardFor(key[t])
    <3> SUFFICES ASSUME NEW u \in Threads, pc'[u] \in {"findCount", "findCopy"}
                 PROVE  /\ pc[u] = pc'[u] /\ key'[u] = key[u]
                        /\ ShardFor(key[u]) # ShardFor(key[t])
      OBVIOUS
    <3>1. pc[u] = pc'[u] /\ key'[u] = key[u]
      BY <1>12 DEF PublishRoom
    <3>2. u \in readers[ShardFor(key[u])]
      BY <3>1
    <3>3. writer[ShardFor(key[t])] = t
      BY <1>12 DEF PublishRoom
    <3>4. readers[ShardFor(key[t])] = {}
      BY <3>3, ShardForType, Fresh
    <3> QED  BY <3>1, <3>2, <3>4
  <2>6. IteratorsStayValid'
    BY <2>1, <2>3, <2>5
  <2> QED  BY <2>3, <2>4, <2>6
<1>13. ASSUME NEW t \in Threads, PublishEmplace(t) PROVE CoreInv'
  <2>1. NewEntry(list[t]) \in Entry
    BY DEF NewEntry, Entry
  <2>2. /\ entries' \in [Keys -> Entry \cup {Absent}]
        /\ \A k \in Keys : entries[k] # Absent => entries'[k] # Absent
    <3>1. UNCHANGED entries \/ entries' = [entries EXCEPT ![key[t]] = NewEntry(list[t])]
      BY <1>13 DEF PublishEmplace, Insert, KeepMapping
    <3> QED  BY <2>1, <3>1, Fresh
  <2>3. reply' \in [Threads -> Replies]
    <3>1. Answer(t, Status("published")) \/ Answer(t, Status("OUT_OF_MEMORY"))
      BY <1>13 DEF PublishEmplace, Insert, KeepMapping
    <3> QED BY <3>1, ReplyType
  <2> QED  BY <1>13, <2>2, <2>3 DEF PublishEmplace
<1>14. ASSUME NEW t \in Threads, PublishUnlock(t) PROVE CoreInv'
  BY <1>14, ShardForType, CacheAssumption DEF PublishUnlock, UnlockExclusive
<1>15. ASSUME NEW t \in Threads, SizeLock(t) PROVE CoreInv'
  BY <1>15 DEF SizeLock, LockShared
<1>16. ASSUME NEW t \in Threads, SizeAdd(t) PROVE CoreInv'
  BY <1>16, ShardKeysFinite DEF SizeAdd
<1>17. ASSUME NEW t \in Threads, SizeUnlock(t) PROVE CoreInv'
  <2>1. TypeOK'
    <3>1. UNCHANGED reply \/ Answer(t, Status("size"))
      BY <1>17 DEF SizeUnlock
    <3>2. reply' \in [Threads -> Replies]
      BY <3>1, ReplyType
    <3>3. \A s \in Shards : ~LastShard(s) => s + 1 \in Shards
      BY DEF LastShard
    <3>4. cursor' \in [Threads -> Shards]
      BY <1>17, <3>3 DEF SizeUnlock
    <3> QED  BY <1>17, <3>2, <3>4 DEF SizeUnlock, UnlockShared
  <2> QED  BY <1>17, <2>1 DEF SizeUnlock, UnlockShared
<1>18. ASSUME NEW t \in Threads, Return(t) PROVE CoreInv'
  BY <1>18, ShardZero, ReplyType, CacheAssumption DEF Return, AnyKey, NoReply
<1>19. ASSUME Finished PROVE CoreInv'
  BY <1>19, <1>1 DEF Finished
<1> QED
  BY <1>1, <1>2, <1>3, <1>4, <1>5, <1>6, <1>7, <1>8, <1>9, <1>10, <1>11, <1>12, <1>13,
     <1>14, <1>15, <1>16, <1>17, <1>18, <1>19
  DEF Next, Step, FindStep, PublishStep, SizeStep

LEMMA CoreInvariant == Spec => []CoreInv
  BY CoreInit, CoreNext, PTL DEF Spec

\* The type invariant, for every instance of the cache.
THEOREM TypeCorrect == Spec => []TypeOK
  BY CoreInvariant, PTL DEF CoreInv

\* find() never counts or copies through an iterator to an erased entry.
THEOREM IteratorsValid == Spec => []IteratorsStayValid
  BY CoreInvariant, PTL DEF CoreInv

-----------------------------------------------------------------------------
(* The limit. A publication that has made room still has it when it inserts, *)
(* because it holds the shard's mutex exclusively in between: RoomInv.       *)

RoomInv ==
  \A t \in Threads : pc[t] = "publishEmplace" =>
    \/ entries[key[t]] # Absent
    \/ Cardinality(ShardKeys(ShardFor(key[t]))) < ShardLimit

BoundInv == RoomInv /\ ShardsWithinLimit

\* A step that keeps every key stored or not keeps the shards' sizes.
LEMMA SameShards ==
  ASSUME \A k \in Keys : (entries'[k] = Absent) <=> (entries[k] = Absent)
  PROVE  \A s : ShardKeys(s)' = ShardKeys(s)
  BY DEF ShardKeys, Stored, ShardFor

\* A step that keeps every key of shard r stored or not keeps that shard.
LEMMA OtherShards ==
  ASSUME NEW r,
         \A k \in Keys : ShardFor(k) = r => ((entries'[k] = Absent) <=> (entries[k] = Absent))
  PROVE  ShardKeys(r)' = ShardKeys(r)
  BY DEF ShardKeys, Stored, ShardFor

LEMMA BoundInit == Init => BoundInv
<1> SUFFICES ASSUME Init PROVE BoundInv
  OBVIOUS
<1>1. RoomInv
  BY DEF Init, RoomInv
<1>2. ASSUME NEW s \in Shards PROVE Cardinality(ShardKeys(s)) <= ShardLimit
  <2>1. ShardKeys(s) = {}
    BY DEF Init, ShardKeys, Stored
  <2> QED  BY <2>1, FS_EmptySet, ShardLimitType
<1> QED  BY <1>1, <1>2 DEF BoundInv, ShardsWithinLimit

\* Steps that leave every key stored or not, and move nobody to the insertion.
LEMMA BoundKept ==
  ASSUME BoundInv,
         \A k \in Keys : (entries'[k] = Absent) <=> (entries[k] = Absent),
         \A t \in Threads : pc'[t] = "publishEmplace" =>
            (pc[t] = "publishEmplace" /\ key'[t] = key[t] /\ key[t] \in Keys)
  PROVE  BoundInv'
<1>1. \A s : ShardKeys(s)' = ShardKeys(s)
  BY SameShards
<1>2. ShardLimit' = ShardLimit /\ Shards' = Shards /\ \A k : ShardFor(k)' = ShardFor(k)
  BY DEF ShardLimit, Shards, ShardFor
<1>3. ShardsWithinLimit'
  BY <1>1, <1>2 DEF BoundInv, ShardsWithinLimit
<1>4. RoomInv'
  BY <1>1, <1>2 DEF BoundInv, RoomInv, ShardFor
<1> QED  BY <1>3, <1>4 DEF BoundInv

LEMMA BoundRoom ==
  ASSUME CoreInv, CoreInv', BoundInv, NEW t \in Threads, PublishRoom(t)
  PROVE  BoundInv'
<1> USE DEF CoreInv, TypeOK
<1>0. PICK r \in Shards : r = ShardFor(key[t])
  BY ShardForType
<1>1. key[t] \in Keys /\ writer[r] = t /\ pc[t] = "publishRoom"
  BY <1>0 DEF PublishRoom, LockInv, InExclusive
<1>2. key' = key /\ \A u \in Threads : u # t => pc'[u] = pc[u]
  BY DEF PublishRoom, Goto
<1>3. \A u \in Threads : (u # t /\ pc[u] = "publishEmplace") => ShardFor(key[u]) # r
  BY <1>1 DEF LockInv, InExclusive
<1>4. CASE entries' = entries
  <2>1. \A s : ShardKeys(s)' = ShardKeys(s)
    BY <1>4, SameShards
  <2>2. ShardsWithinLimit'
    BY <2>1 DEF BoundInv, ShardsWithinLimit, ShardLimit
  <2>3. pc'[t] = "publishEmplace" => ~NeedsRoom(t)
    <3>1. CASE ~NeedsRoom(t)
      BY <3>1
    <3>2. CASE NeedsRoom(t)
      <4>1. \A batch \in EvictionBatches(r) : entries' # Without(batch)
        <5> SUFFICES ASSUME NEW batch \in EvictionBatches(r), entries' = Without(batch)
                     PROVE  FALSE
          OBVIOUS
        <5>1. batch \subseteq ShardKeys(r) /\ Cardinality(batch) = BatchSize(r)
          BY <1>0, <1>1, <3>2, NeedsOfShard, LeastOfShard
        <5>2. batch # {}
          BY <5>1, <1>1, BatchSizePositive, FS_EmptySet
        <5>3. PICK k \in batch : TRUE
          BY <5>2
        <5>4. k \in Keys /\ entries[k] # Absent /\ entries'[k] = Absent
          BY <5>1, <5>3 DEF ShardKeys, Stored, Without
        <5> QED  BY <5>4, <1>4
      <4>2. Goto(t, "publishUnlock")
        BY <3>2, <4>1, <1>0 DEF PublishRoom
      <4> QED  BY <4>2 DEF Goto
    <3> QED  BY <3>1, <3>2
  <2>4. ASSUME NEW u \in Threads, pc'[u] = "publishEmplace"
        PROVE  \/ entries[key[u]] # Absent
               \/ Cardinality(ShardKeys(ShardFor(key[u]))) < ShardLimit
    <3>1. CASE u # t
      BY <3>1, <1>2, <2>4 DEF BoundInv, RoomInv
    <3>2. CASE u = t
      <4>1. ~(Cardinality(ShardKeys(r)) >= ShardLimit) \/ entries[key[t]] # Absent
        BY <2>3, <2>4, <3>2, <1>0 DEF NeedsRoom
      <4> QED  BY <4>1, <3>2, <1>0, <1>1, ShardKeysFinite, ShardLimitType
    <3> QED  BY <3>1, <3>2
  <2>5. RoomInv'
    BY <2>1, <2>4, <1>2, <1>4 DEF RoomInv, ShardLimit, ShardFor
  <2> QED  BY <2>2, <2>5 DEF BoundInv
<1>5. ASSUME NeedsRoom(t), NEW batch \in EvictionBatches(r), entries' = Without(batch)
      PROVE  BoundInv'
  <2>1. batch \subseteq ShardKeys(r) /\ Cardinality(batch) = BatchSize(r)
    BY <1>0, <1>1, <1>5, NeedsOfShard, LeastOfShard
  <2>2. \A k \in Keys : (entries'[k] = Absent) <=> (entries[k] = Absent \/ k \in batch)
    BY <1>5 DEF Without
  <2>3. ShardKeys(r)' = ShardKeys(r) \ batch
    BY <2>2 DEF ShardKeys, Stored, ShardFor
  <2>4. IsFiniteSet(ShardKeys(r)) /\ Cardinality(ShardKeys(r)) \in Nat
    BY <1>1, ShardKeysFinite
  <2>5. Cardinality(ShardKeys(r) \ batch) = Cardinality(ShardKeys(r)) - BatchSize(r)
    <3>1. ShardKeys(r) \cap batch = batch
      BY <2>1
    <3>2. Cardinality(ShardKeys(r) \ batch)
            = Cardinality(ShardKeys(r)) - Cardinality(ShardKeys(r) \cap batch)
      BY <2>4, FS_Difference
    <3> QED  BY <2>1, <3>1, <3>2
  <2>6. Cardinality(ShardKeys(r))' < ShardLimit
    <3>1. Cardinality(ShardKeys(r)) <= ShardLimit
      BY <1>1 DEF BoundInv, ShardsWithinLimit
    <3>2. BatchSize(r) \in Nat /\ BatchSize(r) > 0
      BY BatchSizePositive
    <3>3. Cardinality(ShardKeys(r))' = Cardinality(ShardKeys(r)) - BatchSize(r)
      BY <2>3, <2>5
    <3> QED  BY <3>1, <3>2, <3>3, <2>4, ShardLimitType
  <2>7. ASSUME NEW s \in Shards, s # r PROVE ShardKeys(s)' = ShardKeys(s)
    <3>1. \A k \in Keys : ShardFor(k) = s => ((entries'[k] = Absent) <=> (entries[k] = Absent))
      BY <2>1, <2>2, <2>7 DEF ShardKeys
    <3> QED  BY <3>1, <2>7, OtherShards
  <2>8. ShardsWithinLimit'
    <3>1. ASSUME NEW s \in Shards PROVE Cardinality(ShardKeys(s))' <= ShardLimit
      <4>1. CASE s = r
        <5>1. Cardinality(ShardKeys(r))' \in Nat
          BY <2>3, <2>4, FS_Difference, FS_CardinalityType
        <5> QED  BY <4>1, <5>1, <2>6, ShardLimitType
      <4>2. CASE s # r
        BY <4>2, <2>7 DEF BoundInv, ShardsWithinLimit
      <4> QED  BY <4>1, <4>2
    <3> QED  BY <3>1 DEF ShardsWithinLimit, ShardLimit, Shards
  <2>9. RoomInv'
    <3>2. \A u \in Threads, q \in Shards :
            q = ShardFor(key[u]) => ShardFor(key[u])' = q
      BY <1>2 DEF ShardFor
    <3>1. ASSUME NEW u \in Threads, pc'[u] = "publishEmplace"
          PROVE  \/ entries'[key[u]] # Absent
                 \/ Cardinality(ShardKeys(ShardFor(key[u])))' < ShardLimit
      <4>1. CASE u = t
        BY <4>1, <2>6, <3>2, <1>0
      <4>2. CASE u # t
        <5>1. pc[u] = "publishEmplace" /\ key[u] \in Keys /\ ShardFor(key[u]) # r
          BY <4>2, <3>1, <1>2, <1>3
        <5>2. PICK q \in Shards : q = ShardFor(key[u])
          BY <5>1, ShardForType
        <5>4. ShardKeys(q)' = ShardKeys(q)
          BY <5>1, <5>2, <2>7
        <5>3. entries'[key[u]] = Absent <=> entries[key[u]] = Absent
          BY <5>1, <2>1, <2>2 DEF ShardKeys
        <5> QED  BY <5>1, <5>2, <5>3, <5>4, <3>2 DEF BoundInv, RoomInv
      <4> QED  BY <4>1, <4>2
    <3> QED  BY <3>1, <1>2 DEF RoomInv, ShardLimit, ShardFor
  <2> QED  BY <2>8, <2>9 DEF BoundInv
<1> QED  BY <1>0, <1>4, <1>5 DEF PublishRoom

LEMMA BoundInsert ==
  ASSUME CoreInv, BoundInv, NEW t \in Threads, PublishEmplace(t), Insert(t)
  PROVE  BoundInv'
<1> USE DEF CoreInv, TypeOK
<1>0. PICK r \in Shards : r = ShardFor(key[t])
  BY ShardForType
<1>1. key[t] \in Keys /\ writer[r] = t /\ pc[t] = "publishEmplace" /\ entries[key[t]] = Absent
  BY <1>0 DEF PublishEmplace, Insert, LockInv, InExclusive
<1>2. key' = key /\ pc' = [pc EXCEPT ![t] = "publishUnlock"]
  BY DEF PublishEmplace, Goto
<1>3. NewEntry(list[t]) # Absent
  BY Fresh DEF NewEntry, Entry
<1>4. entries' = [entries EXCEPT ![key[t]] = NewEntry(list[t])]
  BY DEF Insert
<1>5. \A k \in Keys : entries'[k] = Absent <=> (entries[k] = Absent /\ k # key[t])
  BY <1>1, <1>3, <1>4
<1>6. ShardKeys(r)' = ShardKeys(r) \cup {key[t]}
  BY <1>0, <1>1, <1>5 DEF ShardKeys, Stored, ShardFor
<1>7. ASSUME NEW s \in Shards, s # r PROVE ShardKeys(s)' = ShardKeys(s)
  <2>1. \A k \in Keys : ShardFor(k) = s => ((entries'[k] = Absent) <=> (entries[k] = Absent))
    BY <1>0, <1>5, <1>7
  <2> QED  BY <2>1, OtherShards
<1>8. Cardinality(ShardKeys(r)) < ShardLimit
  BY <1>0, <1>1 DEF BoundInv, RoomInv
<1>9. Cardinality(ShardKeys(r))' <= ShardLimit
  <2>1. IsFiniteSet(ShardKeys(r)) /\ Cardinality(ShardKeys(r)) \in Nat
    BY ShardKeysFinite
  <2>2. Cardinality(ShardKeys(r) \cup {key[t]})
          = IF key[t] \in ShardKeys(r) THEN Cardinality(ShardKeys(r))
                                       ELSE Cardinality(ShardKeys(r)) + 1
    BY <2>1, FS_AddElement
  <2>3. Cardinality(ShardKeys(r))' <= Cardinality(ShardKeys(r)) + 1
    BY <1>6, <2>1, <2>2
  <2>4. Cardinality(ShardKeys(r))' \in Nat
    BY <1>6, <2>1, FS_AddElement, FS_CardinalityType
  <2> QED  BY <1>8, <2>1, <2>3, <2>4, ShardLimitType
<1>10. ShardsWithinLimit'
  <2>1. ASSUME NEW s \in Shards PROVE Cardinality(ShardKeys(s))' <= ShardLimit
    <3>1. CASE s = r
      BY <3>1, <1>9
    <3>2. CASE s # r
      BY <3>2, <1>7 DEF BoundInv, ShardsWithinLimit
    <3> QED  BY <3>1, <3>2
  <2> QED  BY <2>1 DEF ShardsWithinLimit, ShardLimit, Shards
<1>11. RoomInv'
  <2>1. ASSUME NEW u \in Threads, pc'[u] = "publishEmplace"
        PROVE  \/ entries'[key[u]] # Absent
               \/ Cardinality(ShardKeys(ShardFor(key[u])))' < ShardLimit
    <3>1. u # t /\ pc[u] = "publishEmplace" /\ key[u] \in Keys
      BY <2>1, <1>2
    <3>2. PICK q \in Shards : q = ShardFor(key[u])
      BY <3>1, ShardForType
    <3>3. q # r
      BY <1>1, <3>1, <3>2 DEF LockInv, InExclusive
    <3>4. ShardKeys(q)' = ShardKeys(q)
      BY <3>3, <1>7
    <3>5. ShardFor(key[u])' = q
      BY <3>2, <1>2 DEF ShardFor
    <3> QED  BY <3>1, <3>2, <3>4, <3>5, <1>3, <1>4, <1>1 DEF BoundInv, RoomInv
  <2> QED  BY <2>1, <1>2 DEF RoomInv, ShardLimit
<1> QED  BY <1>10, <1>11 DEF BoundInv

\* Every step but an eviction and an insertion is one of BoundKept's.
LEMMA OtherSteps ==
  ASSUME CoreInv, CoreInv', [Next]_vars,
         \A t \in Threads : ~PublishRoom(t) /\ ~(PublishEmplace(t) /\ Insert(t))
  PROVE  /\ \A k \in Keys : (entries'[k] = Absent) <=> (entries[k] = Absent)
         /\ \A t \in Threads : pc'[t] = "publishEmplace" =>
              (pc[t] = "publishEmplace" /\ key'[t] = key[t] /\ key[t] \in Keys)
<1> DEFINE Kept == \A k \in Keys : (entries'[k] = Absent) <=> (entries[k] = Absent)
           Still == \A t \in Threads : pc'[t] = "publishEmplace" =>
                      (pc[t] = "publishEmplace" /\ key'[t] = key[t] /\ key[t] \in Keys)
<1> SUFFICES Kept /\ Still
  OBVIOUS
<1> USE DEF CoreInv, TypeOK, Goto
<1>1. CASE UNCHANGED vars
  BY <1>1 DEF vars, callVars
<1>2. ASSUME NEW t \in Threads, NEW k \in Keys, BeginFind(t, k) PROVE Kept /\ Still
  BY <1>2 DEF BeginFind, Begin
<1>3. ASSUME NEW t \in Threads, NEW k \in Keys, NEW l \in Lists, BeginPublish(t, k, l)
      PROVE  Kept /\ Still
  BY <1>3 DEF BeginPublish, Begin
<1>4. ASSUME NEW t \in Threads, BeginSize(t) PROVE Kept /\ Still
  BY <1>4 DEF BeginSize, Begin
<1>5. ASSUME NEW t \in Threads, FindStep(t) PROVE Kept /\ Still
  <2>1. CASE FindCount(t)
    <3>1. \A k \in Keys : k # key[t] => entries'[k] = entries[k]
      BY <2>1 DEF FindCount
    <3>2. entries[key[t]] # Absent
      BY <2>1 DEF FindCount, IteratorsStayValid
    <3>3. entries'[key[t]] # Absent
      BY <2>1 DEF FindCount, IteratorsStayValid
    <3> QED  BY <2>1, <3>1, <3>2, <3>3 DEF FindCount
  <2> QED
    BY <1>5, <2>1 DEF FindStep, FindLock, FindLookup, FindCopy, FindUnlock
<1>6. ASSUME NEW t \in Threads, PublishStep(t) PROVE Kept /\ Still
  BY <1>6 DEF PublishStep, PublishCheck, PublishLock, PublishEmplace, KeepMapping, PublishUnlock
<1>7. ASSUME NEW t \in Threads, SizeStep(t) PROVE Kept /\ Still
  BY <1>7 DEF SizeStep, SizeLock, SizeAdd, SizeUnlock
<1>8. ASSUME NEW t \in Threads, Return(t) PROVE Kept /\ Still
  BY <1>8 DEF Return
<1> QED
  BY <1>1, <1>2, <1>3, <1>4, <1>5, <1>6, <1>7, <1>8 DEF Next, Step, Finished

LEMMA BoundNext == CoreInv /\ CoreInv' /\ BoundInv /\ [Next]_vars => BoundInv'
<1> SUFFICES ASSUME CoreInv, CoreInv', BoundInv, [Next]_vars PROVE BoundInv'
  OBVIOUS
<1>1. CASE \E t \in Threads : PublishRoom(t)
  BY <1>1, BoundRoom
<1>2. CASE \E t \in Threads : PublishEmplace(t) /\ Insert(t)
  BY <1>2, BoundInsert
<1>3. CASE \A t \in Threads : ~PublishRoom(t) /\ ~(PublishEmplace(t) /\ Insert(t))
  BY <1>3, OtherSteps, BoundKept
<1> QED  BY <1>1, <1>2, <1>3

LEMMA BoundInvariant == Spec => []BoundInv
  BY CoreInvariant, BoundInit, BoundNext, PTL DEF Spec

\* No shard exceeds its share of the limit, between the eviction and the
\* insertion of a publication too.
THEOREM ShardsBounded == Spec => []ShardsWithinLimit
  BY BoundInvariant, PTL DEF BoundInv

-----------------------------------------------------------------------------
(* The first publication of a key stands while the key stays stored. *)

LEMMA FirstStep ==
  CoreInv /\ CoreInv' /\ [Next]_vars =>
    \A k \in Keys : (entries[k] # Absent /\ entries'[k] # Absent)
                        => entries'[k].positions = entries[k].positions
<1> DEFINE Stands == \A k \in Keys : (entries[k] # Absent /\ entries'[k] # Absent)
                        => entries'[k].positions = entries[k].positions
<1> SUFFICES ASSUME CoreInv, CoreInv', [Next]_vars PROVE Stands
  OBVIOUS
<1>1. CASE UNCHANGED entries
  BY <1>1
<1>2. ASSUME NEW t \in Threads, FindCount(t) PROVE Stands
  <2>1. \A k \in Keys : entries'[k] =
          IF k = key[t] THEN [entries[k] EXCEPT !.hits = @ + 1] ELSE entries[k]
    BY <1>2 DEF FindCount, CoreInv, TypeOK
  <2>2. entries[key[t]] \in Entry
    BY <1>2 DEF FindCount, CoreInv, TypeOK, IteratorsStayValid
  <2>3. [entries[key[t]] EXCEPT !.hits = @ + 1].positions = entries[key[t]].positions
    BY <2>2 DEF Entry
  <2> QED  BY <2>1, <2>3
<1>3. ASSUME NEW t \in Threads, PublishRoom(t) PROVE Stands
  BY <1>3 DEF PublishRoom, Without
<1>4. ASSUME NEW t \in Threads, PublishEmplace(t) PROVE Stands
  BY <1>4 DEF PublishEmplace, Insert, KeepMapping, CoreInv, TypeOK
<1>5. ASSUME NEW t \in Threads, Step(t),
             ~FindCount(t), ~PublishRoom(t), ~PublishEmplace(t)
      PROVE  UNCHANGED entries
  BY <1>5 DEF Step, FindStep, PublishStep, SizeStep, FindLock, FindLookup, FindCopy, FindUnlock,
              PublishCheck, PublishLock, PublishUnlock, SizeLock, SizeAdd, SizeUnlock, Return
<1> QED
  BY <1>1, <1>2, <1>3, <1>4, <1>5 DEF Next, vars, BeginFind, BeginPublish, BeginSize, Finished

\* publish() never replaces the list of a stored key, whatever the other
\* threads do.
THEOREM FirstStands == Spec => FirstPublicationStands
<1>1. CoreInv /\ CoreInv' /\ [Next]_vars =>
        [\A k \in Keys : (entries[k] # Absent /\ entries'[k] # Absent)
            => entries'[k].positions = entries[k].positions]_vars
  BY FirstStep
<1> QED  BY <1>1, CoreInvariant, PTL DEF Spec, FirstPublicationStands

-----------------------------------------------------------------------------
(* What an eviction takes, and for whom. *)

\* Nothing but the eviction of a publication loses an entry.
LEMMA EvictedByPublisher ==
  ASSUME CoreInv, [Next]_vars, NEW k \in Keys, Evicted(k)
  PROVE  \E t \in Threads :
           /\ pc[t] = "publishRoom" /\ NeedsRoom(t) /\ ShardFor(k) = ShardFor(key[t])
           /\ \E batch \in EvictionBatches(ShardFor(key[t])) : k \in batch /\ entries' = Without(batch)
<1>1. entries[k] # Absent /\ entries'[k] = Absent
  BY DEF Evicted
<1>2. ASSUME NEW t \in Threads, FindCount(t) PROVE FALSE
  <2>1. entries'[k] = IF k = key[t] THEN [entries[k] EXCEPT !.hits = @ + 1] ELSE entries[k]
    BY <1>2 DEF FindCount, CoreInv, TypeOK
  <2>2. CASE k = key[t]
    <3>1. entries[k] \in Entry
      BY <1>1 DEF CoreInv, TypeOK
    <3>2. [entries[k] EXCEPT !.hits = @ + 1] \in Entry
      BY <3>1 DEF Entry
    <3> QED BY <1>1, <2>1, <2>2, <3>2, Fresh
  <2>3. CASE k # key[t]
    BY <1>1, <2>1, <2>3
  <2> QED BY <2>2, <2>3
<1>3. ASSUME NEW t \in Threads, PublishEmplace(t) PROVE FALSE
  <2>1. CASE UNCHANGED entries
    BY <1>1, <2>1
  <2>2. CASE Insert(t)
    <3>1. entries[key[t]] = Absent /\ entries' = [entries EXCEPT ![key[t]] = NewEntry(list[t])]
      BY <2>2 DEF Insert
    <3>2. k # key[t]
      BY <1>1, <3>1
    <3> QED BY <1>1, <3>1, <3>2 DEF CoreInv, TypeOK
  <2> QED BY <1>3, <2>1, <2>2 DEF PublishEmplace, KeepMapping
<1>4. ASSUME NEW t \in Threads, Step(t),
             ~FindCount(t), ~PublishRoom(t), ~PublishEmplace(t)
      PROVE  UNCHANGED entries
  BY <1>4 DEF Step, FindStep, PublishStep, SizeStep, FindLock, FindLookup, FindCopy, FindUnlock,
              PublishCheck, PublishLock, PublishUnlock, SizeLock, SizeAdd, SizeUnlock, Return
<1>5. PICK t \in Threads : PublishRoom(t)
  BY <1>1, <1>2, <1>3, <1>4 DEF Next, vars, BeginFind, BeginPublish, BeginSize, Finished
<1>6. pc[t] = "publishRoom" /\ NeedsRoom(t)
  BY <1>1, <1>5 DEF PublishRoom
<1>7. PICK batch \in EvictionBatches(ShardFor(key[t])) : entries' = Without(batch)
  BY <1>1, <1>5 DEF PublishRoom
<1>8. k \in batch
  BY <1>1, <1>7 DEF Without
<1>9. ShardFor(k) = ShardFor(key[t])
  <2>1. key[t] \in Keys
    BY DEF CoreInv, TypeOK
  <2>2. batch \subseteq ShardKeys(ShardFor(key[t]))
    BY <1>6, <2>1, NeedsOfShard, LeastOfShard
  <2> QED BY <1>8, <2>2 DEF ShardKeys
<1> QED BY <1>6, <1>7, <1>8, <1>9

\* A share that is rounded up covers the limit, as long as the rounding does not wrap.
LEMMA ShareCovers ==
  ASSUME MaxEntries + ShardCount <= SizeModulus
  PROVE  ShardLimit * ShardCount >= MaxEntries
<1> DEFINE a == MaxEntries + ShardCount - 1
           q == a \div ShardCount
<1>1. MaxEntries \in Nat \ {0} /\ ShardCount \in Nat \ {0} /\ SizeModulus \in Nat \ {0}
  BY CacheAssumption
<1>2. a \in Nat /\ a < SizeModulus
  BY <1>1
<1>3. a % SizeModulus = a
  <2> HIDE DEF a
  <2> QED BY <1>1, <1>2
<1>4. ShardLimit = IF q > 1 THEN q ELSE 1
  BY <1>3 DEF ShardLimit
<1>5. q \in Nat /\ a < (q + 1) * ShardCount
  <2> HIDE DEF a
  <2> QED BY <1>1, <1>2
<1> HIDE DEF q
<1>6. (q + 1) * ShardCount = q * ShardCount + ShardCount /\ q * ShardCount \in Nat
  BY <1>1, <1>5
<1>7. q * ShardCount >= MaxEntries
  <2> DEFINE x == q * ShardCount
             y == (q + 1) * ShardCount
  <2>1. x \in Nat /\ y = x + ShardCount /\ a < y
    BY <1>5, <1>6
  <2> HIDE DEF x, y
  <2>2. x >= MaxEntries
    BY <1>1, <2>1
  <2> QED BY <2>2 DEF x
<1>8. CASE q > 1
  BY <1>4, <1>7, <1>8
<1>9. CASE ~(q > 1)
  <2>1. q = 0 \/ q = 1
    BY <1>5, <1>9
  <2>2. q = 0 => q * ShardCount = 0
    BY <1>1
  <2>3. q = 1
    BY <1>1, <1>7, <2>1, <2>2
  <2> QED BY <1>4, <1>7, <1>9, <2>3
<1> QED BY <1>8, <1>9

LEMMA TimesKeepsOrder ==
  ASSUME NEW a \in Nat, NEW b \in Nat, NEW c \in Nat, a >= b
  PROVE  a * c >= b * c
OBVIOUS

\* Unless std::size_t is too narrow for the limit and the shards together, an entry is lost
\* only where its shard's even share is used up, and to a key that was not stored.
THEOREM EvictionOnlyForRoom ==
  ASSUME MaxEntries + ShardCount <= SizeModulus
  PROVE  Spec => EvictsOnlyForRoom
<1> DEFINE ForRoom ==
      \A k \in Keys : Evicted(k) =>
       /\ Cardinality(ShardKeys(ShardFor(k))) * ShardCount >= MaxEntries
       /\ \E t \in Threads : /\ writer[ShardFor(k)] = t
                              /\ ShardFor(key[t]) = ShardFor(k)
                              /\ entries[key[t]] = Absent
<1>1. CoreInv /\ [Next]_vars => ForRoom
  <2> SUFFICES ASSUME CoreInv, [Next]_vars, NEW k \in Keys, Evicted(k)
               PROVE  /\ Cardinality(ShardKeys(ShardFor(k))) * ShardCount >= MaxEntries
                      /\ \E t \in Threads : /\ writer[ShardFor(k)] = t
                                            /\ ShardFor(key[t]) = ShardFor(k)
                                            /\ entries[key[t]] = Absent
    OBVIOUS
  <2>1. PICK t \in Threads :
           pc[t] = "publishRoom" /\ NeedsRoom(t) /\ ShardFor(k) = ShardFor(key[t])
    BY EvictedByPublisher
  <2> DEFINE held == Cardinality(ShardKeys(ShardFor(k)))
  <2>2. held >= ShardLimit /\ entries[key[t]] = Absent
    BY <2>1 DEF NeedsRoom
  <2>3. writer[ShardFor(k)] = t
    BY <2>1 DEF CoreInv, LockInv, InExclusive
  <2>4. held \in Nat /\ ShardLimit \in Nat /\ ShardCount \in Nat /\ MaxEntries \in Nat
    BY ShardForType, ShardKeysFinite, ShardLimitType, CacheAssumption
  <2> HIDE DEF held
  <2>5. held * ShardCount >= ShardLimit * ShardCount
    BY <2>2, <2>4, TimesKeepsOrder
  <2>6. held * ShardCount >= MaxEntries
    <3> DEFINE x == held * ShardCount
               y == ShardLimit * ShardCount
    <3>1. x >= y /\ y >= MaxEntries /\ x \in Nat /\ y \in Nat
      BY <2>4, <2>5, ShareCovers
    <3> HIDE DEF x, y
    <3>2. x >= MaxEntries
      BY <2>4, <3>1
    <3> QED BY <3>2 DEF x
  <2>7. held = Cardinality(ShardKeys(ShardFor(k)))
    BY DEF held
  <2> QED BY <2>1, <2>2, <2>3, <2>6, <2>7
<1>2. CoreInv /\ [Next]_vars => [ForRoom]_vars
  BY <1>1
<1> QED BY <1>2, CoreInvariant, PTL DEF Spec, EvictsOnlyForRoom

-----------------------------------------------------------------------------
(***************************************************************************)
(* SelectionCache implements SelectionStore: seen from its callers, the    *)
(* sharded, locked cache is an atomic map that may lose entries. A find    *)
(* takes effect when it misses or when it copies the positions, a          *)
(* publication when it inserts (or finds the key stored); an eviction is a *)
(* loss of entries.                                                        *)
(***************************************************************************)

\* Where the answer of a call is set, and which arguments a call keeps.
CallInv ==
  \A t \in Threads :
    /\ pc[t] \in {"idle"} \cup FindLabels \cup PublishLabels \cup SizeLabels
         => reply[t] = NoReply
    /\ pc[t] \in {"findUnlock", "publishUnlock"} => reply[t].status \notin {"none", "size"}
    /\ pc[t] = "done" => reply[t].status # "none"
    /\ (pc[t] \in {"idle"} \cup SizeLabels \/ reply[t].status = "size")
         => (key[t] = AnyKey /\ list[t] = NoList)
    /\ pc[t] \in {"publishLock", "publishRoom", "publishEmplace"} => list[t] # NoList

LEMMA StatusOf ==
  /\ \A s, l : Reply(s, l).status = s
  /\ \A s : Status(s).status = s
  /\ NoReply.status = "none"
  BY DEF Reply, Status, NoReply

LEMMA CallInit == Init => CallInv
  BY StatusOf DEF Init, CallInv, FindLabels, PublishLabels, SizeLabels

LEMMA CallNext == CoreInv /\ CallInv /\ [Next]_vars => CallInv'
<1> SUFFICES ASSUME CoreInv, CallInv, [Next]_vars PROVE CallInv'
  OBVIOUS
<1> USE StatusOf DEF CallInv, CoreInv, TypeOK, FindLabels, PublishLabels, SizeLabels, Goto, Answer
<1>1. CASE UNCHANGED vars
  BY <1>1 DEF vars, callVars, AnyKey
<1>2. ASSUME NEW t \in Threads, NEW k \in Keys, BeginFind(t, k) PROVE CallInv'
  BY <1>2 DEF BeginFind, Begin
<1>3. ASSUME NEW t \in Threads, NEW k \in Keys, NEW l \in Lists, BeginPublish(t, k, l)
      PROVE  CallInv'
  BY <1>3 DEF BeginPublish, Begin
<1>4. ASSUME NEW t \in Threads, BeginSize(t) PROVE CallInv'
  BY <1>4 DEF BeginSize, Begin
<1>5. ASSUME NEW t \in Threads, FindStep(t) PROVE CallInv'
  <2>1. CASE FindLock(t)   BY <2>1 DEF FindLock
  <2>2. CASE FindLookup(t) BY <2>2 DEF FindLookup
  <2>3. CASE FindCount(t)  BY <2>3 DEF FindCount
  <2>4. CASE FindCopy(t)   BY <2>4 DEF FindCopy
  <2>5. CASE FindUnlock(t) BY <2>5 DEF FindUnlock
  <2> QED  BY <1>5, <2>1, <2>2, <2>3, <2>4, <2>5 DEF FindStep
<1>6. ASSUME NEW t \in Threads, PublishStep(t) PROVE CallInv'
  <2>1. CASE PublishCheck(t)   BY <2>1 DEF PublishCheck
  <2>2. CASE PublishLock(t)    BY <2>2 DEF PublishLock
  <2>3. CASE PublishRoom(t)    BY <2>3 DEF PublishRoom
  <2>4. CASE PublishEmplace(t) BY <2>4 DEF PublishEmplace, Insert, KeepMapping
  <2>5. CASE PublishUnlock(t)  BY <2>5 DEF PublishUnlock
  <2> QED  BY <1>6, <2>1, <2>2, <2>3, <2>4, <2>5 DEF PublishStep
<1>7. ASSUME NEW t \in Threads, SizeStep(t) PROVE CallInv'
  <2>1. CASE SizeLock(t)   BY <2>1 DEF SizeLock
  <2>2. CASE SizeAdd(t)    BY <2>2 DEF SizeAdd
  <2>3. CASE SizeUnlock(t) BY <2>3 DEF SizeUnlock
  <2> QED  BY <1>7, <2>1, <2>2, <2>3 DEF SizeStep
<1>8. ASSUME NEW t \in Threads, Return(t) PROVE CallInv'
  BY <1>8 DEF Return
<1> QED
  BY <1>1, <1>2, <1>3, <1>4, <1>5, <1>6, <1>7, <1>8 DEF Next, Step, Finished

LEMMA CallInvariant == Spec => []CallInv
  BY CoreInvariant, CallInit, CallNext, PTL DEF Spec

-----------------------------------------------------------------------------
(* The refinement mapping, step by step. *)

Phases == [t \in Threads |-> StorePhase(t)]
StoreReplies == [t \in Threads |-> StoreReply(t)]

LEMMA MapInit == Init => Store!Init
<1> SUFFICES ASSUME Init PROVE Store!Init
  OBVIOUS
<1>1. StoredLists = [k \in Keys |-> Absent]
  BY DEF Init, StoredLists
<1>2. \A t \in Threads : StoreReply(t) = NoReply /\ StorePhase(t) = "idle"
  BY StatusOf DEF Init, StoreReply, StorePhase, FindLabels, PublishLabels
<1> QED  BY <1>1, <1>2
         DEF Init, Store!Init, Store!AnyKey, Store!NoList, Store!NoReply, Store!Status,
             Store!Reply, AnyKey, NoList, NoReply, Status, Reply

\* What a step of t that moves only t does to the mapped call states.
LEMMA MovesOne ==
  ASSUME NEW t \in Threads,
         \A u \in Threads : u # t => (pc'[u] = pc[u] /\ reply'[u] = reply[u])
  PROVE  /\ Phases' = [Phases EXCEPT ![t] = StorePhase(t)']
         /\ StoreReplies' = [StoreReplies EXCEPT ![t] = StoreReply(t)']
<1>1. \A u \in Threads : u # t =>
        (StorePhase(u)' = StorePhase(u) /\ StoreReply(u)' = StoreReply(u))
  BY DEF StorePhase, StoreReply
<1> QED  BY <1>1 DEF Phases, StoreReplies

\* The instance's operators are this module's.
LEMMA StoreOperators ==
  /\ \A status : Store!Status(status) = Status(status)
  /\ \A status, l : Store!Reply(status, l) = Reply(status, l)
  /\ Store!NoReply = NoReply
  /\ Store!NoList = NoList
  /\ Store!AnyKey = AnyKey
  BY DEF Store!Status, Store!Reply, Store!NoReply, Store!NoList, Store!AnyKey,
         Status, Reply, NoReply, NoList, AnyKey

LEMMA MapBegin ==
  ASSUME CoreInv, CallInv, NEW t \in Threads,
         \/ \E k \in Keys : BeginFind(t, k)
         \/ \E k \in Keys, l \in Lists : BeginPublish(t, k, l)
         \/ BeginSize(t)
  PROVE  Store!Next \/ UNCHANGED Store!vars
<1> USE DEF CoreInv, TypeOK, Goto
<1>1. pc[t] = "idle" /\ entries' = entries /\ reply' = reply
  BY DEF BeginFind, BeginPublish, BeginSize, Begin
<1>2. StoredLists' = StoredLists
  BY <1>1 DEF StoredLists
<1>3. reply[t] = NoReply /\ StorePhase(t) = "idle" /\ StoreReply(t) = NoReply
  BY <1>1, StatusOf DEF CallInv, StorePhase, StoreReply, FindLabels, PublishLabels
<1>4. StoreReplies' = StoreReplies
  BY <1>1 DEF StoreReplies, StoreReply
<1>5. \A u \in Threads : u # t => (pc'[u] = pc[u] /\ reply'[u] = reply[u])
  BY DEF BeginFind, BeginPublish, BeginSize, Begin
<1>6. ASSUME NEW k \in Keys, BeginFind(t, k) PROVE Store!InvokeFind(t, k)
  <2>1. pc'[t] = "findLock"
    BY <1>6 DEF BeginFind, Begin
  <2>2. StorePhase(t)' = "find"
    BY <2>1, <1>1, <1>3, StatusOf DEF StorePhase, StoreReply, FindLabels
  <2>3. Phases' = [Phases EXCEPT ![t] = "find"]
    BY <2>2, <1>5, MovesOne
  <2> QED  BY <1>2, <1>3, <1>4, <1>6, <2>3
           DEF Store!InvokeFind, BeginFind, Phases, StoreReplies
<1>7. ASSUME NEW k \in Keys, NEW l \in Lists, BeginPublish(t, k, l)
      PROVE  Store!InvokePublish(t, k, l)
  <2>1. pc'[t] = "publishCheck"
    BY <1>7 DEF BeginPublish, Begin
  <2>2. StorePhase(t)' = "publish"
    BY <2>1, <1>1, <1>3, StatusOf DEF StorePhase, StoreReply, FindLabels, PublishLabels
  <2>3. Phases' = [Phases EXCEPT ![t] = "publish"]
    BY <2>2, <1>5, MovesOne
  <2> QED  BY <1>2, <1>3, <1>4, <1>7, <2>3
           DEF Store!InvokePublish, BeginPublish, Phases, StoreReplies
<1>8. CASE BeginSize(t)
  <2>1. pc'[t] = "sizeLock" /\ UNCHANGED <<key, list>>
    BY <1>8 DEF BeginSize, Begin
  <2>2. StorePhase(t)' = "idle"
    BY <2>1, <1>1, <1>3, StatusOf DEF StorePhase, StoreReply, FindLabels, PublishLabels
  <2>3. Phases' = Phases
    BY <2>2, <1>3, <1>5, MovesOne DEF Phases
  <2> QED  BY <1>2, <1>4, <2>1, <2>3 DEF Store!vars, Phases, StoreReplies
<1> QED  BY <1>6, <1>7, <1>8 DEF Store!Next

LEMMA MapFind ==
  ASSUME CoreInv, CallInv, NEW t \in Threads, FindStep(t)
  PROVE  Store!Next \/ UNCHANGED Store!vars
<1> USE DEF CoreInv, TypeOK, Goto, Answer
<1>1. UNCHANGED <<key, list>> /\
      \A u \in Threads : u # t => (pc'[u] = pc[u] /\ reply'[u] = reply[u])
  BY DEF FindStep, FindLock, FindLookup, FindCount, FindCopy, FindUnlock
<1>2. Phases' = [Phases EXCEPT ![t] = StorePhase(t)']
      /\ StoreReplies' = [StoreReplies EXCEPT ![t] = StoreReply(t)']
  BY <1>1, MovesOne
<1>3. StoredLists' = StoredLists
  <2>1. CASE FindCount(t)
    <3>1. entries[key[t]] # Absent /\ entries[key[t]] \in Entry
      BY <2>1 DEF FindCount, IteratorsStayValid
    <3>2. entries' = [entries EXCEPT ![key[t]] = [entries[key[t]] EXCEPT !.hits = entries[key[t]].hits + 1]]
      BY <2>1 DEF FindCount
    <3>3. /\ [entries[key[t]] EXCEPT !.hits = entries[key[t]].hits + 1].positions
                = entries[key[t]].positions
          /\ [entries[key[t]] EXCEPT !.hits = entries[key[t]].hits + 1] \in Entry
      BY <3>1 DEF Entry
    <3>4. \A k \in Keys : /\ entries'[k] = Absent <=> entries[k] = Absent
                          /\ entries[k] # Absent => entries'[k].positions = entries[k].positions
      BY <3>1, <3>2, <3>3, Fresh
    <3> QED  BY <3>4 DEF StoredLists
  <2> QED  BY <2>1 DEF FindStep, FindLock, FindLookup, FindCopy, FindUnlock, StoredLists
<1>4. CASE UNCHANGED reply /\ pc[t] \in FindLabels /\ pc'[t] \in FindLabels
  <2>1. StorePhase(t)' = StorePhase(t) /\ StoreReply(t)' = StoreReply(t)
    BY <1>4 DEF StorePhase, StoreReply
  <2> QED  BY <1>1, <1>2, <1>3, <2>1 DEF Store!vars, Phases, StoreReplies
<1>5. CASE FindUnlock(t)
  <2>1. /\ pc[t] = "findUnlock" /\ pc'[t] = "done" /\ UNCHANGED reply
        /\ StoreReply(t) = reply[t] /\ reply[t] # NoReply
    BY <1>5, StatusOf DEF FindUnlock, CallInv, StoreReply
  <2>2. StorePhase(t)' = StorePhase(t) /\ StoreReply(t)' = StoreReply(t)
    BY <2>1 DEF StorePhase, StoreReply
  <2> QED  BY <1>1, <1>2, <1>3, <2>2 DEF Store!vars, Phases, StoreReplies
<1>6. ASSUME NEW r, Answer(t, r), pc[t] \in FindLabels,
             r.status \notin {"none", "size"},
             \/ r = Status("OUT_OF_MEMORY")
             \/ StoredLists[key[t]] = Absent /\ r = Status("miss")
             \/ StoredLists[key[t]] # Absent /\ r = Reply("hit", StoredLists[key[t]])
      PROVE  Store!AnswerFind(t) \/ Store!Fail(t)
  <2>1. reply'[t] = r /\ reply[t] = NoReply
    BY <1>6 DEF CallInv
  <2>2. StorePhase(t)' = "done" /\ StoreReply(t)' = r
    BY <2>1, <1>6, StatusOf DEF StorePhase, StoreReply
  <2>3. StorePhase(t) = "find"
    BY <2>1, <1>6, StatusOf DEF StorePhase, StoreReply
  <2>4. Store!Answer(t, r)
    BY <1>1, <1>2, <2>2 DEF Store!Answer, Phases, StoreReplies
  <2>5. CASE r = Status("OUT_OF_MEMORY")
    BY <1>3, <2>3, <2>4, <2>5, StoreOperators DEF Store!Fail
  <2>6. CASE r # Status("OUT_OF_MEMORY")
    BY <1>3, <1>6, <2>3, <2>4, <2>6, StoreOperators DEF Store!AnswerFind
  <2> QED  BY <2>5, <2>6
<1>7. CASE FindLookup(t) /\ entries[key[t]] = Absent
  <2>1. Answer(t, Status("miss")) /\ pc[t] \in FindLabels
    BY <1>7 DEF FindLookup, FindLabels
  <2>2. StoredLists[key[t]] = Absent
    BY <1>7 DEF StoredLists
  <2>3. PICK r : r = Status("miss")
    OBVIOUS
  <2>4. r.status = "miss"
    BY <2>3, StatusOf
  <2>5. Store!AnswerFind(t) \/ Store!Fail(t)
    BY <1>6, <2>1, <2>2, <2>3, <2>4
  <2> QED  BY <2>5 DEF Store!Next
<1>8. CASE FindCopy(t)
  <2>1. pc[t] \in FindLabels /\ entries[key[t]] # Absent /\ entries[key[t]] \in Entry
    BY <1>8 DEF FindCopy, FindLabels, IteratorsStayValid
  <2>2. entries[key[t]].positions \in Lists
    BY <2>1 DEF Entry
  <2>3. StoredLists[key[t]] = entries[key[t]].positions /\ StoredLists[key[t]] # Absent
    BY <2>1, <2>2, CacheAssumption DEF StoredLists
  <2>4. CASE Answer(t, Status("OUT_OF_MEMORY"))
    BY <1>6, <2>1, <2>4, StatusOf DEF Store!Next
  <2>5. CASE Answer(t, Reply("hit", entries[key[t]].positions))
    <3>1. PICK r : r = Reply("hit", entries[key[t]].positions)
      OBVIOUS
    <3>2. r.status = "hit"
      BY <3>1, StatusOf
    <3>3. Store!AnswerFind(t) \/ Store!Fail(t)
      BY <1>6, <2>1, <2>3, <2>5, <3>1, <3>2
    <3> QED  BY <3>3 DEF Store!Next
  <2> QED  BY <1>8, <2>4, <2>5 DEF FindCopy
<1>9. CASE FindLock(t) \/ FindCount(t) \/ (FindLookup(t) /\ entries[key[t]] # Absent)
  BY <1>4, <1>9 DEF FindLock, FindCount, FindLookup, FindLabels
<1> QED  BY <1>5, <1>7, <1>8, <1>9 DEF FindStep

LEMMA MapPublish ==
  ASSUME CoreInv, CoreInv', CallInv, NEW t \in Threads, PublishStep(t)
  PROVE  Store!Next \/ UNCHANGED Store!vars
<1> USE DEF CoreInv, TypeOK, Goto, Answer
<1>1. UNCHANGED <<key, list>> /\
      \A u \in Threads : u # t => (pc'[u] = pc[u] /\ reply'[u] = reply[u])
  BY DEF PublishStep, PublishCheck, PublishLock, PublishRoom, PublishEmplace, Insert,
         KeepMapping, PublishUnlock
<1>2. Phases' = [Phases EXCEPT ![t] = StorePhase(t)']
      /\ StoreReplies' = [StoreReplies EXCEPT ![t] = StoreReply(t)']
  BY <1>1, MovesOne
<1>3. ASSUME UNCHANGED reply, pc[t] \in PublishLabels, pc'[t] \in PublishLabels
      PROVE  UNCHANGED <<Phases, StoreReplies>>
  <2>1. StorePhase(t)' = StorePhase(t) /\ StoreReply(t)' = StoreReply(t)
    BY <1>3, StatusOf DEF CallInv, StorePhase, StoreReply, FindLabels, PublishLabels
  <2> QED  BY <1>2, <2>1 DEF Phases, StoreReplies
<1>4. ASSUME NEW s \in {"published", "INVALID_ARGUMENT", "OUT_OF_MEMORY"},
             Answer(t, Status(s)), pc[t] \in PublishLabels
      PROVE  Store!Answer(t, Status(s)) /\ Phases[t] = "publish"
  <2>1. reply'[t] = Status(s) /\ reply[t] = NoReply
    BY <1>4 DEF CallInv
  <2>2. StorePhase(t)' = "done" /\ StoreReply(t)' = Status(s)
    BY <2>1, <1>4, StatusOf DEF StorePhase, StoreReply
  <2>3. StorePhase(t) = "publish"
    BY <2>1, <1>4, StatusOf DEF StorePhase, StoreReply, FindLabels, PublishLabels
  <2> QED  BY <1>1, <1>2, <2>2, <2>3 DEF Store!Answer, Phases, StoreReplies
<1>5. CASE PublishCheck(t)
  <2>1. pc[t] \in PublishLabels /\ StoredLists' = StoredLists
    BY <1>5 DEF PublishCheck, PublishLabels, StoredLists
  <2>2. CASE list[t] = NoList
    <3>1. Answer(t, Status("INVALID_ARGUMENT"))
      BY <1>5, <2>2 DEF PublishCheck
    <3>2. Store!Refuse(t)
      BY <1>4, <2>1, <2>2, <3>1, StoreOperators DEF Store!Refuse, Phases
    <3> QED  BY <3>2 DEF Store!Next
  <2>3. CASE list[t] # NoList
    <3>1. UNCHANGED <<Phases, StoreReplies>>
      BY <1>3, <1>5, <2>3 DEF PublishCheck, PublishLabels
    <3> QED  BY <1>1, <2>1, <3>1 DEF Store!vars, Phases, StoreReplies
  <2> QED  BY <2>2, <2>3
<1>6. CASE PublishLock(t)
  <2>1. UNCHANGED <<Phases, StoreReplies>>
    BY <1>3, <1>6 DEF PublishLock, PublishLabels
  <2>2. StoredLists' = StoredLists
    BY <1>6 DEF PublishLock, StoredLists
  <2> QED  BY <1>1, <2>1, <2>2 DEF Store!vars, Phases, StoreReplies
<1>7. CASE PublishRoom(t)
  <2>1. pc[t] = "publishRoom"
    BY <1>7 DEF PublishRoom
  <2>2. CASE UNCHANGED <<entries, reply>> /\ pc'[t] = "publishEmplace"
    <3>1. UNCHANGED <<Phases, StoreReplies>>
      BY <1>3, <2>1, <2>2 DEF PublishLabels
    <3>2. StoredLists' = StoredLists
      BY <2>2 DEF StoredLists
    <3> QED  BY <1>1, <3>1, <3>2 DEF Store!vars, Phases, StoreReplies
  <2>3. ASSUME NeedsRoom(t), NEW batch \in EvictionBatches(ShardFor(key[t])), entries' = Without(batch),
               UNCHANGED reply, pc'[t] = "publishEmplace"
        PROVE  Store!Drop(batch) /\ batch \in SUBSET Keys
    <3>1. UNCHANGED <<Phases, StoreReplies>>
      BY <1>3, <2>1, <2>3 DEF PublishLabels
    <3>2. batch \in SUBSET Keys
      <4>1. key[t] \in Keys
        BY DEF CoreInv, TypeOK
      <4>2. batch \subseteq ShardKeys(ShardFor(key[t]))
        BY <2>3, <4>1, NeedsOfShard, LeastOfShard
      <4> QED BY <4>2 DEF ShardKeys, Stored
    <3>3. StoredLists' = [k \in Keys |-> IF k \in batch THEN Absent ELSE StoredLists[k]]
      BY <2>3 DEF StoredLists, Without
    <3> QED  BY <1>1, <3>1, <3>2, <3>3 DEF Store!Drop, Phases, StoreReplies
  <2>4. CASE UNCHANGED entries /\ Answer(t, Status("OUT_OF_MEMORY"))
    <3>1. Store!Answer(t, Status("OUT_OF_MEMORY")) /\ Phases[t] = "publish"
      BY <1>4, <2>1, <2>4 DEF PublishLabels
    <3>2. StoredLists' = StoredLists
      BY <2>4 DEF StoredLists
    <3>3. Store!Fail(t)
      BY <3>1, <3>2, StoreOperators DEF Store!Fail, Phases
    <3> QED  BY <3>3 DEF Store!Next
  <2> QED  BY <1>7, <2>2, <2>3, <2>4 DEF PublishRoom, Store!Next
<1>8. CASE PublishEmplace(t)
  <2>1. pc[t] \in PublishLabels /\ list[t] # NoList /\ pc[t] = "publishEmplace"
    BY <1>8 DEF PublishEmplace, CallInv, PublishLabels
  <2>2. CASE Insert(t)
    <3>1. entries[key[t]] = Absent /\ entries' = [entries EXCEPT ![key[t]] = NewEntry(list[t])]
      BY <2>2 DEF Insert
    <3>2. NewEntry(list[t]) # Absent /\ NewEntry(list[t]).positions = list[t]
      BY Fresh DEF NewEntry, Entry
    <3>3. StoredLists' = [StoredLists EXCEPT ![key[t]] = list[t]] /\ StoredLists[key[t]] = Absent
      BY <3>1, <3>2 DEF StoredLists
    <3>4. Store!Answer(t, Status("published")) /\ Phases[t] = "publish"
      BY <1>4, <2>1, <2>2 DEF Insert
    <3>5. Store!AnswerPublish(t)
      BY <2>1, <3>3, <3>4, StoreOperators DEF Store!AnswerPublish, Phases
    <3> QED  BY <3>5 DEF Store!Next
  <2>3. CASE KeepMapping(t)
    <3>1. entries[key[t]] # Absent /\ entries[key[t]] \in Entry /\ UNCHANGED entries
      BY <2>3 DEF KeepMapping
    <3>2. entries[key[t]].positions \in Lists
      BY <3>1 DEF Entry
    <3>3. StoredLists' = StoredLists /\ StoredLists[key[t]] # Absent
      BY <3>1, <3>2, CacheAssumption DEF StoredLists
    <3>4. Store!Answer(t, Status("published")) /\ Phases[t] = "publish"
      BY <1>4, <2>1, <2>3 DEF KeepMapping
    <3>5. Store!AnswerPublish(t)
      BY <2>1, <3>3, <3>4, StoreOperators DEF Store!AnswerPublish, Phases
    <3> QED  BY <3>5 DEF Store!Next
  <2>4. CASE UNCHANGED entries /\ Answer(t, Status("OUT_OF_MEMORY"))
    <3>1. Store!Answer(t, Status("OUT_OF_MEMORY")) /\ Phases[t] = "publish"
      BY <1>4, <2>1, <2>4
    <3>2. StoredLists' = StoredLists
      BY <2>4 DEF StoredLists
    <3>3. Store!Fail(t)
      BY <3>1, <3>2, StoreOperators DEF Store!Fail, Phases
    <3> QED  BY <3>3 DEF Store!Next
  <2> QED  BY <1>8, <2>2, <2>3, <2>4 DEF PublishEmplace
<1>9. CASE PublishUnlock(t)
  <2>1. /\ pc[t] = "publishUnlock" /\ pc'[t] = "done" /\ UNCHANGED reply
        /\ StoreReply(t) = reply[t] /\ reply[t] # NoReply
    BY <1>9, StatusOf DEF PublishUnlock, CallInv, StoreReply
  <2>2. StorePhase(t)' = StorePhase(t) /\ StoreReply(t)' = StoreReply(t)
    BY <2>1 DEF StorePhase, StoreReply
  <2>3. StoredLists' = StoredLists
    BY <1>9 DEF PublishUnlock, StoredLists
  <2>4. UNCHANGED <<Phases, StoreReplies>>
    BY <1>2, <2>2 DEF Phases, StoreReplies
  <2> QED  BY <1>1, <2>3, <2>4 DEF Store!vars, Phases, StoreReplies
<1> QED  BY <1>5, <1>6, <1>7, <1>8, <1>9 DEF PublishStep

\* getSize is invisible in the abstract store.
LEMMA MapSize ==
  ASSUME CoreInv, CallInv, NEW t \in Threads, SizeStep(t)
  PROVE  UNCHANGED Store!vars
<1> USE DEF CoreInv, TypeOK, Goto, Answer
<1>1. UNCHANGED <<entries, key, list>> /\
      \A u \in Threads : u # t => (pc'[u] = pc[u] /\ reply'[u] = reply[u])
  BY DEF SizeStep, SizeLock, SizeAdd, SizeUnlock
<1>2. Phases' = [Phases EXCEPT ![t] = StorePhase(t)']
      /\ StoreReplies' = [StoreReplies EXCEPT ![t] = StoreReply(t)']
  BY <1>1, MovesOne
<1>3. pc[t] \in SizeLabels /\ pc'[t] \in SizeLabels \cup {"done"}
  BY DEF SizeStep, SizeLock, SizeAdd, SizeUnlock, SizeLabels
<1>4. reply[t] = NoReply /\ (reply'[t] = NoReply \/ reply'[t] = Status("size"))
  BY <1>3 DEF SizeStep, SizeLock, SizeAdd, SizeUnlock, CallInv
<1>5. StoreReply(t) = NoReply /\ StoreReply(t)' = NoReply
  BY <1>4, StatusOf DEF StoreReply
<1>6. StorePhase(t) = "idle" /\ StorePhase(t)' = "idle"
  BY <1>3, <1>5 DEF StorePhase, FindLabels, PublishLabels, SizeLabels
<1>7. StoredLists' = StoredLists
  BY <1>1 DEF StoredLists
<1>8. UNCHANGED <<Phases, StoreReplies>>
  <2>1. \A u \in Threads : StorePhase(u)' = StorePhase(u) /\ StoreReply(u)' = StoreReply(u)
    BY <1>1, <1>5, <1>6 DEF StorePhase, StoreReply
  <2> QED  BY <2>1 DEF Phases, StoreReplies
<1> QED  BY <1>1, <1>7, <1>8 DEF Store!vars, Phases, StoreReplies

LEMMA MapReturn ==
  ASSUME CoreInv, CallInv, NEW t \in Threads, Return(t)
  PROVE  Store!Next \/ UNCHANGED Store!vars
<1> USE DEF CoreInv, TypeOK, Goto, Answer
<1>1. /\ pc[t] = "done" /\ pc'[t] = "idle" /\ reply'[t] = NoReply /\ UNCHANGED entries
      /\ \A u \in Threads : u # t => (pc'[u] = pc[u] /\ reply'[u] = reply[u])
      /\ key' = [key EXCEPT ![t] = AnyKey] /\ list' = [list EXCEPT ![t] = NoList]
  BY DEF Return
<1>2. Phases' = [Phases EXCEPT ![t] = StorePhase(t)']
      /\ StoreReplies' = [StoreReplies EXCEPT ![t] = StoreReply(t)']
  BY <1>1, MovesOne
<1>3. StoreReply(t)' = NoReply /\ StorePhase(t)' = "idle"
  BY <1>1, StatusOf DEF StoreReply, StorePhase, FindLabels, PublishLabels
<1>4. StoredLists' = StoredLists
  BY <1>1 DEF StoredLists
<1>5. CASE reply[t].status = "size"
  <2>1. key[t] = AnyKey /\ list[t] = NoList
    BY <1>5 DEF CallInv
  <2>2. UNCHANGED <<key, list>>
    BY <1>1, <2>1
  <2>3. StoreReply(t) = NoReply /\ StorePhase(t) = "idle"
    BY <1>1, <1>5 DEF StoreReply, StorePhase, FindLabels, PublishLabels
  <2>4. UNCHANGED <<Phases, StoreReplies>>
    <3>1. \A u \in Threads : StorePhase(u)' = StorePhase(u) /\ StoreReply(u)' = StoreReply(u)
      BY <1>1, <1>3, <2>3 DEF StorePhase, StoreReply
    <3> QED  BY <3>1 DEF Phases, StoreReplies
  <2> QED  BY <1>4, <2>2, <2>4 DEF Store!vars, Phases, StoreReplies
<1>6. CASE reply[t].status # "size"
  <2>1. reply[t] # NoReply
    BY <1>1, StatusOf DEF CallInv
  <2>2. StorePhase(t) = "done"
    BY <1>6, <2>1 DEF StoreReply, StorePhase
  <2>3. Store!Return(t)
    BY <1>1, <1>2, <1>3, <1>4, <2>2, StoreOperators DEF Store!Return, Phases, StoreReplies
  <2> QED  BY <2>3 DEF Store!Next
<1> QED  BY <1>5, <1>6

LEMMA MapNext ==
  CoreInv /\ CoreInv' /\ CallInv /\ [Next]_vars => [Store!Next]_(Store!vars)
<1> SUFFICES ASSUME CoreInv, CoreInv', CallInv, [Next]_vars
             PROVE  Store!Next \/ UNCHANGED Store!vars
  OBVIOUS
<1>1. CASE UNCHANGED vars
  <2>1. UNCHANGED <<StoredLists, Phases, StoreReplies, key, list>>
    BY <1>1 DEF vars, callVars, StoredLists, Phases, StoreReplies, StorePhase, StoreReply
  <2> QED  BY <2>1 DEF Store!vars, Phases, StoreReplies
<1>2. ASSUME NEW t \in Threads,
             \/ \E k \in Keys : BeginFind(t, k)
             \/ \E k \in Keys, l \in Lists : BeginPublish(t, k, l)
             \/ BeginSize(t)
      PROVE  Store!Next \/ UNCHANGED Store!vars
  BY <1>2, MapBegin
<1>3. ASSUME NEW t \in Threads, Step(t) PROVE Store!Next \/ UNCHANGED Store!vars
  BY <1>3, MapFind, MapPublish, MapSize, MapReturn DEF Step
<1> QED  BY <1>1, <1>2, <1>3 DEF Next, Finished

\* The sharded, locked cache implements the atomic lossy store: what a find
\* answers is what was stored for its key at one instant of the call, the
\* first publication wins while the key stays stored, an empty publication
\* changes nothing and a call that fails stores nothing.
THEOREM ImplementsSelectionStore == Spec => StoreSpec
<1>1. Init => Store!Init
  BY MapInit
<1>2. CoreInv /\ CoreInv' /\ CallInv /\ [Next]_vars => [Store!Next]_(Store!vars)
  BY MapNext
<1> QED  BY <1>1, <1>2, CoreInvariant, CallInvariant, PTL DEF Spec, StoreSpec, Store!Spec

-----------------------------------------------------------------------------
(***************************************************************************)
(* What the history tells. A find that has counted its hit and not let go  *)
(* of its shard is all there is between the hits of an entry and its uses, *)
(* and nobody is there while the entries of that shard are judged.         *)
(***************************************************************************)

LEMMA HistoryCore == HistorySpec => []CoreInv /\ []CallInv
<1>1. [Next /\ Remember]_allVars => [Next]_vars
  BY DEF allVars
<1>2. HistorySpec => Spec
  BY <1>1, PTL DEF HistorySpec, HistoryInit, Spec
<1> QED BY <1>2, CoreInvariant, CallInvariant, PTL

\* The finds that have counted their hit of k and not let go of it.
Counted(t) == pc[t] = "findCopy" \/ (pc[t] = "findUnlock" /\ reply[t].status # "miss")

Finding(k) == {t \in Threads : key[t] = k /\ Counted(t)}

UsesInv ==
  /\ uses \in [Keys -> Nat]
  /\ \A k \in Keys : IsFiniteSet(Finding(k))
  /\ \A k \in Stored : entries[k].hits = uses[k] + Cardinality(Finding(k))

LEMMA UsesInit == HistoryInit => UsesInv
<1> SUFFICES ASSUME Init, NoHistory PROVE UsesInv
  BY DEF HistoryInit
<1>1. \A k \in Keys : Finding(k) = {}
  BY DEF Init, Finding, Counted
<1>2. Stored = {}
  BY DEF Init, Stored
<1> QED BY <1>1, <1>2, FS_EmptySet DEF UsesInv, NoHistory

\* A shard's writer has it to itself.
LEMMA WriterAlone ==
  ASSUME CoreInv, NEW t \in Threads, pc[t] \in InExclusive, NEW k \in Keys,
         ShardFor(k) = ShardFor(key[t])
  PROVE  Finding(k) = {}
<1>1. ShardFor(k) \in Shards /\ writer[ShardFor(k)] = t
  BY ShardForType DEF CoreInv, LockInv
<1>2. readers[ShardFor(k)] = {}
  BY <1>1, Fresh DEF CoreInv, LockInv
<1>3. \A u \in Threads : Counted(u) => u \in readers[ShardFor(key[u])]
  BY DEF CoreInv, LockInv, InSharedFind, Counted
<1> QED BY <1>2, <1>3 DEF Finding

\* Counting a hit and letting go are the only steps that change who is between.
LEMMA CountedKept ==
  ASSUME CoreInv, CallInv, Next,
         ~\E t \in Threads : FindCount(t) \/ FindUnlock(t)
  PROVE  \A u \in Threads : /\ Counted(u)' <=> Counted(u)
                            /\ Counted(u) => key'[u] = key[u]
<1> USE DEF Counted, CoreInv, TypeOK, Goto, Answer
<1>0. StatusOf!1 /\ StatusOf!2
  BY StatusOf
<1> DEFINE Kept == \A u \in Threads : /\ Counted(u)' <=> Counted(u)
                                      /\ Counted(u) => key'[u] = key[u]
<1>1. CASE UNCHANGED vars
  BY <1>1 DEF vars, callVars
<1>2. ASSUME NEW t \in Threads, NEW k \in Keys, BeginFind(t, k) PROVE Kept
  BY <1>2 DEF BeginFind, Begin
<1>3. ASSUME NEW t \in Threads, NEW k \in Keys, NEW l \in Lists, BeginPublish(t, k, l) PROVE Kept
  BY <1>3 DEF BeginPublish, Begin
<1>4. ASSUME NEW t \in Threads, BeginSize(t) PROVE Kept
  BY <1>4 DEF BeginSize, Begin
<1>5. ASSUME NEW t \in Threads, FindStep(t) PROVE Kept
  <2>1. CASE FindLock(t)   BY <2>1 DEF FindLock
  <2>2. CASE FindLookup(t) BY <1>0, <2>2 DEF FindLookup
  <2>3. CASE FindCopy(t)   BY <1>0, <2>3 DEF FindCopy
  <2> QED  BY <1>5, <2>1, <2>2, <2>3 DEF FindStep
<1>6. ASSUME NEW t \in Threads, PublishStep(t) PROVE Kept
  <2>1. CASE PublishCheck(t)   BY <2>1 DEF PublishCheck
  <2>2. CASE PublishLock(t)    BY <2>2 DEF PublishLock
  <2>3. CASE PublishRoom(t)    BY <2>3 DEF PublishRoom
  <2>4. CASE PublishEmplace(t) BY <2>4 DEF PublishEmplace, Insert, KeepMapping
  <2>5. CASE PublishUnlock(t)  BY <2>5 DEF PublishUnlock
  <2> QED  BY <1>6, <2>1, <2>2, <2>3, <2>4, <2>5 DEF PublishStep
<1>7. ASSUME NEW t \in Threads, SizeStep(t) PROVE Kept
  <2>1. CASE SizeLock(t)   BY <2>1 DEF SizeLock
  <2>2. CASE SizeAdd(t)    BY <2>2 DEF SizeAdd
  <2>3. CASE SizeUnlock(t) BY <2>3 DEF SizeUnlock
  <2> QED  BY <1>7, <2>1, <2>2, <2>3 DEF SizeStep
<1>8. ASSUME NEW t \in Threads, Return(t) PROVE Kept
  BY <1>8 DEF Return
<1> QED
  BY <1>1, <1>2, <1>3, <1>4, <1>5, <1>6, <1>7, <1>8 DEF Next, Step, Finished

\* Otherwise an entry stays with its hits, goes, or is new to a shard with nobody in it.
LEMMA HitsKept ==
  ASSUME CoreInv, Next, ~\E t \in Threads : FindCount(t) \/ FindUnlock(t),
         NEW k \in Stored'
  PROVE  /\ k \in Keys
         /\ \/ k \in Stored /\ entries'[k].hits = entries[k].hits
            \/ k \notin Stored /\ entries'[k].hits = 0 /\ Finding(k) = {}
<1>1. k \in Keys /\ entries'[k] # Absent
  BY DEF Stored
<1>2. CASE UNCHANGED entries
  BY <1>1, <1>2 DEF Stored
<1>3. ASSUME NEW t \in Threads, PublishRoom(t) PROVE k \in Stored /\ entries'[k] = entries[k]
  BY <1>1, <1>3 DEF PublishRoom, Without, Stored
<1>4. ASSUME NEW t \in Threads, Insert(t), pc[t] = "publishEmplace"
      PROVE  \/ k \in Stored /\ entries'[k] = entries[k]
             \/ k \notin Stored /\ entries'[k].hits = 0 /\ Finding(k) = {}
  <2>1. /\ entries[key[t]] = Absent /\ key[t] \in Keys
        /\ entries' = [entries EXCEPT ![key[t]] = NewEntry(list[t])]
        /\ entries \in [Keys -> Entry \cup {Absent}]
    BY <1>4 DEF Insert, CoreInv, TypeOK
  <2>2. CASE k = key[t]
    <3>1. Finding(k) = {}
      BY <1>1, <1>4, <2>2, WriterAlone DEF InExclusive
    <3>2. k \notin Stored /\ entries'[k] = NewEntry(list[t])
      BY <2>1, <2>2 DEF Stored
    <3> QED BY <3>1, <3>2 DEF NewEntry
  <2>3. CASE k # key[t]
    BY <1>1, <2>1, <2>3 DEF Stored
  <2> QED BY <2>2, <2>3
<1>5. ASSUME NEW t \in Threads, PublishEmplace(t), ~Insert(t) PROVE UNCHANGED entries
  BY <1>5 DEF PublishEmplace, KeepMapping
<1>6. ASSUME NEW t \in Threads, PublishEmplace(t) PROVE pc[t] = "publishEmplace"
  BY <1>6 DEF PublishEmplace
<1>7. ASSUME NEW t \in Threads, Step(t), ~FindCount(t), ~PublishRoom(t), ~PublishEmplace(t)
      PROVE  UNCHANGED entries
  BY <1>7 DEF Step, FindStep, PublishStep, SizeStep, FindLock, FindLookup, FindCopy, FindUnlock,
              PublishCheck, PublishLock, PublishUnlock, SizeLock, SizeAdd, SizeUnlock, Return
<1>8. \/ UNCHANGED entries \/ \E t \in Threads : PublishRoom(t)
      \/ \E t \in Threads : Insert(t) /\ pc[t] = "publishEmplace"
  BY <1>5, <1>6, <1>7 DEF Next, vars, BeginFind, BeginPublish, BeginSize, Finished
<1> QED BY <1>1, <1>2, <1>3, <1>4, <1>8

LEMMA UsesNext == CoreInv /\ CallInv /\ UsesInv /\ [Next /\ Remember]_allVars => UsesInv'
<1> SUFFICES ASSUME CoreInv, CallInv, UsesInv, [Next /\ Remember]_allVars PROVE UsesInv'
  OBVIOUS
<1>1. CASE UNCHANGED allVars
  <2>1. UNCHANGED <<entries, pc, key, reply, uses>>
    BY <1>1 DEF allVars, vars, callVars, historyVars
  <2>2. /\ \A k : Finding(k)' = Finding(k)
        /\ Stored' = Stored
    BY <2>1 DEF Finding, Counted, Stored
  <2> QED BY <2>1, <2>2 DEF UsesInv
<1>2. ASSUME Next, Remember PROVE UsesInv'
  <2>1. \A k \in Keys : uses'[k] = IF k \notin Stored \cap Stored' THEN 0
                                   ELSE IF Used(k) THEN uses[k] + 1 ELSE uses[k]
    BY <1>2 DEF Remember
  <2>2. uses' \in [Keys -> Nat]
    BY <1>2 DEF Remember, UsesInv
  <2>3. Stored \subseteq Keys /\ Stored' \subseteq Keys
    BY DEF Stored
  <2>4. \A k \in Keys : uses[k] \in Nat /\ IsFiniteSet(Finding(k)) /\ Cardinality(Finding(k)) \in Nat
    BY FS_CardinalityType DEF UsesInv
  <2>5. ASSUME NEW t \in Threads, FindCount(t) PROVE UsesInv'
    <3>1. /\ pc[t] = "findCount" /\ pc' = [pc EXCEPT ![t] = "findCopy"] /\ UNCHANGED <<key, reply>>
          /\ entries' = [entries EXCEPT ![key[t]].hits = @ + 1]
      BY <2>5 DEF FindCount, Goto
    <3>2. /\ pc \in [Threads -> Labels] /\ key[t] \in Keys /\ entries[key[t]] \in Entry
          /\ entries \in [Keys -> Entry \cup {Absent}]
      BY <3>1 DEF CoreInv, TypeOK, IteratorsStayValid
    <3>0. PICK k0 \in Keys : k0 = key[t]
      BY <3>2
    <3>3. /\ t \notin Finding(k0)
          /\ Finding(k0)' = Finding(k0) \cup {t}
          /\ \A k \in Keys \ {k0} : Finding(k)' = Finding(k)
      BY <3>0, <3>1, <3>2 DEF Finding, Counted
    <3>4. \A k \in Keys : ~Used(k)
      BY <3>0, <3>1, <3>2 DEF Used
    <3>5. [entries[k0] EXCEPT !.hits = @ + 1] \in Entry
      BY <3>0, <3>2 DEF Entry
    <3>6. /\ \A k \in Keys \ {k0} : entries'[k] = entries[k]
          /\ entries'[k0].hits = entries[k0].hits + 1
          /\ entries'[k0] # Absent /\ entries[k0] # Absent
      BY <3>0, <3>1, <3>2, <3>5, Fresh DEF Entry
    <3>7. Stored' = Stored /\ k0 \in Stored
      BY <3>0, <3>2, <3>6 DEF Stored
    <3>8. /\ IsFiniteSet(Finding(k0) \cup {t})
          /\ Cardinality(Finding(k0) \cup {t}) = Cardinality(Finding(k0)) + 1
      BY <2>4, <3>2, <3>3, FS_AddElement
    <3>9. \A k \in Keys : IsFiniteSet(Finding(k)')
      BY <2>4, <3>3, <3>8
    <3>10. ASSUME NEW k \in Stored' PROVE entries'[k].hits = uses'[k] + Cardinality(Finding(k)')
      <4>1. k \in Keys /\ k \in Stored /\ uses'[k] = uses[k]
        BY <2>1, <2>3, <3>4, <3>7
      <4>2. entries[k].hits = uses[k] + Cardinality(Finding(k))
        BY <4>1 DEF UsesInv
      <4>3. CASE k = k0
        <5>1. Cardinality(Finding(k)') = Cardinality(Finding(k)) + 1
          BY <3>3, <3>8, <4>3
        <5> QED BY <2>4, <3>6, <4>1, <4>2, <4>3, <5>1
      <4>4. CASE k # k0
        BY <3>3, <3>6, <4>1, <4>2, <4>4
      <4> QED BY <4>3, <4>4
    <3> QED BY <2>2, <3>9, <3>10 DEF UsesInv
  <2>6. ASSUME NEW t \in Threads, FindUnlock(t) PROVE UsesInv'
    <3>1. /\ pc[t] = "findUnlock" /\ pc' = [pc EXCEPT ![t] = "done"] /\ UNCHANGED <<entries, key, reply>>
      BY <2>6 DEF FindUnlock, Goto
    <3>2. pc \in [Threads -> Labels]
      BY DEF CoreInv, TypeOK
    <3>3. Stored' = Stored
      BY <3>1 DEF Stored
    <3>4. \A k \in Keys : Used(k) <=> t \in Finding(k)
      BY <3>1, <3>2 DEF Used, Finding, Counted
    <3>5. \A k \in Keys : Finding(k)' = Finding(k) \ {t}
      BY <3>1, <3>2 DEF Finding, Counted
    <3>6. ASSUME NEW k \in Keys
          PROVE  /\ IsFiniteSet(Finding(k)')
                 /\ Cardinality(Finding(k)') = IF t \in Finding(k) THEN Cardinality(Finding(k)) - 1
                                               ELSE Cardinality(Finding(k))
      BY <2>4, <3>5, FS_RemoveElement
    <3>7. ASSUME NEW k \in Stored' PROVE entries'[k].hits = uses'[k] + Cardinality(Finding(k)')
      <4>1. /\ k \in Keys /\ k \in Stored /\ entries'[k] = entries[k]
            /\ uses'[k] = IF t \in Finding(k) THEN uses[k] + 1 ELSE uses[k]
        BY <2>1, <2>3, <3>1, <3>3, <3>4
      <4>2. entries[k].hits = uses[k] + Cardinality(Finding(k))
        BY <4>1 DEF UsesInv
      <4> QED BY <2>4, <3>6, <4>1, <4>2
    <3> QED BY <2>2, <3>6, <3>7 DEF UsesInv
  <2>7. CASE ~\E t \in Threads : FindCount(t) \/ FindUnlock(t)
    <3>1. \A u \in Threads : /\ Counted(u)' <=> Counted(u)
                             /\ Counted(u) => key'[u] = key[u]
      BY <1>2, <2>7, CountedKept
    <3>2. \A u \in Threads : ~Counted(u) => ~Counted(u)'
      BY <3>1
    <3>3. \A k \in Keys : Finding(k)' = Finding(k)
      BY <3>1 DEF Finding
    <3>4. \A k \in Keys : ~Used(k)
      <4> SUFFICES ASSUME NEW k \in Keys, NEW t \in Threads, pc[t] = "findUnlock", pc'[t] = "done",
                          reply[t].status # "miss"
                   PROVE  FALSE
        BY DEF Used
      <4> QED BY <3>1 DEF Counted
    <3>5. ASSUME NEW k \in Stored' PROVE entries'[k].hits = uses'[k] + Cardinality(Finding(k)')
      <4>1. /\ k \in Keys
            /\ \/ k \in Stored /\ entries'[k].hits = entries[k].hits
               \/ k \notin Stored /\ entries'[k].hits = 0 /\ Finding(k) = {}
        BY <1>2, <2>7, HitsKept
      <4>2. CASE k \in Stored /\ entries'[k].hits = entries[k].hits
        BY <2>1, <3>3, <3>4, <4>1, <4>2 DEF UsesInv
      <4>3. CASE k \notin Stored /\ entries'[k].hits = 0 /\ Finding(k) = {}
        BY <2>1, <3>3, <4>1, <4>3, FS_EmptySet
      <4> QED BY <4>1, <4>2, <4>3
    <3>6. \A k \in Keys : IsFiniteSet(Finding(k)')
      BY <2>4, <3>3
    <3> QED BY <2>2, <3>5, <3>6 DEF UsesInv
  <2> QED BY <2>5, <2>6, <2>7
<1> QED BY <1>1, <1>2

\* An entry that is lost had been used no more often than one of its shard that survives.
THEOREM LeastUsedGo == HistorySpec => HotEntriesOutlast
<1> DEFINE Outlast ==
      \A k, other \in Stored :
        (Evicted(k) /\ ~Evicted(other) /\ ShardFor(k) = ShardFor(other)) => uses[k] <= uses[other]
<1>1. CoreInv /\ UsesInv /\ [Next /\ Remember]_allVars => [Outlast]_allVars
  <2> SUFFICES ASSUME CoreInv, UsesInv, Next, NEW k \in Stored, NEW other \in Stored,
                      Evicted(k), ~Evicted(other), ShardFor(k) = ShardFor(other)
               PROVE  uses[k] <= uses[other]
    OBVIOUS
  <2>1. k \in Keys /\ other \in Keys /\ entries[other] # Absent
    BY DEF Stored
  <2>2. PICK t \in Threads :
           /\ pc[t] = "publishRoom" /\ NeedsRoom(t) /\ ShardFor(k) = ShardFor(key[t])
           /\ \E batch \in EvictionBatches(ShardFor(key[t])) : k \in batch /\ entries' = Without(batch)
    BY <2>1, EvictedByPublisher
  <2>3. PICK batch \in EvictionBatches(ShardFor(key[t])) : k \in batch /\ entries' = Without(batch)
    BY <2>2
  <2>4. other \notin batch
    BY <2>1, <2>3 DEF Evicted, Without
  <2>5. other \in ShardKeys(ShardFor(key[t])) \ batch
    BY <2>2, <2>4 DEF ShardKeys
  <2>6. key[t] \in Keys
    BY DEF CoreInv, TypeOK
  <2>7. entries[k].hits <= entries[other].hits
    BY <2>2, <2>3, <2>5, <2>6, NeedsOfShard, LeastOfShard
  <2>8. Finding(k) = {} /\ Finding(other) = {}
    BY <2>1, <2>2, WriterAlone DEF InExclusive
  <2>9. uses[k] = entries[k].hits /\ uses[other] = entries[other].hits
    BY <2>1, <2>8, FS_EmptySet DEF UsesInv
  <2> QED BY <2>7, <2>9
<1>2. CoreInv /\ CallInv /\ UsesInv /\ [Next /\ Remember]_allVars => UsesInv'
  BY UsesNext
<1> QED BY <1>1, <1>2, UsesInit, HistoryCore, PTL DEF HistorySpec, HotEntriesOutlast

-----------------------------------------------------------------------------
(***************************************************************************)
(* getSize() visits the shards in order. What it has added up is no less   *)
(* than the keys of the shards behind it that have been stored all the     *)
(* time, and no more than those that have been stored at some time.        *)
(***************************************************************************)

\* The keys of K in the shards before s, and in s.
Below(K, s) == {k \in K : ShardFor(k) < s}
InShard(K, s) == {k \in K : ShardFor(k) = s}

LEMMA BelowFinite ==
  ASSUME NEW K \in SUBSET Keys, NEW s
  PROVE  /\ IsFiniteSet(Below(K, s)) /\ Cardinality(Below(K, s)) \in Nat
         /\ IsFiniteSet(InShard(K, s)) /\ Cardinality(InShard(K, s)) \in Nat
<1>1. Below(K, s) \in SUBSET Keys /\ InShard(K, s) \in SUBSET Keys
  BY DEF Below, InShard
<1> QED BY <1>1, CacheAssumption, FS_Subset, FS_CardinalityType

LEMMA BelowGrows ==
  ASSUME NEW K \in SUBSET Keys, NEW L \in SUBSET K, NEW s
  PROVE  Cardinality(Below(L, s)) <= Cardinality(Below(K, s))
<1>1. Below(L, s) \subseteq Below(K, s)
  BY DEF Below
<1> QED BY <1>1, BelowFinite, FS_Subset

LEMMA OneMoreShard ==
  ASSUME NEW K \in SUBSET Keys, NEW s \in Shards
  PROVE  Cardinality(Below(K, s + 1)) = Cardinality(Below(K, s)) + Cardinality(InShard(K, s))
<1> DEFINE A == Below(K, s)
           B == InShard(K, s)
           C == Below(K, s + 1)
<1>1. \A k \in K : ShardFor(k) \in Nat
  BY ShardForType DEF Shards
<1>2. C = A \cup B /\ A \cap B = {}
  <2>1. \A k \in K : (ShardFor(k) < s + 1) <=> (ShardFor(k) < s \/ ShardFor(k) = s)
    BY <1>1 DEF Shards
  <2>2. \A k \in K : ~(ShardFor(k) < s /\ ShardFor(k) = s)
    BY <1>1 DEF Shards
  <2> QED BY <2>1, <2>2 DEF Below, InShard
<1>3. IsFiniteSet(A) /\ IsFiniteSet(B) /\ Cardinality(A) \in Nat /\ Cardinality(B) \in Nat
  BY BelowFinite
<1> HIDE DEF A, B, C
<1>4. Cardinality(A \cap B) = 0
  BY <1>2, FS_EmptySet
<1>5. Cardinality(A \cup B) = Cardinality(A) + Cardinality(B) - Cardinality(A \cap B)
  BY <1>3, FS_Union
<1>6. Cardinality(C) = Cardinality(A) + Cardinality(B)
  BY <1>2, <1>3, <1>4, <1>5
<1> QED BY <1>6 DEF A, B, C

LEMMA NoneBelowZero == \A K \in SUBSET Keys : Cardinality(Below(K, 0)) = 0
<1> SUFFICES ASSUME NEW K \in SUBSET Keys PROVE Cardinality(Below(K, 0)) = 0
  OBVIOUS
<1>1. \A k \in K : ~(ShardFor(k) < 0)
  BY ShardForType DEF Shards
<1>2. Below(K, 0) = {}
  BY <1>1 DEF Below
<1> QED BY <1>2, FS_EmptySet

LEMMA AllBelowLast ==
  ASSUME NEW K \in SUBSET Keys, NEW s \in Shards, LastShard(s)
  PROVE  Below(K, s + 1) = K
<1>1. \A k \in K : ShardFor(k) < s + 1
  BY ShardForType, CacheAssumption DEF Shards, LastShard
<1> QED BY <1>1 DEF Below

\* t has added up the shards before s.
AddedUp(t, s) ==
  Cardinality(Below(kept[t], s)) <= sum[t] /\ sum[t] <= Cardinality(Below(seen[t], s))

SizeOf(t) ==
  /\ kept[t] \in SUBSET Keys /\ seen[t] \in SUBSET Keys
  /\ pc[t] \notin SizeLabels \cup {"done"} => sum[t] = 0 /\ cursor[t] = 0
  /\ pc[t] \in SizeLabels => kept[t] \subseteq Stored /\ Stored \subseteq seen[t]
  /\ pc[t] \in {"sizeLock", "sizeAdd"} => AddedUp(t, cursor[t])
  /\ pc[t] = "sizeUnlock" => AddedUp(t, cursor[t] + 1)
  /\ pc[t] = "done" /\ reply[t].status = "size" =>
       Cardinality(kept[t]) <= sum[t] /\ sum[t] <= Cardinality(seen[t])

SizeInv == \A t \in Threads : SizeOf(t)

LEMMA SizeInit == HistoryInit => SizeInv
  BY DEF HistoryInit, Init, NoHistory, SizeInv, SizeOf, SizeLabels

LEMMA StoredKeys == Stored \in SUBSET Keys /\ Stored' \in SUBSET Keys
  BY DEF Stored

\* What is remembered of t's getSize in a step.
LEMMA Remembered ==
  ASSUME Remember, SizeInv, NEW t \in Threads
  PROVE  /\ kept'[t] \in SUBSET Keys /\ seen'[t] \in SUBSET Keys
         /\ SizeBegins(t) => kept'[t] = Stored /\ seen'[t] = Stored
         /\ SizeUnderWay(t) /\ ~SizeBegins(t) =>
              kept'[t] = kept[t] \cap Stored' /\ seen'[t] = seen[t] \cup Stored'
         /\ ~SizeUnderWay(t) /\ ~SizeBegins(t) /\ ~SizeOver(t) =>
              kept'[t] = kept[t] /\ seen'[t] = seen[t]
<1>1. /\ kept'[t] = IF SizeBegins(t) THEN Stored
                    ELSE IF SizeUnderWay(t) THEN kept[t] \cap Stored'
                    ELSE IF SizeOver(t) THEN {} ELSE kept[t]
      /\ seen'[t] = IF SizeBegins(t) THEN Stored
                    ELSE IF SizeUnderWay(t) THEN seen[t] \cup Stored'
                    ELSE IF SizeOver(t) THEN {} ELSE seen[t]
  BY DEF Remember
<1>2. kept[t] \in SUBSET Keys /\ seen[t] \in SUBSET Keys
  BY DEF SizeInv, SizeOf
<1> QED BY <1>1, <1>2, StoredKeys

\* What others do between the steps of t's getSize keeps what it has added up.
LEMMA AddedUpKept ==
  ASSUME Remember, SizeInv, NEW t \in Threads, NEW s, sum[t] \in Nat,
         SizeUnderWay(t), AddedUp(t, s)
  PROVE  /\ Cardinality(Below(kept'[t], s)) <= sum[t]
         /\ sum[t] <= Cardinality(Below(seen'[t], s))
         /\ kept'[t] \subseteq Stored' /\ Stored' \subseteq seen'[t]
<1>1. ~SizeBegins(t)
  BY DEF SizeUnderWay, SizeBegins, SizeLabels
<1>2. kept'[t] = kept[t] \cap Stored' /\ seen'[t] = seen[t] \cup Stored'
  BY <1>1, Remembered
<1>3. kept[t] \in SUBSET Keys /\ seen'[t] \in SUBSET Keys /\ seen[t] \in SUBSET seen'[t]
      /\ kept'[t] \in SUBSET kept[t] /\ kept'[t] \in SUBSET Keys /\ seen[t] \in SUBSET Keys
  BY <1>2, Remembered DEF SizeInv, SizeOf
<1>4. /\ Cardinality(Below(kept'[t], s)) <= Cardinality(Below(kept[t], s))
      /\ Cardinality(Below(seen[t], s)) <= Cardinality(Below(seen'[t], s))
  BY <1>3, BelowGrows
<1>5. /\ Cardinality(Below(kept'[t], s)) \in Nat /\ Cardinality(Below(kept[t], s)) \in Nat
      /\ Cardinality(Below(seen[t], s)) \in Nat /\ Cardinality(Below(seen'[t], s)) \in Nat
  BY <1>3, BelowFinite
<1> QED BY <1>2, <1>4, <1>5 DEF AddedUp

\* A thread that takes no step of its own, or one of another call.
LEMMA SizeKept ==
  ASSUME CoreInv, SizeInv, Remember, NEW t \in Threads,
         sum'[t] = sum[t], cursor'[t] = cursor[t],
         \/ pc'[t] = pc[t] /\ reply'[t] = reply[t]
         \/ /\ pc[t] \notin SizeLabels \cup {"done"} /\ pc'[t] \notin SizeLabels
            /\ pc'[t] = "done" => reply'[t].status # "size"
  PROVE  SizeOf(t)'
<1>1. SizeOf(t) /\ sum[t] \in Nat
  BY DEF SizeInv, CoreInv, TypeOK
<1>2. kept'[t] \in SUBSET Keys /\ seen'[t] \in SUBSET Keys
  BY Remembered
<1>3. CASE pc[t] \in SizeLabels /\ pc'[t] = pc[t]
  <2>1. SizeUnderWay(t)
    BY <1>3 DEF SizeUnderWay
  <2>2. PICK s : /\ pc[t] \in {"sizeLock", "sizeAdd"} => s = cursor[t]
                 /\ pc[t] = "sizeUnlock" => s = cursor[t] + 1
    BY <1>3 DEF SizeLabels
  <2>3. AddedUp(t, s)
    BY <1>1, <1>3, <2>2 DEF SizeOf, SizeLabels
  <2>4. /\ Cardinality(Below(kept'[t], s)) <= sum[t]
        /\ sum[t] <= Cardinality(Below(seen'[t], s))
        /\ kept'[t] \subseteq Stored' /\ Stored' \subseteq seen'[t]
    BY <1>1, <2>1, <2>3, AddedUpKept
  <2>5. /\ pc'[t] \in {"sizeLock", "sizeAdd"} => s = cursor'[t]
        /\ pc'[t] = "sizeUnlock" => s = cursor'[t] + 1
    BY <1>3, <2>2
  <2> QED BY <1>2, <1>3, <2>4, <2>5 DEF SizeOf, AddedUp, SizeLabels
<1>4. CASE pc[t] = "done" /\ pc'[t] = pc[t] /\ reply'[t] = reply[t]
  <2>1. ~SizeBegins(t) /\ ~SizeUnderWay(t) /\ ~SizeOver(t)
    BY <1>4 DEF SizeBegins, SizeUnderWay, SizeOver, SizeLabels
  <2>2. kept'[t] = kept[t] /\ seen'[t] = seen[t]
    BY <2>1, Remembered
  <2> QED BY <1>1, <1>2, <1>4, <2>2 DEF SizeOf, SizeLabels
<1>5. CASE pc[t] \notin SizeLabels \cup {"done"} /\ pc'[t] \notin SizeLabels
           /\ (pc'[t] = "done" => reply'[t].status # "size")
  BY <1>1, <1>2, <1>5 DEF SizeOf, SizeLabels
<1> QED BY <1>3, <1>4, <1>5

\* What t leaves alone of another thread.
LEMMA OthersKept ==
  ASSUME CoreInv, SizeInv, Remember, NEW t \in Threads, SizeOf(t)',
         \A u \in Threads \ {t} : /\ pc'[u] = pc[u] /\ reply'[u] = reply[u]
                                  /\ sum'[u] = sum[u] /\ cursor'[u] = cursor[u]
  PROVE  SizeInv'
<1>1. \A u \in Threads : u # t => SizeOf(u)'
  BY SizeKept
<1> QED BY <1>1 DEF SizeInv

\* The steps of getSize itself.
LEMMA SizeAddStep ==
  ASSUME CoreInv, SizeInv, Remember, NEW t \in Threads, SizeAdd(t)
  PROVE  SizeOf(t)'
<1>1. /\ pc[t] = "sizeAdd" /\ pc'[t] = "sizeUnlock" /\ cursor'[t] = cursor[t]
      /\ sum'[t] = sum[t] + Cardinality(ShardKeys(cursor[t]))
      /\ Stored' = Stored
  BY DEF SizeAdd, Goto, CoreInv, TypeOK, Stored
<1>2. /\ sum[t] \in Nat /\ cursor[t] \in Shards /\ AddedUp(t, cursor[t])
      /\ kept[t] \in SUBSET Keys /\ seen[t] \in SUBSET Keys
      /\ kept[t] \subseteq Stored /\ Stored \subseteq seen[t]
  BY <1>1 DEF CoreInv, TypeOK, SizeInv, SizeOf, SizeLabels
<1>3. SizeUnderWay(t) /\ ~SizeBegins(t)
  BY <1>1 DEF SizeUnderWay, SizeBegins, SizeLabels
<1>4. kept'[t] = kept[t] /\ seen'[t] = seen[t]
  BY <1>1, <1>2, <1>3, Remembered
<1>5. PICK s \in Shards : s = cursor[t]
  BY <1>2
<1>6. ShardKeys(s) = InShard(Stored, s)
  BY DEF ShardKeys, InShard
<1>7. /\ Cardinality(InShard(kept[t], s)) <= Cardinality(InShard(Stored, s))
      /\ Cardinality(InShard(Stored, s)) <= Cardinality(InShard(seen[t], s))
  <2>1. /\ InShard(kept[t], s) \subseteq InShard(Stored, s)
        /\ InShard(Stored, s) \subseteq InShard(seen[t], s)
    BY <1>2 DEF InShard
  <2> QED BY <1>2, <2>1, StoredKeys, BelowFinite, FS_Subset
<1>8. /\ Cardinality(Below(kept[t], s + 1)) = Cardinality(Below(kept[t], s)) + Cardinality(InShard(kept[t], s))
      /\ Cardinality(Below(seen[t], s + 1)) = Cardinality(Below(seen[t], s)) + Cardinality(InShard(seen[t], s))
  BY <1>2, OneMoreShard
<1>9. /\ Cardinality(Below(kept[t], s)) \in Nat /\ Cardinality(InShard(kept[t], s)) \in Nat
      /\ Cardinality(Below(seen[t], s)) \in Nat /\ Cardinality(InShard(seen[t], s)) \in Nat
      /\ Cardinality(InShard(Stored, s)) \in Nat
  BY <1>2, StoredKeys, BelowFinite
<1>10. /\ Cardinality(Below(kept[t], s + 1)) <= sum'[t]
       /\ sum'[t] <= Cardinality(Below(seen[t], s + 1))
  <2>1. Cardinality(Below(kept[t], s)) <= sum[t] /\ sum[t] <= Cardinality(Below(seen[t], s))
    BY <1>2, <1>5 DEF AddedUp
  <2>2. sum'[t] = sum[t] + Cardinality(InShard(Stored, s))
    BY <1>1, <1>5, <1>6
  <2> QED BY <1>2, <1>7, <1>8, <1>9, <2>1, <2>2
<1>11. s + 1 = cursor'[t] + 1
  BY <1>1, <1>5
<1> QED BY <1>1, <1>2, <1>4, <1>10, <1>11 DEF SizeOf, AddedUp, SizeLabels

LEMMA SizeLockStep ==
  ASSUME CoreInv, SizeInv, Remember, NEW t \in Threads, SizeLock(t)
  PROVE  SizeOf(t)'
<1>1. /\ pc[t] = "sizeLock" /\ pc'[t] = "sizeAdd"
      /\ cursor'[t] = cursor[t] /\ sum'[t] = sum[t]
  BY DEF SizeLock, Goto, CoreInv, TypeOK, sizeVars
<1>2. sum[t] \in Nat /\ AddedUp(t, cursor[t])
  BY <1>1 DEF CoreInv, TypeOK, SizeInv, SizeOf
<1>3. PICK s : s = cursor[t]
  OBVIOUS
<1>4. SizeUnderWay(t)
  BY <1>1 DEF SizeUnderWay, SizeLabels
<1>5. /\ Cardinality(Below(kept'[t], s)) <= sum[t]
      /\ sum[t] <= Cardinality(Below(seen'[t], s))
      /\ kept'[t] \subseteq Stored' /\ Stored' \subseteq seen'[t]
  BY <1>2, <1>3, <1>4, AddedUpKept
<1>6. kept'[t] \in SUBSET Keys /\ seen'[t] \in SUBSET Keys /\ s = cursor'[t]
  BY <1>1, <1>3, Remembered
<1> QED BY <1>1, <1>5, <1>6 DEF SizeOf, AddedUp, SizeLabels

LEMMA SizeUnlockStep ==
  ASSUME CoreInv, SizeInv, Remember, NEW t \in Threads, SizeUnlock(t)
  PROVE  SizeOf(t)'
<1>1. /\ pc[t] = "sizeUnlock" /\ sum'[t] = sum[t]
      /\ \/ /\ ~LastShard(cursor[t]) /\ pc'[t] = "sizeLock" /\ cursor'[t] = cursor[t] + 1
         \/ /\ LastShard(cursor[t]) /\ pc'[t] = "done"
  BY DEF SizeUnlock, Goto, CoreInv, TypeOK
<1>2. sum[t] \in Nat /\ cursor[t] \in Shards /\ AddedUp(t, cursor[t] + 1)
  BY <1>1 DEF CoreInv, TypeOK, SizeInv, SizeOf
<1>3. PICK s \in Shards : s = cursor[t]
  BY <1>2
<1>4. SizeUnderWay(t)
  BY <1>1 DEF SizeUnderWay, SizeLabels
<1>5. /\ Cardinality(Below(kept'[t], s + 1)) <= sum[t]
      /\ sum[t] <= Cardinality(Below(seen'[t], s + 1))
      /\ kept'[t] \subseteq Stored' /\ Stored' \subseteq seen'[t]
  BY <1>2, <1>3, <1>4, AddedUpKept
<1>6. kept'[t] \in SUBSET Keys /\ seen'[t] \in SUBSET Keys
  BY Remembered
<1>7. CASE pc'[t] = "sizeLock" /\ cursor'[t] = s + 1
  BY <1>1, <1>5, <1>6, <1>7 DEF SizeOf, AddedUp, SizeLabels
<1>8. CASE LastShard(s) /\ pc'[t] = "done"
  <2>1. Below(kept'[t], s + 1) = kept'[t] /\ Below(seen'[t], s + 1) = seen'[t]
    BY <1>6, <1>8, AllBelowLast
  <2>2. Cardinality(kept'[t]) <= sum'[t] /\ sum'[t] <= Cardinality(seen'[t])
    BY <1>1, <1>5, <2>1
  <2> QED BY <1>6, <1>8, <2>2 DEF SizeOf, SizeLabels
<1> QED BY <1>1, <1>3, <1>7, <1>8

LEMMA BeginSizeStep ==
  ASSUME CoreInv, SizeInv, Remember, NEW t \in Threads, BeginSize(t)
  PROVE  SizeOf(t)'
<1>1. /\ pc[t] = "idle" /\ pc'[t] = "sizeLock" /\ Stored' = Stored
      /\ sum'[t] = sum[t] /\ cursor'[t] = cursor[t]
  BY DEF BeginSize, Begin, Goto, CoreInv, TypeOK, sizeVars, Stored
<1>2. sum[t] = 0 /\ cursor[t] = 0
  BY <1>1 DEF SizeInv, SizeOf, SizeLabels
<1>3. /\ kept'[t] = Stored' /\ seen'[t] = Stored'
      /\ kept'[t] \in SUBSET Keys /\ seen'[t] \in SUBSET Keys
  BY <1>1, Remembered DEF SizeBegins
<1>4. Cardinality(Below(kept'[t], 0)) = 0 /\ Cardinality(Below(seen'[t], 0)) = 0
  BY <1>3, NoneBelowZero
<1>5. sum'[t] = 0 /\ cursor'[t] = 0
  BY <1>1, <1>2
<1> QED BY <1>1, <1>3, <1>4, <1>5 DEF SizeOf, AddedUp, SizeLabels

LEMMA SizeNext == CoreInv /\ CallInv /\ SizeInv /\ [Next /\ Remember]_allVars => SizeInv'
<1> SUFFICES ASSUME CoreInv, CallInv, SizeInv, [Next /\ Remember]_allVars PROVE SizeInv'
  OBVIOUS
<1>1. CASE UNCHANGED allVars
  BY <1>1 DEF SizeInv, SizeOf, AddedUp, Below, Stored, SizeLabels,
              allVars, historyVars, vars, callVars, sizeVars
<1>2. CASE Next /\ Remember
  <2> USE <1>2 DEF Goto, Answer
  <2>0. StatusOf!1 /\ StatusOf!2
    BY StatusOf
  \* What a step of t of no getSize has to show.
  <2> DEFINE Other(t) ==
        /\ sum' = sum /\ cursor' = cursor
        /\ \A u \in Threads \ {t} : pc'[u] = pc[u] /\ reply'[u] = reply[u]
        /\ pc[t] \notin SizeLabels \cup {"done"} /\ pc'[t] \notin SizeLabels
        /\ pc'[t] = "done" => reply'[t].status # "size"
  <2>1. ASSUME NEW t \in Threads, Other(t) PROVE SizeInv'
    <3>1. SizeOf(t)'
      BY <2>1, SizeKept
    <3> QED BY <2>1, <3>1, OthersKept
  <2>2. ASSUME NEW t \in Threads, NEW k \in Keys, BeginFind(t, k) PROVE SizeInv'
    <3>1. Other(t)
      BY <2>2 DEF BeginFind, Begin, CoreInv, TypeOK, SizeLabels, sizeVars
    <3> QED BY <2>1, <3>1
  <2>3. ASSUME NEW t \in Threads, NEW k \in Keys, NEW l \in Lists, BeginPublish(t, k, l)
        PROVE  SizeInv'
    <3>1. Other(t)
      BY <2>3 DEF BeginPublish, Begin, CoreInv, TypeOK, SizeLabels, sizeVars
    <3> QED BY <2>1, <3>1
  <2>4. ASSUME NEW t \in Threads, FindStep(t) PROVE SizeInv'
    <3> USE DEF CoreInv, TypeOK, SizeLabels, sizeVars
    <3>1. CASE FindLock(t)   BY <2>1, <3>1 DEF FindLock
    <3>2. CASE FindLookup(t) BY <2>1, <3>2 DEF FindLookup
    <3>3. CASE FindCount(t)  BY <2>1, <3>3 DEF FindCount
    <3>4. CASE FindCopy(t)   BY <2>1, <3>4 DEF FindCopy
    <3>5. CASE FindUnlock(t) BY <2>1, <3>5 DEF FindUnlock, CallInv
    <3> QED  BY <2>4, <3>1, <3>2, <3>3, <3>4, <3>5 DEF FindStep
  <2>5. ASSUME NEW t \in Threads, PublishStep(t) PROVE SizeInv'
    <3> USE DEF CoreInv, TypeOK, SizeLabels, sizeVars
    <3>1. CASE PublishCheck(t)   BY <2>0, <2>1, <3>1 DEF PublishCheck
    <3>2. CASE PublishLock(t)    BY <2>1, <3>2 DEF PublishLock
    <3>3. CASE PublishRoom(t)    BY <2>1, <3>3 DEF PublishRoom
    <3>4. CASE PublishEmplace(t) BY <2>1, <3>4 DEF PublishEmplace, Insert, KeepMapping
    <3>5. CASE PublishUnlock(t)  BY <2>1, <3>5 DEF PublishUnlock, CallInv
    <3> QED  BY <2>5, <3>1, <3>2, <3>3, <3>4, <3>5 DEF PublishStep
  <2>6. ASSUME NEW t \in Threads, BeginSize(t) \/ SizeStep(t) PROVE SizeInv'
    <3>1. \A u \in Threads \ {t} : /\ pc'[u] = pc[u] /\ reply'[u] = reply[u]
                                   /\ sum'[u] = sum[u] /\ cursor'[u] = cursor[u]
      <4> USE DEF CoreInv, TypeOK, sizeVars
      <4>1. CASE BeginSize(t)  BY <4>1 DEF BeginSize, Begin
      <4>2. CASE SizeLock(t)   BY <4>2 DEF SizeLock
      <4>3. CASE SizeAdd(t)    BY <4>3 DEF SizeAdd
      <4>4. CASE SizeUnlock(t) BY <4>4 DEF SizeUnlock
      <4> QED BY <2>6, <4>1, <4>2, <4>3, <4>4 DEF SizeStep
    <3>2. SizeOf(t)'
      BY <2>6, BeginSizeStep, SizeLockStep, SizeAddStep, SizeUnlockStep DEF SizeStep
    <3> QED BY <3>1, <3>2, OthersKept
  <2>7. ASSUME NEW t \in Threads, Return(t) PROVE SizeInv'
    <3>1. /\ pc'[t] = "idle" /\ sum'[t] = 0 /\ cursor'[t] = 0
          /\ \A u \in Threads \ {t} : /\ pc'[u] = pc[u] /\ reply'[u] = reply[u]
                                      /\ sum'[u] = sum[u] /\ cursor'[u] = cursor[u]
      BY <2>7 DEF Return, CoreInv, TypeOK
    <3>2. SizeOf(t)'
      BY <3>1, Remembered DEF SizeOf, SizeLabels
    <3> QED BY <3>1, <3>2, OthersKept
  <2>8. CASE Finished
    <3>1. pc' = pc /\ reply' = reply /\ sum' = sum /\ cursor' = cursor
      BY <2>8 DEF Finished, vars, callVars, sizeVars
    <3>2. \A t \in Threads : SizeOf(t)'
      BY <3>1, SizeKept
    <3> QED BY <3>2 DEF SizeInv
  <2> QED BY <2>2, <2>3, <2>4, <2>5, <2>6, <2>7, <2>8 DEF Next, Step
<1> QED BY <1>1, <1>2

\* What getSize() returns lies between the entries stored all through the call
\* and those stored at some time in it (cache.cpp: the shards are locked one
\* after the other), whatever the other threads publish and evict meanwhile.
THEOREM SizeIsWithinCall == HistorySpec => []SizeWithinCall
<1>1. SizeInv => SizeWithinCall
  BY DEF SizeInv, SizeOf, SizeWithinCall
<1> QED BY <1>1, SizeInit, SizeNext, HistoryCore, PTL DEF HistorySpec
=============================================================================
