---------------------------- MODULE SelectionCache ----------------------------
(***************************************************************************)
(* MemoryPrimitiveCache (cache.hpp, cache.cpp): the selection cache of one *)
(* OpsEngine, called by several threads at once. The entries live in       *)
(* ShardCount independently locked maps; find() takes its shard's          *)
(* shared_mutex in shared mode, publish() in exclusive mode, getSize()     *)
(* visits the shards one by one. Each lock operation, map access and       *)
(* counter update under a lock is a step of its own, so the interleavings  *)
(* the locks allow are the interleavings of the module.                    *)
(*                                                                         *)
(* An entry keeps the published positions and its hit count. A hash map is *)
(* a function from Keys to entries; a shard's map is the part of it whose  *)
(* keys the shard owns.                                                    *)
(***************************************************************************)
EXTENDS Naturals, FiniteSets, Sequences, Functions

CONSTANTS
  Threads,              \* the calling threads
  Keys,                 \* the cache keys (128-bit summaries, here opaque)
  KeyHash,              \* KeyHash[k]: CacheKey::getHash(), lane a of the summary
  Lists,                \* the position lists callers publish, <<>> included
  MaxEntries,           \* the constructor's max_entries
  ShardCount,           \* the constructor's shard_count
  EvictionBatchDivisor, \* kEvictionBatchDivisor (8 in the code)
  SizeModulus,          \* 2^64: the arithmetic of std::size_t wraps at it
  MaxCalls,             \* bound: the calls each thread makes
  Absent,               \* the value of a key that is not stored
  NoThread              \* the holder of a shard lock nobody holds exclusively

Entry == [positions : Lists, hits : Nat]

ASSUME CacheAssumption ==
  /\ IsFiniteSet(Keys) /\ Keys # {}
  /\ KeyHash \in [Keys -> Nat]
  /\ <<>> \in Lists
  /\ SizeModulus \in Nat \ {0}
  /\ MaxEntries \in 1 .. SizeModulus - 1        \* zero throws INVALID_ARGUMENT
  /\ ShardCount \in 1 .. SizeModulus - 1        \* zero throws INVALID_ARGUMENT
  /\ EvictionBatchDivisor \in Nat \ {0}
  /\ MaxCalls \in Nat
  /\ Absent \notin Entry
  /\ Absent \notin Lists
  /\ NoThread \notin Threads

VARIABLES
  entries,   \* entries[k]: the entry stored for k, or Absent
  readers,   \* readers[s]: the threads that hold shard s's mutex shared
  writer,    \* writer[s]: the thread that holds it exclusively, or NoThread
  pc,        \* pc[t]: the next step of t
  key,       \* key[t]: the key argument of t's find or publish
  list,      \* list[t]: the list argument of t's publish
  reply,     \* reply[t]: the answer t's call has produced
  cursor,    \* cursor[t]: the shard t's getSize visits
  sum,       \* sum[t]: what t's getSize has added up
  calls      \* calls[t]: the calls t has begun

callVars == <<pc, key, list, reply, calls>>
sizeVars == <<cursor, sum>>
vars == <<entries, readers, writer, callVars, sizeVars>>

-----------------------------------------------------------------------------
Shards == 0 .. ShardCount - 1

ShardFor(k) == KeyHash[k] % ShardCount

\* Mutant: the share is rounded down.
FloorShardLimit ==
  LET share == MaxEntries \div ShardCount IN IF share > 1 THEN share ELSE 1

\* The share of the limit each shard gets, in std::size_t arithmetic.
ShardLimit ==
  LET share == ((MaxEntries + ShardCount - 1) % SizeModulus) \div ShardCount
  IN  IF share > 1 THEN share ELSE 1

Stored == {k \in Keys : entries[k] # Absent}

ShardKeys(s) == {k \in Stored : ShardFor(k) = s}

\* The batch one eviction removes from shard s.
BatchSize(s) ==
  LET share == Cardinality(ShardKeys(s)) \div EvictionBatchDivisor
  IN  IF share > 1 THEN share ELSE 1

\* std::nth_element on the keys of shard s by their hits, with the nth element
\* at a place, counted from 1: it ends with that place holding what sorting
\* would put there, those before no greater and those behind no less. What
\* else it does to the order, among equals too, is left to the library.
NthElement(s, place) ==
  LET places == 1 .. Cardinality(ShardKeys(s))
  IN  {order \in Bijection(places, ShardKeys(s)) :
         \A i, j \in places : i <= place /\ place <= j =>
           entries[order[i]].hits <= entries[order[j]].hits}

\* Mutant: the nth element is the first.
BatchesBehindFirst(s) == {{order[i] : i \in 1 .. BatchSize(s)} : order \in NthElement(s, 1)}

\* What evictLeastHitBatch() erases: the first BatchSize(s) in the order found.
EvictionBatches(s) == {{order[i] : i \in 1 .. BatchSize(s)} : order \in NthElement(s, BatchSize(s))}

NewEntry(l) == [positions |-> l, hits |-> 0]

Reply(status, l) == [status |-> status, list |-> l]

NoList == <<>>

\* An answer that carries no list.
Status(status) == Reply(status, NoList)

NoReply == Status("none")

\* What key[t] holds while t is in no call; nothing reads it.
AnyKey == CHOOSE k \in Keys : TRUE

Goto(t, label) == pc' = [pc EXCEPT ![t] = label]

Answer(t, r) == reply' = [reply EXCEPT ![t] = r]

-----------------------------------------------------------------------------
\* Begin* are the callers' invocations.
Begin(t, label) ==
  /\ pc[t] = "idle"
  /\ calls[t] < MaxCalls
  /\ calls' = [calls EXCEPT ![t] = @ + 1]
  /\ Goto(t, label)

BeginFind(t, k) ==
  /\ Begin(t, "findLock")
  /\ key' = [key EXCEPT ![t] = k]
  /\ UNCHANGED <<entries, readers, writer, list, reply, sizeVars>>

BeginPublish(t, k, l) ==
  /\ Begin(t, "publishCheck")
  /\ key' = [key EXCEPT ![t] = k]
  /\ list' = [list EXCEPT ![t] = l]
  /\ UNCHANGED <<entries, readers, writer, reply, sizeVars>>

BeginSize(t) ==
  /\ Begin(t, "sizeLock")
  /\ UNCHANGED <<entries, readers, writer, key, list, reply, sizeVars>>

\* Mutant: a path that leaves without releasing the shared lock.
LeakShared(t, s) == UNCHANGED <<readers, writer>>

\* Mutant: the writer does not wait for the readers (a shared lock taken
\* where the exclusive one is needed).
LockIgnoringReaders(t, s) ==
  /\ writer[s] = NoThread
  /\ writer' = [writer EXCEPT ![s] = t]
  /\ UNCHANGED readers

\* std::shared_lock and std::unique_lock on shard s's mutex.
LockShared(t, s) ==
  /\ writer[s] = NoThread
  /\ readers' = [readers EXCEPT ![s] = @ \cup {t}]
  /\ UNCHANGED writer

UnlockShared(t, s) ==
  /\ readers' = [readers EXCEPT ![s] = @ \ {t}]
  /\ UNCHANGED writer

LockExclusive(t, s) ==
  /\ writer[s] = NoThread
  /\ readers[s] = {}
  /\ writer' = [writer EXCEPT ![s] = t]
  /\ UNCHANGED readers

UnlockExclusive(t, s) ==
  /\ writer' = [writer EXCEPT ![s] = NoThread]
  /\ UNCHANGED readers

-----------------------------------------------------------------------------
\* find(): look the key up, count the hit, copy the positions.
FindLock(t) ==
  /\ pc[t] = "findLock"
  /\ LockShared(t, ShardFor(key[t]))
  /\ Goto(t, "findLookup")
  /\ UNCHANGED <<entries, key, list, reply, calls, sizeVars>>

FindLookup(t) ==
  /\ pc[t] = "findLookup"
  /\ \/ /\ entries[key[t]] = Absent
        /\ Answer(t, Status("miss"))
        /\ Goto(t, "findUnlock")
     \/ /\ entries[key[t]] # Absent
        /\ Goto(t, "findCount")
        /\ UNCHANGED reply
  /\ UNCHANGED <<entries, readers, writer, key, list, calls, sizeVars>>

FindCount(t) ==
  /\ pc[t] = "findCount"
  /\ entries' = [entries EXCEPT ![key[t]].hits = @ + 1]
  /\ Goto(t, "findCopy")
  /\ UNCHANGED <<readers, writer, key, list, reply, calls, sizeVars>>

\* Copying the vector allocates: it may throw std::bad_alloc after the hit
\* was counted.
FindCopy(t) ==
  /\ pc[t] = "findCopy"
  /\ \/ Answer(t, Reply("hit", entries[key[t]].positions))
     \/ Answer(t, Status("OUT_OF_MEMORY"))
  /\ Goto(t, "findUnlock")
  /\ UNCHANGED <<entries, readers, writer, key, list, calls, sizeVars>>

FindUnlock(t) ==
  /\ pc[t] = "findUnlock"
  /\ UnlockShared(t, ShardFor(key[t]))
  /\ Goto(t, "done")
  /\ UNCHANGED <<entries, key, list, reply, calls, sizeVars>>

-----------------------------------------------------------------------------
PublishCheck(t) ==
  /\ pc[t] = "publishCheck"
  /\ \/ /\ list[t] = NoList
        /\ Answer(t, Status("INVALID_ARGUMENT"))
        /\ Goto(t, "done")
     \/ /\ list[t] # NoList
        /\ Goto(t, "publishLock")
        /\ UNCHANGED reply
  /\ UNCHANGED <<entries, readers, writer, key, list, calls, sizeVars>>

PublishLock(t) ==
  /\ pc[t] = "publishLock"
  /\ LockExclusive(t, ShardFor(key[t]))
  /\ Goto(t, "publishRoom")
  /\ UNCHANGED <<entries, key, list, reply, calls, sizeVars>>

\* Mutant: one entry too many is let in.
NeedsRoomLate(t) ==
  /\ Cardinality(ShardKeys(ShardFor(key[t]))) > ShardLimit
  /\ entries[key[t]] = Absent

NeedsRoom(t) ==
  /\ Cardinality(ShardKeys(ShardFor(key[t]))) >= ShardLimit
  /\ entries[key[t]] = Absent

Without(batch) == [k \in Keys |-> IF k \in batch THEN Absent ELSE entries[k]]

\* The eviction scan allocates before it erases; when it throws nothing has
\* been erased.
PublishRoom(t) ==
  /\ pc[t] = "publishRoom"
  /\ \/ /\ ~NeedsRoom(t)
        /\ Goto(t, "publishEmplace")
        /\ UNCHANGED <<entries, reply>>
     \/ /\ NeedsRoom(t)
        /\ \E batch \in EvictionBatches(ShardFor(key[t])) : entries' = Without(batch)
        /\ Goto(t, "publishEmplace")
        /\ UNCHANGED reply
     \/ /\ NeedsRoom(t)
        /\ Answer(t, Status("OUT_OF_MEMORY"))
        /\ Goto(t, "publishUnlock")
        /\ UNCHANGED entries
  /\ UNCHANGED <<readers, writer, key, list, calls, sizeVars>>

Insert(t) ==
  /\ entries[key[t]] = Absent
  /\ entries' = [entries EXCEPT ![key[t]] = NewEntry(list[t])]
  /\ Answer(t, Status("published"))

\* Mutant: insert_or_assign in the place of emplace.
Assign(t) ==
  /\ entries[key[t]] # Absent
  /\ entries' = [entries EXCEPT ![key[t]] = NewEntry(list[t])]
  /\ Answer(t, Status("published"))

KeepMapping(t) ==
  /\ entries[key[t]] # Absent
  /\ Answer(t, Status("published"))
  /\ UNCHANGED entries

\* unordered_map::emplace keeps an existing mapping. Its node allocation may
\* throw, after the eviction.
PublishEmplace(t) ==
  /\ pc[t] = "publishEmplace"
  /\ \/ Insert(t)
     \/ KeepMapping(t)
     \/ Answer(t, Status("OUT_OF_MEMORY")) /\ UNCHANGED entries
  /\ Goto(t, "publishUnlock")
  /\ UNCHANGED <<readers, writer, key, list, calls, sizeVars>>

PublishUnlock(t) ==
  /\ pc[t] = "publishUnlock"
  /\ UnlockExclusive(t, ShardFor(key[t]))
  /\ Goto(t, "done")
  /\ UNCHANGED <<entries, key, list, reply, calls, sizeVars>>

-----------------------------------------------------------------------------
\* getSize(): one shard after the other, never two locks at once.
SizeLock(t) ==
  /\ pc[t] = "sizeLock"
  /\ LockShared(t, cursor[t])
  /\ Goto(t, "sizeAdd")
  /\ UNCHANGED <<entries, key, list, reply, calls, sizeVars>>

SizeAdd(t) ==
  /\ pc[t] = "sizeAdd"
  /\ sum' = [sum EXCEPT ![t] = @ + Cardinality(ShardKeys(cursor[t]))]
  /\ Goto(t, "sizeUnlock")
  /\ UNCHANGED <<entries, readers, writer, key, list, reply, calls, cursor>>

\* Mutants: the visit runs past the last shard, or stops one shard early.
PastLastShard(s) == s \notin Shards
NextToLastShard(s) == s + 2 \notin Shards

LastShard(s) == s + 1 \notin Shards

SizeUnlock(t) ==
  /\ pc[t] = "sizeUnlock"
  /\ UnlockShared(t, cursor[t])
  /\ \/ /\ ~LastShard(cursor[t])
        /\ cursor' = [cursor EXCEPT ![t] = @ + 1]
        /\ Goto(t, "sizeLock")
        /\ UNCHANGED reply
     \/ /\ LastShard(cursor[t])
        /\ Answer(t, Status("size"))
        /\ Goto(t, "done")
        /\ UNCHANGED cursor
  /\ UNCHANGED <<entries, key, list, calls, sum>>

Return(t) ==
  /\ pc[t] = "done"
  /\ Goto(t, "idle")
  /\ Answer(t, NoReply)
  /\ key' = [key EXCEPT ![t] = AnyKey]
  /\ list' = [list EXCEPT ![t] = NoList]
  /\ cursor' = [cursor EXCEPT ![t] = 0]
  /\ sum' = [sum EXCEPT ![t] = 0]
  /\ UNCHANGED <<entries, readers, writer, calls>>

-----------------------------------------------------------------------------
Init ==
  /\ entries = [k \in Keys |-> Absent]
  /\ readers = [s \in Shards |-> {}]
  /\ writer = [s \in Shards |-> NoThread]
  /\ pc = [t \in Threads |-> "idle"]
  /\ key = [t \in Threads |-> AnyKey]
  /\ list = [t \in Threads |-> NoList]
  /\ reply = [t \in Threads |-> NoReply]
  /\ cursor = [t \in Threads |-> 0]
  /\ sum = [t \in Threads |-> 0]
  /\ calls = [t \in Threads |-> 0]

FindStep(t) == FindLock(t) \/ FindLookup(t) \/ FindCount(t) \/ FindCopy(t) \/ FindUnlock(t)

PublishStep(t) ==
  PublishCheck(t) \/ PublishLock(t) \/ PublishRoom(t) \/ PublishEmplace(t) \/ PublishUnlock(t)

SizeStep(t) == SizeLock(t) \/ SizeAdd(t) \/ SizeUnlock(t)

\* The steps inside the cache; when to call it is the caller's business.
Step(t) == FindStep(t) \/ PublishStep(t) \/ SizeStep(t) \/ Return(t)

\* The callers have used up their calls: the one state that may rest, so
\* that TLC reports every other state without a step as a deadlock.
Finished ==
  /\ \A t \in Threads : pc[t] = "idle" /\ calls[t] = MaxCalls
  /\ UNCHANGED vars

Next ==
  \/ \E t \in Threads :
       \/ \E k \in Keys : BeginFind(t, k)
       \/ \E k \in Keys, l \in Lists : BeginPublish(t, k, l)
       \/ BeginSize(t)
       \/ Step(t)
  \/ Finished

Spec == Init /\ [][Next]_vars

\* The scheduler runs every thread that can run, and a thread that waits for
\* a mutex is woken when it can have it.
FairSpec == Spec /\ \A t \in Threads : WF_vars(Step(t))

-----------------------------------------------------------------------------
(***************************************************************************)
(* Properties.                                                             *)
(***************************************************************************)
FindLabels == {"findLock", "findLookup", "findCount", "findCopy"}
PublishLabels == {"publishCheck", "publishLock", "publishRoom", "publishEmplace"}
SizeLabels == {"sizeLock", "sizeAdd", "sizeUnlock"}
Labels == {"idle", "findUnlock", "publishUnlock", "done"}
            \cup FindLabels \cup PublishLabels \cup SizeLabels

Statuses == {"none", "hit", "miss", "published", "size", "INVALID_ARGUMENT", "OUT_OF_MEMORY"}

Replies == [status : Statuses, list : Lists]

\* Every variable of the cache has a value of its type; in particular the
\* shard a getSize visits is one of the shards.
TypeOK ==
  /\ entries \in [Keys -> Entry \cup {Absent}]
  /\ readers \in [Shards -> SUBSET Threads]
  /\ writer \in [Shards -> Threads \cup {NoThread}]
  /\ pc \in [Threads -> Labels]
  /\ key \in [Threads -> Keys]
  /\ list \in [Threads -> Lists]
  /\ reply \in [Threads -> Replies]
  /\ cursor \in [Threads -> Shards]
  /\ sum \in [Threads -> Nat]
  /\ calls \in [Threads -> Nat]

\* find() counts the hit and copies the positions through an iterator it
\* obtained earlier: as long as it does, the entry is there, whatever the
\* other threads evict.
IteratorsStayValid ==
  \A t \in Threads : pc[t] \in {"findCount", "findCopy"} => entries[key[t]] # Absent

\* No shard ever holds more entries than its share of the limit, between
\* the steps of concurrent publications too.
ShardsWithinLimit == \A s \in Shards : Cardinality(ShardKeys(s)) <= ShardLimit

\* publish() keeps the first positions published for a key: as long as the
\* key stays stored, its list does not change.
FirstPublicationStands ==
  [][\A k \in Keys : (entries[k] # Absent /\ entries'[k] # Absent)
                        => entries'[k].positions = entries[k].positions]_vars

Evicted(k) == entries[k] # Absent /\ entries'[k] = Absent

\* An entry is lost only where the shard's even share of max_entries is used
\* up (cache.hpp, "the entry limit is split evenly across them. Once a shard is
\* full ..."), and only to a publication of a key that shard does not store:
\* republishing a stored key costs nobody an entry.
EvictsOnlyForRoom ==
  [][\A k \in Keys : Evicted(k) =>
       /\ Cardinality(ShardKeys(ShardFor(k))) * ShardCount >= MaxEntries
       /\ \E t \in Threads : /\ writer[ShardFor(k)] = t
                              /\ ShardFor(key[t]) = ShardFor(k)
                              /\ entries[key[t]] = Absent]_vars

\* Every call of the cache returns: nobody keeps a shard lock, and no two
\* threads wait for each other.
CallsReturn == \A t \in Threads : pc[t] # "idle" ~> pc[t] = "idle"

-----------------------------------------------------------------------------
\* Refinement mapping: hits, shards and locks are hidden; a call has its
\* answer once reply is set, and getSize is not part of the abstract store.
StoredLists == [k \in Keys |-> IF entries[k] = Absent THEN Absent ELSE entries[k].positions]

StoreReply(t) == IF reply[t].status = "size" THEN NoReply ELSE reply[t]

StorePhase(t) ==
  IF StoreReply(t) # NoReply THEN "done"
  ELSE IF pc[t] \in FindLabels THEN "find"
  ELSE IF pc[t] \in PublishLabels THEN "publish"
  ELSE "idle"

Store == INSTANCE SelectionStore WITH
  store <- StoredLists,
  phase <- [t \in Threads |-> StorePhase(t)],
  reply <- [t \in Threads |-> StoreReply(t)]

\* The locked, sharded cache implements the atomic lossy store.
StoreSpec == Store!Spec
=============================================================================
