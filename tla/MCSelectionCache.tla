--------------------------- MODULE MCSelectionCache ---------------------------
(* Instances of SelectionCache for TLC. *)
EXTENDS SelectionHistory

CONSTANTS k1, k2, k3, k4, k5, t1, t2

\* Lane a of the keys' summaries: with two shards k1 and k3 share shard 1,
\* k2 and k4 share shard 0.
MCKeyHash == [k \in Keys |-> CASE k = k1 -> 1 [] k = k2 -> 2 [] k = k3 -> 3
                               [] k = k4 -> 4 [] OTHER -> 5]

MCLists == {<<>>, <<1>>, <<2, 1>>}

\* Every key falls into shard 1 of two.
MCCrowdedHash == [k \in Keys |-> 2 * MCKeyHash[k] + 1]

\* Where the publications of all keys but one have left the cache: their shard
\* is full.
FullInit ==
  /\ entries = [k \in Keys |-> IF k = k5 THEN Absent ELSE NewEntry(<<1>>)]
  /\ readers = [s \in Shards |-> {}]
  /\ writer = [s \in Shards |-> NoThread]
  /\ pc = [t \in Threads |-> "idle"]
  /\ key = [t \in Threads |-> AnyKey]
  /\ list = [t \in Threads |-> NoList]
  /\ reply = [t \in Threads |-> NoReply]
  /\ cursor = [t \in Threads |-> 0]
  /\ sum = [t \in Threads |-> 0]
  /\ calls = [t \in Threads |-> 0]
  /\ NoHistory

FullSpec == FullInit /\ [][Next /\ Remember]_allVars

MCOneList == {<<>>, <<1>>}
=============================================================================
