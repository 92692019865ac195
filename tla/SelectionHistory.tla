--------------------------- MODULE SelectionHistory ---------------------------
(***************************************************************************)
(* SelectionCache with history variables: what the callers of the cache    *)
(* can tell of the past, to judge by it which entries an eviction takes    *)
(* and what getSize() returns. Every step is one of SelectionCache together *)
(* with what there is to remember of it; none is forbidden by that.        *)
(***************************************************************************)
EXTENDS SelectionCache

VARIABLES
  uses,  \* uses[k]: the finds that have found k and let go of it, since it was stored
  kept,  \* kept[t]: the keys stored ever since t's getSize began
  seen   \* seen[t]: the keys stored at some time since then

historyVars == <<uses, kept, seen>>
allVars == <<vars, historyVars>>

\* A find that found k lets go of its shard, with its answer or a throw.
Used(k) ==
  \E t \in Threads : /\ pc[t] = "findUnlock" /\ pc'[t] = "done"
                     /\ key[t] = k /\ reply[t].status # "miss"

\* t's getSize begins, is under way, is over.
SizeBegins(t) == pc[t] = "idle" /\ pc'[t] = "sizeLock"
SizeUnderWay(t) == pc[t] \in SizeLabels
SizeOver(t) == pc'[t] = "idle"

Remember ==
  /\ uses' = [k \in Keys |-> IF k \notin Stored \cap Stored' THEN 0
                             ELSE IF Used(k) THEN uses[k] + 1 ELSE uses[k]]
  /\ kept' = [t \in Threads |-> IF SizeBegins(t) THEN Stored
                                ELSE IF SizeUnderWay(t) THEN kept[t] \cap Stored'
                                ELSE IF SizeOver(t) THEN {} ELSE kept[t]]
  /\ seen' = [t \in Threads |-> IF SizeBegins(t) THEN Stored
                                ELSE IF SizeUnderWay(t) THEN seen[t] \cup Stored'
                                ELSE IF SizeOver(t) THEN {} ELSE seen[t]]

NoHistory ==
  /\ uses = [k \in Keys |-> 0]
  /\ kept = [t \in Threads |-> {}]
  /\ seen = [t \in Threads |-> {}]

HistoryInit == Init /\ NoHistory

HistorySpec == HistoryInit /\ [][Next /\ Remember]_allVars

\* With the fairness of SelectionCache.
FairHistorySpec == HistorySpec /\ \A t \in Threads : WF_vars(Step(t))

-----------------------------------------------------------------------------
\* Eviction takes entries of least use ("evicts from that shard a batch of its
\* least-hit entries", cache.hpp): none that is lost was found more often, as
\* the finds that let go of it tell, than one of its shard that survives. For
\* that every find counts once, however finds overlap; a key stored anew starts
\* from none; and no find is half way when the entries are judged.
HotEntriesOutlast ==
  [][\A k, other \in Stored :
       (Evicted(k) /\ ~Evicted(other) /\ ShardFor(k) = ShardFor(other))
         => uses[k] <= uses[other]]_allVars

\* getSize() never holds all the shards at once, so that its sum need not be
\* the size at any instant; but it counts every key that stays stored, no
\* key twice, and none that is not stored meanwhile.
SizeWithinCall ==
  \A t \in Threads :
    pc[t] = "done" /\ reply[t].status = "size" =>
      Cardinality(kept[t]) <= sum[t] /\ sum[t] <= Cardinality(seen[t])
===============================================================================
