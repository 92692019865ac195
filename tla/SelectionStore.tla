---------------------------- MODULE SelectionStore ----------------------------
(***************************************************************************)
(* What MemoryPrimitiveCache promises the engine that calls it, with the   *)
(* shards, locks and hit counts hidden: a map from cache keys to lists of  *)
(* record positions that may lose entries at any time, in which the first  *)
(* publication of a key wins for as long as the key stays stored, and in   *)
(* which every call takes effect in one instant between its invocation and *)
(* its return.                                                             *)
(*                                                                         *)
(* SelectionCache is the detailed module; its theorem                      *)
(* ImplementsSelectionStore shows that it implements this specification.   *)
(***************************************************************************)
EXTENDS Sequences

CONSTANTS
  Threads,   \* the threads that call into the cache
  Keys,      \* the cache keys
  Lists,     \* the position lists a caller may publish; <<>> is one of them
  Absent     \* the value of a key that is not stored

VARIABLES
  store,     \* store[k]: the list stored for k, or Absent
  phase,     \* phase[t]: where t's current call stands
  key,       \* key[t]: the key t's call was made with
  list,      \* list[t]: the list t's publish was made with
  reply      \* reply[t]: the answer of t's call

vars == <<store, phase, key, list, reply>>

Reply(status, l) == [status |-> status, list |-> l]

NoList == <<>>

\* An answer that carries no list.
Status(status) == Reply(status, NoList)

NoReply == Status("none")

AnyKey == CHOOSE k \in Keys : TRUE

Init ==
  /\ store = [k \in Keys |-> Absent]
  /\ phase = [t \in Threads |-> "idle"]
  /\ key = [t \in Threads |-> AnyKey]
  /\ list = [t \in Threads |-> NoList]
  /\ reply = [t \in Threads |-> NoReply]

-----------------------------------------------------------------------------
InvokeFind(t, k) ==
  /\ phase[t] = "idle"
  /\ phase' = [phase EXCEPT ![t] = "find"]
  /\ key' = [key EXCEPT ![t] = k]
  /\ UNCHANGED <<store, list, reply>>

InvokePublish(t, k, l) ==
  /\ phase[t] = "idle"
  /\ phase' = [phase EXCEPT ![t] = "publish"]
  /\ key' = [key EXCEPT ![t] = k]
  /\ list' = [list EXCEPT ![t] = l]
  /\ UNCHANGED <<store, reply>>

\* The call of t ends with the answer r.
Answer(t, r) ==
  /\ phase' = [phase EXCEPT ![t] = "done"]
  /\ reply' = [reply EXCEPT ![t] = r]
  /\ UNCHANGED <<key, list>>

\* A find answers with what is stored for its key at that instant.
AnswerFind(t) ==
  /\ phase[t] = "find"
  /\ Answer(t, IF store[key[t]] = Absent THEN Status("miss")
                                         ELSE Reply("hit", store[key[t]]))
  /\ UNCHANGED store

\* A publication stores its list unless the key is stored already.
AnswerPublish(t) ==
  /\ phase[t] = "publish"
  /\ list[t] # NoList
  /\ store' = IF store[key[t]] = Absent
              THEN [store EXCEPT ![key[t]] = list[t]]
              ELSE store
  /\ Answer(t, Status("published"))

\* The publication of an empty list is refused and changes nothing.
Refuse(t) ==
  /\ phase[t] = "publish"
  /\ list[t] = NoList
  /\ Answer(t, Status("INVALID_ARGUMENT"))
  /\ UNCHANGED store

\* A call that runs out of memory stores nothing.
Fail(t) ==
  /\ phase[t] \in {"find", "publish"}
  /\ Answer(t, Status("OUT_OF_MEMORY"))
  /\ UNCHANGED store

\* The store is lossy: any set of entries may be dropped.
Drop(K) ==
  /\ store' = [k \in Keys |-> IF k \in K THEN Absent ELSE store[k]]
  /\ UNCHANGED <<phase, key, list, reply>>

Return(t) ==
  /\ phase[t] = "done"
  /\ phase' = [phase EXCEPT ![t] = "idle"]
  /\ reply' = [reply EXCEPT ![t] = NoReply]
  /\ key' = [key EXCEPT ![t] = AnyKey]
  /\ list' = [list EXCEPT ![t] = NoList]
  /\ UNCHANGED store

Next ==
  \/ \E t \in Threads :
       \/ \E k \in Keys : InvokeFind(t, k)
       \/ \E k \in Keys, l \in Lists : InvokePublish(t, k, l)
       \/ AnswerFind(t) \/ AnswerPublish(t) \/ Refuse(t) \/ Fail(t) \/ Return(t)
  \/ \E K \in SUBSET Keys : Drop(K)

Spec == Init /\ [][Next]_vars
=============================================================================
