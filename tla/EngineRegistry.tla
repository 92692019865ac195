---------------------------- MODULE EngineRegistry ----------------------------
(***************************************************************************)
(* What the process-wide Handle promises (handle.hpp): a map from pattern  *)
(* keys to engines that holds the whole built-in catalog before anybody    *)
(* looks, that grows but never replaces or removes an entry, and in which  *)
(* every call takes effect in one instant between its start and its end.   *)
(*                                                                         *)
(* Handle is the detailed module, with the static that is built at the     *)
(* first use and the lock; a run checks that it implements this one.       *)
(***************************************************************************)
EXTENDS FiniteSets

CONSTANTS
  Threads,   \* the calling threads
  Keys,      \* the pattern keys
  Engines,   \* the engines
  KeyOf,     \* KeyOf[e]: the key of e's pattern
  Builtin,   \* Builtin[k]: the built-in engine of k, or None
  None       \* no engine

VARIABLES
  entries,   \* entries[k]: the engine registered for k, or None
  phase,     \* phase[t]: "idle", "busy" or "done"
  ask,       \* ask[t]: the arguments of t's call
  reply      \* reply[t]: the answer of t's call

vars == <<entries, phase, ask, reply>>

Ask(op, engine, key) == [op |-> op, engine |-> engine, key |-> key]

Reply(status, engine, count) == [status |-> status, engine |-> engine, count |-> count]

NoReply == Reply("none", None, 0)

\* An answer that is a status alone.
Status(status) == Reply(status, None, 0)

AnyKey == CHOOSE k \in Keys : TRUE

\* The arguments a caller may pass: a null engine is one of them.
Asks ==
  {Ask("register", e, AnyKey) : e \in Engines \cup {None}}
    \cup {Ask("find", None, k) : k \in Keys} \cup {Ask("count", None, AnyKey)}

Init ==
  /\ entries = Builtin
  /\ phase = [t \in Threads |-> "idle"]
  /\ ask = [t \in Threads |-> Ask("count", None, AnyKey)]
  /\ reply = [t \in Threads |-> NoReply]

-----------------------------------------------------------------------------
Invoke(t, a) ==
  /\ phase[t] = "idle"
  /\ phase' = [phase EXCEPT ![t] = "busy"]
  /\ ask' = [ask EXCEPT ![t] = a]
  /\ UNCHANGED <<entries, reply>>

\* The call takes effect: its answer is r.
Answer(t, r) ==
  /\ phase[t] = "busy"
  /\ phase' = [phase EXCEPT ![t] = "done"]
  /\ reply' = [reply EXCEPT ![t] = r]
  /\ UNCHANGED ask

Accept(t) ==
  LET e == ask[t].engine
  IN  /\ ask[t].op = "register" /\ e # None
      /\ entries[KeyOf[e]] = None
      /\ entries' = [entries EXCEPT ![KeyOf[e]] = e]
      /\ Answer(t, Status("SUCCESS"))

\* A null engine, or one whose key is taken.
Refuse(t) ==
  LET e == ask[t].engine
  IN  /\ ask[t].op = "register"
      /\ e = None \/ entries[KeyOf[e]] # None
      /\ Answer(t, Status("INVALID_ARGUMENT"))
      /\ UNCHANGED entries

Find(t) ==
  /\ ask[t].op = "find"
  /\ Answer(t, Reply("SUCCESS", entries[ask[t].key], 0))
  /\ UNCHANGED entries

Count(t) ==
  /\ ask[t].op = "count"
  /\ Answer(t, Reply("SUCCESS", None, Cardinality({k \in Keys : entries[k] # None})))
  /\ UNCHANGED entries

\* Any call may run out of memory, and then has no effect.
Fail(t) == Answer(t, Status("OUT_OF_MEMORY")) /\ UNCHANGED entries

Return(t) ==
  /\ phase[t] = "done"
  /\ phase' = [phase EXCEPT ![t] = "idle"]
  /\ UNCHANGED <<entries, ask, reply>>

Next ==
  \E t \in Threads :
    \/ \E a \in Asks : Invoke(t, a)
    \/ Accept(t) \/ Refuse(t) \/ Find(t) \/ Count(t) \/ Fail(t) \/ Return(t)

Spec == Init /\ [][Next]_vars
==============================================================================
