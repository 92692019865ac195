-------------------------------- MODULE Handle --------------------------------
(***************************************************************************)
(* Handle (handle.hpp, handle.cpp): the process-wide registry from pattern *)
(* keys to engines. It lives in a function-local static, so the first      *)
(* thread to ask for it builds it and registers the built-in catalog while *)
(* the others wait; if building throws, the next thread to ask builds it   *)
(* anew. A shared_mutex then orders registrations against lookups.         *)
(***************************************************************************)
EXTENDS Naturals, Sequences, FiniteSets

CONSTANTS
  Threads,   \* the calling threads
  Keys,      \* the pattern keys
  Engines,   \* the engines
  KeyOf,     \* KeyOf[e]: the key of e's pattern
  Catalog,   \* the engines makeBuiltinOpsEngines() returns, in order
  MaxCalls,  \* bound: the calls each thread makes
  None       \* no engine: a null pointer, an empty registry slot

\* The keys of the catalog are distinct: the families are.
ASSUME HandleAssumption ==
  /\ Keys # {} /\ IsFiniteSet(Keys) /\ MaxCalls \in Nat
  /\ None \notin Engines \cup Threads
  /\ KeyOf \in [Engines -> Keys]
  /\ Catalog \in Seq(Engines)
  /\ \A i, j \in 1 .. Len(Catalog) : KeyOf[Catalog[i]] = KeyOf[Catalog[j]] => i = j

VARIABLES
  global,    \* the static: "unbuilt", "building" or "ready"
  placed,    \* the engines of the catalog registered so far
  registry,  \* ops_engines_: registry[k] is the engine of k, or None
  writer,    \* the thread that holds mutex_ exclusively, or None
  readers,   \* the threads that hold it shared
  step,      \* step[t]: the next step of t's call
  ask,       \* ask[t]: the arguments of t's call
  occupied,  \* occupied[t]: whether t's emplace met an entry of its key
  reply,     \* reply[t]: the answer of t's call
  winners,   \* the engines whose registration succeeded
  calls      \* calls[t]: the calls t has begun

handleVars ==
  <<global, placed, registry, writer, readers, step, ask, occupied, reply, winners, calls>>

Steps == {"idle", "handle", "build", "lock", "probe", "emplace", "look", "done"}

Ask(op, engine, key) == [op |-> op, engine |-> engine, key |-> key]

Reply(status, engine, count) == [status |-> status, engine |-> engine, count |-> count]

NoReply == Reply("none", None, 0)

\* An answer that is a status alone: the exception a call threw, or none.
Status(status) == Reply(status, None, 0)

AnyKey == CHOOSE k \in Keys : TRUE

\* The arguments a caller may pass: a null engine is one of them.
Asks ==
  {Ask("register", e, AnyKey) : e \in Engines \cup {None}}
    \cup {Ask("find", None, k) : k \in Keys} \cup {Ask("count", None, AnyKey)}

NoEngines == [k \in Keys |-> None]

Size(r) == Cardinality({k \in Keys : r[k] # None})

HandleInit ==
  /\ global = "unbuilt" /\ placed = 0
  /\ registry = NoEngines
  /\ writer = None /\ readers = {}
  /\ step = [t \in Threads |-> "idle"]
  /\ ask = [t \in Threads |-> Ask("count", None, AnyKey)]
  /\ occupied = [t \in Threads |-> FALSE]
  /\ reply = [t \in Threads |-> NoReply]
  /\ winners = {}
  /\ calls = [t \in Threads |-> 0]

-----------------------------------------------------------------------------
Goto(t, s) == step' = [step EXCEPT ![t] = s]

Finish(t, r) == Goto(t, "done") /\ reply' = [reply EXCEPT ![t] = r]

\* A caller asks for the global Handle, to make call a.
Invoke(t, a) ==
  /\ step[t] = "idle"
  /\ Goto(t, "handle")
  /\ ask' = [ask EXCEPT ![t] = a]
  /\ UNCHANGED <<global, placed, registry, writer, readers, occupied, reply, winners>>

Request(t, a) ==
  /\ calls[t] < MaxCalls
  /\ calls' = [calls EXCEPT ![t] = @ + 1]
  /\ Invoke(t, a)

\* The first thread through builds the static; the others wait at "handle".
Enter(t) ==
  /\ step[t] = "handle" /\ global = "unbuilt"
  /\ global' = "building"
  /\ Goto(t, "build")
  /\ UNCHANGED <<placed, registry, writer, readers, ask, occupied, reply, winners, calls>>

\* The constructor registers the next engine of the catalog.
Place(t) ==
  /\ step[t] = "build" /\ placed < Len(Catalog)
  /\ placed' = placed + 1
  /\ registry' = [registry EXCEPT ![KeyOf[Catalog[placed + 1]]] = Catalog[placed + 1]]
  /\ UNCHANGED <<global, writer, readers, step, ask, occupied, reply, winners, calls>>

Complete(t) ==
  /\ step[t] = "build" /\ placed = Len(Catalog)
  /\ global' = "ready"
  /\ Goto(t, "handle")
  /\ UNCHANGED <<placed, registry, writer, readers, ask, occupied, reply, winners, calls>>

\* Mutant: a constructor that throws leaves the static built.
AbandonReady(t) ==
  /\ step[t] = "build"
  /\ global' = "ready"
  /\ Finish(t, Status("OUT_OF_MEMORY"))
  /\ UNCHANGED <<placed, registry, writer, readers, ask, occupied, winners, calls>>

\* The constructor throws bad_alloc: the half-built Handle is destroyed and
\* the static stays unbuilt.
Abandon(t) ==
  /\ step[t] = "build"
  /\ global' = "unbuilt" /\ placed' = 0 /\ registry' = NoEngines
  /\ Finish(t, Status("OUT_OF_MEMORY"))
  /\ UNCHANGED <<writer, readers, ask, occupied, winners, calls>>

\* The static is built: a null engine is refused, other calls want the lock.
Pass(t) ==
  /\ step[t] = "handle" /\ global = "ready"
  /\ IF ask[t].op = "register" /\ ask[t].engine = None
     THEN Finish(t, Status("INVALID_ARGUMENT"))
     ELSE Goto(t, "lock") /\ UNCHANGED reply
  /\ UNCHANGED <<global, placed, registry, writer, readers, ask, occupied, winners, calls>>

\* Mutant: registration takes the lock shared.
LockSharedToWrite(t) ==
  /\ step[t] = "lock" /\ ask[t].op = "register"
  /\ writer = None
  /\ readers' = readers \cup {t}
  /\ Goto(t, "probe")
  /\ UNCHANGED <<global, placed, registry, writer, ask, occupied, reply, winners, calls>>

LockExclusive(t) ==
  /\ step[t] = "lock" /\ ask[t].op = "register"
  /\ writer = None /\ readers = {}
  /\ writer' = t
  /\ Goto(t, "probe")
  /\ UNCHANGED <<global, placed, registry, readers, ask, occupied, reply, winners, calls>>

LockShared(t) ==
  /\ step[t] = "lock" /\ ask[t].op # "register"
  /\ writer = None
  /\ readers' = readers \cup {t}
  /\ Goto(t, "look")
  /\ UNCHANGED <<global, placed, registry, writer, ask, occupied, reply, winners, calls>>

Unlock(t) ==
  /\ writer' = IF writer = t THEN None ELSE writer
  /\ readers' = readers \ {t}

\* The first half of emplace(): is there an entry of the engine's key?
Probe(t) ==
  /\ step[t] = "probe"
  /\ occupied' = [occupied EXCEPT ![t] = registry[KeyOf[ask[t].engine]] # None]
  /\ Goto(t, "emplace")
  /\ UNCHANGED <<global, placed, registry, writer, readers, ask, reply, winners, calls>>

\* Mutant: insert_or_assign() in place of emplace().
Assign(t) ==
  LET e == ask[t].engine
  IN  /\ step[t] = "emplace"
      /\ registry' = [registry EXCEPT ![KeyOf[e]] = e]
      /\ winners' = winners \cup {e}
      /\ Finish(t, Status(IF occupied[t] THEN "INVALID_ARGUMENT" ELSE "SUCCESS"))
      /\ Unlock(t)
      /\ UNCHANGED <<global, placed, ask, occupied, calls>>

\* The second half: link the engine, or throw because the key is taken.
Emplace(t) ==
  LET e == ask[t].engine
  IN  /\ step[t] = "emplace"
      /\ \/ /\ occupied[t]
            /\ Finish(t, Status("INVALID_ARGUMENT"))
            /\ UNCHANGED <<registry, winners>>
         \/ /\ ~occupied[t]
            /\ registry' = [registry EXCEPT ![KeyOf[e]] = e]
            /\ winners' = winners \cup {e}
            /\ Finish(t, Status("SUCCESS"))
      /\ Unlock(t)
      /\ UNCHANGED <<global, placed, ask, occupied, calls>>

\* Mutant: a failed insertion is tried again until it works.
RetryLocked(t) ==
  /\ step[t] = "emplace" /\ ~occupied[t]
  /\ Goto(t, "probe")
  /\ UNCHANGED <<global, placed, registry, writer, readers, ask, occupied, reply, winners, calls>>

\* emplace() cannot allocate its node or a larger table: nothing changes.
CannotEmplace(t) ==
  /\ step[t] = "probe" \/ (step[t] = "emplace" /\ ~occupied[t])
  /\ Finish(t, Status("OUT_OF_MEMORY"))
  /\ Unlock(t)
  /\ UNCHANGED <<global, placed, registry, ask, occupied, winners, calls>>

\* findOpsEngine() and getNumOpsEngines() under the shared lock.
Look(t) ==
  /\ step[t] = "look"
  /\ Finish(t, IF ask[t].op = "find" THEN Reply("SUCCESS", registry[ask[t].key], 0)
               ELSE Reply("SUCCESS", None, Size(registry)))
  /\ Unlock(t)
  /\ UNCHANGED <<global, placed, registry, ask, occupied, winners, calls>>

Return(t) ==
  /\ step[t] = "done"
  /\ Goto(t, "idle")
  /\ UNCHANGED <<global, placed, registry, writer, readers, ask, occupied, reply, winners, calls>>

\* The steps a thread takes on its own once memory is available.
Proceed(t) ==
  \/ Enter(t) \/ Place(t) \/ Complete(t) \/ Pass(t) \/ LockExclusive(t) \/ LockShared(t)
  \/ Probe(t) \/ Emplace(t) \/ Look(t)

HandleStep(t) == Proceed(t) \/ Abandon(t) \/ CannotEmplace(t)

\* Every thread has made its calls.
Finished == \A t \in Threads : step[t] = "idle" /\ calls[t] = MaxCalls

HandleNext ==
  \/ \E t \in Threads : HandleStep(t) \/ Return(t) \/ \E a \in Asks : Request(t, a)
  \/ Finished /\ UNCHANGED handleVars

HandleSpec == HandleInit /\ [][HandleNext]_handleVars

HandleFairSpec == HandleSpec /\ \A t \in Threads : WF_handleVars(Proceed(t) \/ Return(t))

-----------------------------------------------------------------------------
Replies == [status : {"none", "SUCCESS", "INVALID_ARGUMENT", "OUT_OF_MEMORY"},
            engine : Engines \cup {None}, count : Nat]

\* Every variable keeps its type, and at most one thread builds the static.
HandleTypeOK ==
  /\ global \in {"unbuilt", "building", "ready"}
  /\ placed \in 0 .. Len(Catalog)
  /\ registry \in [Keys -> Engines \cup {None}]
  /\ writer \in Threads \cup {None}
  /\ readers \subseteq Threads
  /\ step \in [Threads -> Steps]
  /\ ask \in [Threads -> Asks]
  /\ occupied \in [Threads -> BOOLEAN]
  /\ reply \in [Threads -> Replies]
  /\ winners \subseteq Engines
  /\ calls \in [Threads -> Nat]
  /\ \A t, u \in Threads : step[t] = "build" /\ step[u] = "build" => t = u

\* Registration has one winner per key (handle.hpp:16-25, handle_test.cpp):
\* an engine whose registration succeeded is the one found for its key from
\* then on, so of the engines registered for a key by any threads in any
\* order only one ever succeeds and none is replaced.
OneWinner == \A e \in winners : registry[KeyOf[e]] = e

\* Nobody sees part of the catalog (handle.cpp:14-17): a lookup of a
\* built-in key finds the built-in engine, and a count counts all of them,
\* also when an earlier attempt to build the Handle failed half way and
\* when callers register engines of their own for the same keys.
CatalogVisible ==
  \A t \in Threads :
    step[t] = "done" /\ reply[t].status = "SUCCESS" =>
      /\ ask[t].op = "find" =>
           \A i \in 1 .. Len(Catalog) : KeyOf[Catalog[i]] = ask[t].key => reply[t].engine = Catalog[i]
      /\ ask[t].op = "count" => reply[t].count >= Len(Catalog)

\* Every call ends: the static is not waited for in vain and the lock is
\* released on every path, the throwing ones included.
HandleCallsEnd == \A t \in Threads : step[t] # "idle" ~> step[t] = "idle"

\* The Handle as its callers see it.
BuiltinOf(k) ==
  IF \E i \in 1 .. Len(Catalog) : KeyOf[Catalog[i]] = k
  THEN Catalog[CHOOSE i \in 1 .. Len(Catalog) : KeyOf[Catalog[i]] = k] ELSE None

Phase(s) == CASE s = "idle" -> "idle" [] s = "done" -> "done" [] OTHER -> "busy"

Builtins == [k \in Keys |-> BuiltinOf(k)]

Entries == IF global = "ready" THEN registry ELSE Builtins

Phases == [t \in Threads |-> Phase(step[t])]

Abstract == INSTANCE EngineRegistry
  WITH Builtin <- Builtins, entries <- Entries, phase <- Phases

\* Handle implements EngineRegistry: building at first use, the retry after
\* a failed attempt and the two halves of emplace() under the lock look to
\* every caller like a map that starts with the catalog, is written once
\* per key and answers each call in one instant.
IsEngineRegistry == Abstract!Spec
==============================================================================
