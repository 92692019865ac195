------------------------------ MODULE GemmProofs ------------------------------
(***************************************************************************)
(* Theorems about Handle, for every set of threads and engines, every      *)
(* finite set of keys and every catalog of engines with distinct keys, and *)
(* about GemmApi, for every catalog that holds a Gemm engine.              *)
(*                                                                         *)
(* OneWinner is not inductive: that emplace() overwrites nothing needs     *)
(* what the probe saw to be true still, which the exclusive lock ensures   *)
(* (AtEmplace), and that no lock is taken before the static is built.      *)
(* CatalogVisible rests on the catalog being in the registry from then on. *)
(*                                                                         *)
(* What a call of GemmApi may return with is decided at the points before: *)
(* which objects are alive (HeldInv), which results the thread's last      *)
(* result and the locals hold (ResultInv) and whether there is work        *)
(* (WorkInv), at every point of the call, and who may be inside the entry  *)
(* and with how many Ops (EntryInv). Together they are inductive.          *)
(***************************************************************************)
EXTENDS GemmApi, TLAPS, FiniteSetTheorems, FunctionTheorems

(* Handle. *)

InExclusive == {"probe", "emplace"}

\* The catalog's engines up to n are registered.
Registered(r, n) == \A i \in 1 .. n : r[KeyOf[Catalog[i]]] = Catalog[i]

\* Where the static stands.
GlobalInv ==
  /\ global = "unbuilt" => placed = 0
  /\ global # "unbuilt" => Registered(registry, placed)
  /\ global = "ready" => placed = Len(Catalog)
  /\ \A t \in Threads : step[t] = "build" => global = "building"
  /\ \A t \in Threads : step[t] \in {"lock", "probe", "emplace", "look"} => global = "ready"
  /\ winners # {} => global = "ready"

\* Who is in the critical sections.
LockInv ==
  /\ \A t \in Threads : step[t] \in InExclusive <=> writer = t
  /\ \A t \in Threads : step[t] = "look" <=> t \in readers
  /\ writer # None => readers = {}

\* A registration past the null check has an engine, and past the probe
\* still sees what the probe saw.
AtEmplace ==
  \A t \in Threads :
    /\ ask[t].op = "register" /\ step[t] \in {"lock", "probe", "emplace"}
         => ask[t].engine \in Engines
    /\ step[t] \in InExclusive => ask[t].op = "register"
    /\ step[t] = "look" => ask[t].op # "register"
    /\ step[t] = "emplace" => occupied[t] = (registry[KeyOf[ask[t].engine]] # None)

HandleInv == HandleTypeOK /\ GlobalInv /\ LockInv /\ AtEmplace /\ OneWinner /\ CatalogVisible

-----------------------------------------------------------------------------
(* Facts about the operators. *)

LEMMA AskType ==
  /\ \A a \in Asks : /\ a.op \in {"register", "find", "count"}
                     /\ a.engine \in Engines \cup {None}
                     /\ a.key \in Keys
  /\ Ask("count", None, AnyKey) \in Asks
  BY HandleAssumption DEF Asks, Ask, AnyKey

LEMMA ReplyType ==
  /\ \A s \in {"none", "SUCCESS", "INVALID_ARGUMENT", "OUT_OF_MEMORY"} :
       \A e \in Engines \cup {None} : \A n \in Nat : Reply(s, e, n) \in Replies
  /\ \A s \in {"none", "SUCCESS", "INVALID_ARGUMENT", "OUT_OF_MEMORY"} :
       Status(s) \in Replies /\ Status(s).status = s
  BY DEF Reply, Replies, Status

\* A registry that holds the catalog has at least its size.
LEMMA SizeOfCatalog ==
  ASSUME NEW r \in [Keys -> Engines \cup {None}], Registered(r, Len(Catalog))
  PROVE  Size(r) \in Nat /\ Size(r) >= Len(Catalog)
<1> DEFINE T == {k \in Keys : r[k] # None}
           S == 1 .. Len(Catalog)
           f == [i \in S |-> KeyOf[Catalog[i]]]
<1>1. Len(Catalog) \in Nat /\ \A i \in S : Catalog[i] \in Engines
  BY HandleAssumption
<1>2. f \in [S -> T]
  BY <1>1, HandleAssumption DEF Registered
<1>3. \A i, j \in S : f[i] = f[j] => i = j
  BY HandleAssumption
<1>4. f \in Injection(S, T)
  BY <1>2, <1>3 DEF Injection, IsInjective
<1>5. IsFiniteSet(T) /\ Cardinality(T) \in Nat
  BY HandleAssumption, FS_Subset, FS_CardinalityType
<1>6. Cardinality(S) = Len(Catalog)
  BY <1>1, FS_Interval
<1>7. Cardinality(S) <= Cardinality(T)
  BY <1>4, <1>5, FS_Injection
<1> QED  BY <1>5, <1>6, <1>7 DEF Size

-----------------------------------------------------------------------------
(* The invariant. *)

LEMMA HandleInvInit == HandleInit => HandleInv
<1> SUFFICES ASSUME HandleInit PROVE HandleInv
  OBVIOUS
<1>1. NoReply \in Replies /\ NoReply.status = "none"
  BY DEF NoReply, Reply, Replies
<1>2. HandleTypeOK
  BY <1>1, AskType, HandleAssumption DEF HandleInit, HandleTypeOK, NoEngines, Steps
<1>3. GlobalInv /\ AtEmplace /\ OneWinner
  BY DEF HandleInit, GlobalInv, AtEmplace, OneWinner, Registered, InExclusive
<1>4. None \notin Threads => LockInv
  BY DEF HandleInit, LockInv, InExclusive
<1>5. CatalogVisible
  BY DEF HandleInit, CatalogVisible
<1> QED  BY <1>2, <1>3, <1>4, <1>5, HandleAssumption DEF HandleInv

\* Whoever counts the calls, a call begun keeps the invariant.
LEMMA InvokeKeeps ==
  ASSUME HandleInv, NEW t \in Threads, NEW a \in Asks, Invoke(t, a), calls' \in [Threads -> Nat]
  PROVE  HandleInv'
<1> USE DEF Invoke, Goto, HandleInv
<1>1. HandleTypeOK'
  BY DEF HandleTypeOK, Steps
<1>2. GlobalInv' /\ LockInv' /\ AtEmplace'
  BY DEF HandleTypeOK, GlobalInv, LockInv, AtEmplace, InExclusive, Registered
<1>3. OneWinner' /\ CatalogVisible'
  BY DEF HandleTypeOK, OneWinner, CatalogVisible
<1> QED  BY <1>1, <1>2, <1>3

LEMMA HandleInvNext == HandleInv /\ [HandleNext]_handleVars => HandleInv'
<1> SUFFICES ASSUME HandleInv, [HandleNext]_handleVars PROVE HandleInv'
  OBVIOUS
<1> USE DEF HandleInv, HandleTypeOK, GlobalInv, LockInv, AtEmplace, OneWinner, CatalogVisible,
            InExclusive, Steps, Goto, Finish, Unlock
<1>0. Len(Catalog) \in Nat /\ \A i \in 1 .. Len(Catalog) : Catalog[i] \in Engines
  BY HandleAssumption
<1>1. ASSUME UNCHANGED handleVars PROVE HandleInv'
  BY <1>1 DEF handleVars, Registered
<1>2. ASSUME NEW t \in Threads, NEW a \in Asks, Request(t, a) PROVE HandleInv'
  <2>1. calls' \in [Threads -> Nat]
    BY <1>2 DEF Request
  <2> QED  BY <1>2, <2>1, InvokeKeeps DEF Request
<1>3. ASSUME NEW t \in Threads, Enter(t) PROVE HandleInv'
  BY <1>0, <1>3 DEF Enter, Registered
<1>4. ASSUME NEW t \in Threads, Place(t) PROVE HandleInv'
  <2>1. placed + 1 \in 1 .. Len(Catalog) /\ global = "building" /\ winners = {}
    BY <1>0, <1>4 DEF Place
  <2>2. Registered(registry', placed')
    BY <1>0, <1>4, <2>1, HandleAssumption DEF Place, Registered
  <2>3. HandleTypeOK'
    BY <1>0, <1>4, <2>1, HandleAssumption DEF Place
  <2>4. GlobalInv' /\ LockInv' /\ OneWinner' /\ CatalogVisible'
    BY <1>0, <1>4, <2>1, <2>2 DEF Place
  <2>5. AtEmplace'
    BY <1>4, <2>1 DEF Place
  <2> QED  BY <2>3, <2>4, <2>5
<1>5. ASSUME NEW t \in Threads, Complete(t) PROVE HandleInv'
  BY <1>0, <1>5 DEF Complete, Registered
<1>6. ASSUME NEW t \in Threads, Abandon(t) PROVE HandleInv'
  <2>1. global = "building" /\ winners = {}
    BY <1>6 DEF Abandon
  <2>2. Status("OUT_OF_MEMORY") \in Replies /\ Status("OUT_OF_MEMORY").status = "OUT_OF_MEMORY"
    BY ReplyType
  <2>3. HandleTypeOK'
    BY <1>0, <1>6, <2>2 DEF Abandon, NoEngines
  <2>4. \A u \in Threads : step'[u] \notin {"build", "lock", "probe", "emplace", "look"}
    BY <1>6, <2>1 DEF Abandon
  <2>5. GlobalInv' /\ LockInv' /\ AtEmplace' /\ OneWinner'
    BY <1>6, <2>1, <2>4 DEF Abandon
  <2>6. CatalogVisible'
    BY <1>6, <2>2 DEF Abandon
  <2> QED  BY <2>3, <2>5, <2>6
<1>7. ASSUME NEW t \in Threads, Pass(t) PROVE HandleInv'
  <2>1. Status("INVALID_ARGUMENT") \in Replies /\ Status("INVALID_ARGUMENT").status = "INVALID_ARGUMENT"
    BY ReplyType
  <2>2. CASE ask[t].op = "register" /\ ask[t].engine = None
    <3> DEFINE refused == Status("INVALID_ARGUMENT")
    <3>0. /\ step' = [step EXCEPT ![t] = "done"]
          /\ reply' = [reply EXCEPT ![t] = refused]
          /\ UNCHANGED <<global, placed, registry, writer, readers, ask, occupied, winners, calls>>
      BY <1>7, <2>2 DEF Pass
    <3>4. refused \in Replies /\ refused.status # "SUCCESS"
      BY <2>1
    <3> HIDE DEF refused
    <3>1. HandleTypeOK'
      BY <3>0, <3>4
    <3>2. GlobalInv' /\ LockInv' /\ AtEmplace' /\ OneWinner'
      BY <1>7, <2>2 DEF Pass, Registered
    <3>3. CatalogVisible'
      BY <3>0, <3>4
    <3> QED  BY <3>1, <3>2, <3>3
  <2>3. CASE ~(ask[t].op = "register" /\ ask[t].engine = None)
    <3>0. /\ step' = [step EXCEPT ![t] = "lock"]
          /\ UNCHANGED <<global, placed, registry, writer, readers, ask, occupied, reply, winners, calls>>
      BY <1>7, <2>3 DEF Pass
    <3>1. HandleTypeOK'
      BY <3>0
    <3>2. GlobalInv' /\ LockInv' /\ OneWinner' /\ CatalogVisible'
      BY <1>7, <2>3 DEF Pass, Registered
    <3>3. AtEmplace'
      BY <1>7, <2>3, AskType DEF Pass
    <3> QED  BY <3>1, <3>2, <3>3
  <2> QED  BY <2>2, <2>3
<1>8. ASSUME NEW t \in Threads, LockExclusive(t) PROVE HandleInv'
  <2>1. t # None /\ \A u \in Threads : step[u] \notin {"probe", "emplace", "look"}
    BY <1>8, HandleAssumption DEF LockExclusive
  <2>2. HandleTypeOK'
    BY <1>8 DEF LockExclusive
  <2>3. GlobalInv' /\ OneWinner' /\ CatalogVisible'
    BY <1>8 DEF LockExclusive, Registered
  <2>4. LockInv'
    BY <1>8, <2>1 DEF LockExclusive
  <2>5. AtEmplace'
    BY <1>8 DEF LockExclusive
  <2> QED  BY <2>2, <2>3, <2>4, <2>5
<1>9. ASSUME NEW t \in Threads, LockShared(t) PROVE HandleInv'
  BY <1>9, HandleAssumption DEF LockShared, Registered
<1>10. ASSUME NEW t \in Threads, Probe(t) PROVE HandleInv'
  BY <1>10 DEF Probe, Registered
<1>11. ASSUME NEW t \in Threads, Emplace(t) PROVE HandleInv'
  <2> DEFINE e == ask[t].engine
  <2>1. step[t] = "emplace" /\ writer = t /\ global = "ready" /\ e \in Engines /\ KeyOf[e] \in Keys
    BY <1>11, HandleAssumption DEF Emplace
  <2>2. /\ Status("INVALID_ARGUMENT") \in Replies /\ Status("INVALID_ARGUMENT").status = "INVALID_ARGUMENT"
        /\ Status("SUCCESS") \in Replies /\ ask[t].op = "register"
    BY <1>11, <2>1, ReplyType
  <2>3. \A u \in Threads : u # t => step[u] \notin {"probe", "emplace", "look"}
    BY <2>1, HandleAssumption
  <2>4. CASE occupied[t]
    <3> DEFINE refused == Status("INVALID_ARGUMENT")
    <3>0. /\ step' = [step EXCEPT ![t] = "done"]
          /\ reply' = [reply EXCEPT ![t] = refused]
          /\ writer' = None /\ readers' = readers \ {t}
          /\ UNCHANGED <<global, placed, registry, ask, occupied, winners, calls>>
      BY <1>11, <2>1, <2>4 DEF Emplace
    <3>5. refused \in Replies /\ refused.status # "SUCCESS"
      BY <2>2
    <3> HIDE DEF refused
    <3>1. HandleTypeOK'
      BY <2>1, <3>0, <3>5
    <3>2. GlobalInv' /\ AtEmplace' /\ OneWinner'
      BY <1>11, <2>1, <2>4 DEF Emplace, Registered
    <3>3. LockInv'
      BY <2>1, <2>3, <3>0, HandleAssumption
    <3>4. CatalogVisible'
      BY <2>2, <3>0, <3>5
    <3> QED  BY <3>1, <3>2, <3>3, <3>4
  <2>5. CASE ~occupied[t]
    <3>1. registry' = [registry EXCEPT ![KeyOf[e]] = e] /\ registry[KeyOf[e]] = None
      BY <1>11, <2>1, <2>5 DEF Emplace
    <3>2. HandleTypeOK'
      BY <1>11, <2>1, <2>2, <2>5, <3>1 DEF Emplace
    <3>3. Registered(registry', placed')
      BY <1>0, <1>11, <2>1, <3>1, HandleAssumption DEF Emplace, Registered
    <3>4. GlobalInv'
      BY <1>11, <2>1, <2>5, <3>3 DEF Emplace
    <3>5. LockInv' /\ AtEmplace'
      BY <1>11, <2>1, <2>3, <2>5, HandleAssumption DEF Emplace
    <3>6. OneWinner'
      BY <1>11, <2>1, <2>5, <3>1, HandleAssumption DEF Emplace
    <3>7. CatalogVisible'
      BY <1>11, <2>1, <2>2, <2>5 DEF Emplace
    <3> QED  BY <3>2, <3>4, <3>5, <3>6, <3>7
  <2> QED  BY <2>4, <2>5
<1>12. ASSUME NEW t \in Threads, CannotEmplace(t) PROVE HandleInv'
  <2>1. Status("OUT_OF_MEMORY") \in Replies /\ Status("OUT_OF_MEMORY").status = "OUT_OF_MEMORY"
    BY ReplyType
  <2>2. writer = t /\ global = "ready"
    BY <1>12 DEF CannotEmplace
  <2> QED  BY <1>12, <2>1, <2>2, HandleAssumption DEF CannotEmplace, Registered
<1>13. ASSUME NEW t \in Threads, Look(t) PROVE HandleInv'
  <2>1. global = "ready" /\ placed = Len(Catalog) /\ Registered(registry, Len(Catalog))
    BY <1>13 DEF Look
  <2>2. Size(registry) \in Nat /\ Size(registry) >= Len(Catalog)
    BY <2>1, SizeOfCatalog
  <2>3. ask[t].op # "register" /\ ask[t] \in Asks /\ ask[t].key \in Keys
    BY <1>13, AskType DEF Look
  <2>4. /\ reply'[t] = (IF ask[t].op = "find" THEN Reply("SUCCESS", registry[ask[t].key], 0)
                         ELSE Reply("SUCCESS", None, Size(registry)))
        /\ reply' \in [Threads -> Replies]
    BY <1>13, <2>2, <2>3, ReplyType DEF Look
  <2>5. CatalogVisible'
    <3>1. ask[t].op = "find" => reply'[t].engine = registry[ask[t].key]
      BY <2>4 DEF Reply
    <3>2. ask[t].op = "count" => reply'[t].count = Size(registry)
      BY <2>4 DEF Reply
    <3> QED  BY <1>13, <2>1, <2>2, <3>1, <3>2 DEF Look, Registered
  <2>6. HandleTypeOK'
    BY <1>13, <2>4 DEF Look
  <2> QED  BY <1>13, <2>1, <2>5, <2>6, HandleAssumption DEF Look
<1>14. ASSUME NEW t \in Threads, Return(t) PROVE HandleInv'
  BY <1>14 DEF Return, Registered
<1> QED
  BY <1>1, <1>2, <1>3, <1>4, <1>5, <1>6, <1>7, <1>8, <1>9, <1>10, <1>11, <1>12, <1>13, <1>14
  DEF HandleNext, HandleStep, Proceed

LEMMA HandleInvariant == HandleSpec => []HandleInv
<1>1. HandleInit => HandleInv
  BY HandleInvInit
<1>2. HandleInv /\ [HandleNext]_handleVars => HandleInv'
  BY HandleInvNext
<1> QED  BY <1>1, <1>2, PTL DEF HandleSpec

-----------------------------------------------------------------------------
\* Type correctness: every variable of the Handle keeps its type and the
\* static is built by one thread at a time.
THEOREM HandleTypeCorrect == HandleSpec => []HandleTypeOK
<1>1. HandleInv => HandleTypeOK
  BY DEF HandleInv
<1> QED  BY <1>1, HandleInvariant, PTL

\* For any threads and engines, an engine whose registration succeeded stays
\* the engine of its key: two engines of one key never both succeed.
THEOREM OneWinnerPerKey == HandleSpec => []OneWinner
<1>1. HandleInv => OneWinner
  BY DEF HandleInv
<1> QED  BY <1>1, HandleInvariant, PTL

\* For any catalog, no lookup and no count sees a part of it, however often
\* building the Handle failed before.
THEOREM WholeCatalogSeen == HandleSpec => []CatalogVisible
<1>1. HandleInv => CatalogVisible
  BY DEF HandleInv
<1> QED  BY <1>1, HandleInvariant, PTL

-----------------------------------------------------------------------------
(***************************************************************************)
(* Handle implements EngineRegistry, for all threads, engines, keys and    *)
(* catalogs. A registration takes effect at Emplace and a lookup at Look;  *)
(* building the static, waiting for it and the lock change nothing that a  *)
(* caller sees. When the static is complete the registry is exactly the    *)
(* catalog: nothing but the catalog was put into it (OnlyCatalog).         *)
(***************************************************************************)

\* While the static is not ready the registry holds the engines placed so far.
OnlyCatalog ==
  global # "ready" =>
    \A k \in Keys : registry[k] # None => \E i \in 1 .. placed : KeyOf[Catalog[i]] = k

LEMMA InitOnlyCatalog == HandleInit => OnlyCatalog
  BY DEF HandleInit, OnlyCatalog, NoEngines

LEMMA NextOnlyCatalog == HandleInv /\ OnlyCatalog /\ [HandleNext]_handleVars => OnlyCatalog'
<1> SUFFICES ASSUME HandleInv, OnlyCatalog, [HandleNext]_handleVars PROVE OnlyCatalog'
  OBVIOUS
<1> USE DEF Goto, Finish
<1>1. CASE UNCHANGED handleVars
  BY <1>1 DEF OnlyCatalog, handleVars
<1>2. ASSUME NEW t \in Threads, NEW a \in Asks, Request(t, a) PROVE OnlyCatalog'
  BY <1>2 DEF OnlyCatalog, Request, Invoke
<1>3. ASSUME NEW t \in Threads, Enter(t) PROVE OnlyCatalog'
  BY <1>3 DEF OnlyCatalog, Enter
<1>4. ASSUME NEW t \in Threads, Place(t) PROVE OnlyCatalog'
  <2>1. /\ placed \in Nat /\ placed' = placed + 1
        /\ registry' = [registry EXCEPT ![KeyOf[Catalog[placed + 1]]] = Catalog[placed + 1]]
        /\ global' = global /\ DOMAIN registry = Keys
    BY <1>4, HandleAssumption DEF Place, HandleInv, HandleTypeOK
  <2>2. ASSUME global # "ready", NEW k \in Keys, registry'[k] # None
        PROVE  \E i \in 1 .. placed + 1 : KeyOf[Catalog[i]] = k
    <3>1. CASE KeyOf[Catalog[placed + 1]] = k
      BY <2>1, <3>1
    <3>2. CASE KeyOf[Catalog[placed + 1]] # k
      <4>1. registry[k] # None
        BY <2>1, <2>2, <3>2
      <4>2. PICK i \in 1 .. placed : KeyOf[Catalog[i]] = k
        BY <2>2, <4>1 DEF OnlyCatalog
      <4>3. i \in 1 .. placed + 1
        BY <2>1
      <4> QED BY <4>2, <4>3
    <3> QED BY <3>1, <3>2
  <2> QED BY <2>1, <2>2 DEF OnlyCatalog
<1>5. ASSUME NEW t \in Threads, Complete(t) PROVE OnlyCatalog'
  BY <1>5 DEF OnlyCatalog, Complete
<1>6. ASSUME NEW t \in Threads, Abandon(t) PROVE OnlyCatalog'
  BY <1>6 DEF OnlyCatalog, Abandon, NoEngines
<1>7. ASSUME NEW t \in Threads,
             \/ Pass(t) \/ LockExclusive(t) \/ LockShared(t) \/ Probe(t)
             \/ CannotEmplace(t) \/ Look(t) \/ Return(t)
      PROVE  OnlyCatalog'
  BY <1>7 DEF OnlyCatalog, Pass, LockExclusive, LockShared, Probe, CannotEmplace, Look, Return
<1>8. ASSUME NEW t \in Threads, Emplace(t) PROVE OnlyCatalog'
  <2>1. global = "ready" /\ global' = global
    BY <1>8 DEF Emplace, HandleInv, GlobalInv
  <2> QED BY <2>1 DEF OnlyCatalog
<1> QED BY <1>1, <1>2, <1>3, <1>4, <1>5, <1>6, <1>7, <1>8 DEF HandleNext, HandleStep, Proceed

LEMMA CatalogInvariant == HandleSpec => []OnlyCatalog
  BY InitOnlyCatalog, NextOnlyCatalog, HandleInvariant, PTL DEF HandleSpec

-----------------------------------------------------------------------------
(* The mapping, step by step. *)

\* The instance's operators are this module's.
LEMMA RegistryOperators ==
  /\ \A s : Abstract!Status(s) = Status(s)
  /\ \A s, e, n : Abstract!Reply(s, e, n) = Reply(s, e, n)
  /\ \A o, e, k : Abstract!Ask(o, e, k) = Ask(o, e, k)
  /\ Abstract!NoReply = NoReply /\ Abstract!AnyKey = AnyKey /\ Abstract!Asks = Asks
  BY DEF Abstract!Status, Abstract!Reply, Abstract!NoReply, Abstract!Ask, Abstract!AnyKey,
         Abstract!Asks, Status, Reply, NoReply, Ask, AnyKey, Asks

\* Cardinality through the instance is Cardinality.
LEMMA SameCardinality == \A S : Abstract!Cardinality(S) = Cardinality(S)
  BY DEF Abstract!Cardinality, Cardinality

\* A key of the catalog has one built-in engine, another has none.
LEMMA BuiltinIs ==
  /\ Builtins \in [Keys -> Engines \cup {None}]
  /\ \A i \in 1 .. Len(Catalog) : Builtins[KeyOf[Catalog[i]]] = Catalog[i]
  /\ \A k \in Keys : Builtins[k] # None => \E i \in 1 .. Len(Catalog) : KeyOf[Catalog[i]] = k
<1>1. \A i \in 1 .. Len(Catalog) : Catalog[i] \in Engines /\ KeyOf[Catalog[i]] \in Keys
  BY HandleAssumption
<1>2. ASSUME NEW i \in 1 .. Len(Catalog) PROVE BuiltinOf(KeyOf[Catalog[i]]) = Catalog[i]
  <2> DEFINE k == KeyOf[Catalog[i]]
  <2>1. (CHOOSE j \in 1 .. Len(Catalog) : KeyOf[Catalog[j]] = k) = i
    BY HandleAssumption
  <2> QED BY <2>1 DEF BuiltinOf
<1>3. \A k \in Keys : BuiltinOf(k) # None => \E i \in 1 .. Len(Catalog) : KeyOf[Catalog[i]] = k
  BY DEF BuiltinOf
<1>4. \A k \in Keys : BuiltinOf(k) \in Engines \cup {None}
  BY <1>1, <1>2, <1>3
<1> QED BY <1>1, <1>2, <1>3, <1>4 DEF Builtins

\* A complete static holds the built-in engines and nothing else.
LEMMA CompleteIsCatalog ==
  ASSUME HandleInv, OnlyCatalog, global = "building", placed = Len(Catalog)
  PROVE  registry = Builtins
<1>1. registry \in [Keys -> Engines \cup {None}] /\ Registered(registry, Len(Catalog))
  BY DEF HandleInv, HandleTypeOK, GlobalInv
<1>2. ASSUME NEW k \in Keys PROVE registry[k] = Builtins[k]
  <2>1. CASE \E i \in 1 .. Len(Catalog) : KeyOf[Catalog[i]] = k
    BY <1>1, <2>1, BuiltinIs DEF Registered
  <2>2. CASE ~ \E i \in 1 .. Len(Catalog) : KeyOf[Catalog[i]] = k
    BY <2>2, BuiltinIs DEF OnlyCatalog
  <2> QED BY <2>1, <2>2
<1> QED BY <1>1, <1>2, BuiltinIs

LEMMA MapInit == HandleInit => Abstract!Init
<1> SUFFICES ASSUME HandleInit PROVE Abstract!Init
  OBVIOUS
<1>1. Entries = Builtins /\ Phases = [t \in Threads |-> "idle"]
  BY DEF HandleInit, Entries, Phases, Phase
<1> QED BY <1>1, RegistryOperators DEF HandleInit, Abstract!Init

\* What a step that moves only t does to the mapped program points.
LEMMA MovesOne ==
  ASSUME NEW t \in Threads, NEW s, step \in [Threads -> Steps], step' = [step EXCEPT ![t] = s]
  PROVE  Phases' = [Phases EXCEPT ![t] = Phase(s)] /\ Phases[t] = Phase(step[t])
  BY DEF Phases

LEMMA StaysBusy ==
  ASSUME NEW t \in Threads, NEW s \in Steps \ {"idle", "done"}, step \in [Threads -> Steps],
         step[t] \notin {"idle", "done"}, step' = [step EXCEPT ![t] = s]
  PROVE  Phases' = Phases
<1>1. Phase(s) = "busy" /\ Phase(step[t]) = "busy"
  BY DEF Phase, Steps
<1> QED BY <1>1, MovesOne DEF Phases

\* A step of t that ends its call with r.
LEMMA MapFinish ==
  ASSUME NEW t \in Threads, NEW r, step \in [Threads -> Steps], step[t] \notin {"idle", "done"},
         Finish(t, r), UNCHANGED ask
  PROVE  Abstract!Answer(t, r)
<1>1. Phase("done") = "done" /\ Phase(step[t]) = "busy"
  BY DEF Phase, Steps
<1>2. Phases' = [Phases EXCEPT ![t] = "done"] /\ Phases[t] = "busy"
  BY <1>1, MovesOne DEF Finish, Goto
<1> QED BY <1>2 DEF Abstract!Answer, Finish

LEMMA MapRequest ==
  ASSUME HandleInv, NEW t \in Threads, NEW a \in Asks, Request(t, a)
  PROVE  Abstract!Next
<1>1. /\ step[t] = "idle" /\ step \in [Threads -> Steps] /\ step' = [step EXCEPT ![t] = "handle"]
      /\ ask' = [ask EXCEPT ![t] = a] /\ reply' = reply
      /\ global' = global /\ registry' = registry
  BY DEF Request, Invoke, Goto, HandleInv, HandleTypeOK
<1>2. Phase("handle") = "busy" /\ Phase("idle") = "idle"
  BY DEF Phase
<1>3. Phases[t] = "idle" /\ Phases' = [Phases EXCEPT ![t] = "busy"]
  <2>1. Phases' = [Phases EXCEPT ![t] = Phase("handle")] /\ Phases[t] = Phase(step[t])
    BY <1>1, MovesOne
  <2> QED BY <1>1, <1>2, <2>1
<1>4. Entries' = Entries
  BY <1>1 DEF Entries
<1>5. Abstract!Invoke(t, a)
  BY <1>1, <1>3, <1>4 DEF Abstract!Invoke
<1> QED BY <1>5, RegistryOperators DEF Abstract!Next

\* The steps no caller sees.
LEMMA MapHidden ==
  ASSUME HandleInv, OnlyCatalog, NEW t \in Threads,
         \/ Enter(t) \/ Place(t) \/ Complete(t) \/ LockExclusive(t) \/ LockShared(t) \/ Probe(t)
  PROVE  UNCHANGED Abstract!vars
<1>1. step \in [Threads -> Steps]
  BY DEF HandleInv, HandleTypeOK
<1>2. CASE Enter(t)
  <2>1. Phases' = Phases
    BY <1>1, <1>2, StaysBusy DEF Enter, Goto, Steps
  <2> QED BY <1>2, <2>1 DEF Enter, Entries, Builtins, Abstract!vars
<1>3. CASE Place(t)
  <2>1. global = "building"
    BY <1>3 DEF Place, HandleInv, GlobalInv
  <2> QED BY <1>3, <2>1 DEF Place, Entries, Phases, Builtins, Abstract!vars
<1>4. CASE Complete(t)
  <2>1. Phases' = Phases
    BY <1>1, <1>4, StaysBusy DEF Complete, Goto, Steps
  <2>2. global = "building" /\ placed = Len(Catalog)
    BY <1>4 DEF Complete, HandleInv, GlobalInv
  <2>3. registry = Builtins
    BY <2>2, CompleteIsCatalog
  <2> QED BY <1>4, <2>1, <2>2, <2>3 DEF Complete, Entries, Abstract!vars
<1>5. CASE LockExclusive(t)
  <2>1. Phases' = Phases
    BY <1>1, <1>5, StaysBusy DEF LockExclusive, Goto, Steps
  <2> QED BY <1>5, <2>1 DEF LockExclusive, Entries, Abstract!vars
<1>6. CASE LockShared(t)
  <2>1. Phases' = Phases
    BY <1>1, <1>6, StaysBusy DEF LockShared, Goto, Steps
  <2> QED BY <1>6, <2>1 DEF LockShared, Entries, Abstract!vars
<1>7. CASE Probe(t)
  <2>1. Phases' = Phases
    BY <1>1, <1>7, StaysBusy DEF Probe, Goto, Steps
  <2> QED BY <1>7, <2>1 DEF Probe, Entries, Abstract!vars
<1> QED BY <1>2, <1>3, <1>4, <1>5, <1>6, <1>7

\* Running out of memory, while the static is built or under the lock.
LEMMA MapFail ==
  ASSUME HandleInv, NEW t \in Threads, Abandon(t) \/ CannotEmplace(t)
  PROVE  Abstract!Fail(t)
<1>1. /\ step \in [Threads -> Steps] /\ step[t] \notin {"idle", "done"}
      /\ Finish(t, Status("OUT_OF_MEMORY")) /\ UNCHANGED ask
  BY DEF Abandon, CannotEmplace, HandleInv, HandleTypeOK
<1>2. Abstract!Answer(t, Status("OUT_OF_MEMORY"))
  BY <1>1, MapFinish
<1>3. Entries' = Entries
  <2>1. CASE Abandon(t)
    <3>1. global = "building" /\ global' = "unbuilt"
      BY <2>1 DEF Abandon, HandleInv, GlobalInv
    <3> QED BY <3>1 DEF Entries, Builtins
  <2>2. CASE CannotEmplace(t)
    BY <2>2 DEF CannotEmplace, Entries
  <2> QED BY <2>1, <2>2
<1> QED BY <1>2, <1>3, RegistryOperators DEF Abstract!Fail

\* A null engine is refused before the lock.
LEMMA MapPass ==
  ASSUME HandleInv, NEW t \in Threads, Pass(t)
  PROVE  Abstract!Refuse(t) \/ UNCHANGED Abstract!vars
<1>1. /\ step \in [Threads -> Steps] /\ step[t] = "handle" /\ UNCHANGED ask
      /\ global' = global /\ registry' = registry
  BY DEF Pass, HandleInv, HandleTypeOK
<1>2. Entries' = Entries
  BY <1>1 DEF Entries
<1>3. CASE ask[t].op = "register" /\ ask[t].engine = None
  <2>1. Abstract!Answer(t, Status("INVALID_ARGUMENT"))
    BY <1>1, <1>3, MapFinish DEF Pass
  <2> QED BY <1>2, <1>3, <2>1, RegistryOperators DEF Abstract!Refuse
<1>4. CASE ~(ask[t].op = "register" /\ ask[t].engine = None)
  <2>1. Phases' = Phases /\ reply' = reply
    BY <1>1, <1>4, StaysBusy DEF Pass, Goto, Steps
  <2> QED BY <1>1, <1>2, <2>1 DEF Abstract!vars
<1> QED BY <1>3, <1>4

\* The instant of a registration: what Probe saw is true still.
LEMMA MapEmplace ==
  ASSUME HandleInv, NEW t \in Threads, Emplace(t)
  PROVE  Abstract!Accept(t) \/ Abstract!Refuse(t)
<1> DEFINE e == ask[t].engine
<1>1. /\ step \in [Threads -> Steps] /\ step[t] = "emplace" /\ UNCHANGED ask
      /\ global = "ready" /\ global' = global
  BY DEF Emplace, HandleInv, HandleTypeOK, GlobalInv
<1>2. /\ ask[t].op = "register" /\ e \in Engines /\ e # None
      /\ occupied[t] = (registry[KeyOf[e]] # None)
  BY <1>1, HandleAssumption DEF HandleInv, AtEmplace, InExclusive
<1>3. Entries = registry /\ Entries' = registry'
  BY <1>1 DEF Entries
<1>4. CASE occupied[t]
  <2>1. registry' = registry /\ Finish(t, Status("INVALID_ARGUMENT"))
    BY <1>4 DEF Emplace
  <2>2. Abstract!Answer(t, Status("INVALID_ARGUMENT"))
    BY <1>1, <2>1, MapFinish
  <2> QED BY <1>2, <1>3, <1>4, <2>1, <2>2, RegistryOperators DEF Abstract!Refuse
<1>5. CASE ~occupied[t]
  <2>1. registry' = [registry EXCEPT ![KeyOf[e]] = e] /\ Finish(t, Status("SUCCESS"))
    BY <1>5 DEF Emplace
  <2>2. Abstract!Answer(t, Status("SUCCESS"))
    BY <1>1, <2>1, MapFinish
  <2> QED BY <1>2, <1>3, <1>5, <2>1, <2>2, RegistryOperators DEF Abstract!Accept
<1> QED BY <1>4, <1>5

\* The instant of a lookup.
LEMMA MapLook ==
  ASSUME HandleInv, NEW t \in Threads, Look(t)
  PROVE  Abstract!Find(t) \/ Abstract!Count(t)
<1>1. /\ step \in [Threads -> Steps] /\ step[t] = "look" /\ UNCHANGED <<ask, registry>>
      /\ global = "ready" /\ global' = global /\ ask[t].op # "register" /\ ask[t] \in Asks
  BY DEF Look, HandleInv, HandleTypeOK, GlobalInv, AtEmplace
<1>2. Entries = registry /\ Entries' = Entries
  BY <1>1 DEF Entries
<1>3. CASE ask[t].op = "find"
  <2>1. Finish(t, Reply("SUCCESS", registry[ask[t].key], 0))
    BY <1>3 DEF Look
  <2>2. Abstract!Answer(t, Reply("SUCCESS", registry[ask[t].key], 0))
    BY <1>1, <2>1, MapFinish
  <2> QED BY <1>2, <1>3, <2>2, RegistryOperators DEF Abstract!Find
<1>4. CASE ask[t].op # "find"
  <2>1. ask[t].op = "count"
    BY <1>1, <1>4, AskType
  <2>2. Finish(t, Reply("SUCCESS", None, Size(registry)))
    BY <1>4 DEF Look
  <2>3. Abstract!Answer(t, Reply("SUCCESS", None, Size(registry)))
    BY <1>1, <2>2, MapFinish
  <2>4. Size(registry) = Cardinality({k \in Keys : Entries[k] # None})
    BY <1>2 DEF Size
  <2>5. Abstract!Answer(t, Abstract!Reply("SUCCESS", None, Cardinality({k \in Keys : Entries[k] # None})))
    BY <2>3, <2>4, RegistryOperators
  <2>6. Entries' = Entries
    BY <1>2
  <2> QED BY <2>1, <2>5, <2>6, SameCardinality DEF Abstract!Count
<1> QED BY <1>3, <1>4

LEMMA MapReturn ==
  ASSUME HandleInv, NEW t \in Threads, Return(t)
  PROVE  Abstract!Return(t)
<1>1. /\ step[t] = "done" /\ step \in [Threads -> Steps] /\ step' = [step EXCEPT ![t] = "idle"]
      /\ UNCHANGED <<ask, reply, global, registry>>
  BY DEF Return, Goto, HandleInv, HandleTypeOK
<1>2. Phase("idle") = "idle" /\ Phase("done") = "done"
  BY DEF Phase
<1>3. Phases[t] = "done" /\ Phases' = [Phases EXCEPT ![t] = "idle"]
  BY <1>1, <1>2, MovesOne
<1>4. Entries' = Entries
  BY <1>1 DEF Entries
<1> QED BY <1>1, <1>3, <1>4 DEF Abstract!Return

LEMMA MapNext ==
  HandleInv /\ OnlyCatalog /\ [HandleNext]_handleVars => [Abstract!Next]_(Abstract!vars)
<1> SUFFICES ASSUME HandleInv, OnlyCatalog, [HandleNext]_handleVars
             PROVE  Abstract!Next \/ UNCHANGED Abstract!vars
  OBVIOUS
<1>1. CASE UNCHANGED handleVars
  BY <1>1 DEF handleVars, Entries, Phases, Builtins, Abstract!vars
<1>2. ASSUME NEW t \in Threads, HandleStep(t) PROVE Abstract!Next \/ UNCHANGED Abstract!vars
  BY <1>2, MapHidden, MapFail, MapPass, MapEmplace, MapLook
  DEF HandleStep, Proceed, Abstract!Next
<1>3. ASSUME NEW t \in Threads, Return(t) PROVE Abstract!Next
  BY <1>3, MapReturn DEF Abstract!Next
<1>4. ASSUME NEW t \in Threads, NEW a \in Asks, Request(t, a) PROVE Abstract!Next
  BY <1>4, MapRequest
<1> QED BY <1>1, <1>2, <1>3, <1>4 DEF HandleNext

\* Every behaviour of the Handle, whichever threads race to build it, fail to,
\* register and look, is one of the registry that is there from the start and
\* in which every call takes effect in one instant.
THEOREM ImplementsEngineRegistry == HandleSpec => IsEngineRegistry
  BY MapInit, MapNext, HandleInvariant, CatalogInvariant, PTL
  DEF HandleSpec, IsEngineRegistry, Abstract!Spec

-----------------------------------------------------------------------------
(* GemmApi. *)

\* The Ops are made by the one thread that builds the entry.
EntryInv ==
  /\ entry # "built" => entryStatus = "SUCCESS"
  /\ entry = "unbuilt" => ops = 0
  /\ entry = "built" => ops = IF entryStatus = "SUCCESS" THEN 1 ELSE 0
  /\ ops \in {0, 1}
  /\ \A t \in Threads :
       /\ at[t] \in {"patternCreate", "describe", "opsCreate", "opsAnswer"} => ops = 0
       /\ at[t] \in {"patternDestroy", "storeEntry"} => ops = IF status[t] = Ok THEN 1 ELSE 0
       /\ at[t] \in CallPoints => entry = "built" /\ entryStatus = "SUCCESS"

\* What is alive at each point.
HeldInv ==
  \A t \in Threads :
    /\ at[t] \in {"idle", "entry", "hostOps", "hostAnswer", "patternCreate", "storeEntry",
                  "argsCreate", "restore"} => held[t] = {}
    /\ at[t] \in {"describe", "opsCreate", "opsAnswer", "patternDestroy"} => held[t] = {"pattern"}
    /\ at[t] \in {"bind", "planCreate", "planAnswer", "argsDestroy"} => held[t] \subseteq {"args"}
    /\ at[t] \in {"execute", "save", "planDestroy"} => held[t] \subseteq {"args", "plan"}

\* What the thread's last result and the locals hold.
ResultInv ==
  \A t \in Threads :
    /\ status[t].status = "SUCCESS" <=> status[t] = Ok
    /\ at[t] \in {"bind", "planCreate", "planAnswer", "execute", "save"} => last[t] = status[t]
    /\ at[t] \in {"planDestroy", "argsDestroy", "restore"} =>
         kept[t] = status[t] /\ (status[t] = Ok => last[t] = Ok)
    /\ at[t] = "idle" /\ entryStatus = "SUCCESS" =>
         last[t] = status[t] /\ returned[t] = status[t].status

\* Whether the call has put work on the stream.
WorkInv ==
  \A t \in Threads :
    /\ at[t] \in {"entry", "hostOps", "hostAnswer", "argsCreate", "bind", "planCreate",
                  "planAnswer", "execute"} \cup EntryPoints => work[t] = "none"
    /\ at[t] \in {"save", "planDestroy", "argsDestroy", "restore"} =>
         /\ status[t] = Ok => work[t] # "none"
         /\ work[t] # "none" => status[t].status \in {"SUCCESS", "INTERNAL_ERROR"}
    /\ at[t] \in {"hostOps", "hostAnswer"} => op[t] = "staged"
    /\ at[t] = "idle" /\ op[t] = "gemm" =>
         /\ returned[t] = "SUCCESS" => work[t] # "none"
         /\ work[t] # "none" => returned[t] \in {"SUCCESS", "INTERNAL_ERROR"}

\* An answer of the Handle has a status.
AnsweredInv == \A t \in Threads : step[t] = "done" => reply[t].status # "none"

GemmInv ==
  HandleInv /\ AnsweredInv /\ TypeOK /\ EntryInv /\ HeldInv /\ ResultInv /\ WorkInv

-----------------------------------------------------------------------------
(* Facts about the operators. *)

LEMMA ResultFacts ==
  /\ \A s \in Statuses, p \in Points :
       /\ Result(s, p) \in Results /\ Result(s, p).status = s
       /\ s # "SUCCESS" => Result(s, p) # Ok
  /\ Ok \in Results /\ Ok.status = "SUCCESS"
  BY DEF Result, Results, Ok, Statuses

LEMMA Outcomes ==
  /\ MayAllocate \subseteq Statuses /\ BindOutcomes \subseteq Statuses
  /\ ExecuteOutcomes \subseteq Statuses
  /\ \A r \in Replies : r.status # "none" =>
       OpsOutcomes(r) \subseteq Statuses /\ PlanOutcomes(r) \subseteq Statuses
  BY DEF MayAllocate, BindOutcomes, ExecuteOutcomes, OpsOutcomes, PlanOutcomes, Statuses, Replies

LEMMA FindAsk == Ask("find", None, GemmKey) \in Asks
  BY GemmAssumption DEF Asks

\* The three results a staged call touches keep their types, and agree.
LEMMA StagedEffect ==
  ASSUME NEW t \in Threads, NEW call \in Points, NEW s \in Statuses,
         NEW next, NEW failed, Staged(t, call, s, next, failed)
  PROVE  \E r \in Results :
           /\ r.status = s /\ (s = "SUCCESS" <=> r = Ok)
           /\ status' = [status EXCEPT ![t] = r]
           /\ last' = [last EXCEPT ![t] = r]
           /\ at' = [at EXCEPT ![t] = IF s = "SUCCESS" THEN next ELSE failed]
<1> DEFINE r == IF s = "SUCCESS" THEN Ok ELSE Result(s, call)
<1>1. r \in Results /\ r.status = s /\ (s = "SUCCESS" <=> r = Ok)
  BY ResultFacts
<1>2. /\ status' = [status EXCEPT ![t] = r]
      /\ last' = [last EXCEPT ![t] = r]
      /\ at' = [at EXCEPT ![t] = IF s = "SUCCESS" THEN next ELSE failed]
  BY DEF Staged, InvokeApi, Move
<1> QED  BY <1>1, <1>2

-----------------------------------------------------------------------------
LEMMA GemmInvInit == Init => GemmInv
<1> SUFFICES ASSUME Init PROVE GemmInv
  OBVIOUS
<1>1. HandleInv
  BY HandleInvInit DEF Init
<1>2. AnsweredInv
  BY DEF Init, HandleInit, AnsweredInv
<1>3. TypeOK
  BY <1>1, ResultFacts DEF Init, HandleInv, TypeOK, Points, EntryPoints, Statuses
<1>4. EntryInv /\ HeldInv /\ WorkInv
  BY DEF Init, EntryInv, HeldInv, WorkInv, CallPoints, EntryPoints
<1>5. ResultInv
  BY ResultFacts DEF Init, ResultInv
<1> QED  BY <1>1, <1>2, <1>3, <1>4, <1>5 DEF GemmInv

\* Steps outside the Handle.
LEMMA OutsideHandle ==
  ASSUME HandleInv, AnsweredInv, UNCHANGED handleVars
  PROVE  HandleInv' /\ AnsweredInv'
<1>1. HandleInv'
  BY HandleInvNext
<1>2. AnsweredInv'
  BY DEF AnsweredInv, handleVars
<1> QED  BY <1>1, <1>2

\* Counting a call does not concern the Handle.
LEMMA CountKeeps ==
  ASSUME HandleInv, AnsweredInv, calls' \in [Threads -> Nat],
         UNCHANGED <<global, placed, registry, writer, readers, step, ask, occupied, reply, winners>>
  PROVE  HandleInv' /\ AnsweredInv'
<1> USE DEF HandleInv
<1>1. HandleTypeOK'
  BY DEF HandleTypeOK
<1>2. GlobalInv' /\ LockInv' /\ AtEmplace' /\ OneWinner' /\ CatalogVisible' /\ AnsweredInv'
  BY DEF GlobalInv, LockInv, AtEmplace, OneWinner, CatalogVisible, AnsweredInv, Registered
<1> QED  BY <1>1, <1>2

\* Asking the Handle, and taking its answer.
LEMMA AskKeeps ==
  ASSUME HandleInv, AnsweredInv, NEW t \in Threads, AskForEngine(t)
  PROVE  HandleInv' /\ AnsweredInv'
<1>1. calls' \in [Threads -> Nat]
  BY DEF AskForEngine, HandleInv, HandleTypeOK
<1>2. HandleInv'
  BY <1>1, FindAsk, InvokeKeeps DEF AskForEngine
<1>3. AnsweredInv'
  BY DEF AskForEngine, Invoke, Goto, AnsweredInv, HandleInv, HandleTypeOK
<1> QED  BY <1>2, <1>3

LEMMA ReturnKeeps ==
  ASSUME HandleInv, AnsweredInv, NEW t \in Threads, Return(t)
  PROVE  /\ HandleInv' /\ AnsweredInv'
         /\ OpsOutcomes(reply[t]) \subseteq Statuses /\ PlanOutcomes(reply[t]) \subseteq Statuses
<1>1. HandleInv'
  BY HandleInvNext DEF HandleNext
<1>2. AnsweredInv'
  BY DEF Return, Goto, AnsweredInv, HandleInv, HandleTypeOK
<1>3. reply[t] \in Replies /\ reply[t].status # "none"
  BY DEF Return, AnsweredInv, HandleInv, HandleTypeOK
<1> QED  BY <1>1, <1>2, <1>3, Outcomes

\* The Handle's own steps.
LEMMA StepKeeps ==
  ASSUME HandleInv, AnsweredInv, NEW t \in Threads, HandleStep(t)
  PROVE  HandleInv' /\ AnsweredInv'
<1>1. HandleInv'
  BY HandleInvNext DEF HandleNext
<1>2. \A s \in {"SUCCESS", "INVALID_ARGUMENT", "OUT_OF_MEMORY"} :
        /\ Status(s).status # "none"
        /\ \A e, n : Reply(s, e, n).status # "none"
  BY DEF Status, Reply
<1>3. \/ step' = [step EXCEPT ![t] = "done"] /\ \E r : r.status # "none" /\ reply' = [reply EXCEPT ![t] = r]
      \/ reply' = reply /\ \E p \in Steps \ {"done"} : step' = [step EXCEPT ![t] = p]
      \/ reply' = reply /\ step' = step
  BY <1>2 DEF HandleStep, Proceed, Enter, Place, Complete, Pass, LockExclusive, LockShared, Probe,
     Emplace, Look, Abandon, CannotEmplace, Goto, Finish, Steps
<1>4. AnsweredInv'
  BY <1>3 DEF AnsweredInv, HandleInv, HandleTypeOK
<1> QED  BY <1>1, <1>4

-----------------------------------------------------------------------------
LEMMA GemmInvNext == GemmInv /\ [Next]_vars => GemmInv'
<1> SUFFICES ASSUME GemmInv, [Next]_vars PROVE GemmInv'
  OBVIOUS
<1> USE DEF GemmInv, TypeOK, EntryInv, HeldInv, ResultInv, WorkInv, Points, EntryPoints, CallPoints, Move
<1>0. Ok \in Results /\ Ok.status = "SUCCESS" /\ "SUCCESS" \in Statuses
  BY ResultFacts DEF Statuses
<1>1. ASSUME UNCHANGED vars PROVE GemmInv'
  <2>1. HandleInv' /\ AnsweredInv'
    BY <1>1, OutsideHandle DEF vars
  <2> QED  BY <1>1, <2>1 DEF vars, apiVars, HandleInv
<1>2. ASSUME NEW t \in Threads, CallGemm(t) \/ CallOpsCreate(t) PROVE GemmInv'
  <2>1. PICK kind \in {"gemm", "staged"}, point \in {"entry", "hostOps"} :
          Begin(t, kind, point) /\ (point = "hostOps" => kind = "staged")
    BY <1>2 DEF CallGemm, CallOpsCreate
  <2>2. calls' \in [Threads -> Nat]
    BY <2>1 DEF Begin, HandleTypeOK
  <2>3. HandleInv' /\ AnsweredInv'
    BY <2>1, <2>2, CountKeeps DEF Begin
  <2>4. TypeOK'
    BY <1>0, <2>1, <2>3 DEF Begin, HandleInv
  <2>5. EntryInv' /\ HeldInv'
    BY <2>1 DEF Begin
  <2>6. ResultInv'
    BY <1>0, <2>1 DEF Begin
  <2>7. WorkInv'
    BY <2>1 DEF Begin
  <2> QED  BY <2>3, <2>4, <2>5, <2>6, <2>7
<1>3. ASSUME NEW t \in Threads, BuildEntry(t) PROVE GemmInv'
  <2>1. HandleInv' /\ AnsweredInv'
    BY <1>3, OutsideHandle DEF BuildEntry
  <2>2. TypeOK'
    BY <1>0, <1>3, <2>1 DEF BuildEntry, HandleInv
  <2>3. EntryInv'
    BY <1>0, <1>3 DEF BuildEntry
  <2>4. HeldInv'
    BY <1>3 DEF BuildEntry
  <2>5. ResultInv'
    BY <1>0, <1>3 DEF BuildEntry
  <2>6. WorkInv'
    BY <1>0, <1>3 DEF BuildEntry
  <2> QED  BY <2>1, <2>2, <2>3, <2>4, <2>5, <2>6
<1>4. ASSUME NEW t \in Threads, PatternCreate(t) PROVE GemmInv'
  <2>1. HandleInv' /\ AnsweredInv'
    BY <1>4, OutsideHandle DEF PatternCreate
  <2>2. PICK s \in Statuses : Staged(t, "patternCreate", s, "describe", "storeEntry") /\ Hold(t, s, "pattern")
    BY <1>4, Outcomes DEF PatternCreate
  <2>3. PICK r \in Results :
          /\ r.status = s /\ (s = "SUCCESS" <=> r = Ok)
          /\ status' = [status EXCEPT ![t] = r]
          /\ last' = [last EXCEPT ![t] = r]
          /\ at' = [at EXCEPT ![t] = IF s = "SUCCESS" THEN "describe" ELSE "storeEntry"]
    BY <2>2, StagedEffect
  <2>4. TypeOK'
    BY <1>4, <2>1, <2>2, <2>3 DEF PatternCreate, Hold, HandleInv
  <2>5. EntryInv'
    BY <1>0, <1>4, <2>2, <2>3 DEF PatternCreate
  <2>6. HeldInv'
    BY <1>4, <2>2, <2>3 DEF PatternCreate, Hold
  <2>7. ResultInv'
    BY <1>0, <1>4, <2>2, <2>3 DEF PatternCreate
  <2>8. WorkInv'
    BY <1>4, <2>2, <2>3 DEF PatternCreate
  <2> QED  BY <2>1, <2>4, <2>5, <2>6, <2>7, <2>8
<1>5. ASSUME NEW t \in Threads, Describe(t) PROVE GemmInv'
  <2>1. HandleInv' /\ AnsweredInv'
    BY <1>5, OutsideHandle DEF Describe
  <2>2. PICK s \in Statuses : Staged(t, "describe", s, "opsCreate", "patternDestroy")
    BY <1>5, Outcomes DEF Describe
  <2>3. PICK r \in Results :
          /\ r.status = s /\ (s = "SUCCESS" <=> r = Ok)
          /\ status' = [status EXCEPT ![t] = r]
          /\ last' = [last EXCEPT ![t] = r]
          /\ at' = [at EXCEPT ![t] = IF s = "SUCCESS" THEN "opsCreate" ELSE "patternDestroy"]
    BY <2>2, StagedEffect
  <2>4. TypeOK'
    BY <1>5, <2>1, <2>2, <2>3 DEF Describe, Hold, HandleInv
  <2>5. EntryInv'
    BY <1>0, <1>5, <2>2, <2>3 DEF Describe
  <2>6. HeldInv'
    BY <1>5, <2>2, <2>3 DEF Describe, Hold
  <2>7. ResultInv'
    BY <1>0, <1>5, <2>2, <2>3 DEF Describe
  <2>8. WorkInv'
    BY <1>5, <2>2, <2>3 DEF Describe
  <2> QED  BY <2>1, <2>4, <2>5, <2>6, <2>7, <2>8
<1>6. ASSUME NEW t \in Threads, OpsCreate(t) PROVE GemmInv'
  <2>1. CASE Staged(t, "opsCreate", "OUT_OF_MEMORY", "opsAnswer", "patternDestroy") /\ UNCHANGED handleVars
    <3>1. HandleInv' /\ AnsweredInv'
      BY <2>1, OutsideHandle
    <3>2. PICK r \in Results :
            /\ r.status = "OUT_OF_MEMORY" /\ r # Ok
            /\ status' = [status EXCEPT ![t] = r]
            /\ last' = [last EXCEPT ![t] = r]
            /\ at' = [at EXCEPT ![t] = "patternDestroy"]
      BY <2>1, StagedEffect DEF Statuses
    <3>3. TypeOK'
      BY <1>6, <3>1, <3>2 DEF OpsCreate, HandleInv
    <3>4. EntryInv' /\ HeldInv' /\ ResultInv' /\ WorkInv'
      BY <1>6, <3>2 DEF OpsCreate
    <3> QED  BY <3>1, <3>3, <3>4
  <2>2. CASE AskForEngine(t) /\ Move(t, "opsAnswer") /\ UNCHANGED <<status, last>>
    <3>1. HandleInv' /\ AnsweredInv'
      BY <2>2, AskKeeps
    <3>2. TypeOK'
      BY <1>6, <2>2, <3>1 DEF OpsCreate, HandleInv
    <3>3. EntryInv' /\ HeldInv' /\ ResultInv' /\ WorkInv'
      BY <1>6, <2>2 DEF OpsCreate
    <3> QED  BY <3>1, <3>2, <3>3
  <2> QED  BY <1>6, <2>1, <2>2 DEF OpsCreate
<1>7. ASSUME NEW t \in Threads, OpsAnswer(t) PROVE GemmInv'
  <2>1. HandleInv' /\ AnsweredInv'
    BY <1>7, ReturnKeeps DEF OpsAnswer
  <2>2. PICK s \in Statuses : Staged(t, "opsCreate", s, "patternDestroy", "patternDestroy") /\ ops' = (IF s = "SUCCESS" THEN ops + 1 ELSE ops)
    BY <1>7, Outcomes, ReturnKeeps DEF OpsAnswer
  <2>3. PICK r \in Results :
          /\ r.status = s /\ (s = "SUCCESS" <=> r = Ok)
          /\ status' = [status EXCEPT ![t] = r]
          /\ last' = [last EXCEPT ![t] = r]
          /\ at' = [at EXCEPT ![t] = IF s = "SUCCESS" THEN "patternDestroy" ELSE "patternDestroy"]
    BY <2>2, StagedEffect
  <2>4. TypeOK'
    BY <1>7, <2>1, <2>2, <2>3 DEF OpsAnswer, Hold, HandleInv
  <2>5. EntryInv'
    BY <1>0, <1>7, <2>2, <2>3 DEF OpsAnswer
  <2>6. HeldInv'
    BY <1>7, <2>2, <2>3 DEF OpsAnswer, Hold
  <2>7. ResultInv'
    BY <1>0, <1>7, <2>2, <2>3 DEF OpsAnswer
  <2>8. WorkInv'
    BY <1>7, <2>2, <2>3 DEF OpsAnswer
  <2> QED  BY <2>1, <2>4, <2>5, <2>6, <2>7, <2>8
<1>8. ASSUME NEW t \in Threads, PatternDestroy(t) PROVE GemmInv'
  <2>1. HandleInv' /\ AnsweredInv'
    BY <1>8, OutsideHandle DEF PatternDestroy, InvokeApi
  <2>2. TypeOK'
    BY <1>0, <1>8, <2>1 DEF PatternDestroy, InvokeApi, HandleInv
  <2>3. EntryInv'
    BY <1>0, <1>8 DEF PatternDestroy, InvokeApi
  <2>4. HeldInv'
    BY <1>8 DEF PatternDestroy, InvokeApi
  <2>5. ResultInv'
    BY <1>0, <1>8 DEF PatternDestroy, InvokeApi
  <2>6. WorkInv'
    BY <1>0, <1>8 DEF PatternDestroy, InvokeApi
  <2> QED  BY <2>1, <2>2, <2>3, <2>4, <2>5, <2>6
<1>9. ASSUME NEW t \in Threads, StoreEntry(t) PROVE GemmInv'
  <2>1. HandleInv' /\ AnsweredInv'
    BY <1>9, OutsideHandle DEF StoreEntry
  <2>2. TypeOK'
    BY <1>0, <1>9, <2>1 DEF StoreEntry, HandleInv, Results
  <2>3. EntryInv'
    BY <1>0, <1>9 DEF StoreEntry
  <2>4. HeldInv'
    BY <1>9 DEF StoreEntry
  <2>5. ResultInv'
    BY <1>0, <1>9 DEF StoreEntry
  <2>6. WorkInv'
    BY <1>0, <1>9 DEF StoreEntry
  <2> QED  BY <2>1, <2>2, <2>3, <2>4, <2>5, <2>6
<1>10. ASSUME NEW t \in Threads, ReadEntry(t) PROVE GemmInv'
  <2>1. HandleInv' /\ AnsweredInv'
    BY <1>10, OutsideHandle DEF ReadEntry, End
  <2>2. TypeOK'
    BY <1>0, <1>10, <2>1 DEF ReadEntry, End, HandleInv
  <2>3. EntryInv'
    BY <1>0, <1>10 DEF ReadEntry, End
  <2>4. HeldInv'
    BY <1>10 DEF ReadEntry, End
  <2>5. ResultInv'
    BY <1>0, <1>10 DEF ReadEntry, End
  <2>6. WorkInv'
    BY <1>0, <1>10 DEF ReadEntry, End
  <2> QED  BY <2>1, <2>2, <2>3, <2>4, <2>5, <2>6
<1>11. ASSUME NEW t \in Threads, ArgsCreate(t) PROVE GemmInv'
  <2>1. HandleInv' /\ AnsweredInv'
    BY <1>11, OutsideHandle DEF ArgsCreate
  <2>2. PICK s \in Statuses : Staged(t, "argsCreate", s, "bind", "save") /\ Hold(t, s, "args")
    BY <1>11, Outcomes DEF ArgsCreate
  <2>3. PICK r \in Results :
          /\ r.status = s /\ (s = "SUCCESS" <=> r = Ok)
          /\ status' = [status EXCEPT ![t] = r]
          /\ last' = [last EXCEPT ![t] = r]
          /\ at' = [at EXCEPT ![t] = IF s = "SUCCESS" THEN "bind" ELSE "save"]
    BY <2>2, StagedEffect
  <2>4. TypeOK'
    BY <1>11, <2>1, <2>2, <2>3 DEF ArgsCreate, Hold, HandleInv
  <2>5. EntryInv'
    BY <1>0, <1>11, <2>2, <2>3 DEF ArgsCreate
  <2>6. HeldInv'
    BY <1>11, <2>2, <2>3 DEF ArgsCreate, Hold
  <2>7. ResultInv'
    BY <1>0, <1>11, <2>2, <2>3 DEF ArgsCreate
  <2>8. WorkInv'
    BY <1>11, <2>2, <2>3 DEF ArgsCreate
  <2> QED  BY <2>1, <2>4, <2>5, <2>6, <2>7, <2>8
<1>12. ASSUME NEW t \in Threads, Bind(t) PROVE GemmInv'
  <2>1. HandleInv' /\ AnsweredInv'
    BY <1>12, OutsideHandle DEF Bind
  <2>2. PICK s \in Statuses : Staged(t, "bind", s, "planCreate", "save")
    BY <1>12, Outcomes DEF Bind
  <2>3. PICK r \in Results :
          /\ r.status = s /\ (s = "SUCCESS" <=> r = Ok)
          /\ status' = [status EXCEPT ![t] = r]
          /\ last' = [last EXCEPT ![t] = r]
          /\ at' = [at EXCEPT ![t] = IF s = "SUCCESS" THEN "planCreate" ELSE "save"]
    BY <2>2, StagedEffect
  <2>4. TypeOK'
    BY <1>12, <2>1, <2>2, <2>3 DEF Bind, Hold, HandleInv
  <2>5. EntryInv'
    BY <1>0, <1>12, <2>2, <2>3 DEF Bind
  <2>6. HeldInv'
    BY <1>12, <2>2, <2>3 DEF Bind, Hold
  <2>7. ResultInv'
    BY <1>0, <1>12, <2>2, <2>3 DEF Bind
  <2>8. WorkInv'
    BY <1>12, <2>2, <2>3 DEF Bind
  <2> QED  BY <2>1, <2>4, <2>5, <2>6, <2>7, <2>8
<1>13. ASSUME NEW t \in Threads, PlanCreate(t) PROVE GemmInv'
  <2>1. HandleInv' /\ AnsweredInv'
    BY <1>13, AskKeeps DEF PlanCreate
  <2>2. TypeOK'
    BY <1>0, <1>13, <2>1 DEF PlanCreate, HandleInv
  <2>3. EntryInv'
    BY <1>0, <1>13 DEF PlanCreate
  <2>4. HeldInv'
    BY <1>13 DEF PlanCreate
  <2>5. ResultInv'
    BY <1>0, <1>13 DEF PlanCreate
  <2>6. WorkInv'
    BY <1>0, <1>13 DEF PlanCreate
  <2> QED  BY <2>1, <2>2, <2>3, <2>4, <2>5, <2>6
<1>14. ASSUME NEW t \in Threads, PlanAnswer(t) PROVE GemmInv'
  <2>1. HandleInv' /\ AnsweredInv'
    BY <1>14, ReturnKeeps DEF PlanAnswer
  <2>2. PICK s \in Statuses : Staged(t, "planCreate", s, "execute", "save") /\ Hold(t, s, "plan")
    BY <1>14, Outcomes, ReturnKeeps DEF PlanAnswer
  <2>3. PICK r \in Results :
          /\ r.status = s /\ (s = "SUCCESS" <=> r = Ok)
          /\ status' = [status EXCEPT ![t] = r]
          /\ last' = [last EXCEPT ![t] = r]
          /\ at' = [at EXCEPT ![t] = IF s = "SUCCESS" THEN "execute" ELSE "save"]
    BY <2>2, StagedEffect
  <2>4. TypeOK'
    BY <1>14, <2>1, <2>2, <2>3 DEF PlanAnswer, Hold, HandleInv
  <2>5. EntryInv'
    BY <1>0, <1>14, <2>2, <2>3 DEF PlanAnswer
  <2>6. HeldInv'
    BY <1>14, <2>2, <2>3 DEF PlanAnswer, Hold
  <2>7. ResultInv'
    BY <1>0, <1>14, <2>2, <2>3 DEF PlanAnswer
  <2>8. WorkInv'
    BY <1>14, <2>2, <2>3 DEF PlanAnswer
  <2> QED  BY <2>1, <2>4, <2>5, <2>6, <2>7, <2>8
<1>15. ASSUME NEW t \in Threads, Execute(t) PROVE GemmInv'
  <2>1. HandleInv' /\ AnsweredInv'
    BY <1>15, OutsideHandle DEF Execute
  <2>2. PICK s \in Statuses, w \in {"none", "queued", "finished"} :
          /\ Staged(t, "execute", s, "save", "save")
          /\ work' = [work EXCEPT ![t] = w]
          /\ s = "SUCCESS" => w # "none"
          /\ w # "none" => s \in {"SUCCESS", "INTERNAL_ERROR"}
    BY <1>15, Outcomes DEF Execute, Launched
  <2>3. PICK r \in Results :
          /\ r.status = s /\ (s = "SUCCESS" <=> r = Ok)
          /\ status' = [status EXCEPT ![t] = r]
          /\ last' = [last EXCEPT ![t] = r]
          /\ at' = [at EXCEPT ![t] = IF s = "SUCCESS" THEN "save" ELSE "save"]
    BY <2>2, StagedEffect
  <2>4. TypeOK'
    BY <1>15, <2>1, <2>2, <2>3 DEF Execute, Hold, HandleInv
  <2>5. EntryInv'
    BY <1>0, <1>15, <2>2, <2>3 DEF Execute
  <2>6. HeldInv'
    BY <1>15, <2>2, <2>3 DEF Execute, Hold
  <2>7. ResultInv'
    BY <1>0, <1>15, <2>2, <2>3 DEF Execute
  <2>8. WorkInv'
    BY <1>15, <2>2, <2>3 DEF Execute
  <2> QED  BY <2>1, <2>4, <2>5, <2>6, <2>7, <2>8
<1>16. ASSUME NEW t \in Threads, Save(t) PROVE GemmInv'
  <2>1. HandleInv' /\ AnsweredInv'
    BY <1>16, OutsideHandle DEF Save
  <2>2. TypeOK'
    BY <1>0, <1>16, <2>1 DEF Save, HandleInv
  <2>3. EntryInv'
    BY <1>0, <1>16 DEF Save
  <2>4. HeldInv'
    BY <1>16 DEF Save
  <2>5. ResultInv'
    BY <1>0, <1>16 DEF Save
  <2>6. WorkInv'
    BY <1>0, <1>16 DEF Save
  <2> QED  BY <2>1, <2>2, <2>3, <2>4, <2>5, <2>6
<1>17. ASSUME NEW t \in Threads, PlanDestroy(t) PROVE GemmInv'
  <2>1. HandleInv' /\ AnsweredInv'
    BY <1>17, OutsideHandle DEF PlanDestroy, Destroy, InvokeApi
  <2>2. TypeOK'
    BY <1>0, <1>17, <2>1 DEF PlanDestroy, Destroy, InvokeApi, HandleInv
  <2>3. EntryInv'
    BY <1>0, <1>17 DEF PlanDestroy, Destroy, InvokeApi
  <2>4. HeldInv'
    BY <1>17 DEF PlanDestroy, Destroy, InvokeApi
  <2>5. ResultInv'
    BY <1>0, <1>17 DEF PlanDestroy, Destroy, InvokeApi
  <2>6. WorkInv'
    BY <1>0, <1>17 DEF PlanDestroy, Destroy, InvokeApi
  <2> QED  BY <2>1, <2>2, <2>3, <2>4, <2>5, <2>6
<1>18. ASSUME NEW t \in Threads, ArgsDestroy(t) PROVE GemmInv'
  <2>1. HandleInv' /\ AnsweredInv'
    BY <1>18, OutsideHandle DEF ArgsDestroy, Destroy, InvokeApi
  <2>2. TypeOK'
    BY <1>0, <1>18, <2>1 DEF ArgsDestroy, Destroy, InvokeApi, HandleInv
  <2>3. EntryInv'
    BY <1>0, <1>18 DEF ArgsDestroy, Destroy, InvokeApi
  <2>4. HeldInv'
    BY <1>18 DEF ArgsDestroy, Destroy, InvokeApi
  <2>5. ResultInv'
    BY <1>0, <1>18 DEF ArgsDestroy, Destroy, InvokeApi
  <2>6. WorkInv'
    BY <1>0, <1>18 DEF ArgsDestroy, Destroy, InvokeApi
  <2> QED  BY <2>1, <2>2, <2>3, <2>4, <2>5, <2>6
<1>19. ASSUME NEW t \in Threads, Restore(t) PROVE GemmInv'
  <2>1. HandleInv' /\ AnsweredInv'
    BY <1>19, OutsideHandle DEF Restore, End
  <2>2. TypeOK'
    BY <1>0, <1>19, <2>1 DEF Restore, End, HandleInv, Results
  <2>3. EntryInv'
    BY <1>0, <1>19 DEF Restore, End
  <2>4. HeldInv'
    BY <1>19 DEF Restore, End
  <2>5. ResultInv'
    BY <1>0, <1>19 DEF Restore, End
  <2>6. WorkInv'
    BY <1>0, <1>19 DEF Restore, End
  <2> QED  BY <2>1, <2>2, <2>3, <2>4, <2>5, <2>6
<1>20. ASSUME NEW t \in Threads, HostOps(t) PROVE GemmInv'
  <2>1. HandleInv' /\ AnsweredInv'
    BY <1>20, AskKeeps DEF HostOps
  <2>2. TypeOK'
    BY <1>0, <1>20, <2>1 DEF HostOps, HandleInv
  <2>3. EntryInv'
    BY <1>0, <1>20 DEF HostOps
  <2>4. HeldInv'
    BY <1>20 DEF HostOps
  <2>5. ResultInv'
    BY <1>0, <1>20 DEF HostOps
  <2>6. WorkInv'
    BY <1>0, <1>20 DEF HostOps
  <2> QED  BY <2>1, <2>2, <2>3, <2>4, <2>5, <2>6
<1>21. ASSUME NEW t \in Threads, HostAnswer(t) PROVE GemmInv'
  <2>1. HandleInv' /\ AnsweredInv'
    BY <1>21, ReturnKeeps DEF HostAnswer
  <2>2. PICK s \in Statuses : Staged(t, "opsCreate", s, "idle", "idle") /\ returned' = [returned EXCEPT ![t] = s]
    BY <1>21, Outcomes, ReturnKeeps DEF HostAnswer
  <2>3. PICK r \in Results :
          /\ r.status = s /\ (s = "SUCCESS" <=> r = Ok)
          /\ status' = [status EXCEPT ![t] = r]
          /\ last' = [last EXCEPT ![t] = r]
          /\ at' = [at EXCEPT ![t] = IF s = "SUCCESS" THEN "idle" ELSE "idle"]
    BY <2>2, StagedEffect
  <2>4. TypeOK'
    BY <1>21, <2>1, <2>2, <2>3 DEF HostAnswer, Hold, HandleInv
  <2>5. EntryInv'
    BY <1>0, <1>21, <2>2, <2>3 DEF HostAnswer
  <2>6. HeldInv'
    BY <1>21, <2>2, <2>3 DEF HostAnswer, Hold
  <2>7. ResultInv'
    BY <1>0, <1>21, <2>2, <2>3 DEF HostAnswer
  <2>8. WorkInv'
    BY <1>21, <2>2, <2>3 DEF HostAnswer
  <2> QED  BY <2>1, <2>4, <2>5, <2>6, <2>7, <2>8
<1>22. ASSUME NEW t \in Threads, InHandle(t) PROVE GemmInv'
  <2>1. HandleInv' /\ AnsweredInv'
    BY <1>22, StepKeeps DEF InHandle, apiVars
  <2>2. TypeOK'
    BY <1>0, <1>22, <2>1 DEF InHandle, apiVars, HandleInv
  <2>3. EntryInv'
    BY <1>0, <1>22 DEF InHandle, apiVars
  <2>4. HeldInv'
    BY <1>22 DEF InHandle, apiVars
  <2>5. ResultInv'
    BY <1>0, <1>22 DEF InHandle, apiVars
  <2>6. WorkInv'
    BY <1>0, <1>22 DEF InHandle, apiVars
  <2> QED  BY <2>1, <2>2, <2>3, <2>4, <2>5, <2>6
<1>23. ASSUME NEW t \in Threads, FinishWork(t) PROVE GemmInv'
  <2>1. HandleInv' /\ AnsweredInv'
    BY <1>23, OutsideHandle DEF FinishWork
  <2>2. TypeOK'
    BY <1>0, <1>23, <2>1 DEF FinishWork, HandleInv
  <2>3. EntryInv' /\ HeldInv' /\ ResultInv'
    BY <1>0, <1>23 DEF FinishWork
  <2>4. WorkInv'
    BY <1>0, <1>23 DEF FinishWork
  <2> QED  BY <2>1, <2>2, <2>3, <2>4
<1> QED
  BY <1>1, <1>2, <1>3, <1>4, <1>5, <1>6, <1>7, <1>8, <1>9, <1>10, <1>11, <1>12, <1>13, <1>14, <1>15, <1>16, <1>17, <1>18, <1>19, <1>20, <1>21, <1>22, <1>23
  DEF Next, ApiStep

LEMMA GemmInvariant == Spec => []GemmInv
<1>1. Init => GemmInv
  BY GemmInvInit
<1>2. GemmInv /\ [Next]_vars => GemmInv'
  BY GemmInvNext
<1> QED  BY <1>1, <1>2, PTL DEF Spec

-----------------------------------------------------------------------------
\* Type correctness of the calls and of the Handle under them; one thread at
\* most builds the entry.
THEOREM TypeCorrect == Spec => []TypeOK
<1>1. GemmInv => TypeOK
  BY DEF GemmInv
<1> QED  BY <1>1, GemmInvariant, PTL

\* However many threads race for the entry, one Ops is made and no thread
\* goes on without it.
THEOREM OpsSharedOnce == Spec => []OneSharedOps
<1>1. GemmInv => OneSharedOps
  BY DEF GemmInv, EntryInv, OneSharedOps
<1> QED  BY <1>1, GemmInvariant, PTL

\* No path out of a call leaves an object of its own behind.
THEOREM CallsLeakNothing == Spec => []NothingLeaks
<1>1. GemmInv => NothingLeaks
  BY DEF GemmInv, HeldInv, NothingLeaks
<1> QED  BY <1>1, GemmInvariant, PTL

\* Once the entry is sound, what a failed call leaves in the thread's last
\* result is its own first failure.
THEOREM DiagnosticsSurvive == Spec => []DiagnosticKept
<1>1. GemmInv => DiagnosticKept
  BY DEF GemmInv, ResultInv, DiagnosticKept
<1> QED  BY <1>1, GemmInvariant, PTL

\* Success is returned for work on the stream, and no failure before the
\* launch leaves any there.
THEOREM SuccessIsWork == Spec => []SuccessMeansWork
<1>1. GemmInv => SuccessMeansWork
  BY DEF GemmInv, WorkInv, SuccessMeansWork
<1> QED  BY <1>1, GemmInvariant, PTL
==============================================================================
