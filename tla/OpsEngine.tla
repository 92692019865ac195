------------------------------ MODULE OpsEngine ------------------------------
(***************************************************************************)
(* OpsEngine (engine.hpp, engine.cpp): how one engine selects the records  *)
(* of a call. createPlan() reads the calling thread's device, validates    *)
(* the Args, looks the selection up in the cache and otherwise consults    *)
(* the Finders in pack order and then its records in registration order,   *)
(* publishes the result and configures a clone of every selected record.   *)
(*                                                                         *)
(* Several threads call one engine. What they share is the selection cache *)
(* -- here the atomic lossy store SelectionStore, which                    *)
(* SelectionCacheProofs shows the real cache implements -- and four        *)
(* process-wide environment settings, each read at its first use. The      *)
(* host may change the environment between two calls.                      *)
(*                                                                         *)
(* A record is its position 1 .. NumRecords, which also stands for its     *)
(* name; a Finder is its place 1 .. NumFinders in the pack.                *)
(***************************************************************************)
EXTENDS Naturals, Sequences, FiniteSets

CONSTANTS
  Threads,      \* the calling threads
  Devices,      \* the device ids of the platform
  Problems,     \* the parameter structs makeProblem() builds
  ProblemKey,   \* ProblemKey[p]: getProblemKey(), the tokens summarised
  NumRecords,   \* the number of Primitives the family registers
  NumFinders,   \* the number of Finders in the engine's pack
  Offers,       \* Offers[r][f]: the names Finder f offers for request r, as
                \* record positions; a number outside Records is no record
  Applicable,   \* Applicable[r]: the records whose isApplicable succeeds
  RawValues,    \* RawValues[v]: the values the host gives to variable v
  MaxCalls,     \* bound: the calls each thread makes
  Unset,        \* the raw value of a variable that is not set
  Blank,        \* a list item of spaces and tabs only
  Zero,         \* the item "0"
  NotRead,      \* the setting of a variable no thread has read yet
  Absent        \* the value of a key the cache does not store

Records == 1 .. NumRecords

\* What one call selects for: the current device and the Args' problem.
Requests == [device : Devices, problem : Problems]

\* The sources of candidates: the Finders, and last the registration order.
Sources == 1 .. NumFinders + 1

\* Settings of FTRAIN_DISABLE_CACHE, FTRAIN_DISABLED_FINDERS,
\* FTRAIN_ENABLED_PRIMITIVES and FTRAIN_DISABLED_PRIMITIVES.
Variables == {"cache", "finders", "enabled", "disabled"}

\* The Constraints tokens and the Problem tokens. Two lanes of 64 bits
\* summarise them; that the summaries of different tokens differ is assumed.
CacheKey(r) == <<r.device, ProblemKey[r.problem]>>

Keys == {CacheKey(r) : r \in Requests}

\* The environment (env.h) and what the code makes of a raw value.
Items(value) == {value[i] : i \in 1 .. Len(value)}

ParseNameList(value) == IF value = Unset THEN {} ELSE Items(value) \ {Blank}

IsSwitchEnabled(value) == value \notin {Unset, <<Blank>>, <<Zero>>}

Parse(v, value) ==
  IF v = "cache" THEN (IF IsSwitchEnabled(value) THEN "on" ELSE "off")
                 ELSE ParseNameList(value)

\* What the host's environment may be at a call.
Environments ==
  {e \in [Variables -> UNION {RawValues[v] : v \in Variables}] :
     \A v \in Variables : e[v] \in RawValues[v]}

ASSUME EngineAssumption ==
  /\ NumRecords \in Nat /\ NumFinders \in Nat /\ MaxCalls \in Nat
  /\ Requests # {}
  /\ Offers \in [Requests -> [1 .. NumFinders -> Seq(Nat)]]
  /\ Applicable \in [Requests -> SUBSET Records]
  /\ Absent \notin Seq(Records)
  /\ \A v \in Variables : \A value \in RawValues[v] : Parse(v, value) # NotRead

\* The contract of getConstraintsKey() and getProblemKey(): requests with
\* equal keys must select the same records in the same order.
ASSUME KeyContract ==
  \A r, q \in Requests :
    <<r.device, ProblemKey[r.problem]>> = <<q.device, ProblemKey[q.problem]>>
      => Offers[r] = Offers[q] /\ Applicable[r] = Applicable[q]

VARIABLES
  env,       \* env[v]: the raw value of variable v in the process environment
  policy,    \* policy[v]: the function-local static latched from it, or NotRead
  store,     \* store[k]: the positions cached for k, or Absent
  pc,        \* pc[t]: the next step of t's call
  request,   \* request[t]: the request of t's call
  source,    \* source[t]: the source of candidates t is at
  place,     \* place[t]: t's place in what that source offers
  selected,  \* selected[t]: the positions selected so far
  seen,      \* seen[t]: the records already offered
  rejected,  \* rejected[t]: the records named in the rejections
  outcome,   \* outcome[t]: how t's call ended
  calls      \* calls[t]: the calls t has begun

searchVars == <<request, source, place, selected, seen, rejected>>
vars == <<env, policy, store, pc, searchVars, outcome, calls>>

-----------------------------------------------------------------------------
\* The settings are a parameter of these operators: p is the policy.
Read(p, v) == p[v] # NotRead

CacheDisabled(p) == p["cache"] = "on"

FinderDisabled(p, f) == Read(p, "finders") /\ f \in p["finders"]

\* isPrimitiveAllowed, with a list nobody has read yet taken as empty.
Allowed(p, i) ==
  /\ Read(p, "enabled") => p["enabled"] = {} \/ i \in p["enabled"]
  /\ Read(p, "disabled") => i \notin p["disabled"]

RegistrationOrder == [i \in 1 .. NumRecords |-> i]

\* The candidates source f offers for request r, best first.
Candidates(r, f) == IF f = NumFinders + 1 THEN RegistrationOrder ELSE Offers[r][f]

\* The candidate t looks at.
Candidate(t) == Candidates(request[t], source[t])[place[t]]

AtCandidate(t) ==
  /\ pc[t] = "offer"
  /\ place[t] \in 1 .. Len(Candidates(request[t], source[t]))

\* Mutant: only the records already offered are skipped.
SkippedSeen(t) == Candidate(t) \in seen[t]

\* A name that is no record's is skipped, and so is a record already offered.
Skipped(t) == Candidate(t) \notin Records \/ Candidate(t) \in seen[t]

\* The settings the next step of t reads.
Needed(t) ==
  IF pc[t] = "lookup" THEN {"cache"}
  ELSE IF pc[t] = "finder" /\ source[t] # NumFinders + 1 THEN {"finders"}
  ELSE IF AtCandidate(t) /\ ~Skipped(t) THEN {"enabled", "disabled"}
  ELSE {}

Ready(t) == \A v \in Needed(t) : Read(policy, v)

Goto(t, label) == pc' = [pc EXCEPT ![t] = label]

NoList == <<>>

Outcome(status, records) == [status |-> status, records |-> records]

NoOutcome == Outcome("none", NoList)

AnyRequest == CHOOSE r \in Requests : TRUE

End(t, status, records) ==
  /\ outcome' = [outcome EXCEPT ![t] = Outcome(status, records)]
  /\ Goto(t, "done")

-----------------------------------------------------------------------------
Call(t, r) ==
  /\ pc[t] = "idle"
  /\ calls[t] < MaxCalls
  /\ calls' = [calls EXCEPT ![t] = @ + 1]
  /\ request' = [request EXCEPT ![t] = r]
  /\ Goto(t, "validate")
  /\ UNCHANGED <<env, policy, store, source, place, selected, seen, rejected, outcome>>

\* The device query may fail, validateArgs and the Problem's constructor may
\* refuse the Args.
Validate(t) ==
  /\ pc[t] = "validate"
  /\ \/ Goto(t, "lookup") /\ UNCHANGED outcome
     \/ \E status \in {"INTERNAL_ERROR", "INVALID_ARGUMENT", "OVERFLOW"} : End(t, status, NoList)
  /\ UNCHANGED <<env, policy, store, searchVars, calls>>

\* Mutant: the variable is read again at every use.
LatchAgain(t, v) ==
  /\ v \in Needed(t)
  /\ policy' = [policy EXCEPT ![v] = Parse(v, env[v])]
  /\ UNCHANGED <<env, store, pc, searchVars, outcome, calls>>

\* A function-local static is initialised by the first thread that needs it
\* and never again.
Latch(t, v) ==
  /\ v \in Needed(t)
  /\ ~Read(policy, v)
  /\ policy' = [policy EXCEPT ![v] = Parse(v, env[v])]
  /\ UNCHANGED <<env, store, pc, searchVars, outcome, calls>>

Lookup(t) ==
  /\ pc[t] = "lookup"
  /\ Ready(t)
  /\ \/ /\ ~CacheDisabled(policy)
        /\ store[CacheKey(request[t])] # Absent
        /\ selected' = [selected EXCEPT ![t] = store[CacheKey(request[t])]]
        /\ Goto(t, "configure")
     \/ /\ CacheDisabled(policy) \/ store[CacheKey(request[t])] = Absent
        /\ Goto(t, "finder")
        /\ UNCHANGED selected
  /\ UNCHANGED <<env, policy, store, request, source, place, seen, rejected, outcome, calls>>

\* A Finder disabled by name contributes nothing.
EnterSource(t) ==
  /\ pc[t] = "finder"
  /\ Ready(t)
  /\ \/ /\ source[t] # NumFinders + 1
        /\ FinderDisabled(policy, source[t])
        /\ source' = [source EXCEPT ![t] = @ + 1]
        /\ UNCHANGED pc
     \/ /\ source[t] = NumFinders + 1 \/ ~FinderDisabled(policy, source[t])
        /\ Goto(t, "offer")
        /\ UNCHANGED source
  /\ UNCHANGED <<env, policy, store, request, place, selected, seen, rejected, outcome, calls>>

\* Mutant: the offered records are not remembered.
JudgeForgetting(t, i) ==
  /\ UNCHANGED seen
  /\ \/ /\ ~(Allowed(policy, i) /\ i \in Applicable[request[t]])
        /\ UNCHANGED <<selected, rejected>>
     \/ /\ Allowed(policy, i) /\ i \in Applicable[request[t]]
        /\ selected' = [selected EXCEPT ![t] = Append(@, i)]
        /\ UNCHANGED rejected

\* appendIfApplicable: the record is seen from now on; one the environment
\* filters out is dropped silently, one that does not apply is named.
Judge(t, i) ==
  /\ seen' = [seen EXCEPT ![t] = @ \cup {i}]
  /\ \/ /\ ~Allowed(policy, i)
        /\ UNCHANGED <<selected, rejected>>
     \/ /\ Allowed(policy, i)
        /\ i \notin Applicable[request[t]]
        /\ rejected' = [rejected EXCEPT ![t] = @ \cup {i}]
        /\ UNCHANGED selected
     \/ /\ Allowed(policy, i)
        /\ i \in Applicable[request[t]]
        /\ selected' = [selected EXCEPT ![t] = Append(@, i)]
        /\ UNCHANGED rejected

Offer(t) ==
  /\ AtCandidate(t)
  /\ Ready(t)
  /\ place' = [place EXCEPT ![t] = @ + 1]
  /\ \/ Skipped(t) /\ UNCHANGED <<selected, seen, rejected>>
     \/ ~Skipped(t) /\ Judge(t, Candidate(t))
  /\ UNCHANGED <<env, policy, store, pc, request, source, outcome, calls>>

\* Mutant: the walk over the records is left out once a Finder was asked.
ExhaustNoWalk(t) ==
  /\ pc[t] = "offer"
  /\ ~AtCandidate(t)
  /\ place' = [place EXCEPT ![t] = 1]
  /\ \/ /\ selected[t] # NoList
        /\ Goto(t, "publish")
        /\ UNCHANGED <<source, outcome>>
     \/ /\ selected[t] = NoList
        /\ source[t] + 1 \in 1 .. NumFinders
        /\ source' = [source EXCEPT ![t] = @ + 1]
        /\ Goto(t, "finder")
        /\ UNCHANGED outcome
     \/ /\ selected[t] = NoList
        /\ source[t] + 1 \notin 1 .. NumFinders
        /\ End(t, "UNSUPPORTED", NoList)
        /\ UNCHANGED source
  /\ UNCHANGED <<env, policy, store, request, selected, seen, rejected, calls>>

\* A source that has contributed ends the search. selected is empty when a
\* source is entered, so it has contributed when selected is not.
Exhaust(t) ==
  /\ pc[t] = "offer"
  /\ ~AtCandidate(t)
  /\ place' = [place EXCEPT ![t] = 1]
  /\ \/ /\ selected[t] # NoList
        /\ Goto(t, "publish")
        /\ UNCHANGED <<source, outcome>>
     \/ /\ selected[t] = NoList
        /\ source[t] # NumFinders + 1
        /\ source' = [source EXCEPT ![t] = @ + 1]
        /\ Goto(t, "finder")
        /\ UNCHANGED outcome
     \/ /\ selected[t] = NoList
        /\ source[t] = NumFinders + 1
        /\ End(t, "UNSUPPORTED", NoList)
        /\ UNCHANGED source
  /\ UNCHANGED <<env, policy, store, request, selected, seen, rejected, calls>>

\* The cache keeps the first publication of a key. The selection is
\* published whether or not lookups are disabled.
Publish(t) ==
  /\ pc[t] = "publish"
  /\ store' = IF store[CacheKey(request[t])] = Absent
              THEN [store EXCEPT ![CacheKey(request[t])] = selected[t]]
              ELSE store
  /\ Goto(t, "configure")
  /\ UNCHANGED <<env, policy, searchVars, outcome, calls>>

\* Every selected record is cloned, and the clone configured for the
\* caller's own problem; a null clone is an internal error.
Configure(t) ==
  /\ pc[t] = "configure"
  /\ \/ End(t, "SUCCESS", selected[t])
     \/ End(t, "INTERNAL_ERROR", NoList)
  /\ UNCHANGED <<env, policy, store, searchVars, calls>>

\* Every step of a call allocates and may throw std::bad_alloc.
OutOfMemory(t) ==
  /\ pc[t] \notin {"idle", "done"}
  /\ End(t, "OUT_OF_MEMORY", NoList)
  /\ UNCHANGED <<env, policy, store, searchVars, calls>>

Return(t) ==
  /\ pc[t] = "done"
  /\ Goto(t, "idle")
  /\ request' = [request EXCEPT ![t] = AnyRequest]
  /\ source' = [source EXCEPT ![t] = 1]
  /\ place' = [place EXCEPT ![t] = 1]
  /\ selected' = [selected EXCEPT ![t] = NoList]
  /\ seen' = [seen EXCEPT ![t] = {}]
  /\ rejected' = [rejected EXCEPT ![t] = {}]
  /\ outcome' = [outcome EXCEPT ![t] = NoOutcome]
  /\ UNCHANGED <<env, policy, store, calls>>

-----------------------------------------------------------------------------
StoredKeys == {k \in Keys : store[k] # Absent}

\* The cache may lose entries at any time (SelectionStore!Drop).
DropEntries(K) ==
  /\ store' = [k \in Keys |-> IF k \in K THEN Absent ELSE store[k]]
  /\ UNCHANGED <<env, policy, pc, searchVars, outcome, calls>>

\* The host changes its environment while no call is under way: setenv
\* beside a getenv of another thread is a data race.
SetEnv(v, value) ==
  /\ \A t \in Threads : pc[t] = "idle"
  /\ env' = [env EXCEPT ![v] = value]
  /\ UNCHANGED <<policy, store, pc, searchVars, outcome, calls>>

Init ==
  /\ env \in Environments
  /\ policy = [v \in Variables |-> NotRead]
  /\ store = [k \in Keys |-> Absent]
  /\ pc = [t \in Threads |-> "idle"]
  /\ request = [t \in Threads |-> AnyRequest]
  /\ source = [t \in Threads |-> 1]
  /\ place = [t \in Threads |-> 1]
  /\ selected = [t \in Threads |-> NoList]
  /\ seen = [t \in Threads |-> {}]
  /\ rejected = [t \in Threads |-> {}]
  /\ outcome = [t \in Threads |-> NoOutcome]
  /\ calls = [t \in Threads |-> 0]

\* The steps of t's call, once it is made.
Step(t) ==
  \/ Validate(t) \/ Lookup(t) \/ EnterSource(t) \/ Offer(t) \/ Exhaust(t)
  \/ Publish(t) \/ Configure(t) \/ Return(t)
  \/ \E v \in Variables : Latch(t, v)

Next ==
  \/ \E t \in Threads : Step(t) \/ OutOfMemory(t) \/ \E r \in Requests : Call(t, r)
  \/ \E v \in Variables : \E value \in RawValues[v] : SetEnv(v, value)
  \/ \E K \in SUBSET StoredKeys : DropEntries(K)

Spec == Init /\ [][Next]_vars

-----------------------------------------------------------------------------
(***************************************************************************)
(* What a selection is, without finders at work, caches or settings read   *)
(* late: the first source with a usable candidate supplies all of its      *)
(* usable candidates, in the order in which it first names them.           *)
(***************************************************************************)
Usable(p, r) == {i \in Applicable[r] : Allowed(p, i)}

Consulted(p, f) == f = NumFinders + 1 \/ ~FinderDisabled(p, f)

Contributes(p, r, f) ==
  /\ Consulted(p, f)
  /\ \E c \in 1 .. Len(Candidates(r, f)) : Candidates(r, f)[c] \in Usable(p, r)

\* ranked holds the usable members of offered, each once, in the order of
\* their first places there.
Ranks(ranked, offered, usable) ==
  /\ Items(ranked) = Items(offered) \cap usable
  /\ \A a, b \in 1 .. Len(ranked) :
       a < b => \E c \in 1 .. Len(offered) :
                  /\ offered[c] = ranked[a]
                  /\ \A d \in 1 .. c : offered[d] # ranked[b]

IsSelection(p, ranked, r) ==
  \E f \in Sources :
    /\ Contributes(p, r, f)
    /\ \A g \in 1 .. f - 1 : ~Contributes(p, r, g)
    /\ Ranks(ranked, Candidates(r, f), Usable(p, r))

-----------------------------------------------------------------------------
(***************************************************************************)
(* Properties.                                                             *)
(***************************************************************************)
Working == {"validate", "lookup", "finder", "offer", "publish", "configure"}

Statuses == {"none", "SUCCESS", "INTERNAL_ERROR", "INVALID_ARGUMENT", "OVERFLOW",
             "UNSUPPORTED", "OUT_OF_MEMORY"}

\* Every variable has a value of its type; in particular only positions of
\* records are selected, cached and handed to configureRecords, which
\* indexes records_ with them unchecked.
TypeOK ==
  /\ env \in Environments
  /\ DOMAIN policy = Variables
  /\ policy["cache"] \in {NotRead, "on", "off"}
  /\ store \in [Keys -> Seq(Records) \cup {Absent}]
  /\ pc \in [Threads -> Working \cup {"idle", "done"}]
  /\ request \in [Threads -> Requests]
  /\ source \in [Threads -> Sources]
  /\ place \in [Threads -> Nat \ {0}]
  /\ selected \in [Threads -> Seq(Records)]
  /\ seen \in [Threads -> SUBSET Records]
  /\ rejected \in [Threads -> SUBSET Records]
  /\ outcome \in [Threads -> [status : Statuses, records : Seq(Records)]]
  /\ calls \in [Threads -> Nat]

\* Every list in the cache is the selection of every request with that key,
\* under the settings in force now: a hit skips the Finders, the
\* applicability checks and the environment's filters.
CachedSelectionsRight ==
  \A r \in Requests : store[CacheKey(r)] # Absent => IsSelection(policy, store[CacheKey(r)], r)

\* A call that succeeds returns the selection of its own request, whichever
\* way it came by it.
AnswersRight ==
  \A t \in Threads :
    outcome[t].status = "SUCCESS" => IsSelection(policy, outcome[t].records, request[t])

\* A call is UNSUPPORTED only when no record is usable for its request, and
\* then every record the environment lets through is named in the message.
UnsupportedRight ==
  \A t \in Threads :
    outcome[t].status = "UNSUPPORTED" =>
      /\ Usable(policy, request[t]) = {}
      /\ rejected[t] = {i \in Records : Allowed(policy, i)}

\* env.h on FTRAIN_ENABLED_PRIMITIVES: "When set, a selection never returns
\* a Primitive whose name is absent from the list." Stated of an environment
\* that never changes.
HonoursEnabledList ==
  \A t \in Threads :
    (outcome[t].status = "SUCCESS" /\ env["enabled"] # Unset)
      => Items(outcome[t].records) \subseteq Items(env["enabled"])
=============================================================================
