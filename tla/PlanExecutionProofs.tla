-------------------------- MODULE PlanExecutionProofs --------------------------
(***************************************************************************)
(* Theorems about PlanExecution, for all threads, devices, Primitives,     *)
(* requirements and workspaces, and for any bounds on Plans and on work.   *)
(*                                                                         *)
(* WorkSuitsDevice needs a Plan to hold what applies on its own device:    *)
(* execute() compares the thread's device with the Plan's and nothing with *)
(* the Primitive's. What a walk finds needs the memory of the walk: that   *)
(* its Plan is there still and that all it passed was too large (WalkInv). *)
(***************************************************************************)
EXTENDS PlanExecution, TLAPS, FiniteSetTheorems

Jobs == [primitive : Primitives, ws : Workspaces]

TypeInv ==
  /\ current \in [Threads -> Devices]
  /\ walk \in [Threads -> Walks \cup {None}]
  /\ stream \in [Devices -> Seq(Jobs)]
  /\ DOMAIN answer = Threads

\* A Plan holds Primitives that apply on the device it was made for.
PlanInv ==
  plan # None =>
    /\ plan.device \in Devices
    /\ plan.primitives \in Seq(ApplicableOn[plan.device])

\* A walk is over the Plan that is there; what it passed needs more than it has.
WalkInv ==
  \A t \in Threads : walk[t] # None =>
    /\ plan # None
    /\ walk[t].num = Len(plan.primitives)
    /\ walk[t].at \in 1 .. walk[t].num + 1
    /\ \A i \in 1 .. walk[t].at - 1 : Required[plan.primitives[i]] > walk[t].ws.bytes
    /\ walk[t].fits => /\ walk[t].at <= walk[t].num
                       /\ Required[plan.primitives[walk[t].at]] <= walk[t].ws.bytes

Inv == TypeInv /\ PlanInv /\ WalkInv /\ WorkSuitsDevice

-----------------------------------------------------------------------------
\* What PlanCreate may make a Plan of is a sequence.
LEMMA SelectionsAreSequences ==
  ASSUME NEW d \in Devices, NEW s \in Selections(d)
  PROVE  s \in Seq(ApplicableOn[d])
<1>1. IsFiniteSet(ApplicableOn[d])
  BY PlanAssumption, FS_Subset
<1>2. Cardinality(ApplicableOn[d]) \in Nat
  BY <1>1, FS_CardinalityType
<1>3. PICK n \in 1 .. Cardinality(ApplicableOn[d]) : s \in [1 .. n -> ApplicableOn[d]]
  BY DEF Selections
<1> QED BY <1>2, <1>3

\* A Plan's Primitives are records of the engine whose requirement is a number.
LEMMA PlanEntries ==
  ASSUME PlanInv, plan # None
  PROVE  /\ plan.device \in Devices
         /\ plan.primitives \in Seq(ApplicableOn[plan.device])
         /\ Len(plan.primitives) \in Nat
         /\ DOMAIN plan.primitives = 1 .. Len(plan.primitives)
         /\ \A i \in 1 .. Len(plan.primitives) :
              /\ plan.primitives[i] \in ApplicableOn[plan.device]
              /\ plan.primitives[i] \in Primitives
              /\ Required[plan.primitives[i]] \in Nat
<1>1. ApplicableOn[plan.device] \subseteq Primitives
  BY PlanAssumption DEF PlanInv
<1> QED BY <1>1, PlanAssumption DEF PlanInv

\* Where a walk stands.
LEMMA WalkOf ==
  ASSUME TypeInv, NEW t \in Threads, walk[t] # None
  PROVE  walk[t] \in Walks /\ walk[t].ws.bytes \in Nat /\ walk[t].ws.memory \in BOOLEAN
BY PlanAssumption DEF TypeInv, Walks

LEMMA InitInv == Init => Inv
BY DEF Init, Inv, TypeInv, PlanInv, WalkInv, WorkSuitsDevice

\* Whatever execute() answers, the streams suit their devices, and what it
\* launches is the Primitive it was asked for.
LEMMA ExecuteKeeps ==
  ASSUME TypeInv, PlanInv, WorkSuitsDevice, plan # None,
         NEW t \in Threads, NEW i \in Nat, NEW ws \in Workspaces, Execute(t, i, ws)
  PROVE  /\ stream' \in [Devices -> Seq(Jobs)] /\ DOMAIN answer' = Threads
         /\ WorkSuitsDevice'
         /\ answer'[t] # "nothing fits"
         /\ stream' # stream => Last(stream'[current[t]]).primitive = plan.primitives[i]
         /\ answer'[t] = "INVALID_ARGUMENT" => ~Accepts(t, i, ws)
<1>1. answer'[t] # "nothing fits" /\ DOMAIN answer' = Threads
  BY DEF Execute, Answers, TypeInv
<1>2. answer'[t] = "INVALID_ARGUMENT" => ~Accepts(t, i, ws)
  BY DEF Execute, Answers, TypeInv
<1>3. CASE UNCHANGED stream
  BY <1>1, <1>2, <1>3 DEF TypeInv, WorkSuitsDevice
<1>4. CASE Accepts(t, i, ws) /\ Launch(t, i, ws)
  <2> DEFINE d == current[t]
             job == [primitive |-> plan.primitives[i], ws |-> ws]
  <2>1. d \in Devices /\ d = plan.device /\ i \in 1 .. Len(plan.primitives)
    BY <1>4, PlanEntries DEF Accepts, TypeInv
  <2>2. job.primitive \in ApplicableOn[d] /\ job \in Jobs /\ Required[job.primitive] \in Nat
    BY <2>1, PlanEntries DEF Jobs
  <2>3. ws.bytes \in Nat /\ ws.memory \in BOOLEAN
    BY PlanAssumption
  <2>4. Required[job.primitive] <= job.ws.bytes /\ (Required[job.primitive] > 0 => job.ws.memory)
    BY <1>4, <2>2, <2>3 DEF Accepts, Insufficient, TooSmall
  <2>5. stream' = [stream EXCEPT ![d] = Append(stream[d], job)] /\ stream[d] \in Seq(Jobs)
    BY <1>4, <2>1 DEF Launch, TypeInv
  <2>6. stream' \in [Devices -> Seq(Jobs)] /\ stream'[d] = Append(stream[d], job)
    <3>1. Append(stream[d], job) \in Seq(Jobs)
      BY <2>2, <2>5
    <3> QED BY <2>1, <2>5, <3>1 DEF TypeInv
  <2>7. Last(stream'[d]).primitive = plan.primitives[i]
    <3>1. Last(stream'[d]) = job
      BY <2>2, <2>5, <2>6 DEF Last
    <3> QED BY <3>1
  <2>8. ASSUME NEW e \in Devices, NEW n \in DOMAIN stream'[e]
        PROVE  /\ stream'[e][n].primitive \in ApplicableOn[e]
               /\ Required[stream'[e][n].primitive] <= stream'[e][n].ws.bytes
               /\ Required[stream'[e][n].primitive] > 0 => stream'[e][n].ws.memory
    <3>1. CASE e = d /\ n = Len(stream[d]) + 1
      <4>1. stream'[e][n] = job
        BY <2>2, <2>5, <2>6, <3>1
      <4> QED BY <2>2, <2>4, <3>1, <4>1
    <3>2. CASE ~(e = d /\ n = Len(stream[d]) + 1)
      <4>1. n \in DOMAIN stream[e] /\ stream'[e][n] = stream[e][n]
        <5>1. CASE e = d
          BY <2>2, <2>5, <2>6, <2>8, <3>2, <5>1
        <5>2. CASE e # d
          BY <2>5, <2>8, <5>2 DEF TypeInv
        <5> QED BY <5>1, <5>2
      <4> QED BY <4>1 DEF WorkSuitsDevice
    <3> QED BY <3>1, <3>2
  <2>9. WorkSuitsDevice'
    BY <2>8 DEF WorkSuitsDevice
  <2> QED BY <1>1, <1>2, <2>6, <2>7, <2>9
<1> QED BY <1>3, <1>4 DEF Execute

-----------------------------------------------------------------------------
\* The steps that leave the streams and the walks alone.
LEMMA SetDeviceKeeps ==
  ASSUME Inv, NEW t \in Threads, NEW d \in Devices, SetDevice(t, d)
  PROVE  Inv'
BY DEF SetDevice, Inv, TypeInv, PlanInv, WalkInv, WorkSuitsDevice

LEMMA CreateKeeps ==
  ASSUME Inv, NEW t \in Threads, PlanCreate(t)
  PROVE  Inv'
<1>1. PlanInv'
  <2>1. CASE UNCHANGED plan
    BY <2>1 DEF Inv, PlanInv
  <2>2. CASE \E s \in Selections(current[t]) : plan' = [device |-> current[t], primitives |-> s]
    <3>1. current[t] \in Devices
      BY DEF Inv, TypeInv
    <3>2. PICK s \in Selections(current[t]) : plan' = [device |-> current[t], primitives |-> s]
      BY <2>2
    <3>3. s \in Seq(ApplicableOn[current[t]])
      BY <3>1, SelectionsAreSequences
    <3> QED BY <3>1, <3>2, <3>3 DEF PlanInv
  <2> QED BY <2>1, <2>2 DEF PlanCreate
<1>2. WalkInv'
  <2>1. plan = None /\ walk' = walk
    BY DEF PlanCreate
  <2> QED BY <2>1 DEF Inv, WalkInv
<1>3. TypeInv' /\ WorkSuitsDevice'
  BY DEF PlanCreate, Answers, Inv, TypeInv, WorkSuitsDevice
<1> QED BY <1>1, <1>2, <1>3 DEF Inv

LEMMA DestroyKeeps ==
  ASSUME Inv, NEW t \in Threads, PlanDestroy(t)
  PROVE  Inv'
BY DEF PlanDestroy, Answers, Inv, TypeInv, PlanInv, WalkInv, WorkSuitsDevice

LEMMA ExecuteAtKeeps ==
  ASSUME Inv, NEW t \in Threads, NEW index \in Nat, NEW ws \in Workspaces, ExecuteAt(t, index, ws)
  PROVE  Inv'
<1>1. plan # None /\ Execute(t, index + 1, ws) /\ UNCHANGED <<current, plan, made, walk>>
  BY DEF ExecuteAt
<1>2. index + 1 \in Nat
  OBVIOUS
<1>3. stream' \in [Devices -> Seq(Jobs)] /\ DOMAIN answer' = Threads /\ WorkSuitsDevice'
  BY <1>1, <1>2, ExecuteKeeps DEF Inv
<1> QED BY <1>1, <1>3 DEF Inv, TypeInv, PlanInv, WalkInv

\* Beginning a walk.
LEMMA StartKeeps ==
  ASSUME Inv, NEW t \in Threads, NEW ws \in Workspaces, StartWalk(t, ws)
  PROVE  Inv'
<1> DEFINE start == [at |-> 1, num |-> Len(plan.primitives), ws |-> ws, fits |-> FALSE]
<1>1. plan # None /\ Len(plan.primitives) \in Nat
  BY PlanEntries DEF StartWalk, Inv
<1>2. start \in Walks /\ walk' = [walk EXCEPT ![t] = start] /\ UNCHANGED <<current, plan, stream>>
  BY <1>1 DEF StartWalk, Walks
<1>3. TypeInv'
  BY <1>2 DEF StartWalk, Answers, Inv, TypeInv
<1>4. WalkInv'
  <2> SUFFICES ASSUME NEW u \in Threads, walk'[u] # None
               PROVE  /\ plan # None
                      /\ walk'[u].num = Len(plan.primitives)
                      /\ walk'[u].at \in 1 .. walk'[u].num + 1
                      /\ \A i \in 1 .. walk'[u].at - 1 :
                           Required[plan.primitives[i]] > walk'[u].ws.bytes
                      /\ walk'[u].fits =>
                           /\ walk'[u].at <= walk'[u].num
                           /\ Required[plan.primitives[walk'[u].at]] <= walk'[u].ws.bytes
    BY <1>2 DEF WalkInv
  <2>1. CASE u = t
    <3>1. walk'[u] = start
      BY <1>2, <2>1 DEF Inv, TypeInv
    <3> QED BY <1>1, <3>1
  <2>2. CASE u # t
    <3>1. walk'[u] = walk[u]
      BY <1>2, <2>2 DEF Inv, TypeInv
    <3> QED BY <3>1 DEF Inv, WalkInv
  <2> QED BY <2>1, <2>2
<1> QED BY <1>2, <1>3, <1>4 DEF Inv, PlanInv, WorkSuitsDevice

\* A look at one Primitive more.
LEMMA LookKeeps ==
  ASSUME Inv, NEW t \in Threads, Look(t)
  PROVE  Inv' /\ walk'[t] # None
<1> DEFINE w == walk[t]
           need == Required[plan.primitives[w.at]]
           next == IF need <= w.ws.bytes THEN [w EXCEPT !.fits = TRUE]
                                         ELSE [w EXCEPT !.at = w.at + 1]
<1>1. /\ w # None /\ ~w.fits /\ w.at <= w.num
      /\ walk' = [walk EXCEPT ![t] = next] /\ UNCHANGED <<current, plan, stream, answer>>
  BY DEF Look, RequiredAt
<1>2. w \in Walks /\ w.ws.bytes \in Nat
  BY <1>1, WalkOf DEF Inv
<1>3. /\ plan # None /\ w.num = Len(plan.primitives) /\ w.at \in 1 .. w.num + 1
      /\ \A i \in 1 .. w.at - 1 : Required[plan.primitives[i]] > w.ws.bytes
  BY <1>1 DEF Inv, WalkInv
<1>4. need \in Nat
  BY <1>1, <1>2, <1>3, PlanEntries DEF Inv, Walks
<1>5. /\ next \in Walks /\ next # None /\ next.num = w.num /\ next.ws = w.ws
      /\ need <= w.ws.bytes => next.at = w.at /\ next.fits
      /\ ~(need <= w.ws.bytes) => next.at = w.at + 1 /\ ~next.fits
  <2>1. CASE need <= w.ws.bytes
    <3>1. next = [w EXCEPT !.fits = TRUE]
      BY <2>1
    <3>2. next \in Walks /\ next.num = w.num /\ next.ws = w.ws /\ next.at = w.at /\ next.fits
      BY <1>2, <3>1 DEF Walks
    <3> QED BY <2>1, <3>2, PlanAssumption
  <2>2. CASE ~(need <= w.ws.bytes)
    <3>1. next = [w EXCEPT !.at = w.at + 1]
      BY <2>2
    <3>2. next \in Walks /\ next.num = w.num /\ next.ws = w.ws /\ next.at = w.at + 1
      BY <1>2, <3>1 DEF Walks
    <3>3. ~next.fits
      BY <1>1, <1>2, <3>1, Zenon DEF Walks
    <3> QED BY <2>2, <3>2, <3>3, PlanAssumption
  <2> QED BY <2>1, <2>2
<1>6. walk'[t] = next /\ TypeInv'
  BY <1>1, <1>5 DEF Inv, TypeInv
<1>7. WalkInv'
  <2> SUFFICES ASSUME NEW u \in Threads, walk'[u] # None
               PROVE  /\ plan # None
                      /\ walk'[u].num = Len(plan.primitives)
                      /\ walk'[u].at \in 1 .. walk'[u].num + 1
                      /\ \A i \in 1 .. walk'[u].at - 1 :
                           Required[plan.primitives[i]] > walk'[u].ws.bytes
                      /\ walk'[u].fits =>
                           /\ walk'[u].at <= walk'[u].num
                           /\ Required[plan.primitives[walk'[u].at]] <= walk'[u].ws.bytes
    BY <1>1 DEF WalkInv
  <2>1. CASE u = t /\ need <= w.ws.bytes
    <3>1. /\ walk'[u].num = w.num /\ walk'[u].ws = w.ws /\ walk'[u].at = w.at
      BY <1>5, <1>6, <2>1
    <3> QED BY <1>1, <1>3, <2>1, <3>1
  <2>2. CASE u = t /\ ~(need <= w.ws.bytes)
    <3>1. /\ walk'[u].num = w.num /\ walk'[u].ws = w.ws /\ walk'[u].at = w.at + 1
          /\ ~walk'[u].fits
      BY <1>5, <1>6, <2>2
    <3>2. w.at \in Nat /\ w.num \in Nat
      BY <1>2 DEF Walks
    <3>3. ASSUME NEW i \in 1 .. w.at PROVE Required[plan.primitives[i]] > w.ws.bytes
      <4>1. CASE i = w.at
        BY <1>2, <1>4, <2>2, <4>1
      <4>2. CASE i # w.at
        <5>1. i \in 1 .. w.at - 1
          BY <3>2, <3>3, <4>2
        <5> QED BY <1>3, <5>1
      <4> QED BY <4>1, <4>2
    <3>4. w.at + 1 \in 1 .. w.num + 1 /\ 1 .. (w.at + 1) - 1 = 1 .. w.at
      BY <1>1, <1>3, <3>2
    <3> QED BY <1>3, <3>1, <3>3, <3>4
  <2>3. CASE u # t
    <3>1. walk'[u] = walk[u]
      BY <1>1, <2>3 DEF Inv, TypeInv
    <3> QED BY <3>1 DEF Inv, WalkInv
  <2> QED BY <2>1, <2>2, <2>3
<1> QED BY <1>1, <1>5, <1>6, <1>7 DEF Inv, PlanInv, WorkSuitsDevice

\* The ends of a walk.
LEMMA TakeKeeps ==
  ASSUME Inv, NEW t \in Threads, Take(t)
  PROVE  Inv'
<1>1. /\ walk[t] # None /\ Execute(t, walk[t].at, walk[t].ws)
      /\ walk' = [walk EXCEPT ![t] = None] /\ UNCHANGED <<current, plan, made>>
  BY DEF Take
<1>2. plan # None /\ walk[t].at \in Nat /\ walk[t].ws \in Workspaces
  BY <1>1, WalkOf DEF Inv, WalkInv, Walks
<1>3. stream' \in [Devices -> Seq(Jobs)] /\ DOMAIN answer' = Threads /\ WorkSuitsDevice'
  BY <1>1, <1>2, ExecuteKeeps DEF Inv
<1>4. TypeInv'
  BY <1>1, <1>3 DEF Inv, TypeInv
<1>5. WalkInv'
  BY <1>1 DEF Inv, TypeInv, WalkInv
<1> QED BY <1>1, <1>3, <1>4, <1>5 DEF Inv, PlanInv

LEMMA GiveUpKeeps ==
  ASSUME Inv, NEW t \in Threads, GiveUp(t)
  PROVE  Inv'
BY DEF GiveUp, Answers, Inv, TypeInv, PlanInv, WalkInv, WorkSuitsDevice

\* The device is done with some work.
LEMMA WorkKeeps ==
  ASSUME Inv, NEW d \in Devices, Work(d)
  PROVE  Inv'
<1>1. /\ stream[d] \in Seq(Jobs) /\ stream[d] # <<>>
      /\ stream' = [stream EXCEPT ![d] = Tail(stream[d])]
  BY DEF Work, Inv, TypeInv
<1>2. /\ Tail(stream[d]) \in Seq(Jobs) /\ Len(Tail(stream[d])) = Len(stream[d]) - 1
      /\ \A n \in 1 .. Len(stream[d]) - 1 : Tail(stream[d])[n] = stream[d][n + 1]
  BY <1>1
<1>3. TypeInv' /\ WalkInv' /\ PlanInv'
  BY <1>1, <1>2 DEF Work, Inv, TypeInv, WalkInv, PlanInv
<1>4. ASSUME NEW e \in Devices, NEW n \in DOMAIN stream'[e]
      PROVE  \E m \in DOMAIN stream[e] : stream'[e][n] = stream[e][m]
  <2>1. CASE e = d
    <3>1. stream'[e] = Tail(stream[d]) /\ n \in 1 .. Len(stream[d]) - 1
      BY <1>1, <1>2, <1>4, <2>1 DEF Inv, TypeInv
    <3>2. n + 1 \in DOMAIN stream[d]
      BY <1>1, <3>1
    <3> QED BY <1>2, <2>1, <3>1, <3>2
  <2>2. CASE e # d
    BY <1>1, <1>4, <2>2 DEF Inv, TypeInv
  <2> QED BY <2>1, <2>2
<1>5. WorkSuitsDevice'
  BY <1>4 DEF Inv, WorkSuitsDevice
<1> QED BY <1>3, <1>5 DEF Inv

LEMMA NextInv == Inv /\ [Next]_vars => Inv'
<1> SUFFICES ASSUME Inv, [Next]_vars PROVE Inv'
  OBVIOUS
<1>1. CASE UNCHANGED vars
  BY <1>1 DEF vars, Inv, TypeInv, PlanInv, WalkInv, WorkSuitsDevice
<1>2. Cardinality(Primitives) \in Nat
  BY PlanAssumption, FS_CardinalityType
<1>3. ASSUME NEW t \in Threads, NEW ws \in Workspaces,
             NEW index \in 0 .. Cardinality(Primitives), ExecuteAt(t, index, ws)
      PROVE  Inv'
  BY <1>2, <1>3, ExecuteAtKeeps
<1> QED BY <1>1, <1>3, CreateKeeps, DestroyKeeps, LookKeeps, TakeKeeps, GiveUpKeeps,
           SetDeviceKeeps, StartKeeps, WorkKeeps DEF Next

LEMMA Invariant == Spec => []Inv
BY InitInv, NextInv, PTL DEF Spec

-----------------------------------------------------------------------------
\* A device is only ever given work that suits it (Plan::execute compares the
\* devices, PrimitiveBase::execute the workspace).
THEOREM DevicesGetWhatSuits == Spec => []WorkSuitsDevice
<1>1. Inv => WorkSuitsDevice
  BY DEF Inv
<1> QED BY <1>1, Invariant, PTL

\* The first that fits is the one the walk stopped at.
LEMMA WalkStopsAtFirst ==
  ASSUME Inv, NEW t \in Threads, walk[t] # None
  PROVE  LET fitting == {i \in DOMAIN plan.primitives :
                           Required[plan.primitives[i]] <= walk[t].ws.bytes}
         IN  /\ walk[t].fits =>
                  /\ walk[t].at \in fitting
                  /\ (CHOOSE i \in fitting : \A j \in fitting : i <= j) = walk[t].at
             /\ walk[t].at > walk[t].num => fitting = {}
<1> DEFINE w == walk[t]
           fitting == {i \in DOMAIN plan.primitives : Required[plan.primitives[i]] <= w.ws.bytes}
<1>1. /\ plan # None /\ w.num = Len(plan.primitives) /\ w.at \in 1 .. w.num + 1
      /\ \A i \in 1 .. w.at - 1 : Required[plan.primitives[i]] > w.ws.bytes
      /\ w.fits => w.at <= w.num /\ Required[plan.primitives[w.at]] <= w.ws.bytes
  BY DEF Inv, WalkInv
<1>2. w.at \in Nat /\ w.num \in Nat /\ w.ws.bytes \in Nat
  BY WalkOf DEF Inv, Walks
<1>3. /\ DOMAIN plan.primitives = 1 .. w.num
      /\ \A i \in 1 .. w.num : Required[plan.primitives[i]] \in Nat
  BY <1>1, PlanEntries DEF Inv
<1>4. ASSUME NEW i \in fitting PROVE i \in 1 .. w.num /\ w.at <= i
  <2>1. i \in 1 .. w.num /\ Required[plan.primitives[i]] <= w.ws.bytes
    BY <1>3
  <2>2. ~(i < w.at)
    <3> SUFFICES ASSUME i < w.at PROVE FALSE
      OBVIOUS
    <3>1. i \in 1 .. w.at - 1
      BY <1>2, <2>1
    <3>2. Required[plan.primitives[i]] > w.ws.bytes
      BY <1>1, <3>1
    <3> QED BY <1>2, <1>3, <2>1, <3>2
  <2> QED BY <1>2, <2>1, <2>2
<1>5. ASSUME w.fits
      PROVE  w.at \in fitting /\ (CHOOSE i \in fitting : \A j \in fitting : i <= j) = w.at
  <2>1. w.at \in fitting
    BY <1>1, <1>2, <1>3, <1>5
  <2>2. \A j \in fitting : w.at <= j
    BY <1>4
  <2>3. ASSUME NEW i \in fitting, \A j \in fitting : i <= j PROVE i = w.at
    <3>1. i <= w.at /\ w.at <= i /\ i \in 1 .. w.num
      BY <1>4, <2>1, <2>3
    <3> QED BY <1>2, <3>1
  <2> HIDE DEF fitting
  <2> QED BY <2>1, <2>2, <2>3
<1>6. ASSUME w.at > w.num PROVE fitting = {}
  <2>1. ASSUME NEW i \in fitting PROVE FALSE
    <3>1. i \in 1 .. w.num /\ w.at <= i
      BY <1>4, <2>1
    <3> QED BY <1>2, <1>6, <3>1
  <2> QED BY <2>1
<1> QED BY <1>5, <1>6

\* What the end of t's walk shows, the body of WalkFindsTheFirst.
FindsTheFirst(t) ==
  LET ws == walk[t].ws
      fitting == {i \in DOMAIN plan.primitives : Required[plan.primitives[i]] <= ws.bytes}
      first == CHOOSE i \in fitting : \A j \in fitting : i <= j
      device == current[t]
  IN  /\ fitting = {} <=> answer'[t] = "nothing fits"
      /\ stream' # stream => Last(stream'[device]).primitive = plan.primitives[first]
      /\ answer'[t] = "INVALID_ARGUMENT" =>
           \/ device # plan.device
           \/ Required[plan.primitives[first]] > 0 /\ ~ws.memory

LEMMA TakeFinds ==
  ASSUME Inv, NEW t \in Threads, Take(t)
  PROVE  FindsTheFirst(t)
<1> DEFINE w == walk[t]
           fitting == {i \in DOMAIN plan.primitives : Required[plan.primitives[i]] <= w.ws.bytes}
<1>1. w # None /\ w.fits /\ Execute(t, w.at, w.ws)
  BY DEF Take
<1>2. w.at \in fitting /\ (CHOOSE i \in fitting : \A j \in fitting : i <= j) = w.at
  BY <1>1, WalkStopsAtFirst
<1>3. plan # None /\ w.at \in Nat /\ w.ws \in Workspaces /\ w.ws.bytes \in Nat
  BY <1>1, WalkOf DEF Inv, WalkInv, Walks
<1>4. /\ answer'[t] # "nothing fits"
      /\ stream' # stream => Last(stream'[current[t]]).primitive = plan.primitives[w.at]
      /\ answer'[t] = "INVALID_ARGUMENT" => ~Accepts(t, w.at, w.ws)
  BY <1>1, <1>3, ExecuteKeeps DEF Inv
<1>5. ~Accepts(t, w.at, w.ws) =>
        \/ current[t] # plan.device
        \/ Required[plan.primitives[w.at]] > 0 /\ ~w.ws.memory
  <2>1. w.at \in DOMAIN plan.primitives /\ Required[plan.primitives[w.at]] <= w.ws.bytes
    BY <1>2
  <2>2. Required[plan.primitives[w.at]] \in Nat
    BY <1>3, <2>1, PlanEntries DEF Inv
  <2> QED BY <1>3, <2>1, <2>2 DEF Accepts, Insufficient, TooSmall
<1>6. fitting # {}
  BY <1>2
<1> QED BY <1>2, <1>4, <1>5, <1>6 DEF FindsTheFirst

LEMMA GiveUpFinds ==
  ASSUME Inv, NEW t \in Threads, GiveUp(t)
  PROVE  FindsTheFirst(t)
<1>1. /\ walk[t] # None /\ walk[t].at > walk[t].num /\ stream' = stream
      /\ answer'[t] = "nothing fits"
  BY DEF GiveUp, Answers, Inv, TypeInv
<1>2. {i \in DOMAIN plan.primitives : Required[plan.primitives[i]] <= walk[t].ws.bytes} = {}
  BY <1>1, WalkStopsAtFirst
<1> QED BY <1>1, <1>2 DEF FindsTheFirst

\* Only Take and GiveUp end a walk, and only their own thread's.
LEMMA WalkEnds ==
  ASSUME Inv, [Next]_vars, NEW t \in Threads, walk[t] # None, walk'[t] = None
  PROVE  Take(t) \/ GiveUp(t)
<1>1. DOMAIN walk = Threads
  BY DEF Inv, TypeInv
<1>2. ASSUME UNCHANGED walk PROVE FALSE
  BY <1>2
<1>3. ASSUME NEW u \in Threads, NEW ws \in Workspaces, StartWalk(u, ws) PROVE FALSE
  BY <1>1, <1>3 DEF StartWalk
<1>4. ASSUME NEW u \in Threads, Look(u) PROVE FALSE
  <2>1. CASE u = t
    BY <1>4, <2>1, LookKeeps
  <2>2. CASE u # t
    BY <1>1, <1>4, <2>2 DEF Look
  <2> QED BY <2>1, <2>2
<1>5. ASSUME NEW u \in Threads, Take(u) \/ GiveUp(u) PROVE u = t
  BY <1>1, <1>5 DEF Take, GiveUp
<1> QED BY <1>2, <1>3, <1>4, <1>5
        DEF Next, vars, PlanCreate, PlanDestroy, SetDevice, ExecuteAt, Work

\* A walk as common.h advises executes the best Primitive its workspace is
\* large enough for, whatever other threads create, destroy and execute.
THEOREM WalksFind == Spec => WalkFindsTheFirst
<1>1. ASSUME Inv, [Next]_vars
      PROVE  \A t \in Threads : walk[t] # None /\ walk'[t] = None => FindsTheFirst(t)
  BY <1>1, WalkEnds, TakeFinds, GiveUpFinds
<1>2. Inv /\ [Next]_vars =>
        [\A t \in Threads : walk[t] # None /\ walk'[t] = None => FindsTheFirst(t)]_vars
  BY <1>1
<1> QED BY <1>2, Invariant, PTL DEF Spec, WalkFindsTheFirst, FindsTheFirst

===============================================================================
