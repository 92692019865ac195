----------------------------- MODULE PlanExecution -----------------------------
(***************************************************************************)
(* A Plan of several Primitives (plan.cpp, primitive.cpp) behind the calls *)
(* of plan_api.cpp, shared by threads each of which has a current device.  *)
(* A Plan is made for the current device of the thread that creates it;    *)
(* any thread may execute a Primitive of it, which puts work on a stream   *)
(* that the device gets to later. Callers do so at an index of their own   *)
(* choice or, as common.h:490-493 tells them to, by a walk: they ask       *)
(* one Primitive after the other what workspace it needs and execute the   *)
(* first that theirs is large enough for.                                  *)
(***************************************************************************)
EXTENDS Naturals, SequencesExt

CONSTANTS
  Threads, Devices,
  Primitives,    \* the records of the engine
  ApplicableOn,  \* ApplicableOn[d]: those isApplicable() accepts under device d
  Required,      \* Required[p]: what getRequiredWorkspaceBytes() of p tells
  Workspaces,    \* workspaces callers pass: whether there is memory, and bytes
  MaxPlans,      \* bound on the Plans made
  MaxQueued,     \* bound on the work on a stream
  None

\* How far a walk is: the Primitive looked at, of how many, with which workspace,
\* and whether it was found large enough.
Walks == [at : Nat, num : Nat, ws : Workspaces, fits : BOOLEAN]

ASSUME PlanAssumption ==
  /\ IsFiniteSet(Primitives)
  /\ ApplicableOn \in [Devices -> SUBSET Primitives]
  /\ Required \in [Primitives -> Nat]
  /\ Workspaces \subseteq [memory : BOOLEAN, bytes : Nat]
  /\ None \notin Walks

VARIABLES
  current,  \* current[t]: the current device of t
  plan,     \* the Plan: its device and its Primitives, or None
  made,     \* Plans made
  walk,     \* walk[t]: how far t's walk is, or None
  stream,   \* stream[d]: the work on the stream of d that the device has not done
  answer    \* answer[t]: how t's last call or walk ended

vars == <<current, plan, made, walk, stream, answer>>

Init ==
  /\ current \in [Threads -> Devices]
  /\ plan = None /\ made = 0
  /\ walk = [t \in Threads |-> None]
  /\ stream = [d \in Devices |-> <<>>]
  /\ answer = [t \in Threads |-> "none"]

Answers(t, status) == answer' = [answer EXCEPT ![t] = status]

\* The host selects another device, between its own calls.
SetDevice(t, d) ==
  /\ walk[t] = None
  /\ current' = [current EXCEPT ![t] = d]
  /\ UNCHANGED <<plan, made, walk, stream, answer>>

-----------------------------------------------------------------------------
\* What createPrimitives() may select: records that apply on the device, each
\* once, best first; OpsEngine has how.
Selections(d) ==
  UNION {{f \in [1 .. n -> ApplicableOn[d]] : \A i, j \in 1 .. n : f[i] = f[j] => i = j} :
         n \in 1 .. Cardinality(ApplicableOn[d])}

\* OpsEngineBase::createPlan for sound Args: hipGetDevice or an allocation may
\* fail, and the environment may leave no applicable record.
PlanCreate(t) ==
  /\ plan = None /\ made < MaxPlans /\ walk[t] = None
  /\ \/ /\ \E s \in Selections(current[t]) : plan' = [device |-> current[t], primitives |-> s]
        /\ made' = made + 1
        /\ Answers(t, "SUCCESS")
     \/ /\ \E status \in {"UNSUPPORTED", "INTERNAL_ERROR", "OUT_OF_MEMORY"} : Answers(t, status)
        /\ UNCHANGED <<plan, made>>
  /\ UNCHANGED <<current, walk, stream>>

\* The host destroys a Plan when none of its work is left and nobody walks it.
PlanDestroy(t) ==
  /\ plan # None
  /\ \A u \in Threads : walk[u] = None
  /\ \A d \in Devices : stream[d] = <<>>
  /\ plan' = None
  /\ Answers(t, "SUCCESS")
  /\ UNCHANGED <<current, made, walk, stream>>

-----------------------------------------------------------------------------
\* Mutant: a workspace of just the size is too small.
TooSmallIfEqual(required, ws) == required # 0 /\ ws.bytes <= required

\* Plan::getPrimitiveRequiredWorkspaceBytes, in range.
RequiredAt(i) == Required[plan.primitives[i]]

TooSmall(required, ws) == ws.bytes < required

\* PrimitiveBase::execute: it does not take the workspace.
Insufficient(required, ws) == TooSmall(required, ws) \/ (required # 0 /\ ~ws.memory)

\* Mutant: the thread's device is not compared with the Plan's.
AcceptsOnAny(t, i, ws) ==
  i \in DOMAIN plan.primitives /\ ~Insufficient(Required[plan.primitives[i]], ws)

\* Plan::execute: what it asks before anything is put on the stream.
Accepts(t, i, ws) ==
  /\ current[t] = plan.device
  /\ i \in DOMAIN plan.primitives
  /\ ~Insufficient(Required[plan.primitives[i]], ws)

\* Work of the Primitive at i is put on the stream t passes.
Launch(t, i, ws) ==
  /\ Len(stream[current[t]]) < MaxQueued
  /\ stream' = [stream EXCEPT ![current[t]] = Append(@, [primitive |-> plan.primitives[i], ws |-> ws])]

\* ftrainPlanExecutePrimitive, with a stream of the thread's device. Reading
\* the device or launching may fail, and the error reported after a launch
\* may be one the thread had from before. A Primitive that has nothing to
\* compute, its output being empty, launches nothing.
Execute(t, i, ws) ==
  \/ Answers(t, "INTERNAL_ERROR") /\ UNCHANGED stream
  \/ ~Accepts(t, i, ws) /\ Answers(t, "INVALID_ARGUMENT") /\ UNCHANGED stream
  \/ /\ Accepts(t, i, ws)
     /\ \/ Launch(t, i, ws) /\ \E status \in {"SUCCESS", "INTERNAL_ERROR"} : Answers(t, status)
        \/ Answers(t, "SUCCESS") /\ UNCHANGED stream

\* A call at an index of the caller's choice; its indices start at 0.
ExecuteAt(t, index, ws) ==
  /\ plan # None /\ walk[t] = None
  /\ Execute(t, index + 1, ws)
  /\ UNCHANGED <<current, plan, made, walk>>

-----------------------------------------------------------------------------
\* The walk: ftrainPlanGetNumPrimitives first.
StartWalk(t, ws) ==
  /\ plan # None /\ walk[t] = None
  /\ walk' = [walk EXCEPT ![t] = [at |-> 1, num |-> Len(plan.primitives), ws |-> ws, fits |-> FALSE]]
  /\ Answers(t, "none")
  /\ UNCHANGED <<current, plan, made, stream>>

\* ftrainPlanGetPrimitiveRequiredWorkspaceBytes, and the caller compares.
Look(t) ==
  /\ walk[t] # None /\ ~walk[t].fits /\ walk[t].at <= walk[t].num
  /\ walk' = IF RequiredAt(walk[t].at) <= walk[t].ws.bytes
             THEN [walk EXCEPT ![t].fits = TRUE]
             ELSE [walk EXCEPT ![t].at = @ + 1]
  /\ UNCHANGED <<current, plan, made, stream, answer>>

Take(t) ==
  /\ walk[t] # None /\ walk[t].fits
  /\ Execute(t, walk[t].at, walk[t].ws)
  /\ walk' = [walk EXCEPT ![t] = None]
  /\ UNCHANGED <<current, plan, made>>

GiveUp(t) ==
  /\ walk[t] # None /\ ~walk[t].fits /\ walk[t].at > walk[t].num
  /\ walk' = [walk EXCEPT ![t] = None]
  /\ Answers(t, "nothing fits")
  /\ UNCHANGED <<current, plan, made, stream>>

\* The device does the first work of its stream.
Work(d) ==
  /\ stream[d] # <<>>
  /\ stream' = [stream EXCEPT ![d] = Tail(@)]
  /\ UNCHANGED <<current, plan, made, walk, answer>>

Next ==
  \/ \E t \in Threads :
       \/ PlanCreate(t) \/ PlanDestroy(t) \/ Look(t) \/ Take(t) \/ GiveUp(t)
       \/ \E d \in Devices : SetDevice(t, d)
       \/ \E ws \in Workspaces : StartWalk(t, ws)
       \/ \E ws \in Workspaces, index \in 0 .. Cardinality(Primitives) : ExecuteAt(t, index, ws)
  \/ \E d \in Devices : Work(d)

Spec == Init /\ [][Next]_vars

-----------------------------------------------------------------------------
\* Whatever threads create and execute Plans, and wherever they have moved to
\* in between, a device is only given work of a Primitive that was found
\* applicable on it, with the workspace that Primitive needs.
WorkSuitsDevice ==
  \A d \in Devices : \A n \in DOMAIN stream[d] :
    LET w == stream[d][n]
    IN  /\ w.primitive \in ApplicableOn[d]
        /\ Required[w.primitive] <= w.ws.bytes
        /\ Required[w.primitive] > 0 => w.ws.memory

\* The advice of common.h:490-493 works: a walk executes the best Primitive
\* its workspace is large enough for, and gives up only if there is none. That
\* Primitive is refused only to a thread on another device than the Plan's, or
\* if it needs a workspace and there is no memory: never over the size, and
\* never for want of a workspace it does not need.
WalkFindsTheFirst ==
  [][\A t \in Threads : walk[t] # None /\ walk'[t] = None =>
       LET ws == walk[t].ws
           fitting == {i \in DOMAIN plan.primitives : Required[plan.primitives[i]] <= ws.bytes}
           first == CHOOSE i \in fitting : \A j \in fitting : i <= j
           device == current[t]
       IN  /\ fitting = {} <=> answer'[t] = "nothing fits"
           /\ stream' # stream => Last(stream'[device]).primitive = plan.primitives[first]
           /\ answer'[t] = "INVALID_ARGUMENT" =>
                \/ device # plan.device
                \/ Required[plan.primitives[first]] > 0 /\ ~ws.memory]_vars
===============================================================================
