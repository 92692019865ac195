------------------------------- MODULE GemmApi -------------------------------
(***************************************************************************)
(* ftrainGemm (gemm_api.cpp): the one-call path over the staged C API, by  *)
(* several threads, together with the Handle that ftrainOpsCreate and      *)
(* ftrainPlanCreate ask for engines.                                       *)
(*                                                                         *)
(* The first ftrainGemm of the process builds the GemmEntry, a function-   *)
(* local static, through the staged API -- inside of which the Handle, a   *)
(* second such static, may be built. Every later call makes its own Args   *)
(* and Plan from the entry's Ops, executes Primitive 0 and destroys both.  *)
(*                                                                         *)
(* A staged call runs in invokeApi (api.hpp), which leaves the result of   *)
(* the call in a thread-local variable. A result is a status and, for the  *)
(* diagnostic message, the call that failed. What a staged call computes   *)
(* is its outcome here: any status its code may end with.                  *)
(***************************************************************************)
EXTENDS Handle

CONSTANT GemmKey  \* the key of the Gemm pattern

ASSUME GemmAssumption ==
  GemmKey \in Keys /\ \E i \in 1 .. Len(Catalog) : KeyOf[Catalog[i]] = GemmKey

VARIABLES
  entry,        \* the static of gemmEntry(): "unbuilt", "building" or "built"
  entryStatus,  \* its status
  ops,          \* the number of Ops made for it that live
  at,           \* at[t]: the next step of t's API call
  op,           \* op[t]: the kind of that call
  status,       \* status[t]: the local variable status, and which call set it
  held,         \* held[t]: the Pattern, Args and Plan the call has made
  kept,         \* kept[t]: the local variable failure
  last,         \* last[t]: the thread-local last result
  returned,     \* returned[t]: the status the call returned
  work          \* work[t]: the work of the call: "none", "queued" on its stream or "finished"

apiVars == <<entry, entryStatus, ops, at, op, status, held, kept, last, returned, work>>
vars == <<handleVars, apiVars>>

Statuses ==
  {"SUCCESS", "INVALID_ARGUMENT", "OVERFLOW", "UNSUPPORTED", "OUT_OF_MEMORY", "INTERNAL_ERROR"}

Result(s, call) == [status |-> s, by |-> call]

Ok == Result("SUCCESS", "none")

\* The program points of ftrainGemm, before and after the entry is there,
\* and of ftrainOpsCreate called by the host.
EntryPoints == {"patternCreate", "describe", "opsCreate", "opsAnswer", "patternDestroy", "storeEntry"}

CallPoints == {"argsCreate", "bind", "planCreate", "planAnswer", "execute", "save",
               "planDestroy", "argsDestroy", "restore"}

Points == {"idle", "entry", "hostOps", "hostAnswer"} \cup EntryPoints \cup CallPoints

\* The statuses a call that only allocates may end with.
MayAllocate == {"SUCCESS", "OUT_OF_MEMORY"}

\* Binding a view: the StorageView constructor checks it.
BindOutcomes == {"SUCCESS", "INVALID_ARGUMENT", "OUT_OF_MEMORY"}

\* What ftrainOpsCreate makes of the Handle's answer.
OpsOutcomes(r) ==
  IF r.status # "SUCCESS" THEN {r.status}
  ELSE IF r.engine = None THEN {"UNSUPPORTED"} ELSE MayAllocate

\* What ftrainPlanCreate makes of it; createPlan() may refuse the Args, find
\* their sizes to overflow (GemmExecution) or no applicable Primitive, or fail
\* to read the device.
PlanOutcomes(r) ==
  IF r.status # "SUCCESS" THEN {r.status}
  ELSE IF r.engine = None THEN {"INTERNAL_ERROR"} ELSE Statuses

\* Another device, too small a workspace, or a launch that fails.
ExecuteOutcomes == {"SUCCESS", "INVALID_ARGUMENT", "INTERNAL_ERROR"}

\* What became of the work when executing ends with s: no outputs take none;
\* hipGetLastError() after the launch may also tell an error the thread had
\* from before.
Launched(s) ==
  IF s = "SUCCESS" THEN {"queued", "finished"}
  ELSE IF s = "INTERNAL_ERROR" THEN {"none", "queued"} ELSE {"none"}

Init ==
  /\ HandleInit
  /\ entry = "unbuilt" /\ entryStatus = "SUCCESS" /\ ops = 0
  /\ at = [t \in Threads |-> "idle"]
  /\ op = [t \in Threads |-> "none"]
  /\ status = [t \in Threads |-> Ok]
  /\ held = [t \in Threads |-> {}]
  /\ kept = [t \in Threads |-> Ok]
  /\ last = [t \in Threads |-> Ok]
  /\ returned = [t \in Threads |-> "SUCCESS"]
  /\ work = [t \in Threads |-> "none"]

-----------------------------------------------------------------------------
Move(t, point) == at' = [at EXCEPT ![t] = point]

\* invokeApi: a call that fails leaves its result, one that succeeds clears.
InvokeApi(t, s, call) ==
  last' = [last EXCEPT ![t] = IF s = "SUCCESS" THEN Ok ELSE Result(s, call)]

\* One staged call of t, which ends with s; t goes on at next, or at failed.
Staged(t, call, s, next, failed) ==
  /\ InvokeApi(t, s, call)
  /\ status' = [status EXCEPT ![t] = IF s = "SUCCESS" THEN Ok ELSE Result(s, call)]
  /\ Move(t, IF s = "SUCCESS" THEN next ELSE failed)

Hold(t, s, object) ==
  held' = IF s = "SUCCESS" THEN [held EXCEPT ![t] = @ \cup {object}] ELSE held

\* The call ends and returns s.
End(t, s) == Move(t, "idle") /\ returned' = [returned EXCEPT ![t] = s]

\* t asks the Handle for the engine of the Gemm pattern.
AskForEngine(t) == Invoke(t, Ask("find", None, GemmKey)) /\ UNCHANGED calls

Begin(t, kind, point) ==
  /\ at[t] = "idle" /\ calls[t] < MaxCalls
  /\ calls' = [calls EXCEPT ![t] = @ + 1]
  /\ Move(t, point)
  /\ op' = [op EXCEPT ![t] = kind]
  /\ status' = [status EXCEPT ![t] = Ok]
  /\ kept' = [kept EXCEPT ![t] = Ok]
  /\ returned' = [returned EXCEPT ![t] = "SUCCESS"]
  /\ work' = [work EXCEPT ![t] = "none"]
  /\ UNCHANGED <<global, placed, registry, writer, readers, step, ask, occupied, reply, winners,
                 entry, entryStatus, ops, held, last>>

CallGemm(t) == Begin(t, "gemm", "entry")

\* The host calls ftrainOpsCreate itself, for the same pattern.
CallOpsCreate(t) == Begin(t, "staged", "hostOps")

-----------------------------------------------------------------------------
\* Mutant: the static is built without its guard.
BuildEntryTogether(t) ==
  /\ at[t] = "entry" /\ entry # "built"
  /\ entry' = "building"
  /\ Move(t, "patternCreate")
  /\ UNCHANGED <<handleVars, entryStatus, ops, op, status, held, kept, last, returned, work>>

\* gemmEntry(): the first thread through builds, the others wait at "entry".
BuildEntry(t) ==
  /\ at[t] = "entry" /\ entry = "unbuilt"
  /\ entry' = "building"
  /\ Move(t, "patternCreate")
  /\ UNCHANGED <<handleVars, entryStatus, ops, op, status, held, kept, last, returned, work>>

PatternCreate(t) ==
  /\ at[t] = "patternCreate"
  /\ \E s \in MayAllocate :
       Staged(t, "patternCreate", s, "describe", "storeEntry") /\ Hold(t, s, "pattern")
  /\ UNCHANGED <<handleVars, entry, entryStatus, ops, op, kept, returned, work>>

\* ftrainPatternAddTensor six times and ftrainPatternAddGemm.
Describe(t) ==
  /\ at[t] = "describe"
  /\ \E s \in MayAllocate : Staged(t, "describe", s, "opsCreate", "patternDestroy")
  /\ UNCHANGED <<handleVars, entry, entryStatus, ops, op, held, kept, returned, work>>

\* ftrainOpsCreate up to findOpsEngine(): building the Pattern may fail.
OpsCreate(t) ==
  /\ at[t] = "opsCreate"
  /\ \/ /\ Staged(t, "opsCreate", "OUT_OF_MEMORY", "opsAnswer", "patternDestroy")
        /\ UNCHANGED handleVars
     \/ /\ AskForEngine(t)
        /\ Move(t, "opsAnswer")
        /\ UNCHANGED <<status, last>>
  /\ UNCHANGED <<entry, entryStatus, ops, op, held, kept, returned, work>>

OpsAnswer(t) ==
  /\ at[t] = "opsAnswer"
  /\ Return(t)
  /\ \E s \in OpsOutcomes(reply[t]) :
       /\ Staged(t, "opsCreate", s, "patternDestroy", "patternDestroy")
       /\ ops' = IF s = "SUCCESS" THEN ops + 1 ELSE ops
  /\ UNCHANGED <<entry, entryStatus, op, held, kept, returned, work>>

\* ftrainPatternDestroy succeeds, and so clears the last result.
PatternDestroy(t) ==
  /\ at[t] = "patternDestroy"
  /\ held' = [held EXCEPT ![t] = @ \ {"pattern"}]
  /\ InvokeApi(t, "SUCCESS", "patternDestroy")
  /\ Move(t, "storeEntry")
  /\ UNCHANGED <<handleVars, entry, entryStatus, ops, op, status, kept, returned, work>>

\* Mutant: a thread that cannot build the entry tries again.
RetryEntry(t) ==
  /\ at[t] = "storeEntry"
  /\ entry' = IF status[t] = Ok THEN "built" ELSE "unbuilt"
  /\ entryStatus' = status[t].status
  /\ Move(t, "entry")
  /\ UNCHANGED <<handleVars, ops, op, status, held, kept, last, returned, work>>

\* The entry is built, whatever became of it, for the rest of the process.
StoreEntry(t) ==
  /\ at[t] = "storeEntry"
  /\ entry' = "built" /\ entryStatus' = status[t].status
  /\ Move(t, "entry")
  /\ UNCHANGED <<handleVars, ops, op, status, held, kept, last, returned, work>>

\* Mutant: the entry's status is not looked at.
ReadAnyEntry(t) ==
  /\ at[t] = "entry" /\ entry = "built"
  /\ Move(t, "argsCreate")
  /\ UNCHANGED <<handleVars, entry, entryStatus, ops, op, status, held, kept, last, returned, work>>

ReadEntry(t) ==
  /\ at[t] = "entry" /\ entry = "built"
  /\ IF entryStatus = "SUCCESS" THEN Move(t, "argsCreate") /\ UNCHANGED returned
                                ELSE End(t, entryStatus)
  /\ UNCHANGED <<handleVars, entry, entryStatus, ops, op, status, held, kept, last, work>>

-----------------------------------------------------------------------------
ArgsCreate(t) ==
  /\ at[t] = "argsCreate"
  /\ \E s \in MayAllocate : Staged(t, "argsCreate", s, "bind", "save") /\ Hold(t, s, "args")
  /\ UNCHANGED <<handleVars, entry, entryStatus, ops, op, kept, returned, work>>

\* ftrainArgsSetTensor six times and ftrainArgsSetGemm.
Bind(t) ==
  /\ at[t] = "bind"
  /\ \E s \in BindOutcomes : Staged(t, "bind", s, "planCreate", "save")
  /\ UNCHANGED <<handleVars, entry, entryStatus, ops, op, held, kept, returned, work>>

PlanCreate(t) ==
  /\ at[t] = "planCreate"
  /\ AskForEngine(t)
  /\ Move(t, "planAnswer")
  /\ UNCHANGED <<entry, entryStatus, ops, op, status, held, kept, last, returned, work>>

PlanAnswer(t) ==
  /\ at[t] = "planAnswer"
  /\ Return(t)
  /\ \E s \in PlanOutcomes(reply[t]) :
       Staged(t, "planCreate", s, "execute", "save") /\ Hold(t, s, "plan")
  /\ UNCHANGED <<entry, entryStatus, ops, op, kept, returned, work>>

\* Mutant: what the last staged call returned is dropped.
ExecuteUnchecked(t) ==
  /\ at[t] = "execute"
  /\ \E s \in ExecuteOutcomes :
       /\ InvokeApi(t, s, "execute")
       /\ \E w \in Launched(s) : work' = [work EXCEPT ![t] = w]
  /\ Move(t, "save")
  /\ UNCHANGED <<handleVars, entry, entryStatus, ops, op, status, held, kept, returned>>

\* ftrainPlanExecutePrimitive, which does not wait for the work.
Execute(t) ==
  /\ at[t] = "execute"
  /\ \E s \in ExecuteOutcomes :
       /\ Staged(t, "execute", s, "save", "save")
       /\ \E w \in Launched(s) : work' = [work EXCEPT ![t] = w]
  /\ UNCHANGED <<handleVars, entry, entryStatus, ops, op, held, kept, returned>>

\* The device gets to the work, at any time after.
FinishWork(t) ==
  /\ work[t] = "queued"
  /\ work' = [work EXCEPT ![t] = "finished"]
  /\ UNCHANGED <<handleVars, entry, entryStatus, ops, at, op, status, held, kept, last, returned>>

\* The failing call's result, before the destroying calls clear it.
Save(t) ==
  /\ at[t] = "save"
  /\ kept' = [kept EXCEPT ![t] = IF status[t] = Ok THEN Ok ELSE last[t]]
  /\ Move(t, "planDestroy")
  /\ UNCHANGED <<handleVars, entry, entryStatus, ops, op, status, held, last, returned, work>>

\* if (object != nullptr) destroy it.
Destroy(t, object) ==
  IF object \in held[t]
  THEN held' = [held EXCEPT ![t] = @ \ {object}] /\ InvokeApi(t, "SUCCESS", "destroy")
  ELSE UNCHANGED <<held, last>>

PlanDestroy(t) ==
  /\ at[t] = "planDestroy"
  /\ Destroy(t, "plan")
  /\ Move(t, "argsDestroy")
  /\ UNCHANGED <<handleVars, entry, entryStatus, ops, op, status, kept, returned, work>>

\* Mutant: the Args are destroyed only where there is a Plan.
ArgsDestroyOnSuccess(t) ==
  /\ at[t] = "argsDestroy"
  /\ IF status[t] = Ok THEN Destroy(t, "args") ELSE UNCHANGED <<held, last>>
  /\ Move(t, "restore")
  /\ UNCHANGED <<handleVars, entry, entryStatus, ops, op, status, kept, returned, work>>

ArgsDestroy(t) ==
  /\ at[t] = "argsDestroy"
  /\ Destroy(t, "args")
  /\ Move(t, "restore")
  /\ UNCHANGED <<handleVars, entry, entryStatus, ops, op, status, kept, returned, work>>

\* Mutant: the last result is left as the destroying calls made it.
RestoreNothing(t) ==
  /\ at[t] = "restore"
  /\ End(t, status[t].status)
  /\ UNCHANGED <<handleVars, entry, entryStatus, ops, op, status, held, kept, last, work>>

Restore(t) ==
  /\ at[t] = "restore"
  /\ last' = IF status[t] = Ok THEN last ELSE [last EXCEPT ![t] = kept[t]]
  /\ End(t, status[t].status)
  /\ UNCHANGED <<handleVars, entry, entryStatus, ops, op, status, held, kept, work>>

-----------------------------------------------------------------------------
\* The host's own ftrainOpsCreate: its Ops is the host's to destroy.
HostOps(t) ==
  /\ at[t] = "hostOps"
  /\ AskForEngine(t)
  /\ Move(t, "hostAnswer")
  /\ UNCHANGED <<entry, entryStatus, ops, op, status, held, kept, last, returned, work>>

HostAnswer(t) ==
  /\ at[t] = "hostAnswer"
  /\ Return(t)
  /\ \E s \in OpsOutcomes(reply[t]) :
       /\ Staged(t, "opsCreate", s, "idle", "idle")
       /\ returned' = [returned EXCEPT ![t] = s]
  /\ UNCHANGED <<entry, entryStatus, ops, op, held, kept, work>>

ApiStep(t) ==
  \/ BuildEntry(t) \/ PatternCreate(t) \/ Describe(t) \/ OpsCreate(t) \/ OpsAnswer(t)
  \/ PatternDestroy(t) \/ StoreEntry(t) \/ ReadEntry(t)
  \/ ArgsCreate(t) \/ Bind(t) \/ PlanCreate(t) \/ PlanAnswer(t) \/ Execute(t)
  \/ Save(t) \/ PlanDestroy(t) \/ ArgsDestroy(t) \/ Restore(t)
  \/ HostOps(t) \/ HostAnswer(t)

InHandle(t) == HandleStep(t) /\ UNCHANGED apiVars

Idle == \A t \in Threads : at[t] = "idle" /\ calls[t] = MaxCalls

Next ==
  \/ \E t \in Threads :
       CallGemm(t) \/ CallOpsCreate(t) \/ ApiStep(t) \/ InHandle(t) \/ FinishWork(t)
  \/ Idle /\ UNCHANGED vars

Spec == Init /\ [][Next]_vars

\* A thread inside a call goes on with it.
FairSpec ==
  Spec /\ \A t \in Threads : WF_vars(ApiStep(t) \/ (Proceed(t) /\ UNCHANGED apiVars))

-----------------------------------------------------------------------------
Results == [status : Statuses, by : Points \cup {"none"}]

\* Every variable keeps its type; one thread builds the entry, and a Pattern
\* lives only while it does.
TypeOK ==
  /\ HandleTypeOK
  /\ entry \in {"unbuilt", "building", "built"}
  /\ entryStatus \in Statuses
  /\ ops \in Nat
  /\ at \in [Threads -> Points]
  /\ op \in [Threads -> {"none", "gemm", "staged"}]
  /\ status \in [Threads -> Results]
  /\ held \in [Threads -> SUBSET {"pattern", "args", "plan"}]
  /\ kept \in [Threads -> Results]
  /\ last \in [Threads -> Results]
  /\ returned \in [Threads -> Statuses]
  /\ work \in [Threads -> {"none", "queued", "finished"}]
  /\ \A t, u \in Threads : at[t] \in EntryPoints /\ at[u] \in EntryPoints => t = u
  /\ \A t \in Threads : at[t] \in EntryPoints => entry = "building"
  /\ \A t \in Threads : "pattern" \in held[t] => at[t] \in EntryPoints

\* The process has one Ops for all its ftrainGemm calls, made at most once,
\* and a thread that is past the entry has it (gemm_api.cpp:12-15).
OneSharedOps ==
  /\ ops <= 1
  /\ \A t \in Threads : at[t] \in CallPoints => entry = "built" /\ ops = 1

\* On every path, the failing ones included, a call returns with nothing it
\* made still alive (gemm_api.cpp:44, 79-80).
NothingLeaks == \A t \in Threads : at[t] = "idle" => held[t] = {}

\* Where the entry is sound, a call that returns leaves the thread's last
\* result as its own outcome: the first of its staged calls that failed,
\* with that call's message, although the destroying calls that follow
\* reset it (gemm_api.cpp:76-81).
DiagnosticKept ==
  entryStatus = "SUCCESS" =>
    \A t \in Threads : at[t] = "idle" => last[t] = status[t] /\ returned[t] = status[t].status

\* ftrainGemm returns success only where its work was put on the stream, and
\* of the failures only the one of the launch itself can leave work there: no
\* earlier failure is followed by a launch, or hidden by the cleanup.
SuccessMeansWork ==
  \A t \in Threads :
    at[t] = "idle" /\ op[t] = "gemm" =>
      /\ returned[t] = "SUCCESS" => work[t] # "none"
      /\ work[t] # "none" => returned[t] \in {"SUCCESS", "INTERNAL_ERROR"}

\* Every call returns: a thread that waits for one of the two statics waits
\* for a thread that will finish it, although the Handle may be built inside
\* the entry, by the thread that builds the entry or by another.
CallsReturn == \A t \in Threads : at[t] # "idle" ~> at[t] = "idle"

\* common.h:155-157: "Each non-query Flash Train C API call replaces this
\* status".
LastStatusIsTheCalls == \A t \in Threads : at[t] = "idle" => last[t].status = returned[t]
=============================================================================
