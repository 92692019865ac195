---------------------------- MODULE GemmExecution ----------------------------
(***************************************************************************)
(* One thread's calls for the Gemm family, from the six argument views to  *)
(* the kernel: StorageView, GemmProblem, the selection key, Fp32Gemm and   *)
(* the grid of fp32_gemm.hip. The selection cache is the set of keys it    *)
(* has an answer for; OpsEngine and SelectionCache hold the rest of it.    *)
(* uint64_t is 0 .. MaxWord. A status is a string; numeric and index types *)
(* and flags are the numbers the key is made of.                           *)
(***************************************************************************)
EXTENDS Integers, Sequences, FiniteSets

CONSTANTS
  Problems,          \* what a caller may pass: six views and a compute type
  MaxWord,           \* the largest uint64_t
  ThreadsPerBlock,   \* kThreadsPerBlock
  MaxBlocks,         \* kMaxBlockCount
  MaxCalls           \* bound on the calls

\* A StorageView; an address is its number, of which only Null and the alignment count.
Views ==
  [memory : Nat, dims : Seq(Int), type : Nat, layout : Nat, hasStrides : BOOLEAN,
   strides : Seq(Int), host : BOOLEAN]

ASSUME ExecutionAssumption ==
  /\ MaxWord \in Nat /\ ThreadsPerBlock \in Nat \ {0} /\ ThreadsPerBlock <= MaxWord \div 2
  /\ MaxBlocks \in Nat \ {0} /\ MaxCalls \in Nat
  /\ \A p \in Problems : /\ p.computeType \in Nat
                        /\ \A x \in {"a", "b", "c", "d", "alpha", "beta"} : p.views[x] \in Views

VARIABLES
  problem,    \* the arguments of the call
  pc,         \* what the call does next
  status,     \* how the last call ended, as the host sees it
  calls,      \* calls made
  cached,     \* the keys with a cached selection
  position,   \* index of each thread of the grid; -1 where there is none
  loaded,     \* the addend a thread holds for its output: "none", "old", "new"
  output      \* d: "old", "new", or "wrong" where the addend was not c's

vars == <<problem, pc, status, calls, cached, position, loaded, output>>

Null == 0
FloatBytes == 4
NumericTypes == 1 .. 23    \* between FTRAIN_NUMERIC_TYPE_INVALID and _COUNT
Fp32 == 4
NoLayout == 0
Continuous == 1
Layouts == 1 .. 3          \* the predefined ones of FTrainIndexType

Ports == <<"a", "b", "c", "d", "alpha", "beta">>
Matrices == {"a", "b", "c", "d"}
Scalars == {"alpha", "beta"}

View(p, port) == p.views[port]
M(p) == View(p, "a").dims[1]
K(p) == View(p, "a").dims[2]
N(p) == View(p, "b").dims[2]
InPlace(p) == View(p, "c").memory = View(p, "d").memory

Word(n) == n % (MaxWord + 1)
NumOutputs(p) == Word(M(p) * N(p))

\* StorageView: a known type, an address for a scalar, strides exactly where
\* no layout is named, no negative dimension.
ValidView(v) ==
  /\ v.type \in NumericTypes
  /\ v.layout \in Layouts \cup {NoLayout}
  /\ v.dims = <<>> => v.memory # Null
  /\ v.hasStrides <=> v.layout = NoLayout
  /\ \A i \in DOMAIN v.dims : v.dims[i] >= 0

\* GemmProblem: ranks, places and shapes.
WellShaped(p) ==
  /\ \A x \in Matrices : Len(View(p, x).dims) = 2
  /\ \A x \in Scalars : View(p, x).dims = <<>>
  /\ \A x \in Matrices : ~View(p, x).host
  /\ \A x \in Scalars : View(p, x).host
  /\ K(p) = View(p, "b").dims[1]
  /\ View(p, "c").dims = <<M(p), N(p)>>
  /\ View(p, "d").dims = <<M(p), N(p)>>

MaxElements == MaxWord \div FloatBytes

\* Mutant: the size of the outputs is not looked at.
InputsTooLarge(p) ==
  \/ K(p) # 0 /\ M(p) > MaxElements \div K(p)
  \/ N(p) # 0 /\ K(p) > MaxElements \div N(p)

TooLarge(p) ==
  \/ K(p) # 0 /\ M(p) > MaxElements \div K(p)
  \/ N(p) # 0 /\ K(p) > MaxElements \div N(p)
  \/ N(p) # 0 /\ M(p) > MaxElements \div N(p)

-----------------------------------------------------------------------------
Flag(condition) == IF condition THEN 1 ELSE 0

Alignment(v) == v.memory % FloatBytes

\* Mutant: the key leaves the alignment out.
UnalignedViewKey(p, n) ==
  LET v == View(p, Ports[n])
      field(i) == 6 * (n - 1) + i
  IN  <<field(1), v.type, field(2), v.layout, field(3), Flag(v.memory # Null), field(4), 0>>
        \o <<field(5), Len(v.dims)>> \o v.dims \o <<field(6), Len(v.strides)>> \o v.strides

\* The numbers getProblemKey() pushes for a port: each field after its index.
ViewKey(p, n) ==
  LET v == View(p, Ports[n])
      field(i) == 6 * (n - 1) + i
  IN  <<field(1), v.type, field(2), v.layout, field(3), Flag(v.memory # Null), field(4), Alignment(v)>>
        \o <<field(5), Len(v.dims)>> \o v.dims \o <<field(6), Len(v.strides)>> \o v.strides

ProblemKey(p) ==
  ViewKey(p, 1) \o ViewKey(p, 2) \o ViewKey(p, 3) \o ViewKey(p, 4) \o ViewKey(p, 5) \o ViewKey(p, 6)
    \o <<37, p.computeType, 38, Flag(InPlace(p))>>

\* Fp32Gemm::isApplicable.
Applicable(p) ==
  /\ p.computeType = Fp32
  /\ \A n \in DOMAIN Ports :
       /\ View(p, Ports[n]).type = Fp32
       /\ View(p, Ports[n]).layout = Continuous
       /\ Alignment(View(p, Ports[n])) = 0
  /\ \/ NumOutputs(p) = 0
     \/ /\ View(p, "d").memory # Null
        /\ K(p) = 0 \/ (View(p, "a").memory # Null /\ View(p, "b").memory # Null)

-----------------------------------------------------------------------------
Threads == 0 .. ThreadsPerBlock * MaxBlocks - 1

Cells == 0 .. MaxElements - 1

NoThread == -1

Init ==
  /\ problem \in Problems
  /\ pc = "bind"
  /\ status = "none"
  /\ calls = 1
  /\ cached = {}
  /\ position = [t \in Threads |-> NoThread]
  /\ loaded = [t \in Threads |-> "none"]
  /\ output = [i \in Cells |-> "old"]

End(result) == pc' = "done" /\ status' = result

Goto(next) == pc' = next /\ UNCHANGED status

grid == <<position, loaded, output>>

\* The views are copied into the Args, each checked as it is.
Bind ==
  /\ pc = "bind"
  /\ IF \A n \in DOMAIN Ports : ValidView(View(problem, Ports[n]))
     THEN Goto("check") ELSE End("INVALID_ARGUMENT")
  /\ UNCHANGED <<problem, calls, cached, grid>>

\* GemmProblem's constructor.
Check ==
  /\ pc = "check"
  /\ IF ~WellShaped(problem) THEN End("INVALID_ARGUMENT")
     ELSE IF TooLarge(problem) THEN End("OVERFLOW") ELSE Goto("select")
  /\ UNCHANGED <<problem, calls, cached, grid>>

\* A cached key answers without isApplicable(); a selection is published.
Select ==
  /\ pc = "select"
  /\ IF ProblemKey(problem) \in cached \/ Applicable(problem)
     THEN Goto("execute") ELSE End("UNSUPPORTED")
  /\ cached' = IF Applicable(problem) THEN cached \cup {ProblemKey(problem)} ELSE cached
  /\ UNCHANGED <<problem, calls, grid>>

\* block_count, for n > 0 outputs.
BlockCount(n) ==
  LET required == (n - 1) \div ThreadsPerBlock + 1
  IN  IF required < MaxBlocks THEN required ELSE MaxBlocks

ThreadCount == BlockCount(NumOutputs(problem)) * ThreadsPerBlock

\* Plan::execute for the plan's only Primitive, which needs no workspace, and
\* launchFp32Gemm: another device or index is refused, an empty output is
\* success without a launch, and HIP may refuse the launch.
Execute ==
  /\ pc = "execute"
  /\ \E sameDevice \in BOOLEAN, index \in {0, 1} :
       IF ~sameDevice \/ index # 0
       THEN End("INVALID_ARGUMENT") /\ UNCHANGED position
       ELSE IF NumOutputs(problem) = 0
       THEN End("SUCCESS") /\ UNCHANGED position
       ELSE \/ End("INTERNAL_ERROR") /\ UNCHANGED position
            \/ /\ Goto("run")
               /\ position' = [t \in Threads |-> IF t < ThreadCount THEN t ELSE NoThread]
  /\ UNCHANGED <<problem, calls, cached, loaded, output>>

Working(t) == pc = "run" /\ position[t] \in 0 .. NumOutputs(problem) - 1

\* A thread computes its output: it reads c's element unless c is null ...
Load(t) ==
  /\ Working(t) /\ loaded[t] = "none"
  /\ loaded' = [loaded EXCEPT ![t] = IF InPlace(problem) THEN output[position[t]] ELSE "old"]
  /\ UNCHANGED <<problem, pc, status, calls, cached, position, output>>

\* Mutant: a thread moves on by its block's threads.
BlockStride(t) ==
  /\ Working(t) /\ loaded[t] # "none"
  /\ output' = [output EXCEPT ![position[t]] = IF loaded[t] = "old" THEN "new" ELSE "wrong"]
  /\ loaded' = [loaded EXCEPT ![t] = "none"]
  /\ position' = [position EXCEPT ![t] = Word(@ + ThreadsPerBlock)]
  /\ UNCHANGED <<problem, pc, status, calls, cached>>

\* ... and writes d's, then moves on by the threads of the grid.
Store(t) ==
  /\ Working(t) /\ loaded[t] # "none"
  /\ output' = [output EXCEPT ![position[t]] = IF loaded[t] = "old" THEN "new" ELSE "wrong"]
  /\ loaded' = [loaded EXCEPT ![t] = "none"]
  /\ position' = [position EXCEPT ![t] = Word(@ + ThreadCount)]
  /\ UNCHANGED <<problem, pc, status, calls, cached>>

Complete ==
  /\ pc = "run" /\ \A t \in Threads : ~Working(t)
  /\ End("SUCCESS")
  /\ UNCHANGED <<problem, calls, cached, grid>>

\* The next call of the host, on memory it has filled again.
NextCall ==
  /\ pc = "done" /\ calls < MaxCalls
  /\ problem' \in Problems
  /\ calls' = calls + 1
  /\ pc' = "bind" /\ status' = "none"
  /\ position' = [t \in Threads |-> NoThread]
  /\ output' = [i \in Cells |-> "old"]
  /\ UNCHANGED <<cached, loaded>>

Next ==
  \/ Bind \/ Check \/ Select \/ Execute
  \/ (\E t \in Threads : Load(t) \/ Store(t))
  \/ Complete \/ NextCall

Spec == Init /\ [][Next]_vars

-----------------------------------------------------------------------------
\* What a kernel is launched on, a selection from the cache included, is what
\* it can compute: addresses where it reads or writes, floats that are
\* aligned and contiguous.
KernelReadsMemory ==
  pc = "run" =>
    /\ \A n \in DOMAIN Ports :
         LET v == View(problem, Ports[n])
         IN  v.type = Fp32 /\ v.layout = Continuous /\ v.memory % FloatBytes = 0
    /\ View(problem, "d").memory # Null
    /\ K(problem) > 0 => View(problem, "a").memory # Null /\ View(problem, "b").memory # Null

\* problem.cpp:48-49: the bytes of every matrix of an accepted problem fit in
\* a word, so that the products the later steps compute are exact.
SizesFit ==
  pc \in {"select", "execute", "run"} =>
    \A x \in Matrices :
      View(problem, x).dims[1] * View(problem, x).dims[2] * FloatBytes <= MaxWord

\* However the threads of the grid interleave, also where d is c, each output
\* is computed from c's own element, and nothing beyond d is written.
OutputsExact ==
  pc = "done" /\ status = "SUCCESS" =>
    \A i \in Cells :
      output[i] = IF i < M(problem) * N(problem) THEN "new" ELSE "old"
===============================================================================
