------------------------------ MODULE PatternApi ------------------------------
(***************************************************************************)
(* The calls of pattern_api.cpp, by which a caller describes a graph, and  *)
(* what ftrainOpsCreate answers to the graph described. Adding only        *)
(* appends: an ID is the position of what was appended, and nothing is     *)
(* checked before the Pattern is built. What PatternBuild and Matcher show *)
(* of building and matching is used here as it stands: a builder is sound  *)
(* or not, and it has the shape of a registered engine's pattern or not.   *)
(***************************************************************************)
EXTENDS PatternGraph

CONSTANTS
  Families,     \* the patterns of the registered engines, in a sequence
  AddedKinds,   \* the kinds of the operands callers add
  Additions,    \* operations callers add: a kind, and an operand ID for each role
  MaxOperands, MaxOps,  \* bounds on what a Pattern grows to
  MaxPatterns,  \* bound on the Patterns created
  None          \* no object: a null handle

OperandKinds == {"Tensor", "TensorList", "GroupedTensor"}

OperationKinds == {"Gemm", "GroupedABCDGemm", "GroupedBCDGemm", "GroupedABGemm"}

Nodes == [kind : OperationKinds, inputs : Seq(Nat), outputs : Seq(Nat)]

BuilderType == [kinds : Seq(OperandKinds), ops : Seq(Nodes)]

\* createPatternOperationNode: whatever the kind, alpha and beta are inputs
\* behind the matrices, and d is the output.
Node(kind, role) ==
  [kind |-> kind,
   inputs |-> <<role.a, role.b, role.c, role.alpha, role.beta>>,
   outputs |-> <<role.d>>]

\* A set of operations each of which waits for another of the set: a cycle.
Cyclic(b) == \E S \in SUBSET Ops(b) : S # {} /\ \A o \in S : \E p \in S : FedPorts(b, p, o) # {}

\* Engines are registered with patterns that were built, each with operands
\* that some operation uses, and under different keys.
ASSUME FamilyAssumption ==
  /\ MaxPatterns \in Nat
  /\ AddedKinds \subseteq OperandKinds
  /\ \A n \in Additions : Node(n.kind, n.role) \in Nodes
  /\ Families \in Seq(BuilderType)
  /\ \A e \in DOMAIN Families :
       WellFormed(Families[e]) /\ ~Cyclic(Families[e]) /\ Isolated(Families[e]) = {}
  /\ \A e, f \in DOMAIN Families : SameShape(Families[e], Families[f]) => e = f
  /\ None \notin BuilderType

VARIABLES
  pattern,  \* the caller's Pattern, or None
  created,  \* Patterns created so far
  status    \* how the last call ended

patternVars == <<pattern, created>>

Succeed == status' = "SUCCESS"

Refuse(s) == status' = s

NoOperands == [kinds |-> <<>>, ops |-> <<>>]

PatternInit == pattern = None /\ created = 0 /\ status = "SUCCESS"

-----------------------------------------------------------------------------
PatternCreate ==
  /\ created < MaxPatterns
  /\ pattern' = NoOperands /\ created' = created + 1
  /\ Succeed

PatternDestroy ==
  /\ IF pattern = None THEN Refuse("INVALID_ARGUMENT") ELSE Succeed
  /\ pattern' = None
  /\ UNCHANGED created

\* ftrainPatternAddTensor, -AddTensorList and -AddGroupedTensor.
AddOperand(kind) ==
  /\ \/ /\ pattern = None
        /\ Refuse("INVALID_ARGUMENT") /\ UNCHANGED pattern
     \/ /\ pattern # None /\ Len(pattern.kinds) < MaxOperands
        /\ pattern' = [pattern EXCEPT !.kinds = Append(@, kind)]
        /\ Succeed
  /\ UNCHANGED created

\* ftrainPatternAddGemm and the three grouped ones.
AddOperation(kind, role) ==
  /\ \/ /\ pattern = None
        /\ Refuse("INVALID_ARGUMENT") /\ UNCHANGED pattern
     \/ /\ pattern # None /\ Len(pattern.ops) < MaxOps
        /\ pattern' = [pattern EXCEPT !.ops = Append(@, Node(kind, role))]
        /\ Succeed
  /\ UNCHANGED created

Describe ==
  \/ PatternCreate
  \/ PatternDestroy
  \/ \E kind \in AddedKinds : AddOperand(kind)
  \/ \E a \in Additions : AddOperation(a.kind, a.role)

-----------------------------------------------------------------------------
\* The engines whose pattern has the shape of b.
EnginesOf(b) == {e \in DOMAIN Families : SameShape(b, Families[e])}

\* b is no null handle, buildPattern() accepts it, and an engine is found.
Supported(b) == b # None /\ WellFormed(b) /\ ~Cyclic(b) /\ EnginesOf(b) # {}

\* What ftrainOpsCreate answers where it makes no Ops of b.
OpsRefusal(b) ==
  IF b = None \/ ~WellFormed(b) \/ Cyclic(b) THEN "INVALID_ARGUMENT" ELSE "UNSUPPORTED"

\* GemmFamily::makeRoles: the operands and the operation in the order its
\* builder adds them.
GemmFamilyPattern ==
  [kinds |-> [x \in 1 .. 6 |-> "Tensor"],
   ops |-> <<Node("Gemm", [a |-> 1, b |-> 2, c |-> 3, alpha |-> 4, beta |-> 5, d |-> 6])>>]

===============================================================================
