------------------------------ MODULE ArgsValues ------------------------------
(***************************************************************************)
(* The values callers give Args for operands and operations, and which of  *)
(* them the setters of ops_args_api.cpp and the constructors of tensor.cpp *)
(* accept. A StorageView is cut down to whether its own constructor        *)
(* accepts it and to its dims; StorageView and GemmExecution have the rest.*)
(***************************************************************************)
EXTENDS PatternApi

CONSTANTS
  OperandSettings,  \* operand setter calls: an ID and a value
  OpSettings,       \* operation setter calls: an ID and attributes
  Handles           \* the handles of Args

View == [ok : BOOLEAN, dims : Seq(Nat)]

\* A value: the views of a Tensor or a TensorList, or the data of a
\* GroupedTensor with the number of groups and the metadata. A list the
\* caller gives as a null array and a count holds a view that is not ok.
Value == [kind : OperandKinds, views : Seq(View), groups : Nat,
          offsets : Seq(View), dimSizes : Seq(View), strides : Seq(View)]

Attributes == [kind : OperationKinds, computeType : Nat]

\* Slots of operands and of operations, in the order of the IDs.
OperandSlots == Seq(Value \cup {None})

OpSlots == Seq(Attributes \cup {None})

\* What the operations of a problem have at their ports.
Problems == [inputs : Seq(OperandSlots), outputs : Seq(OperandSlots), attributes : OpSlots]

\* A match: the caller's Pattern, the engine, and the IDs of the engine's
\* pattern under the caller's.
Matches == [user : BuilderType, engine : Nat, operandOf : Seq(Nat), opOf : Seq(Nat)]

ASSUME SettingAssumption ==
  /\ OperandSettings \subseteq [id : Nat, value : Value]
  /\ OpSettings \subseteq [id : Nat, value : Attributes]

\* The null handle is no object, and nothing set is a value of its own.
ASSUME NullAssumption ==
  /\ None \notin Value \cup Attributes \cup Matches
  /\ None \notin [user : BuilderType, operands : OperandSlots, attributes : OpSlots]
  /\ None \notin [of : Matches, operands : OperandSlots, attributes : OpSlots]
  /\ None \notin [user : BuilderType, problem : Problems] \cup [of : Matches, problem : Problems]

Metadata(v) == v.offsets \o v.dimSizes \o v.strides

\* The views are accepted; the metadata of a GroupedTensor is one view per
\* dimension of the data, or none, each an array of one element per group.
\* The API reads as many views as there are dimensions, so that the lengths of
\* dimSizes and strides are for other callers of the constructor to get wrong.
Sound(v) ==
  /\ \A i \in DOMAIN v.views : v.views[i].ok
  /\ \A m \in {v.dimSizes, v.strides} : m # <<>> => Len(m) = Len(v.views[1].dims)
  /\ \A i \in DOMAIN Metadata(v) : Metadata(v)[i].ok /\ Metadata(v)[i].dims = <<v.groups>>

\* compute_type is 0 for FTRAIN_NUMERIC_TYPE_INVALID.
NumericTypeCount == 24

Computes(v) == v.computeType \in 1 .. NumericTypeCount - 1

\* The values the slots give the ports of the operations of b.
ProblemOf(b, operands, attributes) ==
  [inputs |-> [o \in Ops(b) |-> [i \in DOMAIN b.ops[o].inputs |-> operands[b.ops[o].inputs[i]]]],
   outputs |-> [o \in Ops(b) |-> [i \in DOMAIN b.ops[o].outputs |-> operands[b.ops[o].outputs[i]]]],
   attributes |-> attributes]

\* What createPlan() may still answer to complete Args.
PlanFailures == {"INVALID_ARGUMENT", "OVERFLOW", "UNSUPPORTED", "INTERNAL_ERROR"}

Answer(object) == IF object = None THEN Refuse("INVALID_ARGUMENT") ELSE Succeed
===============================================================================
