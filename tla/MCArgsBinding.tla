----------------------------- MODULE MCArgsBinding -----------------------------
(***************************************************************************)
(* Instances of ArgsBinding, with three engines: the built-in one, which    *)
(* the caller describes straight, with the operands in another order, and  *)
(* wrongly; one of two operations with the same inputs, which a Pattern    *)
(* matches in two ways; and one with operands of every kind.               *)
(***************************************************************************)
EXTENDS ArgsBinding, SequencesExt

\* What a call does never depends on how the one before it ended.
Objects == <<patternVars, ops, args, plan>>

Wiring(a, b, c, alpha, beta, d) == [a |-> a, b |-> b, c |-> c, alpha |-> alpha, beta |-> beta, d |-> d]

GemmAdditions ==
  {[kind |-> "Gemm", role |-> Wiring(1, 2, 3, 4, 5, 6)],
   [kind |-> "Gemm", role |-> Wiring(6, 1, 5, 2, 4, 3)],
   [kind |-> "Gemm", role |-> Wiring(1, 1, 3, 4, 5, 6)],
   [kind |-> "Gemm", role |-> Wiring(1, 2, 3, 4, 5, 9)],
   [kind |-> "GroupedABGemm", role |-> Wiring(1, 2, 3, 4, 5, 6)]}

OkView(n) == [ok |-> TRUE, dims |-> <<n>>]

TensorValue(n, ok) ==
  [kind |-> "Tensor", views |-> <<[ok |-> ok, dims |-> <<n>>]>>, groups |-> 0,
   offsets |-> <<>>, dimSizes |-> <<>>, strides |-> <<>>]

ListValue(views) ==
  [kind |-> "TensorList", views |-> views, groups |-> 0,
   offsets |-> <<>>, dimSizes |-> <<>>, strides |-> <<>>]

\* Two groups of a rank-one tensor, with the metadata of as many groups as told.
GroupedValue(n, told) ==
  [kind |-> "GroupedTensor", views |-> <<OkView(n)>>, groups |-> 2,
   offsets |-> <<OkView(told)>>, dimSizes |-> <<OkView(told)>>, strides |-> <<>>]

\* A value for each operand, one that is not sound and one of another kind.
GemmOperandSettings ==
  {[id |-> n, value |-> TensorValue(n, TRUE)] : n \in 1 .. 7}
    \cup {[id |-> 2, value |-> TensorValue(9, FALSE)],
          [id |-> 3, value |-> ListValue(<<OkView(3)>>)]}

GemmOpSettings ==
  {[id |-> 1, value |-> [kind |-> "Gemm", computeType |-> t]] : t \in {0, 1}}
    \cup {[id |-> 1, value |-> [kind |-> "GroupedABGemm", computeType |-> 1]],
          [id |-> 3, value |-> [kind |-> "Gemm", computeType |-> 1]]}

-----------------------------------------------------------------------------
\* Two operations on the same inputs, with an output each.
TwinPattern ==
  [kinds |-> [x \in 1 .. 7 |-> "Tensor"],
   ops |-> <<Node("Gemm", Wiring(1, 2, 3, 4, 5, 6)), Node("Gemm", Wiring(1, 2, 3, 4, 5, 7))>>]

\* The caller numbers the operands from the outputs to the inputs.
TwinAdditions == {[kind |-> "Gemm", role |-> Wiring(7, 6, 5, 4, 3, d)] : d \in {1, 2}}

\* Each operation has attributes of its own.
TwinOpSettings == {[id |-> 2, value |-> [kind |-> "Gemm", computeType |-> 2]]}

-----------------------------------------------------------------------------
\* An operation with operands of every kind.
GroupedPattern ==
  [kinds |-> <<"TensorList", "GroupedTensor", "GroupedTensor", "Tensor", "Tensor", "GroupedTensor">>,
   ops |-> <<Node("GroupedBCDGemm", Wiring(1, 2, 3, 4, 5, 6))>>]

\* The caller adds the operands from the output to the inputs.
GroupedAdditions == {[kind |-> "GroupedBCDGemm", role |-> Wiring(6, 5, 4, 3, 2, 1)]}

\* A good value for each operand, and metadata for too many groups, of another
\* rank, and a view that is not ok.
GroupedOperandSettings ==
  {[id |-> n, value |-> GroupedValue(n, 2)] : n \in {1, 4, 5}}
    \cup {[id |-> 6, value |-> ListValue(views)] : views \in {<<>>, <<OkView(1), OkView(2)>>}}
    \cup {[id |-> 4, value |-> GroupedValue(4, 3)],
          [id |-> 4, value |-> [GroupedValue(4, 2) EXCEPT !.dimSizes = <<OkView(3)>>]],
          [id |-> 4, value |-> [GroupedValue(4, 2) EXCEPT !.strides = <<[ok |-> TRUE, dims |-> <<2, 2>>]>>]],
          [id |-> 6, value |-> ListValue(<<[ok |-> FALSE, dims |-> <<1>>]>>)]}

GroupedOpSettings == {[id |-> 1, value |-> [kind |-> "GroupedBCDGemm", computeType |-> 23]],
                      [id |-> 1, value |-> [kind |-> "GroupedBCDGemm", computeType |-> 24]]}

-----------------------------------------------------------------------------
AllFamilies == <<GemmFamilyPattern, TwinPattern, GroupedPattern>>

AllAdditions == GemmAdditions \cup TwinAdditions \cup GroupedAdditions

AllOperandSettings == GemmOperandSettings \cup GroupedOperandSettings

AllOpSettings == GemmOpSettings \cup TwinOpSettings \cup GroupedOpSettings

\* Bound: the caller describes one of the three graphs, complete or not.
Within(p, kinds, additions, numOps) ==
  /\ Len(p.kinds) <= Len(kinds) /\ \A y \in Operands(p) : p.kinds[y] = kinds[y]
  /\ Len(p.ops) <= numOps
  /\ \A o \in Ops(p) : \E a \in additions : p.ops[o] = Node(a.kind, a.role)

OneGraph ==
  pattern # None =>
    \/ Within(pattern, TwinPattern.kinds, GemmAdditions, 1)
    \/ Within(pattern, TwinPattern.kinds, TwinAdditions, 2)
    \/ Within(pattern, Reverse(GroupedPattern.kinds), GroupedAdditions, 1)
===============================================================================
