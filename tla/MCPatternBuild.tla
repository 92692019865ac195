---------------------------- MODULE MCPatternBuild ----------------------------
(* Instances of PatternBuild for TLC. *)
EXTENDS PatternBuild

Op(kind, inputs, outputs) == [kind |-> kind, inputs |-> inputs, outputs |-> outputs]

Builder(kinds, ops) == [kinds |-> kinds, ops |-> ops]

ThreeTensors == <<"tensor", "tensor", "tensor">>

\* Every way to wire two operations with two inputs and an output to three
\* operands, identifiers out of range included.
PairBuilders ==
  {Builder(ThreeTensors, <<Op("gemm", <<w[1], w[2]>>, <<w[3]>>), Op("gemm", <<w[4], w[5]>>, <<w[6]>>)>>) :
     w \in [1 .. 6 -> 1 .. 4]}

\* Three operations, each with an output of its own, and every choice of the
\* operands at their inputs: chains, fans, cycles and what hangs on them.
TripleBuilders ==
  {Builder(<<"tensor", "list", "tensor", "tensor", "tensor">>,
           <<Op("gemm", <<w[1], w[2]>>, <<3>>), Op("gemm", <<w[3]>>, <<4>>), Op("gemm", <<w[4]>>, <<5>>)>>) :
     w \in [1 .. 4 -> 1 .. 5]}

\* A chain takes a round of colors for each of its operations.
Chain(n) ==
  Builder([x \in 1 .. n + 1 |-> "tensor"], [o \in 1 .. n |-> Op("gemm", <<o>>, <<o + 1>>)])

MCBuilders == {Builder(<<>>, <<>>), Chain(5)} \cup PairBuilders \cup TripleBuilders
===============================================================================
