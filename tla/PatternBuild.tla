----------------------------- MODULE PatternBuild -----------------------------
(***************************************************************************)
(* PatternBuilder::buildPattern (pattern.cpp): check the operand IDs,      *)
(* reject dependency cycles by peeling operations that wait for nothing,   *)
(* and color the vertices until the number of colors is stable.            *)
(***************************************************************************)
EXTENDS PatternGraph

CONSTANTS
  Builders,   \* the builders a host may hand over
  None        \* no operation or operand was named

ASSUME BuildAssumption ==
  \A b \in Builders :
    /\ Len(b.kinds) \in Nat /\ Operands(b) = 1 .. Len(b.kinds)
    /\ Len(b.ops) \in Nat /\ Ops(b) = 1 .. Len(b.ops)
    /\ \A o \in Ops(b) : b.ops[o].inputs \in Seq(Nat) /\ b.ops[o].outputs \in Seq(Nat)

VARIABLES
  builder,    \* the builder being built
  pc,         \* the next part of buildPattern()
  inDegree,   \* remaining_in_degree
  peelable,   \* peelable_op_indices; the code takes the last, here any is
  numPeeled,  \* num_peeled_ops
  colors,     \* the colors of the last round
  numColors,  \* num_colors
  edge,       \* the operation and operand the exception about a cycle names
  outcome     \* "none", or how buildPattern() ended

vars == <<builder, pc, inDegree, peelable, numPeeled, colors, numColors, edge, outcome>>

NoEdge == [op |-> None, operand |-> None]

Init ==
  /\ builder \in Builders
  /\ pc = "validate"
  /\ inDegree = [o \in Ops(builder) |-> 0]
  /\ peelable = {}
  /\ numPeeled = 0
  /\ colors = Uncolored(builder)
  /\ numColors = 0
  /\ edge = NoEdge
  /\ outcome = "none"

End(status) == pc' = "done" /\ outcome' = status

-----------------------------------------------------------------------------
\* Every operand ID is checked before anything is derived from it.
Validate ==
  /\ pc = "validate"
  /\ \/ ~WellFormed(builder) /\ End("INVALID_ARGUMENT")
     \/ WellFormed(builder) /\ pc' = "degrees" /\ UNCHANGED outcome
  /\ UNCHANGED <<builder, inDegree, peelable, numPeeled, colors, numColors, edge>>

CountDegrees ==
  /\ pc = "degrees"
  /\ inDegree' = [o \in Ops(builder) |-> Cardinality(FedByAny(builder, o))]
  /\ peelable' = {o \in Ops(builder) : inDegree'[o] = 0}
  /\ numPeeled' = 0
  /\ pc' = "peel"
  /\ UNCHANGED <<builder, colors, numColors, edge, outcome>>

\* Mutant: a successor is peeled as soon as one of its inputs is there.
PeelEarly(o) ==
  /\ pc = "peel" /\ o \in peelable
  /\ inDegree' = [s \in Ops(builder) |-> IF FedPorts(builder, o, s) # {} THEN 0 ELSE inDegree[s]]
  /\ peelable' = (peelable \ {o}) \cup {s \in Ops(builder) : inDegree[s] > 0 /\ inDegree'[s] = 0}
  /\ numPeeled' = numPeeled + 1
  /\ UNCHANGED <<builder, pc, colors, numColors, edge, outcome>>

\* Mutant: every operation that waits for nothing is pushed, peeled or not.
PushAgain(o) ==
  /\ pc = "peel" /\ o \in peelable
  /\ inDegree' = [s \in Ops(builder) |-> inDegree[s] - Cardinality(FedPorts(builder, o, s))]
  /\ peelable' = {s \in Ops(builder) : inDegree'[s] = 0}
  /\ numPeeled' = numPeeled + 1
  /\ UNCHANGED <<builder, pc, colors, numColors, edge, outcome>>

\* Take a peelable operation away: each input port it feeds waits no longer.
Peel(o) ==
  /\ pc = "peel" /\ o \in peelable
  /\ inDegree' = [s \in Ops(builder) |-> inDegree[s] - Cardinality(FedPorts(builder, o, s))]
  /\ peelable' = (peelable \ {o}) \cup {s \in Ops(builder) : inDegree[s] > 0 /\ inDegree'[s] = 0}
  /\ numPeeled' = numPeeled + 1
  /\ UNCHANGED <<builder, pc, colors, numColors, edge, outcome>>

FinishPeeling ==
  /\ pc = "peel" /\ peelable = {}
  /\ pc' = IF numPeeled = Len(builder.ops) THEN "color" ELSE "name"
  /\ UNCHANGED <<builder, inDegree, peelable, numPeeled, colors, numColors, edge, outcome>>

Unpeeled == {o \in Ops(builder) : inDegree[o] # 0}

\* Mutant: the scan looks for producers that were peeled.
EdgesFromPeeled ==
  {q \in InputPorts(builder) :
     /\ q.op \in Unpeeled
     /\ \E r \in Producers(builder, InputAt(builder, q)) : r.op \notin Unpeeled}

\* The input ports of unpeeled operations that an unpeeled operation feeds.
CycleEdges ==
  {q \in InputPorts(builder) :
     /\ q.op \in Unpeeled
     /\ \E r \in Producers(builder, InputAt(builder, q)) : r.op \in Unpeeled}

\* The exception names the first of them, in the order of operations and
\* ports; with none left to name it is another exception.
NameEdge ==
  /\ pc = "name"
  /\ IF CycleEdges = {}
     THEN End("INTERNAL_ERROR") /\ UNCHANGED edge
     ELSE \E q \in CycleEdges :
            /\ \A r \in CycleEdges : q.op < r.op \/ (q.op = r.op /\ q.port <= r.port)
            /\ edge' = [op |-> q.op, operand |-> InputAt(builder, q)]
            /\ End("INVALID_ARGUMENT")
  /\ UNCHANGED <<builder, inDegree, peelable, numPeeled, colors, numColors>>

\* One round of the refinement.
Color ==
  LET refined == Refine(builder, colors)
      count == CountColors(builder, refined)
  IN  /\ pc = "color"
      /\ colors' = refined
      /\ \/ /\ Settled(builder, numColors, count)
            /\ End("SUCCESS")
            /\ UNCHANGED numColors
         \/ /\ ~Settled(builder, numColors, count)
            /\ numColors' = count
            /\ UNCHANGED <<pc, outcome>>
      /\ UNCHANGED <<builder, inDegree, peelable, numPeeled, edge>>

Next ==
  \/ Validate \/ CountDegrees \/ (\E o \in Ops(builder) : Peel(o)) \/ FinishPeeling
  \/ NameEdge \/ Color
  \/ pc = "done" /\ UNCHANGED vars

Spec == Init /\ [][Next]_vars

-----------------------------------------------------------------------------
\* Every variable keeps its type; no degree falls below zero and nothing is
\* peeled twice.
TypeOK ==
  /\ pc \in {"validate", "degrees", "peel", "name", "color", "done"}
  /\ inDegree \in [Ops(builder) -> Nat]
  /\ peelable \subseteq Ops(builder)
  /\ numPeeled \in 0 .. Len(builder.ops)
  /\ numColors \in 0 .. NumVertices(builder)
  /\ edge.op \in Ops(builder) \cup {None}
  /\ edge.operand \in Operands(builder) \cup {None}
  /\ outcome \in {"none", "SUCCESS", "INVALID_ARGUMENT", "INTERNAL_ERROR"}

\* A set of operations each of which waits for another of the set.
Blocked(b, S) ==
  S # {} /\ \A o \in S : \E p \in S : FedPorts(b, p, o) # {}

\* A pattern is built from a builder exactly when its operand IDs are sound
\* and no operation depends on itself through others (pattern.cpp:198-202).
AcceptsExactlyDags ==
  pc = "done" =>
    (outcome = "SUCCESS" <=>
       WellFormed(builder) /\ \A S \in SUBSET Ops(builder) : ~Blocked(builder, S))

\* pattern.cpp:240-241: "Every unpeeled operation has an incoming edge from
\* another unpeeled producer, so the scan above always names one".
AlwaysNamesEdge == outcome # "INTERNAL_ERROR"

\* The colors a pattern is built with are stable: another round would tell
\* no two vertices apart that have the same color, although the refinement
\* looks at the number of colors only.
ColorsStable ==
  outcome = "SUCCESS" =>
    LET next == Refine(builder, colors)
    IN  /\ \A x, y \in Operands(builder) :
             colors.operands[x] = colors.operands[y] => next.operands[x] = next.operands[y]
        /\ \A o, p \in Ops(builder) : colors.ops[o] = colors.ops[p] => next.ops[o] = next.ops[p]

\* Vertices a symmetry of the pattern exchanges have the same color, whatever
\* their places in the builder: colors depend on the shape alone.
ColorsKeepSymmetry ==
  outcome = "SUCCESS" =>
    \A f \in [Ops(builder) -> Ops(builder)] :
      IsIsomorphism(builder, builder, f) =>
        /\ \A o \in Ops(builder) : colors.ops[f[o]] = colors.ops[o]
        /\ \A p \in PortPairs(builder, builder, f) :
             colors.operands[p[1]] = colors.operands[p[2]]

===============================================================================
