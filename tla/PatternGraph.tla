----------------------------- MODULE PatternGraph -----------------------------
(***************************************************************************)
(* The graphs of pattern.hpp and pattern.cpp as values, and the operators  *)
(* PatternBuilder and the Matcher share. A builder is a record             *)
(*   kinds : the kind of every operand, in the order they were added       *)
(*   ops   : the operations, each with its kind and the operands at its    *)
(*           ordered input and output ports                                *)
(* and a position in these sequences is what a PatternOperandId or a       *)
(* PatternOperationId holds. Positions count from 1. The code takes the    *)
(* number of an operation's ports from the operation, so operations here   *)
(* have as many as an instance gives them.                                 *)
(***************************************************************************)
EXTENDS Naturals, Sequences, FiniteSets

Operands(b) == DOMAIN b.kinds

Ops(b) == DOMAIN b.ops

InputPorts(b) ==
  UNION {{[op |-> o, port |-> i] : i \in DOMAIN b.ops[o].inputs} : o \in Ops(b)}

OutputPorts(b) ==
  UNION {{[op |-> o, port |-> i] : i \in DOMAIN b.ops[o].outputs} : o \in Ops(b)}

InputAt(b, q) == b.ops[q.op].inputs[q.port]

OutputAt(b, q) == b.ops[q.op].outputs[q.port]

\* The reverse topology: where an operand goes, and where it comes from.
Consumers(b, x) == {q \in InputPorts(b) : InputAt(b, q) = x}

Producers(b, x) == {q \in OutputPorts(b) : OutputAt(b, q) = x}

\* What buildPattern() demands of the operand IDs: in range, no operand twice
\* in one operation, and one producer at most.
WellFormed(b) ==
  /\ \A q \in InputPorts(b) : InputAt(b, q) \in Operands(b)
  /\ \A q, r \in InputPorts(b) : q.op = r.op /\ InputAt(b, q) = InputAt(b, r) => q = r
  /\ \A q \in OutputPorts(b) : OutputAt(b, q) \in Operands(b)
  /\ \A q \in InputPorts(b), r \in OutputPorts(b) : q.op = r.op => InputAt(b, q) # OutputAt(b, r)
  /\ \A q, r \in OutputPorts(b) : OutputAt(b, q) = OutputAt(b, r) => q = r

\* The input ports of o that operation p feeds.
FedPorts(b, p, o) ==
  {q \in InputPorts(b) : q.op = o /\ \E r \in Producers(b, InputAt(b, q)) : r.op = p}

FedByAny(b, o) == UNION {FedPorts(b, p, o) : p \in Ops(b)}

-----------------------------------------------------------------------------
(***************************************************************************)
(* Colors. A round gives each vertex the hash of its signature: the color  *)
(* it has, its kind and the colors next to it. The hash is taken to be     *)
(* free of collisions. Only the equality of colors is ever used, so a      *)
(* color here is the first vertex with the signature; colors of operands   *)
(* and of operations never meet, as their signatures are tagged.           *)
(***************************************************************************)
Bag(S, Value(_)) ==
  [v \in {Value(s) : s \in S} |-> Cardinality({s \in S : Value(s) = v})]

\* Mutant: the signature holds where the operand stands in the builder.
PlacedOperandSignature(b, colors, x) ==
  LET Seen(q) == <<q.port, colors.ops[q.op]>>
  IN  <<x, b.kinds[x], {Seen(q) : q \in Producers(b, x)}, Bag(Consumers(b, x), Seen)>>

\* The color, the kind, the producer's port and color, and the bag of the
\* consumers'.
OperandSignature(b, colors, x) ==
  LET Seen(q) == <<q.port, colors.ops[q.op]>>
  IN  <<colors.operands[x], b.kinds[x],
        {Seen(q) : q \in Producers(b, x)}, Bag(Consumers(b, x), Seen)>>

\* The order of the ports counts.
OpSignature(b, colors, o) ==
  LET op == b.ops[o]
  IN  <<colors.ops[o], op.kind, [i \in DOMAIN op.inputs |-> colors.operands[op.inputs[i]]],
        [i \in DOMAIN op.outputs |-> colors.operands[op.outputs[i]]]>>

\* Each vertex with the first of those with its signature.
FirstAlike(V, Signature(_)) ==
  LET signed == {<<Signature(v), v>> : v \in V}
      Alike(v) == {t[2] : t \in {t \in signed : <<t[1], v>> \in signed}}
  IN  [v \in V |-> CHOOSE u \in Alike(v) : \A w \in Alike(v) : u <= w]

Uncolored(b) ==
  [operands |-> [x \in Operands(b) |-> 0], ops |-> [o \in Ops(b) |-> 0]]

\* One round: what assignSignatureColors() makes of all the signatures.
Refine(b, colors) ==
  [operands |-> FirstAlike(Operands(b), LAMBDA x : OperandSignature(b, colors, x)),
   ops |-> FirstAlike(Ops(b), LAMBDA o : OpSignature(b, colors, o))]

NumVertices(b) == Len(b.kinds) + Len(b.ops)

CountColors(b, colors) ==
  Cardinality({colors.operands[x] : x \in Operands(b)})
    + Cardinality({colors.ops[o] : o \in Ops(b)})

\* Mutant: one round is held to be enough.
SettledAtOnce(b, count, refinedCount) == TRUE

\* The refinement ends when the number of colors did not grow, or cannot.
Settled(b, count, refinedCount) == refinedCount = count \/ refinedCount = NumVertices(b)

-----------------------------------------------------------------------------
(***************************************************************************)
(* The reference: what it means for two well-formed builders to have the   *)
(* same shape, stated without colors or search.                            *)
(***************************************************************************)
Isolated(b) == {x \in Operands(b) : Consumers(b, x) = {} /\ Producers(b, x) = {}}

\* The pairs of operands at equal ports when o of b stands for f[o] of c.
PortPairs(b, c, f) ==
  {<<InputAt(b, q), InputAt(c, [q EXCEPT !.op = f[q.op]])>> : q \in InputPorts(b)}
    \cup {<<OutputAt(b, q), OutputAt(c, [q EXCEPT !.op = f[q.op]])>> : q \in OutputPorts(b)}

\* f takes b onto c: operations go one to one to operations of their kind, and
\* the operands at their ports one to one to operands of theirs.
IsIsomorphism(b, c, f) ==
  /\ \A o, p \in Ops(b) : f[o] = f[p] => o = p
  /\ \A o \in Ops(b) :
       /\ b.ops[o].kind = c.ops[f[o]].kind
       /\ Len(b.ops[o].inputs) = Len(c.ops[f[o]].inputs)
       /\ Len(b.ops[o].outputs) = Len(c.ops[f[o]].outputs)
  /\ \A p, r \in PortPairs(b, c, f) : p[1] = r[1] <=> p[2] = r[2]
  /\ \A p \in PortPairs(b, c, f) : b.kinds[p[1]] = c.kinds[p[2]]

\* Operands at no port need only be as many of each kind.
SameShape(b, c) ==
  /\ Len(b.ops) = Len(c.ops)
  /\ Len(b.kinds) = Len(c.kinds)
  /\ \E f \in [Ops(b) -> Ops(c)] : IsIsomorphism(b, c, f)
  /\ LET inB == Isolated(b)
         inC == Isolated(c)
     IN  \A x \in Operands(b) :
           Cardinality({y \in inB : b.kinds[y] = b.kinds[x]})
             = Cardinality({y \in inC : c.kinds[y] = b.kinds[x]})

===============================================================================
