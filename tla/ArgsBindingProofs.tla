--------------------------- MODULE ArgsBindingProofs ---------------------------
(***************************************************************************)
(* Theorems about ArgsBinding, for all engines, settings and handles: what *)
(* a Plan reads is set and of the right kind, and the caller sees values   *)
(* under its own IDs.                                                      *)
(*                                                                         *)
(* The argument is that the map between two patterns of the same shape is  *)
(* a bijection that keeps kinds and takes the operand at a port to the     *)
(* operand at the port it faces. It is one to one because an isomorphism   *)
(* is, and onto because every operand of an engine's pattern is at a port  *)
(* and as many operations leave none out.                                  *)
(***************************************************************************)
EXTENDS ArgsBinding, TLAPS, FiniteSetTheorems

\* The operations at whose ports the caller's u meets the engine's c.
Meet(u, c, f) ==
  /\ u \in BuilderType /\ c \in BuilderType
  /\ WellFormed(u) /\ WellFormed(c) /\ Isolated(c) = {} /\ SameShape(u, c)
  /\ f \in [Ops(u) -> Ops(c)] /\ IsIsomorphism(u, c, f)

Facing(f, q) == [q EXCEPT !.op = f[q.op]]

-----------------------------------------------------------------------------
(* Facts about patterns. *)

LEMMA BuilderFacts ==
  ASSUME NEW b \in BuilderType
  PROVE  /\ b.kinds \in Seq(OperandKinds) /\ b.ops \in Seq(Nodes)
         /\ Len(b.kinds) \in Nat /\ Operands(b) = 1 .. Len(b.kinds)
         /\ Len(b.ops) \in Nat /\ Ops(b) = 1 .. Len(b.ops)
         /\ \A o \in Ops(b) : /\ b.ops[o] \in Nodes
                              /\ DOMAIN b.ops[o].inputs = 1 .. Len(b.ops[o].inputs)
                              /\ DOMAIN b.ops[o].outputs = 1 .. Len(b.ops[o].outputs)
         /\ IsFiniteSet(Ops(b)) /\ Cardinality(Ops(b)) = Len(b.ops)
         /\ IsFiniteSet(Operands(b))
<1>1. /\ b.kinds \in Seq(OperandKinds) /\ b.ops \in Seq(Nodes)
      /\ Len(b.kinds) \in Nat /\ Operands(b) = 1 .. Len(b.kinds)
      /\ Len(b.ops) \in Nat /\ Ops(b) = 1 .. Len(b.ops)
  BY DEF BuilderType, Operands, Ops
<1>2. \A o \in Ops(b) : b.ops[o] \in Nodes
  BY <1>1
<1>3. \A n \in Nodes : /\ DOMAIN n.inputs = 1 .. Len(n.inputs)
                       /\ DOMAIN n.outputs = 1 .. Len(n.outputs)
  BY DEF Nodes
<1>4. IsFiniteSet(1 .. Len(b.ops)) /\ Cardinality(1 .. Len(b.ops)) = Len(b.ops)
  BY <1>1, FS_Interval
<1>5. IsFiniteSet(1 .. Len(b.kinds))
  BY <1>1, FS_Interval
<1> QED BY <1>1, <1>2, <1>3, <1>4, <1>5

LEMMA Ports ==
  ASSUME NEW b
  PROVE  /\ \A q \in InputPorts(b) : /\ q = [op |-> q.op, port |-> q.port] /\ q.op \in Ops(b)
                                     /\ q.port \in DOMAIN b.ops[q.op].inputs
         /\ \A q \in OutputPorts(b) : /\ q = [op |-> q.op, port |-> q.port] /\ q.op \in Ops(b)
                                      /\ q.port \in DOMAIN b.ops[q.op].outputs
         /\ \A o \in Ops(b) : \A i \in DOMAIN b.ops[o].inputs :
              /\ [op |-> o, port |-> i] \in InputPorts(b)
              /\ InputAt(b, [op |-> o, port |-> i]) = b.ops[o].inputs[i]
         /\ \A o \in Ops(b) : \A i \in DOMAIN b.ops[o].outputs :
              /\ [op |-> o, port |-> i] \in OutputPorts(b)
              /\ OutputAt(b, [op |-> o, port |-> i]) = b.ops[o].outputs[i]
<1>1. /\ \A q \in InputPorts(b) : \E o \in Ops(b) : \E i \in DOMAIN b.ops[o].inputs :
            q = [op |-> o, port |-> i]
      /\ \A o \in Ops(b) : \A i \in DOMAIN b.ops[o].inputs : [op |-> o, port |-> i] \in InputPorts(b)
  BY DEF InputPorts
<1>2. /\ \A q \in OutputPorts(b) : \E o \in Ops(b) : \E i \in DOMAIN b.ops[o].outputs :
            q = [op |-> o, port |-> i]
      /\ \A o \in Ops(b) : \A i \in DOMAIN b.ops[o].outputs : [op |-> o, port |-> i] \in OutputPorts(b)
  BY DEF OutputPorts
<1> QED BY <1>1, <1>2 DEF InputAt, OutputAt

LEMMA PortOperands ==
  ASSUME NEW c, WellFormed(c), NEW o \in Ops(c)
  PROVE  /\ \A i \in DOMAIN c.ops[o].inputs : c.ops[o].inputs[i] \in Operands(c)
         /\ \A i \in DOMAIN c.ops[o].outputs : c.ops[o].outputs[i] \in Operands(c)
<1>1. \A i \in DOMAIN c.ops[o].inputs :
        /\ [op |-> o, port |-> i] \in InputPorts(c)
        /\ InputAt(c, [op |-> o, port |-> i]) = c.ops[o].inputs[i]
  BY Ports
<1>2. \A i \in DOMAIN c.ops[o].outputs :
        /\ [op |-> o, port |-> i] \in OutputPorts(c)
        /\ OutputAt(c, [op |-> o, port |-> i]) = c.ops[o].outputs[i]
  BY Ports
<1>3. /\ \A q \in InputPorts(c) : InputAt(c, q) \in Operands(c)
      /\ \A q \in OutputPorts(c) : OutputAt(c, q) \in Operands(c)
  BY DEF WellFormed
<1> QED BY <1>1, <1>2, <1>3

\* The port a port faces is a port, and the operands at them are a pair.
LEMMA PortsFace ==
  ASSUME NEW u, NEW c, NEW f, Meet(u, c, f)
  PROVE  /\ \A q \in InputPorts(u) :
              /\ Facing(f, q) = [op |-> f[q.op], port |-> q.port]
              /\ Facing(f, q) \in InputPorts(c)
              /\ <<InputAt(u, q), InputAt(c, Facing(f, q))>> \in PortPairs(u, c, f)
         /\ \A q \in OutputPorts(u) :
              /\ Facing(f, q) = [op |-> f[q.op], port |-> q.port]
              /\ Facing(f, q) \in OutputPorts(c)
              /\ <<OutputAt(u, q), OutputAt(c, Facing(f, q))>> \in PortPairs(u, c, f)
<1>1. \A o \in Ops(u) : /\ f[o] \in Ops(c)
                        /\ DOMAIN u.ops[o].inputs = DOMAIN c.ops[f[o]].inputs
                        /\ DOMAIN u.ops[o].outputs = DOMAIN c.ops[f[o]].outputs
  <2>1. SUFFICES ASSUME NEW o \in Ops(u)
                 PROVE  /\ f[o] \in Ops(c)
                        /\ DOMAIN u.ops[o].inputs = DOMAIN c.ops[f[o]].inputs
                        /\ DOMAIN u.ops[o].outputs = DOMAIN c.ops[f[o]].outputs
    OBVIOUS
  <2>2. f[o] \in Ops(c)
    BY DEF Meet
  <2>3. /\ Len(u.ops[o].inputs) = Len(c.ops[f[o]].inputs)
        /\ Len(u.ops[o].outputs) = Len(c.ops[f[o]].outputs)
    BY DEF Meet, IsIsomorphism
  <2> QED BY <2>2, <2>3, BuilderFacts DEF Meet
<1>2. ASSUME NEW q \in InputPorts(u)
      PROVE  /\ Facing(f, q) = [op |-> f[q.op], port |-> q.port]
             /\ Facing(f, q) \in InputPorts(c)
             /\ <<InputAt(u, q), InputAt(c, Facing(f, q))>> \in PortPairs(u, c, f)
  <2>1. q = [op |-> q.op, port |-> q.port] /\ q.op \in Ops(u) /\ q.port \in DOMAIN u.ops[q.op].inputs
    BY Ports
  <2>2. Facing(f, q) = [op |-> f[q.op], port |-> q.port]
    BY <2>1 DEF Facing
  <2>3. Facing(f, q) \in InputPorts(c)
    BY <1>1, <2>1, <2>2, Ports
  <2> QED BY <2>2, <2>3 DEF PortPairs, Facing
<1>3. ASSUME NEW q \in OutputPorts(u)
      PROVE  /\ Facing(f, q) = [op |-> f[q.op], port |-> q.port]
             /\ Facing(f, q) \in OutputPorts(c)
             /\ <<OutputAt(u, q), OutputAt(c, Facing(f, q))>> \in PortPairs(u, c, f)
  <2>1. q = [op |-> q.op, port |-> q.port] /\ q.op \in Ops(u) /\ q.port \in DOMAIN u.ops[q.op].outputs
    BY Ports
  <2>2. Facing(f, q) = [op |-> f[q.op], port |-> q.port]
    BY <2>1 DEF Facing
  <2>3. Facing(f, q) \in OutputPorts(c)
    BY <1>1, <2>1, <2>2, Ports
  <2> QED BY <2>2, <2>3 DEF PortPairs, Facing
<1> QED BY <1>2, <1>3

\* Pairs are of operands of the two patterns, and of one kind.
LEMMA PairsFit ==
  ASSUME NEW u, NEW c, NEW f, Meet(u, c, f), NEW p \in PortPairs(u, c, f)
  PROVE  /\ p = <<p[1], p[2]>> /\ p[1] \in Operands(u) /\ p[2] \in Operands(c)
         /\ u.kinds[p[1]] = c.kinds[p[2]]
         /\ \A r \in PortPairs(u, c, f) : p[1] = r[1] <=> p[2] = r[2]
<1>1. \/ \E q \in InputPorts(u) : p = <<InputAt(u, q), InputAt(c, Facing(f, q))>>
      \/ \E q \in OutputPorts(u) : p = <<OutputAt(u, q), OutputAt(c, Facing(f, q))>>
  BY DEF PortPairs, Facing
<1>2. /\ \A q \in InputPorts(u) : InputAt(u, q) \in Operands(u)
      /\ \A q \in OutputPorts(u) : OutputAt(u, q) \in Operands(u)
      /\ \A q \in InputPorts(c) : InputAt(c, q) \in Operands(c)
      /\ \A q \in OutputPorts(c) : OutputAt(c, q) \in Operands(c)
  BY DEF Meet, WellFormed
<1>3. p = <<p[1], p[2]>> /\ p[1] \in Operands(u) /\ p[2] \in Operands(c)
  BY <1>1, <1>2, PortsFace
<1>4. /\ u.kinds[p[1]] = c.kinds[p[2]]
      /\ \A r \in PortPairs(u, c, f) : p[1] = r[1] <=> p[2] = r[2]
  BY DEF Meet, IsIsomorphism
<1> QED BY <1>3, <1>4

-----------------------------------------------------------------------------
(* The map is a bijection. *)

\* None of the caller's operands is left without a port either.
LEMMA CallersConnected ==
  ASSUME NEW u, NEW c, NEW f, Meet(u, c, f)
  PROVE  \A y \in Operands(u) : Consumers(u, y) # {} \/ Producers(u, y) # {}
<1>1. SUFFICES ASSUME NEW y \in Operands(u), y \in Isolated(u) PROVE FALSE
  BY DEF Isolated
<1> DEFINE alone == {z \in Isolated(u) : u.kinds[z] = u.kinds[y]}
<1> DEFINE twins == {z \in Isolated(c) : c.kinds[z] = u.kinds[y]}
<1>2. Cardinality(alone) = Cardinality(twins)
  BY DEF Meet, SameShape
<1>3. twins = {}
  BY DEF Meet
<1>4. IsFiniteSet(alone)
  <2>1. alone \subseteq Operands(u)
    BY DEF Isolated
  <2>2. IsFiniteSet(Operands(u))
    BY BuilderFacts DEF Meet
  <2> HIDE DEF alone
  <2> QED BY <2>1, <2>2, FS_Subset
<1>5. y \in alone
  BY <1>1
<1> HIDE DEF alone, twins
<1>6. Cardinality(alone) = 0
  BY <1>2, <1>3, FS_EmptySet
<1> QED BY <1>4, <1>5, <1>6, FS_EmptySet

\* At the pairs the map is what the ports say.
LEMMA MapAtPairs ==
  ASSUME NEW u, NEW c, NEW f, Meet(u, c, f), NEW p \in PortPairs(u, c, f)
  PROVE  OperandMap(u, c, f)[p[1]] = p[2]
<1> DEFINE y == p[1]
<1> DEFINE x == CHOOSE x \in Operands(c) : <<y, x>> \in PortPairs(u, c, f)
<1>1. p = <<p[1], p[2]>> /\ p[1] \in Operands(u) /\ p[2] \in Operands(c)
  BY PairsFit
<1>2. \E z \in Operands(c) : <<y, z>> \in PortPairs(u, c, f)
  BY <1>1
<1>3. x \in Operands(c) /\ <<y, x>> \in PortPairs(u, c, f)
  BY <1>2
<1>4. OperandMap(u, c, f)[p[1]] = x
  BY <1>1 DEF OperandMap
<1> HIDE DEF x
<1>5. \A r \in PortPairs(u, c, f) : p[1] = r[1] <=> p[2] = r[2]
  BY PairsFit
<1>6. p[2] = <<y, x>>[2]
  BY <1>3, <1>5
<1> QED BY <1>4, <1>6

LEMMA EveryOperandPaired ==
  ASSUME NEW u, NEW c, NEW f, Meet(u, c, f), NEW y \in Operands(u)
  PROVE  \E p \in PortPairs(u, c, f) : p[1] = y
<1>1. CASE Consumers(u, y) # {}
  <2>1. PICK q \in InputPorts(u) : InputAt(u, q) = y
    BY <1>1 DEF Consumers
  <2>2. <<InputAt(u, q), InputAt(c, Facing(f, q))>> \in PortPairs(u, c, f)
    BY PortsFace
  <2> QED BY <2>1, <2>2
<1>2. CASE Producers(u, y) # {}
  <2>1. PICK q \in OutputPorts(u) : OutputAt(u, q) = y
    BY <1>2 DEF Producers
  <2>2. <<OutputAt(u, q), OutputAt(c, Facing(f, q))>> \in PortPairs(u, c, f)
    BY PortsFace
  <2> QED BY <2>1, <2>2
<1> QED BY <1>1, <1>2, CallersConnected

\* The operations: as many, one to one, so each of the engine's is met.
LEMMA OpsOnto ==
  ASSUME NEW u, NEW c, NEW f, Meet(u, c, f)
  PROVE  /\ \A o, p \in Ops(u) : f[o] = f[p] => o = p
         /\ \A o \in Ops(c) : \E v \in Ops(u) : f[v] = o
         /\ \A v \in Ops(u) : u.ops[v].kind = c.ops[f[v]].kind
<1>1. /\ \A o, p \in Ops(u) : f[o] = f[p] => o = p
      /\ \A v \in Ops(u) : u.ops[v].kind = c.ops[f[v]].kind
  BY DEF Meet, IsIsomorphism
<1>2. f \in Injection(Ops(u), Ops(c))
  BY <1>1 DEF Meet, Injection, IsInjective
<1>3. /\ IsFiniteSet(Ops(c)) /\ Cardinality(Ops(c)) = Len(c.ops)
      /\ Cardinality(Ops(u)) = Len(u.ops)
  BY BuilderFacts DEF Meet
<1>4. Len(u.ops) = Len(c.ops)
  BY DEF Meet, SameShape
<1>5. f \in Surjection(Ops(u), Ops(c))
  BY <1>2, <1>3, <1>4, FS_Injection
<1> QED BY <1>1, <1>5 DEF Surjection

LEMMA EverySlotPaired ==
  ASSUME NEW u, NEW c, NEW f, Meet(u, c, f), NEW x \in Operands(c)
  PROVE  \E p \in PortPairs(u, c, f) : p[2] = x
<1>0. Consumers(c, x) # {} \/ Producers(c, x) # {}
  BY DEF Meet, Isolated
<1>a. \A o \in Ops(u) : /\ DOMAIN u.ops[o].inputs = DOMAIN c.ops[f[o]].inputs
                        /\ DOMAIN u.ops[o].outputs = DOMAIN c.ops[f[o]].outputs
  <2>1. SUFFICES ASSUME NEW o \in Ops(u)
                 PROVE  /\ DOMAIN u.ops[o].inputs = DOMAIN c.ops[f[o]].inputs
                        /\ DOMAIN u.ops[o].outputs = DOMAIN c.ops[f[o]].outputs
    OBVIOUS
  <2>2. f[o] \in Ops(c) /\ Len(u.ops[o].inputs) = Len(c.ops[f[o]].inputs)
        /\ Len(u.ops[o].outputs) = Len(c.ops[f[o]].outputs)
    BY DEF Meet, IsIsomorphism
  <2> QED BY <2>2, BuilderFacts DEF Meet
<1>1. CASE Consumers(c, x) # {}
  <2>1. PICK q \in InputPorts(c) : InputAt(c, q) = x
    BY <1>1 DEF Consumers
  <2>2. q = [op |-> q.op, port |-> q.port] /\ q.op \in Ops(c) /\ q.port \in DOMAIN c.ops[q.op].inputs
    BY Ports
  <2>3. PICK v \in Ops(u) : f[v] = q.op
    BY <2>2, OpsOnto
  <2> DEFINE r == [op |-> v, port |-> q.port]
  <2>4. r \in InputPorts(u)
    BY <1>a, <2>2, <2>3, Ports
  <2>5. Facing(f, r) = q
    BY <2>2, <2>3 DEF Facing
  <2>6. <<InputAt(u, r), InputAt(c, q)>> \in PortPairs(u, c, f)
    BY <2>4, <2>5, PortsFace
  <2> QED BY <2>1, <2>6
<1>2. CASE Producers(c, x) # {}
  <2>1. PICK q \in OutputPorts(c) : OutputAt(c, q) = x
    BY <1>2 DEF Producers
  <2>2. q = [op |-> q.op, port |-> q.port] /\ q.op \in Ops(c) /\ q.port \in DOMAIN c.ops[q.op].outputs
    BY Ports
  <2>3. PICK v \in Ops(u) : f[v] = q.op
    BY <2>2, OpsOnto
  <2> DEFINE r == [op |-> v, port |-> q.port]
  <2>4. r \in OutputPorts(u)
    BY <1>a, <2>2, <2>3, Ports
  <2>5. Facing(f, r) = q
    BY <2>2, <2>3 DEF Facing
  <2>6. <<OutputAt(u, r), OutputAt(c, q)>> \in PortPairs(u, c, f)
    BY <2>4, <2>5, PortsFace
  <2> QED BY <2>1, <2>6
<1> QED BY <1>0, <1>1, <1>2

\* What the setters and the engine rely on.
LEMMA MapIsBijection ==
  ASSUME NEW u, NEW c, NEW f, Meet(u, c, f), NEW m, m = OperandMap(u, c, f)
  PROVE  /\ m \in [Operands(u) -> Operands(c)]
         /\ \A y, z \in Operands(u) : m[y] = m[z] => y = z
         /\ \A x \in Operands(c) : \E y \in Operands(u) : m[y] = x
         /\ \A y \in Operands(u) : u.kinds[y] = c.kinds[m[y]]
<1>1. \A y \in Operands(u) :
        /\ m[y] \in Operands(c) /\ u.kinds[y] = c.kinds[m[y]]
        /\ <<y, m[y]>> \in PortPairs(u, c, f)
  <2>1. TAKE y \in Operands(u)
  <2>2. PICK p \in PortPairs(u, c, f) : p[1] = y
    BY EveryOperandPaired
  <2>3. m[y] = p[2]
    BY <2>2, MapAtPairs
  <2> QED BY <2>2, <2>3, PairsFit
<1>2. m \in [Operands(u) -> Operands(c)]
  BY <1>1 DEF OperandMap
<1>3. \A y, z \in Operands(u) : m[y] = m[z] => y = z
  <2>1. TAKE y, z \in Operands(u)
  <2>2. HAVE m[y] = m[z]
  <2>3. <<y, m[y]>> \in PortPairs(u, c, f) /\ <<z, m[z]>> \in PortPairs(u, c, f)
    BY <1>1
  <2>4. \A r \in PortPairs(u, c, f) : <<y, m[y]>>[1] = r[1] <=> <<y, m[y]>>[2] = r[2]
    BY <2>3, PairsFit
  <2>5. <<y, m[y]>>[1] = <<z, m[z]>>[1] <=> <<y, m[y]>>[2] = <<z, m[z]>>[2]
    BY <2>3, <2>4
  <2> QED BY <2>2, <2>5
<1>4. \A x \in Operands(c) : \E y \in Operands(u) : m[y] = x
  <2>1. TAKE x \in Operands(c)
  <2>2. PICK p \in PortPairs(u, c, f) : p[2] = x
    BY EverySlotPaired
  <2> QED BY <2>2, MapAtPairs, PairsFit
<1> QED BY <1>1, <1>2, <1>3, <1>4

\* At equal ports stand an operand and the one the map gives it.
LEMMA MapAtPorts ==
  ASSUME NEW u, NEW c, NEW f, Meet(u, c, f), NEW m, m = OperandMap(u, c, f), NEW v \in Ops(u)
  PROVE  /\ DOMAIN u.ops[v].inputs = DOMAIN c.ops[f[v]].inputs
         /\ DOMAIN u.ops[v].outputs = DOMAIN c.ops[f[v]].outputs
         /\ \A i \in DOMAIN u.ops[v].inputs :
              u.ops[v].inputs[i] \in Operands(u) /\ m[u.ops[v].inputs[i]] = c.ops[f[v]].inputs[i]
         /\ \A i \in DOMAIN u.ops[v].outputs :
              u.ops[v].outputs[i] \in Operands(u) /\ m[u.ops[v].outputs[i]] = c.ops[f[v]].outputs[i]
<1>1. /\ f[v] \in Ops(c)
      /\ DOMAIN u.ops[v].inputs = DOMAIN c.ops[f[v]].inputs
      /\ DOMAIN u.ops[v].outputs = DOMAIN c.ops[f[v]].outputs
  <2>1. f[v] \in Ops(c) /\ Len(u.ops[v].inputs) = Len(c.ops[f[v]].inputs)
        /\ Len(u.ops[v].outputs) = Len(c.ops[f[v]].outputs)
    BY DEF Meet, IsIsomorphism
  <2> QED BY <2>1, BuilderFacts DEF Meet
<1>2. ASSUME NEW i \in DOMAIN u.ops[v].inputs
      PROVE  u.ops[v].inputs[i] \in Operands(u) /\ m[u.ops[v].inputs[i]] = c.ops[f[v]].inputs[i]
  <2> DEFINE q == [op |-> v, port |-> i]
  <2> DEFINE p == <<InputAt(u, q), InputAt(c, Facing(f, q))>>
  <2>1. q \in InputPorts(u) /\ InputAt(u, q) = u.ops[v].inputs[i]
    BY Ports
  <2>2. Facing(f, q) = [op |-> f[v], port |-> i] /\ p \in PortPairs(u, c, f)
    BY <2>1, PortsFace
  <2>3. InputAt(c, Facing(f, q)) = c.ops[f[v]].inputs[i]
    BY <1>1, <2>2, Ports
  <2>4. m[p[1]] = p[2] /\ p[1] \in Operands(u)
    BY <2>2, MapAtPairs, PairsFit
  <2> QED BY <2>1, <2>3, <2>4
<1>3. ASSUME NEW i \in DOMAIN u.ops[v].outputs
      PROVE  u.ops[v].outputs[i] \in Operands(u) /\ m[u.ops[v].outputs[i]] = c.ops[f[v]].outputs[i]
  <2> DEFINE q == [op |-> v, port |-> i]
  <2> DEFINE p == <<OutputAt(u, q), OutputAt(c, Facing(f, q))>>
  <2>1. q \in OutputPorts(u) /\ OutputAt(u, q) = u.ops[v].outputs[i]
    BY Ports
  <2>2. Facing(f, q) = [op |-> f[v], port |-> i] /\ p \in PortPairs(u, c, f)
    BY <2>1, PortsFace
  <2>3. OutputAt(c, Facing(f, q)) = c.ops[f[v]].outputs[i]
    BY <1>1, <2>2, Ports
  <2>4. m[p[1]] = p[2] /\ p[1] \in Operands(u)
    BY <2>2, MapAtPairs, PairsFit
  <2> QED BY <2>1, <2>3, <2>4
<1> QED BY <1>1, <1>2, <1>3

-----------------------------------------------------------------------------
(* The inductive invariant. *)

\* The match is the one the ports make.
Matched(match) ==
  /\ Fits(match)
  /\ Meet(match.user, Supporting(match), match.opOf)
  /\ match.operandOf = OperandMap(match.user, Supporting(match), match.opOf)

SlotsRight(c, operands, attributes) ==
  /\ operands \in [Operands(c) -> Value \cup {None}]
  /\ attributes \in [Ops(c) -> Attributes \cup {None}]
  /\ \A x \in Operands(c) :
       operands[x] # None => operands[x].kind = c.kinds[x] /\ Sound(operands[x])
  /\ \A o \in Ops(c) :
       attributes[o] # None => attributes[o].kind = c.ops[o].kind /\ Computes(attributes[o])

ArgsRight(a) ==
  /\ Matched(a.of)
  /\ a = [of |-> a.of, operands |-> a.operands, attributes |-> a.attributes]
  /\ SlotsRight(Supporting(a.of), a.operands, a.attributes)

PlanRight(p) ==
  LET c == Supporting(p.of)
  IN  /\ Matched(p.of)
      /\ p = [of |-> p.of, problem |-> p.problem] /\ p.problem \in Problems
      /\ DOMAIN p.problem.inputs = Ops(c) /\ DOMAIN p.problem.outputs = Ops(c)
      /\ DOMAIN p.problem.attributes = Ops(c)

BindingInv ==
  /\ pattern \in BuilderType \cup {None} /\ created \in 0 .. MaxPatterns
  /\ status \in Statuses
  /\ ops # None => Matched(ops)
  /\ DOMAIN args = Handles
  /\ \A h \in Handles : args[h] # None => ArgsRight(args[h])
  /\ plan # None => PlanRight(plan)
  /\ ReadsRightVariants

LEMMA FamilyFacts ==
  ASSUME NEW e \in DOMAIN Families
  PROVE  /\ Families[e] \in BuilderType /\ WellFormed(Families[e]) /\ Isolated(Families[e]) = {}
         /\ e \in Nat
  BY FamilyAssumption

LEMMA IsSequence ==
  ASSUME NEW n \in Nat, NEW S, NEW s \in [1 .. n -> S]
  PROVE  s \in Seq(S)
  OBVIOUS

LEMMA NotNull ==
  /\ \A v \in Value : v # None
  /\ \A v \in Attributes : v # None
  /\ \A match \in Matches : match # None
  BY NullAssumption

-----------------------------------------------------------------------------
(* What the operations make is right. *)

LEMMA MatchesAreRight ==
  ASSUME NEW u \in BuilderType, Supported(u), NEW e \in EnginesOf(u),
         NEW f \in [Ops(u) -> Ops(Families[e])], IsIsomorphism(u, Families[e], f),
         NEW match,
         match = [user |-> u, engine |-> e, operandOf |-> OperandMap(u, Families[e], f), opOf |-> f]
  PROVE  Matched(match)
<1> DEFINE c == Families[e]
<1>1. /\ e \in DOMAIN Families /\ c \in BuilderType /\ WellFormed(c) /\ Isolated(c) = {} /\ e \in Nat
      /\ SameShape(u, c) /\ WellFormed(u)
  BY FamilyFacts DEF EnginesOf, Supported
<1>2. Meet(u, c, f)
  BY <1>1 DEF Meet
<1>3. /\ match.user = u /\ match.engine = e /\ match.operandOf = OperandMap(u, c, f) /\ match.opOf = f
      /\ Supporting(match) = c
  BY DEF Supporting
<1>4. OperandMap(u, c, f) \in [Operands(u) -> Operands(c)]
  BY <1>2, MapIsBijection
<1> HIDE DEF c
<1>5. /\ Len(u.kinds) \in Nat /\ Operands(u) = 1 .. Len(u.kinds) /\ Operands(c) \subseteq Nat
      /\ Len(u.ops) \in Nat /\ Ops(u) = 1 .. Len(u.ops) /\ Ops(c) \subseteq Nat
  BY <1>1, BuilderFacts
<1>6. OperandMap(u, c, f) \in [1 .. Len(u.kinds) -> Nat] /\ f \in [1 .. Len(u.ops) -> Nat]
  BY <1>4, <1>5, f \in [Ops(u) -> Ops(c)] DEF c
<1>7. OperandMap(u, c, f) \in Seq(Nat) /\ f \in Seq(Nat)
  BY <1>5, <1>6, IsSequence
<1>8. match \in Matches
  BY <1>1, <1>3, <1>7 DEF Matches, c
<1> QED BY <1>1, <1>2, <1>3, <1>4, <1>8 DEF Matched, Fits, c

LEMMA EmptyArgsAreRight ==
  ASSUME NEW match, Matched(match)
  PROVE  ArgsRight(EmptyArgs(match))
  BY DEF ArgsRight, EmptyArgs, SlotsRight

\* A setter that finds its slot.
LEMMA OperandSet ==
  ASSUME NEW a, ArgsRight(a), NEW s \in OperandSettings, Sound(s.value),
         MapUserOperand(a, s.id, s.value.kind) = "SUCCESS",
         NEW b, b = [a EXCEPT !.operands[OperandSlot(a, s.id)] = s.value]
  PROVE  /\ ArgsRight(b)
         /\ b = [of |-> a.of, attributes |-> a.attributes,
                 operands |-> [a.operands EXCEPT ![OperandSlot(a, s.id)] = s.value]]
<1> DEFINE c == Supporting(a.of)
<1> DEFINE x == OperandSlot(a, s.id)
<1>1. x \in DOMAIN a.operands /\ c.kinds[x] = s.value.kind
  BY DEF MapUserOperand
<1>2. DOMAIN a.operands = Operands(c)
  BY DEF ArgsRight, SlotsRight
<1>3. s.value \in Value
  BY SettingAssumption
<1>4. b = [of |-> a.of, attributes |-> a.attributes, operands |-> [a.operands EXCEPT ![x] = s.value]]
  BY DEF ArgsRight
<1> HIDE DEF x, c
<1>5. SlotsRight(c, [a.operands EXCEPT ![x] = s.value], a.attributes)
  BY <1>1, <1>2, <1>3 DEF ArgsRight, SlotsRight, c
<1> QED BY <1>4, <1>5 DEF ArgsRight, c, x

LEMMA OperationSet ==
  ASSUME NEW a, ArgsRight(a), NEW s \in OpSettings, Computes(s.value),
         MapUserOp(a, s.id, s.value.kind) = "SUCCESS",
         NEW b, b = [a EXCEPT !.attributes[OpSlot(a, s.id)] = s.value]
  PROVE  /\ ArgsRight(b)
         /\ b = [of |-> a.of, operands |-> a.operands,
                 attributes |-> [a.attributes EXCEPT ![OpSlot(a, s.id)] = s.value]]
<1> DEFINE c == Supporting(a.of)
<1> DEFINE o == OpSlot(a, s.id)
<1>1. o \in DOMAIN a.attributes /\ c.ops[o].kind = s.value.kind
  BY DEF MapUserOp
<1>2. DOMAIN a.attributes = Ops(c)
  BY DEF ArgsRight, SlotsRight
<1>3. s.value \in Attributes
  BY SettingAssumption
<1>4. b = [of |-> a.of, operands |-> a.operands, attributes |-> [a.attributes EXCEPT ![o] = s.value]]
  BY DEF ArgsRight
<1> HIDE DEF o, c
<1>5. SlotsRight(c, a.operands, [a.attributes EXCEPT ![o] = s.value])
  BY <1>1, <1>2, <1>3 DEF ArgsRight, SlotsRight, c
<1> QED BY <1>4, <1>5 DEF ArgsRight, c, o

\* Whatever a setter answers, Args stay right.
LEMMA SetOperandKeeps ==
  ASSUME BindingInv, NEW h \in Handles, NEW s \in OperandSettings, SetOperand(h, s)
  PROVE  /\ status' \in Statuses /\ DOMAIN args' = Handles
         /\ \A k \in Handles : args'[k] # None => ArgsRight(args'[k])
<1> DEFINE a == args[h]
<1> DEFINE answer == IF a = None \/ ~Sound(s.value) THEN "INVALID_ARGUMENT"
                     ELSE MapUserOperand(a, s.id, s.value.kind)
<1> DEFINE b == [a EXCEPT !.operands[OperandSlot(a, s.id)] = s.value]
<1>1. status' = answer /\ args' = IF answer = "SUCCESS" THEN [args EXCEPT ![h] = b] ELSE args
  BY DEF SetOperand
<1>2. answer \in Statuses
  BY DEF MapUserOperand, Statuses
<1>3. CASE answer = "SUCCESS"
  <2>1. a # None /\ Sound(s.value) /\ MapUserOperand(a, s.id, s.value.kind) = "SUCCESS"
    BY <1>3
  <2>2. ArgsRight(a)
    BY <2>1 DEF BindingInv
  <2>3. ArgsRight(b)
    BY <2>1, <2>2, OperandSet
  <2> HIDE DEF b
  <2> QED BY <1>1, <1>2, <1>3, <2>3 DEF BindingInv
<1>4. CASE answer # "SUCCESS"
  BY <1>1, <1>2, <1>4 DEF BindingInv
<1> QED BY <1>3, <1>4

LEMMA SetOperationKeeps ==
  ASSUME BindingInv, NEW h \in Handles, NEW s \in OpSettings, SetOperation(h, s)
  PROVE  /\ status' \in Statuses /\ DOMAIN args' = Handles
         /\ \A k \in Handles : args'[k] # None => ArgsRight(args'[k])
<1> DEFINE a == args[h]
<1> DEFINE answer == IF a = None \/ ~Computes(s.value) THEN "INVALID_ARGUMENT"
                     ELSE MapUserOp(a, s.id, s.value.kind)
<1> DEFINE b == [a EXCEPT !.attributes[OpSlot(a, s.id)] = s.value]
<1>1. status' = answer /\ args' = IF answer = "SUCCESS" THEN [args EXCEPT ![h] = b] ELSE args
  BY DEF SetOperation
<1>2. answer \in Statuses
  BY DEF MapUserOp, Statuses
<1>3. CASE answer = "SUCCESS"
  <2>1. a # None /\ Computes(s.value) /\ MapUserOp(a, s.id, s.value.kind) = "SUCCESS"
    BY <1>3
  <2>2. ArgsRight(a)
    BY <2>1 DEF BindingInv
  <2>3. ArgsRight(b)
    BY <2>1, <2>2, OperationSet
  <2> HIDE DEF b
  <2> QED BY <1>1, <1>2, <1>3, <2>3 DEF BindingInv
<1>4. CASE answer # "SUCCESS"
  BY <1>1, <1>2, <1>4 DEF BindingInv
<1> QED BY <1>3, <1>4

\* The engine reads slots of its own pattern only, and complete Args have a
\* value in each.
LEMMA ProblemIsRight ==
  ASSUME NEW a, ArgsRight(a), IsComplete(a), NEW c, c = Supporting(a.of),
         NEW problem, problem = MakeProblem(a), NEW o \in Ops(c)
  PROVE  /\ \A i \in DOMAIN c.ops[o].inputs :
              LET v == problem.inputs[o][i]
              IN  v # None /\ v.kind = c.kinds[c.ops[o].inputs[i]] /\ Sound(v)
         /\ \A i \in DOMAIN c.ops[o].outputs :
              LET v == problem.outputs[o][i]
              IN  v # None /\ v.kind = c.kinds[c.ops[o].outputs[i]] /\ Sound(v)
         /\ problem.attributes[o] # None /\ problem.attributes[o].kind = c.ops[o].kind
         /\ Computes(problem.attributes[o])
<1>1. SlotsRight(c, a.operands, a.attributes) /\ WellFormed(c)
  BY DEF ArgsRight, Matched, Meet
<1>2. /\ \A x \in Operands(c) : a.operands[x] # None /\ a.operands[x].kind = c.kinds[x] /\ Sound(a.operands[x])
      /\ \A p \in Ops(c) : /\ a.attributes[p] # None /\ a.attributes[p].kind = c.ops[p].kind
                           /\ Computes(a.attributes[p])
  BY <1>1 DEF SlotsRight, IsComplete
<1>3. /\ \A i \in DOMAIN c.ops[o].inputs : c.ops[o].inputs[i] \in Operands(c)
      /\ \A i \in DOMAIN c.ops[o].outputs : c.ops[o].outputs[i] \in Operands(c)
  BY <1>1, PortOperands
<1>4. /\ \A i \in DOMAIN c.ops[o].inputs : problem.inputs[o][i] = a.operands[c.ops[o].inputs[i]]
      /\ \A i \in DOMAIN c.ops[o].outputs : problem.outputs[o][i] = a.operands[c.ops[o].outputs[i]]
      /\ problem.attributes = a.attributes
  BY DEF MakeProblem, ProblemOf
<1> QED BY <1>2, <1>3, <1>4

LEMMA PlansAreRight ==
  ASSUME NEW a, ArgsRight(a), NEW p, p = [of |-> a.of, problem |-> MakeProblem(a)]
  PROVE  PlanRight(p)
<1> DEFINE c == Supporting(a.of)
<1> DEFINE problem == MakeProblem(a)
<1>1. c \in BuilderType /\ WellFormed(c) /\ SlotsRight(c, a.operands, a.attributes)
  BY DEF ArgsRight, Matched, Meet
<1> HIDE DEF c
<1>2. /\ Len(c.ops) \in Nat /\ Ops(c) = 1 .. Len(c.ops)
      /\ \A o \in Ops(c) : /\ c.ops[o] \in Nodes
                           /\ DOMAIN c.ops[o].inputs = 1 .. Len(c.ops[o].inputs)
                           /\ DOMAIN c.ops[o].outputs = 1 .. Len(c.ops[o].outputs)
  BY <1>1, BuilderFacts
<1>3. /\ problem.attributes = a.attributes
      /\ problem.inputs = [o \in Ops(c) |-> [i \in DOMAIN c.ops[o].inputs |-> a.operands[c.ops[o].inputs[i]]]]
      /\ problem.outputs = [o \in Ops(c) |-> [i \in DOMAIN c.ops[o].outputs |-> a.operands[c.ops[o].outputs[i]]]]
      /\ problem = [inputs |-> problem.inputs, outputs |-> problem.outputs, attributes |-> problem.attributes]
  BY DEF MakeProblem, ProblemOf, c
<1> HIDE DEF problem
<1>4. \A o \in Ops(c) :
        /\ \A i \in DOMAIN c.ops[o].inputs : c.ops[o].inputs[i] \in Operands(c)
        /\ \A i \in DOMAIN c.ops[o].outputs : c.ops[o].outputs[i] \in Operands(c)
  BY <1>1, PortOperands
<1>5. \A o \in Ops(c) : problem.inputs[o] \in OperandSlots /\ problem.outputs[o] \in OperandSlots
  <2>1. TAKE o \in Ops(c)
  <2>2. Len(c.ops[o].inputs) \in Nat /\ Len(c.ops[o].outputs) \in Nat
    BY <1>2 DEF Nodes
  <2>3. problem.inputs[o] \in [1 .. Len(c.ops[o].inputs) -> Value \cup {None}]
    <3>1. problem.inputs[o] = [i \in DOMAIN c.ops[o].inputs |-> a.operands[c.ops[o].inputs[i]]]
      BY <1>3
    <3>2. \A i \in DOMAIN c.ops[o].inputs : a.operands[c.ops[o].inputs[i]] \in Value \cup {None}
      BY <1>1, <1>4 DEF SlotsRight
    <3>3. DOMAIN c.ops[o].inputs = 1 .. Len(c.ops[o].inputs)
      BY <1>2
    <3> QED BY <3>1, <3>2, <3>3
  <2>4. problem.outputs[o] \in [1 .. Len(c.ops[o].outputs) -> Value \cup {None}]
    <3>1. problem.outputs[o] = [i \in DOMAIN c.ops[o].outputs |-> a.operands[c.ops[o].outputs[i]]]
      BY <1>3
    <3>2. \A i \in DOMAIN c.ops[o].outputs : a.operands[c.ops[o].outputs[i]] \in Value \cup {None}
      BY <1>1, <1>4 DEF SlotsRight
    <3>3. DOMAIN c.ops[o].outputs = 1 .. Len(c.ops[o].outputs)
      BY <1>2
    <3> QED BY <3>1, <3>2, <3>3
  <2> QED BY <2>2, <2>3, <2>4, IsSequence DEF OperandSlots
<1>6. /\ problem.inputs \in [1 .. Len(c.ops) -> OperandSlots]
      /\ problem.outputs \in [1 .. Len(c.ops) -> OperandSlots]
      /\ problem.attributes \in [1 .. Len(c.ops) -> Attributes \cup {None}]
  BY <1>1, <1>2, <1>3, <1>5 DEF SlotsRight
<1>7. problem.inputs \in Seq(OperandSlots) /\ problem.outputs \in Seq(OperandSlots)
  BY <1>2, <1>6, IsSequence
<1>8. problem.attributes \in OpSlots
  BY <1>2, <1>6, IsSequence DEF OpSlots
<1>9. problem \in Problems
  BY <1>3, <1>7, <1>8 DEF Problems
<1>10. p.of = a.of /\ p.problem = problem /\ p = [of |-> p.of, problem |-> p.problem]
  BY DEF problem
<1> QED BY <1>2, <1>6, <1>9, <1>10 DEF PlanRight, ArgsRight, c

LEMMA PatternKept ==
  ASSUME BindingInv, Describe
  PROVE  pattern' \in BuilderType \cup {None} /\ created' \in 0 .. MaxPatterns /\ status' \in Statuses
<1>1. CASE PatternCreate
  <2>1. <<>> \in Seq(OperandKinds) /\ <<>> \in Seq(Nodes)
    OBVIOUS
  <2>2. NoOperands \in BuilderType
    BY <2>1 DEF NoOperands, BuilderType
  <2>3. created' \in 0 .. MaxPatterns
    BY <1>1, FamilyAssumption DEF PatternCreate, BindingInv
  <2> QED BY <1>1, <2>2, <2>3 DEF PatternCreate, Succeed, Statuses
<1>2. CASE PatternDestroy
  BY <1>2 DEF PatternDestroy, Succeed, Refuse, Statuses, BindingInv
<1>3. ASSUME NEW kind \in AddedKinds, AddOperand(kind)
      PROVE  pattern' \in BuilderType \cup {None} /\ created' \in 0 .. MaxPatterns /\ status' \in Statuses
  <2>1. created' \in 0 .. MaxPatterns /\ status' \in Statuses
    BY <1>3 DEF AddOperand, Succeed, Refuse, Statuses, BindingInv
  <2>2. kind \in OperandKinds
    BY FamilyAssumption
  <2>3. CASE pattern # None
    <3>1. pattern \in BuilderType
      BY <2>3 DEF BindingInv
    <3>2. pattern.kinds \in Seq(OperandKinds)
      BY <3>1 DEF BuilderType
    <3>3. Append(pattern.kinds, kind) \in Seq(OperandKinds)
      BY <2>2, <3>2
    <3>4. pattern' = [pattern EXCEPT !.kinds = Append(pattern.kinds, kind)]
      BY <1>3, <2>3 DEF AddOperand
    <3> QED BY <2>1, <3>1, <3>3, <3>4 DEF BuilderType
  <2>4. CASE pattern = None
    BY <1>3, <2>1, <2>4 DEF AddOperand
  <2> QED BY <2>3, <2>4
<1>4. ASSUME NEW n \in Additions, AddOperation(n.kind, n.role)
      PROVE  pattern' \in BuilderType \cup {None} /\ created' \in 0 .. MaxPatterns /\ status' \in Statuses
  <2>1. created' \in 0 .. MaxPatterns /\ status' \in Statuses
    BY <1>4 DEF AddOperation, Succeed, Refuse, Statuses, BindingInv
  <2>2. Node(n.kind, n.role) \in Nodes
    BY FamilyAssumption
  <2>3. CASE pattern # None
    <3>1. pattern \in BuilderType
      BY <2>3 DEF BindingInv
    <3>2. pattern.ops \in Seq(Nodes)
      BY <3>1 DEF BuilderType
    <3>3. Append(pattern.ops, Node(n.kind, n.role)) \in Seq(Nodes)
      BY <2>2, <3>2
    <3>4. pattern' = [pattern EXCEPT !.ops = Append(pattern.ops, Node(n.kind, n.role))]
      BY <1>4, <2>3 DEF AddOperation
    <3> QED BY <2>1, <3>1, <3>3, <3>4 DEF BuilderType
  <2>4. CASE pattern = None
    BY <1>4, <2>1, <2>4 DEF AddOperation
  <2> QED BY <2>3, <2>4
<1> QED BY <1>1, <1>2, <1>3, <1>4 DEF Describe

-----------------------------------------------------------------------------
(* The invariant is kept. *)

LEMMA InitRight == Init => BindingInv
  BY FamilyAssumption DEF Init, PatternInit, BindingInv, Statuses, ReadsRightVariants

LEMMA StepRight ==
  ASSUME BindingInv, [Next]_vars
  PROVE  BindingInv'
<1>1. CASE Describe /\ UNCHANGED <<ops, args, plan>>
  BY <1>1, PatternKept DEF BindingInv, ReadsRightVariants
<1>2. CASE OpsCreate
  <2>1. status' \in Statuses
    BY <1>2 DEF OpsCreate, Succeed, Refuse, OpsRefusal, Statuses
  <2>2. ops' # None => Matched(ops')
    <3>1. CASE /\ Supported(pattern)
               /\ \E e \in EnginesOf(pattern) : \E f \in [Ops(pattern) -> Ops(Families[e])] :
                    /\ IsIsomorphism(pattern, Families[e], f)
                    /\ ops' = [user |-> pattern, engine |-> e,
                               operandOf |-> OperandMap(pattern, Families[e], f), opOf |-> f]
      <4>1. pattern \in BuilderType
        BY <3>1 DEF BindingInv, Supported
      <4>2. PICK e \in EnginesOf(pattern) : \E f \in [Ops(pattern) -> Ops(Families[e])] :
                    /\ IsIsomorphism(pattern, Families[e], f)
                    /\ ops' = [user |-> pattern, engine |-> e,
                               operandOf |-> OperandMap(pattern, Families[e], f), opOf |-> f]
        BY <3>1
      <4>3. PICK f \in [Ops(pattern) -> Ops(Families[e])] :
                    /\ IsIsomorphism(pattern, Families[e], f)
                    /\ ops' = [user |-> pattern, engine |-> e,
                               operandOf |-> OperandMap(pattern, Families[e], f), opOf |-> f]
        BY <4>2
      <4> QED BY <3>1, <4>1, <4>3, MatchesAreRight
    <3>2. CASE UNCHANGED ops
      BY <3>2 DEF BindingInv
    <3> QED BY <1>2, <3>1, <3>2 DEF OpsCreate
  <2> QED BY <1>2, <2>1, <2>2 DEF OpsCreate, BindingInv, ReadsRightVariants, patternVars
<1>3. ASSUME NEW h \in Handles, ArgsCreate(h) PROVE BindingInv'
  <2>1. status' \in Statuses
    BY <1>3 DEF ArgsCreate, Succeed, Refuse, Statuses
  <2>2. CASE ops # None /\ args' = [args EXCEPT ![h] = EmptyArgs(ops)]
    <3>1. ArgsRight(EmptyArgs(ops))
      BY <2>2, EmptyArgsAreRight DEF BindingInv
    <3>2. \A k \in Handles : args'[k] # None => ArgsRight(args'[k])
      BY <2>2, <3>1 DEF BindingInv
    <3> QED BY <1>3, <2>1, <2>2, <3>2 DEF ArgsCreate, BindingInv, ReadsRightVariants, patternVars
  <2>3. CASE UNCHANGED args
    BY <1>3, <2>1, <2>3 DEF ArgsCreate, BindingInv, ReadsRightVariants, patternVars
  <2> QED BY <1>3, <2>2, <2>3 DEF ArgsCreate
<1>4. ASSUME NEW h \in Handles, NEW s \in OperandSettings, SetOperand(h, s) PROVE BindingInv'
  <2>1. /\ status' \in Statuses /\ DOMAIN args' = Handles
        /\ \A k \in Handles : args'[k] # None => ArgsRight(args'[k])
    BY <1>4, SetOperandKeeps
  <2>2. UNCHANGED <<pattern, created, ops, plan>>
    BY <1>4 DEF SetOperand, patternVars
  <2> QED BY <2>1, <2>2 DEF BindingInv, ReadsRightVariants
<1>5. ASSUME NEW h \in Handles, NEW s \in OpSettings, SetOperation(h, s) PROVE BindingInv'
  <2>1. /\ status' \in Statuses /\ DOMAIN args' = Handles
        /\ \A k \in Handles : args'[k] # None => ArgsRight(args'[k])
    BY <1>5, SetOperationKeeps
  <2>2. UNCHANGED <<pattern, created, ops, plan>>
    BY <1>5 DEF SetOperation, patternVars
  <2> QED BY <2>1, <2>2 DEF BindingInv, ReadsRightVariants
<1>6. ASSUME NEW h \in Handles, PlanCreate(h) PROVE BindingInv'
  <2>1. status' \in Statuses
    BY <1>6 DEF PlanCreate, Succeed, Refuse, PlanFailures, Statuses
  <2>2. CASE /\ args[h] # None /\ IsComplete(args[h])
             /\ plan' = [of |-> args[h].of, problem |-> MakeProblem(args[h])]
    <3>1. ArgsRight(args[h])
      BY <2>2 DEF BindingInv
    <3>2. plan'.of = args[h].of /\ plan'.problem = MakeProblem(args[h]) /\ Matched(plan'.of)
      BY <2>2, <3>1 DEF ArgsRight
    <3> DEFINE c == Supporting(args[h].of)
    <3> DEFINE problem == MakeProblem(args[h])
    <3>a. \A o \in Ops(c) :
            /\ \A i \in DOMAIN c.ops[o].inputs :
                 LET v == problem.inputs[o][i]
                 IN  v # None /\ v.kind = c.kinds[c.ops[o].inputs[i]] /\ Sound(v)
            /\ \A i \in DOMAIN c.ops[o].outputs :
                 LET v == problem.outputs[o][i]
                 IN  v # None /\ v.kind = c.kinds[c.ops[o].outputs[i]] /\ Sound(v)
            /\ problem.attributes[o] # None /\ problem.attributes[o].kind = c.ops[o].kind
            /\ Computes(problem.attributes[o])
      BY <2>2, <3>1, ProblemIsRight
    <3>b. Supporting(plan'.of) = c /\ plan'.problem = problem
      BY <3>2
    <3> HIDE DEF c, problem
    <3>3. ReadsRightVariants'
      BY <3>a, <3>b DEF ReadsRightVariants
    <3>4. PlanRight(plan')
      BY <2>2, <3>1, PlansAreRight
    <3> QED BY <1>6, <2>1, <2>2, <3>3, <3>4 DEF PlanCreate, BindingInv, patternVars
  <2>3. CASE UNCHANGED plan
    BY <1>6, <2>1, <2>3 DEF PlanCreate, BindingInv, ReadsRightVariants, patternVars
  <2> QED BY <1>6, <2>2, <2>3 DEF PlanCreate
<1>7. CASE OpsDestroy
  BY <1>7 DEF OpsDestroy, Answer, Succeed, Refuse, Statuses, BindingInv, ReadsRightVariants, patternVars
<1>8. CASE PlanDestroy
  BY <1>8 DEF PlanDestroy, Answer, Succeed, Refuse, Statuses, BindingInv, ReadsRightVariants, patternVars
<1>9. CASE OutOfMemory
  BY <1>9 DEF OutOfMemory, Refuse, Statuses, BindingInv, ReadsRightVariants, patternVars
<1>10. ASSUME NEW h \in Handles, ArgsDestroy(h) PROVE BindingInv'
  BY <1>10 DEF ArgsDestroy, Answer, Succeed, Refuse, Statuses, BindingInv, ReadsRightVariants, patternVars
<1>11. CASE UNCHANGED vars
  BY <1>11 DEF vars, patternVars, BindingInv, ReadsRightVariants
<1> QED BY <1>1, <1>2, <1>3, <1>4, <1>5, <1>6, <1>7, <1>8, <1>9, <1>10, <1>11 DEF Next

LEMMA AlwaysRight == Spec => []BindingInv
<1>1. BindingInv /\ [Next]_vars => BindingInv'
  BY StepRight
<1> QED BY InitRight, <1>1, PTL DEF Spec

\* The objects behind the handles are what their classes say: maps within the
\* two patterns, and slots whose values have the kinds of their roles
\* (ops_args.hpp).
THEOREM ObjectsAreTyped == Spec => []TypeOK
<1>1. BindingInv => TypeOK
  BY DEF BindingInv, TypeOK, Matched, ArgsRight, SlotsRight, PlanRight
<1> QED BY <1>1, AlwaysRight, PTL

\* makeProblem() (family.hpp:60-72) never takes a value out of a slot that is
\* empty or holds another variant, for any engine and any match.
THEOREM ProblemsAreWellRead == Spec => []ReadsRightVariants
<1>1. BindingInv => ReadsRightVariants
  BY DEF BindingInv
<1> QED BY <1>1, AlwaysRight, PTL

-----------------------------------------------------------------------------
(* The operators of the abstract specification are the ones here. *)

LEMMA SameCardinality == \A T : Named!Cardinality(T) = Cardinality(T)
  BY DEF Named!Cardinality, Cardinality

LEMMA SameParts ==
  ASSUME NEW b
  PROVE  /\ Named!Operands(b) = Operands(b) /\ Named!Ops(b) = Ops(b)
         /\ Named!InputPorts(b) = InputPorts(b) /\ Named!OutputPorts(b) = OutputPorts(b)
         /\ \A q : Named!InputAt(b, q) = InputAt(b, q) /\ Named!OutputAt(b, q) = OutputAt(b, q)
         /\ \A x : Named!Consumers(b, x) = Consumers(b, x) /\ Named!Producers(b, x) = Producers(b, x)
         /\ Named!Isolated(b) = Isolated(b)
<1>1. Named!Operands(b) = Operands(b) /\ Named!Ops(b) = Ops(b)
  BY DEF Named!Operands, Operands, Named!Ops, Ops
<1>2. Named!InputPorts(b) = InputPorts(b) /\ Named!OutputPorts(b) = OutputPorts(b)
  BY <1>1 DEF Named!InputPorts, InputPorts, Named!OutputPorts, OutputPorts
<1>3. \A q : Named!InputAt(b, q) = InputAt(b, q) /\ Named!OutputAt(b, q) = OutputAt(b, q)
  BY DEF Named!InputAt, InputAt, Named!OutputAt, OutputAt
<1>4. \A x : Named!Consumers(b, x) = Consumers(b, x) /\ Named!Producers(b, x) = Producers(b, x)
  BY <1>2, <1>3 DEF Named!Consumers, Consumers, Named!Producers, Producers
<1>5. Named!Isolated(b) = Isolated(b)
  BY <1>1, <1>4 DEF Named!Isolated, Isolated
<1> QED BY <1>1, <1>2, <1>3, <1>4, <1>5

LEMMA SameChecks ==
  ASSUME NEW b
  PROVE  /\ Named!WellFormed(b) <=> WellFormed(b)
         /\ Named!Cyclic(b) <=> Cyclic(b)
<1>1. Named!WellFormed(b) <=> WellFormed(b)
  BY SameParts DEF Named!WellFormed, WellFormed
<1>2. \A p, o : Named!FedPorts(b, p, o) = FedPorts(b, p, o)
  BY SameParts DEF Named!FedPorts, FedPorts
<1>3. Named!Cyclic(b) <=> Cyclic(b)
  <2>1. Named!Ops(b) = Ops(b)
    BY SameParts
  <2>2. \A T : (\A o \in T : \E p \in T : Named!FedPorts(b, p, o) # {})
                <=> (\A o \in T : \E p \in T : FedPorts(b, p, o) # {})
    BY <1>2
  <2> QED BY <2>1, <2>2 DEF Named!Cyclic, Cyclic
<1> QED BY <1>1, <1>3

LEMMA SameIsomorphisms ==
  ASSUME NEW b, NEW c, NEW f
  PROVE  Named!IsIsomorphism(b, c, f) <=> IsIsomorphism(b, c, f)
<1>1. Named!PortPairs(b, c, f) = PortPairs(b, c, f)
  <2>1. Named!InputPorts(b) = InputPorts(b) /\ Named!OutputPorts(b) = OutputPorts(b)
    BY SameParts
  <2>2. \A q : /\ Named!InputAt(b, q) = InputAt(b, q) /\ Named!OutputAt(b, q) = OutputAt(b, q)
              /\ Named!InputAt(c, q) = InputAt(c, q) /\ Named!OutputAt(c, q) = OutputAt(c, q)
    BY SameParts
  <2> QED BY <2>1, <2>2 DEF Named!PortPairs, PortPairs
<1> QED BY <1>1, SameParts DEF Named!IsIsomorphism, IsIsomorphism

LEMMA SameShapes ==
  ASSUME NEW b, NEW c
  PROVE  Named!SameShape(b, c) <=> SameShape(b, c)
<1> DEFINE Matching == \E f \in [Ops(b) -> Ops(c)] : IsIsomorphism(b, c, f)
<1> DEFINE Alone(d, x) == {y \in Isolated(d) : d.kinds[y] = b.kinds[x]}
<1> DEFINE Balanced == \A x \in Operands(b) : Cardinality(Alone(b, x)) = Cardinality(Alone(c, x))
<1>1. SameShape(b, c) <=> Len(b.ops) = Len(c.ops) /\ Len(b.kinds) = Len(c.kinds) /\ Matching /\ Balanced
  BY DEF SameShape
<1>2. (\E f \in [Named!Ops(b) -> Named!Ops(c)] : Named!IsIsomorphism(b, c, f)) <=> Matching
  BY SameIsomorphisms, SameParts
<1>3. (\A x \in Named!Operands(b) :
         Named!Cardinality({y \in Named!Isolated(b) : b.kinds[y] = b.kinds[x]})
           = Named!Cardinality({y \in Named!Isolated(c) : c.kinds[y] = b.kinds[x]})) <=> Balanced
  BY SameParts, SameCardinality
<1> HIDE DEF Matching, Balanced
<1> QED BY <1>1, <1>2, <1>3 DEF Named!SameShape

LEMMA SameSupport ==
  ASSUME NEW b
  PROVE  /\ Named!Supported(b) <=> Supported(b)
         /\ Named!OpsRefusal(b) = OpsRefusal(b)
<1>1. Named!EnginesOf(b) = EnginesOf(b)
  BY SameShapes DEF Named!EnginesOf, EnginesOf
<1> QED BY <1>1, SameChecks DEF Named!Supported, Supported, Named!OpsRefusal, OpsRefusal

LEMMA SameValues ==
  ASSUME NEW v
  PROVE  /\ Named!Sound(v) <=> Sound(v)
         /\ Named!Computes(v) <=> Computes(v)
  BY DEF Named!Sound, Sound, Named!Metadata, Metadata, Named!Computes, Computes,
         Named!NumericTypeCount, NumericTypeCount

LEMMA SameProblems ==
  ASSUME NEW b, NEW operands, NEW attributes
  PROVE  Named!ProblemOf(b, operands, attributes) = ProblemOf(b, operands, attributes)
  BY SameParts DEF Named!ProblemOf, ProblemOf

LEMMA SameDescribe == Named!Describe <=> Describe
  BY DEF Named!Describe, Describe, Named!PatternCreate, PatternCreate, Named!PatternDestroy,
         PatternDestroy, Named!AddOperand, AddOperand, Named!AddOperation, AddOperation,
         Named!Succeed, Succeed, Named!Refuse, Refuse, Named!NoOperands, NoOperands,
         Named!Node, Node

-----------------------------------------------------------------------------
(* What the caller sees of the objects. *)

NamedArgsAll == [h \in Handles |-> IF args[h] = None THEN None ELSE NamedArgsOf(args[h])]

NamedPlan == IF plan = None THEN None ELSE NamedPlanOf(plan)

\* The slots under the caller's IDs.
LEMMA NamedSlots ==
  ASSUME NEW match, Matched(match), NEW u, u = match.user, NEW c, c = Supporting(match),
         NEW operands, NEW attributes, SlotsRight(c, operands, attributes)
  PROVE  /\ [y \in Operands(u) |-> operands[match.operandOf[y]]] \in OperandSlots
         /\ [v \in Ops(u) |-> attributes[match.opOf[v]]] \in OpSlots
<1>1. /\ u \in BuilderType
      /\ match.operandOf \in [Operands(u) -> Operands(c)] /\ match.opOf \in [Ops(u) -> Ops(c)]
  BY DEF Matched, Meet, Fits
<1>2. /\ Len(u.kinds) \in Nat /\ Operands(u) = 1 .. Len(u.kinds)
      /\ Len(u.ops) \in Nat /\ Ops(u) = 1 .. Len(u.ops)
  BY <1>1, BuilderFacts
<1>3. /\ [y \in Operands(u) |-> operands[match.operandOf[y]]] \in [1 .. Len(u.kinds) -> Value \cup {None}]
      /\ [v \in Ops(u) |-> attributes[match.opOf[v]]] \in [1 .. Len(u.ops) -> Attributes \cup {None}]
  BY <1>1, <1>2 DEF SlotsRight
<1> QED BY <1>2, <1>3, IsSequence DEF OperandSlots, OpSlots

\* Args and Plans are objects, also as the caller sees them.
LEMMA ArgsAreObjects ==
  ASSUME NEW a, ArgsRight(a)
  PROVE  a # None /\ NamedArgsOf(a) # None
<1> DEFINE c == Supporting(a.of)
<1>1. /\ Matched(a.of) /\ a.of \in Matches /\ a.of.user \in BuilderType /\ c \in BuilderType
      /\ SlotsRight(c, a.operands, a.attributes)
  BY DEF ArgsRight, Matched, Meet, Fits
<1> HIDE DEF c
<1>2. a.operands \in OperandSlots /\ a.attributes \in OpSlots
  <2>1. /\ Len(c.kinds) \in Nat /\ Operands(c) = 1 .. Len(c.kinds)
        /\ Len(c.ops) \in Nat /\ Ops(c) = 1 .. Len(c.ops)
    BY <1>1, BuilderFacts
  <2> QED BY <1>1, <2>1, IsSequence DEF SlotsRight, OperandSlots, OpSlots
<1>3. a \in [of : Matches, operands : OperandSlots, attributes : OpSlots]
  BY <1>1, <1>2 DEF ArgsRight
<1>4. NamedArgsOf(a) \in [user : BuilderType, operands : OperandSlots, attributes : OpSlots]
  BY <1>1, NamedSlots DEF NamedArgsOf, c
<1> QED BY <1>3, <1>4, NullAssumption

LEMMA PlansAreObjects ==
  ASSUME NEW p, PlanRight(p)
  PROVE  p # None /\ NamedPlanOf(p) # None
<1> DEFINE c == Supporting(p.of)
<1> DEFINE u == p.of.user
<1> DEFINE f == p.of.opOf
<1>1. /\ p.of \in Matches /\ u \in BuilderType /\ f \in [Ops(u) -> Ops(c)]
      /\ p = [of |-> p.of, problem |-> p.problem] /\ p.problem \in Problems
      /\ DOMAIN p.problem.inputs = Ops(c) /\ DOMAIN p.problem.outputs = Ops(c)
      /\ DOMAIN p.problem.attributes = Ops(c)
  BY DEF PlanRight, Matched, Meet, Fits
<1> HIDE DEF c, u, f
<1>2. p \in [of : Matches, problem : Problems]
  BY <1>1
<1>3. Len(u.ops) \in Nat /\ Ops(u) = 1 .. Len(u.ops)
  BY <1>1, BuilderFacts
<1>4. \A o \in Ops(c) : /\ p.problem.inputs[o] \in OperandSlots /\ p.problem.outputs[o] \in OperandSlots
                        /\ p.problem.attributes[o] \in Attributes \cup {None}
  BY <1>1 DEF Problems, OpSlots
<1>5. /\ [v \in Ops(u) |-> p.problem.inputs[f[v]]] \in [1 .. Len(u.ops) -> OperandSlots]
      /\ [v \in Ops(u) |-> p.problem.outputs[f[v]]] \in [1 .. Len(u.ops) -> OperandSlots]
      /\ [v \in Ops(u) |-> p.problem.attributes[f[v]]] \in [1 .. Len(u.ops) -> Attributes \cup {None}]
  BY <1>1, <1>3, <1>4
<1>6. /\ [v \in Ops(u) |-> p.problem.inputs[f[v]]] \in Seq(OperandSlots)
      /\ [v \in Ops(u) |-> p.problem.outputs[f[v]]] \in Seq(OperandSlots)
  BY <1>3, <1>5, IsSequence
<1>7. [v \in Ops(u) |-> p.problem.attributes[f[v]]] \in OpSlots
  BY <1>3, <1>5, IsSequence DEF OpSlots
<1>8. NamedPlanOf(p) = [user |-> u, problem |->
        [inputs |-> [v \in Ops(u) |-> p.problem.inputs[f[v]]],
         outputs |-> [v \in Ops(u) |-> p.problem.outputs[f[v]]],
         attributes |-> [v \in Ops(u) |-> p.problem.attributes[f[v]]]]]
  BY DEF NamedPlanOf, u, f
<1>9. NamedPlanOf(p) \in [user : BuilderType, problem : Problems]
  BY <1>1, <1>6, <1>7, <1>8 DEF Problems
<1> QED BY <1>2, <1>9, NullAssumption

\* Fresh Args have no value under any ID.
LEMMA FreshArgsNamed ==
  ASSUME NEW match, Matched(match)
  PROVE  NamedArgsOf(EmptyArgs(match)) = Named!Unset(match.user)
<1> DEFINE c == Supporting(match)
<1> DEFINE u == match.user
<1>1. match.operandOf \in [Operands(u) -> Operands(c)] /\ match.opOf \in [Ops(u) -> Ops(c)]
  BY DEF Matched, Fits
<1>2. /\ \A y \in Operands(u) : EmptyArgs(match).operands[match.operandOf[y]] = None
      /\ \A v \in Ops(u) : EmptyArgs(match).attributes[match.opOf[v]] = None
      /\ EmptyArgs(match).of = match
  BY <1>1 DEF EmptyArgs
<1>3. Named!Unset(u) = [user |-> u, operands |-> [y \in Operands(u) |-> None],
                        attributes |-> [v \in Ops(u) |-> None]]
  BY SameParts DEF Named!Unset
<1>4. NamedArgsOf(EmptyArgs(match)) =
        [user |-> u, operands |-> [y \in Operands(u) |-> EmptyArgs(match).operands[match.operandOf[y]]],
         attributes |-> [v \in Ops(u) |-> EmptyArgs(match).attributes[match.opOf[v]]]]
  BY <1>2 DEF NamedArgsOf
<1> QED BY <1>2, <1>3, <1>4

\* A value set in the mapped slot is under the caller's ID, and under no other.
LEMMA OperandNamed ==
  ASSUME NEW a, ArgsRight(a), NEW id \in Operands(a.of.user), NEW v,
         NEW b, b = [of |-> a.of, attributes |-> a.attributes,
                     operands |-> [a.operands EXCEPT ![a.of.operandOf[id]] = v]]
  PROVE  NamedArgsOf(b) = [NamedArgsOf(a) EXCEPT !.operands[id] = v]
<1> DEFINE u == a.of.user
<1> DEFINE m == a.of.operandOf
<1>1. /\ m \in [Operands(u) -> DOMAIN a.operands]
      /\ \A y, z \in Operands(u) : m[y] = m[z] => y = z
  BY MapIsBijection DEF ArgsRight, Matched, SlotsRight
<1> HIDE DEF m, u
<1>2. [y \in Operands(u) |-> [a.operands EXCEPT ![m[id]] = v][m[y]]]
        = [[y \in Operands(u) |-> a.operands[m[y]]] EXCEPT ![id] = v]
  BY <1>1, id \in Operands(u) DEF u
<1>3. NamedArgsOf(b) = [user |-> u, operands |-> [y \in Operands(u) |-> [a.operands EXCEPT ![m[id]] = v][m[y]]],
                         attributes |-> NamedArgsOf(a).attributes]
  BY DEF NamedArgsOf, m, u
<1>4. NamedArgsOf(a) = [user |-> u, operands |-> [y \in Operands(u) |-> a.operands[m[y]]],
                         attributes |-> NamedArgsOf(a).attributes]
  BY DEF NamedArgsOf, m, u
<1> QED BY <1>2, <1>3, <1>4

LEMMA OperationNamed ==
  ASSUME NEW a, ArgsRight(a), NEW id \in Ops(a.of.user), NEW v,
         NEW b, b = [of |-> a.of, operands |-> a.operands,
                     attributes |-> [a.attributes EXCEPT ![a.of.opOf[id]] = v]]
  PROVE  NamedArgsOf(b) = [NamedArgsOf(a) EXCEPT !.attributes[id] = v]
<1> DEFINE u == a.of.user
<1> DEFINE f == a.of.opOf
<1>1. /\ f \in [Ops(u) -> DOMAIN a.attributes]
      /\ \A y, z \in Ops(u) : f[y] = f[z] => y = z
  BY OpsOnto DEF ArgsRight, Matched, SlotsRight, Meet
<1> HIDE DEF f, u
<1>2. [y \in Ops(u) |-> [a.attributes EXCEPT ![f[id]] = v][f[y]]]
        = [[y \in Ops(u) |-> a.attributes[f[y]]] EXCEPT ![id] = v]
  BY <1>1, id \in Ops(u) DEF u
<1>3. NamedArgsOf(b) = [user |-> u, operands |-> NamedArgsOf(a).operands,
                         attributes |-> [y \in Ops(u) |-> [a.attributes EXCEPT ![f[id]] = v][f[y]]]]
  BY DEF NamedArgsOf, f, u
<1>4. NamedArgsOf(a) = [user |-> u, operands |-> NamedArgsOf(a).operands,
                         attributes |-> [y \in Ops(u) |-> a.attributes[f[y]]]]
  BY DEF NamedArgsOf, f, u
<1> QED BY <1>2, <1>3, <1>4

\* A setter finds a slot exactly for the values the caller may give.
LEMMA TakenByCaller ==
  ASSUME NEW a, ArgsRight(a), NEW id, NEW v
  PROVE  /\ Named!Takes(NamedArgsOf(a), id, v) <=> Sound(v) /\ MapUserOperand(a, id, v.kind) = "SUCCESS"
         /\ MapUserOperand(a, id, v.kind) = "SUCCESS" => id \in Operands(a.of.user)
         /\ MapUserOperand(a, id, v.kind) \in {"SUCCESS", "INVALID_ARGUMENT"}
<1> DEFINE u == a.of.user
<1> DEFINE m == a.of.operandOf
<1> DEFINE c == Supporting(a.of)
<1>1. /\ m \in [Operands(u) -> Operands(c)] /\ DOMAIN a.operands = Operands(c)
      /\ \A y \in Operands(u) : u.kinds[y] = c.kinds[m[y]]
  BY MapIsBijection DEF ArgsRight, Matched, SlotsRight
<1>2. /\ MapUserOperand(a, id, v.kind) = "SUCCESS" <=> id \in Operands(u) /\ u.kinds[id] = v.kind
      /\ MapUserOperand(a, id, v.kind) \in {"SUCCESS", "INVALID_ARGUMENT"}
  BY <1>1 DEF MapUserOperand, OperandSlot
<1>3. NamedArgsOf(a) # None /\ NamedArgsOf(a).user = u
  BY ArgsAreObjects DEF NamedArgsOf
<1>4. Named!Takes(NamedArgsOf(a), id, v) <=> id \in Operands(u) /\ u.kinds[id] = v.kind /\ Sound(v)
  BY <1>3, SameParts, SameValues DEF Named!Takes
<1> QED BY <1>2, <1>4

LEMMA TakenByCallersOperation ==
  ASSUME NEW a, ArgsRight(a), NEW id, NEW v
  PROVE  /\ Named!TakesOp(NamedArgsOf(a), id, v) <=> Computes(v) /\ MapUserOp(a, id, v.kind) = "SUCCESS"
         /\ MapUserOp(a, id, v.kind) = "SUCCESS" => id \in Ops(a.of.user)
         /\ MapUserOp(a, id, v.kind) \in {"SUCCESS", "INVALID_ARGUMENT"}
<1> DEFINE u == a.of.user
<1> DEFINE f == a.of.opOf
<1> DEFINE c == Supporting(a.of)
<1>1. /\ f \in [Ops(u) -> Ops(c)] /\ DOMAIN a.attributes = Ops(c)
      /\ \A y \in Ops(u) : u.ops[y].kind = c.ops[f[y]].kind
  BY OpsOnto DEF ArgsRight, Matched, SlotsRight, Meet
<1>2. /\ MapUserOp(a, id, v.kind) = "SUCCESS" <=> id \in Ops(u) /\ u.ops[id].kind = v.kind
      /\ MapUserOp(a, id, v.kind) \in {"SUCCESS", "INVALID_ARGUMENT"}
  BY <1>1 DEF MapUserOp, OpSlot
<1>3. NamedArgsOf(a) # None /\ NamedArgsOf(a).user = u
  BY ArgsAreObjects DEF NamedArgsOf
<1>4. Named!TakesOp(NamedArgsOf(a), id, v) <=> id \in Ops(u) /\ u.ops[id].kind = v.kind /\ Computes(v)
  BY <1>3, SameParts, SameValues DEF Named!TakesOp
<1> QED BY <1>2, <1>4

\* Args are complete exactly when each of the caller's IDs has a value.
LEMMA CompleteByCaller ==
  ASSUME NEW a, ArgsRight(a)
  PROVE  Named!Ready(NamedArgsOf(a)) <=> IsComplete(a)
<1> DEFINE u == a.of.user
<1> DEFINE m == a.of.operandOf
<1> DEFINE f == a.of.opOf
<1> DEFINE c == Supporting(a.of)
<1>1. /\ m \in [Operands(u) -> Operands(c)] /\ DOMAIN a.operands = Operands(c)
      /\ \A x \in Operands(c) : \E y \in Operands(u) : m[y] = x
  BY MapIsBijection DEF ArgsRight, Matched, SlotsRight
<1>2. /\ f \in [Ops(u) -> Ops(c)] /\ DOMAIN a.attributes = Ops(c)
      /\ \A o \in Ops(c) : \E v \in Ops(u) : f[v] = o
  BY OpsOnto DEF ArgsRight, Matched, SlotsRight, Meet
<1>3. /\ NamedArgsOf(a) # None /\ NamedArgsOf(a).user = u
      /\ NamedArgsOf(a).operands = [y \in Operands(u) |-> a.operands[m[y]]]
      /\ NamedArgsOf(a).attributes = [v \in Ops(u) |-> a.attributes[f[v]]]
  BY ArgsAreObjects DEF NamedArgsOf
<1> HIDE DEF u, m, f, c
<1>4. IsComplete(a) <=> /\ \A x \in Operands(c) : a.operands[x] # None
                        /\ \A o \in Ops(c) : a.attributes[o] # None
  BY <1>1, <1>2 DEF IsComplete
<1>5. Named!Ready(NamedArgsOf(a)) <=> /\ \A y \in Operands(u) : a.operands[m[y]] # None
                                      /\ \A v \in Ops(u) : a.attributes[f[v]] # None
  BY <1>3, SameParts DEF Named!Ready
<1> QED BY <1>1, <1>2, <1>4, <1>5

\* The values at the ports of the engine's operations are those the caller
\* wired to its own.
LEMMA PlanNamed ==
  ASSUME NEW a, ArgsRight(a)
  PROVE  NamedPlanOf([of |-> a.of, problem |-> MakeProblem(a)]) = Named!Wired(NamedArgsOf(a))
<1> DEFINE u == a.of.user
<1> DEFINE m == a.of.operandOf
<1> DEFINE f == a.of.opOf
<1> DEFINE c == Supporting(a.of)
<1> DEFINE mine == MakeProblem(a)
<1> DEFINE named == NamedArgsOf(a).operands
<1> DEFINE theirs == ProblemOf(u, named, NamedArgsOf(a).attributes)
<1>1. Meet(u, c, f) /\ m = OperandMap(u, c, f) /\ f \in [Ops(u) -> Ops(c)]
  BY DEF ArgsRight, Matched, Meet
<1>2. /\ NamedArgsOf(a).operands = [y \in Operands(u) |-> a.operands[m[y]]]
      /\ NamedArgsOf(a).attributes = [v \in Ops(u) |-> a.attributes[f[v]]]
      /\ NamedArgsOf(a).user = u
  BY DEF NamedArgsOf
<1> HIDE DEF u, m, f, c
<1>3. /\ mine.inputs = [o \in Ops(c) |-> [i \in DOMAIN c.ops[o].inputs |-> a.operands[c.ops[o].inputs[i]]]]
      /\ mine.outputs = [o \in Ops(c) |-> [i \in DOMAIN c.ops[o].outputs |-> a.operands[c.ops[o].outputs[i]]]]
      /\ mine.attributes = a.attributes
  BY DEF MakeProblem, ProblemOf, c
<1>4. theirs = [inputs |-> theirs.inputs, outputs |-> theirs.outputs, attributes |-> theirs.attributes]
      /\ theirs.attributes = [v \in Ops(u) |-> a.attributes[f[v]]]
      /\ theirs.inputs = [v \in Ops(u) |-> [i \in DOMAIN u.ops[v].inputs |->
                            named[u.ops[v].inputs[i]]]]
      /\ theirs.outputs = [v \in Ops(u) |-> [i \in DOMAIN u.ops[v].outputs |->
                             named[u.ops[v].outputs[i]]]]
  BY <1>2 DEF ProblemOf
<1> HIDE DEF mine, theirs, named
<1>5. ASSUME NEW v \in Ops(u)
      PROVE  mine.inputs[f[v]] = theirs.inputs[v] /\ mine.outputs[f[v]] = theirs.outputs[v]
  <2>1. /\ DOMAIN u.ops[v].inputs = DOMAIN c.ops[f[v]].inputs
        /\ DOMAIN u.ops[v].outputs = DOMAIN c.ops[f[v]].outputs
        /\ \A i \in DOMAIN u.ops[v].inputs :
             u.ops[v].inputs[i] \in Operands(u) /\ m[u.ops[v].inputs[i]] = c.ops[f[v]].inputs[i]
        /\ \A i \in DOMAIN u.ops[v].outputs :
             u.ops[v].outputs[i] \in Operands(u) /\ m[u.ops[v].outputs[i]] = c.ops[f[v]].outputs[i]
    BY <1>1, MapAtPorts
  <2>2. f[v] \in Ops(c)
    BY <1>1
  <2>3. /\ mine.inputs[f[v]] = [i \in DOMAIN c.ops[f[v]].inputs |-> a.operands[c.ops[f[v]].inputs[i]]]
        /\ mine.outputs[f[v]] = [i \in DOMAIN c.ops[f[v]].outputs |-> a.operands[c.ops[f[v]].outputs[i]]]
    BY <1>3, <2>2
  <2>a. \A y \in Operands(u) : named[y] = a.operands[m[y]]
    BY <1>2 DEF named
  <2>4. /\ \A i \in DOMAIN u.ops[v].inputs :
             named[u.ops[v].inputs[i]] = a.operands[c.ops[f[v]].inputs[i]]
        /\ \A i \in DOMAIN u.ops[v].outputs :
             named[u.ops[v].outputs[i]] = a.operands[c.ops[f[v]].outputs[i]]
    BY <2>a, <2>1
  <2>5. /\ theirs.inputs[v] = [i \in DOMAIN u.ops[v].inputs |-> named[u.ops[v].inputs[i]]]
        /\ theirs.outputs[v] = [i \in DOMAIN u.ops[v].outputs |-> named[u.ops[v].outputs[i]]]
    BY <1>4
  <2>6. mine.inputs[f[v]] = theirs.inputs[v]
    <3>1. [i \in DOMAIN c.ops[f[v]].inputs |-> a.operands[c.ops[f[v]].inputs[i]]]
            = [i \in DOMAIN u.ops[v].inputs |-> named[u.ops[v].inputs[i]]]
      BY <2>1, <2>4
    <3> QED BY <2>3, <2>5, <3>1
  <2>7. mine.outputs[f[v]] = theirs.outputs[v]
    <3>1. [i \in DOMAIN c.ops[f[v]].outputs |-> a.operands[c.ops[f[v]].outputs[i]]]
            = [i \in DOMAIN u.ops[v].outputs |-> named[u.ops[v].outputs[i]]]
      BY <2>1, <2>4
    <3> QED BY <2>3, <2>5, <3>1
  <2> QED BY <2>6, <2>7
<1>6. /\ [v \in Ops(u) |-> mine.inputs[f[v]]] = theirs.inputs
      /\ [v \in Ops(u) |-> mine.outputs[f[v]]] = theirs.outputs
      /\ [v \in Ops(u) |-> mine.attributes[f[v]]] = theirs.attributes
  BY <1>3, <1>4, <1>5
<1>7. NamedPlanOf([of |-> a.of, problem |-> MakeProblem(a)]) =
        [user |-> u, problem |-> [inputs |-> [v \in Ops(u) |-> mine.inputs[f[v]]],
                                  outputs |-> [v \in Ops(u) |-> mine.outputs[f[v]]],
                                  attributes |-> [v \in Ops(u) |-> mine.attributes[f[v]]]]]
  BY DEF NamedPlanOf, u, f, mine
<1>8. Named!Wired(NamedArgsOf(a)) = [user |-> u, problem |-> theirs]
  BY <1>2, SameProblems DEF Named!Wired, theirs, named
<1> QED BY <1>4, <1>6, <1>7, <1>8

-----------------------------------------------------------------------------
(* Every step is one the caller may see. *)

\* Args at one handle change, and the caller sees them change there.
LEMMA NamedUpdate ==
  ASSUME BindingInv, NEW h \in Handles, NEW b, b # None, args' = [args EXCEPT ![h] = b]
  PROVE  NamedArgsAll' = [NamedArgsAll EXCEPT ![h] = NamedArgsOf(b)]
<1>1. \A k \in Handles : args'[k] = IF k = h THEN b ELSE args[k]
  BY DEF BindingInv
<1>2. /\ \A k \in Handles : NamedArgsAll'[k] = IF args'[k] = None THEN None ELSE NamedArgsOf(args'[k])
      /\ \A k \in Handles : NamedArgsAll[k] = IF args[k] = None THEN None ELSE NamedArgsOf(args[k])
      /\ NamedArgsAll' = [k \in Handles |-> NamedArgsAll'[k]]
      /\ NamedArgsAll = [k \in Handles |-> NamedArgsAll[k]]
  BY DEF NamedArgsAll
<1>3. \A k \in Handles : NamedArgsAll'[k] = IF k = h THEN NamedArgsOf(b) ELSE NamedArgsAll[k]
  BY <1>1, <1>2
<1>4. [NamedArgsAll EXCEPT ![h] = NamedArgsOf(b)]
        = [k \in Handles |-> IF k = h THEN NamedArgsOf(b) ELSE NamedArgsAll[k]]
  BY <1>2
<1> QED BY <1>2, <1>3, <1>4

LEMMA NamedAt ==
  ASSUME BindingInv, NEW h \in Handles
  PROVE  /\ args[h] # None => ArgsRight(args[h]) /\ NamedArgsAll[h] = NamedArgsOf(args[h])
         /\ NamedArgsAll[h] = None <=> args[h] = None
<1>1. args[h] # None => ArgsRight(args[h]) /\ NamedArgsOf(args[h]) # None
  BY ArgsAreObjects DEF BindingInv
<1>2. NamedArgsAll[h] = IF args[h] = None THEN None ELSE NamedArgsOf(args[h])
  BY DEF NamedArgsAll
<1> QED BY <1>1, <1>2

LEMMA OpsCreateNamed ==
  ASSUME BindingInv, BindingInv', OpsCreate
  PROVE  Named!OpsCreate
<1>1. UNCHANGED <<patternVars, args, plan>>
  BY DEF OpsCreate
<1>2. CASE Supported(pattern) /\ Succeed /\ ops'.user = pattern /\ ops' # None
  BY <1>1, <1>2, SameSupport
     DEF Named!OpsCreate, NamedOps, Succeed, Named!Succeed, patternVars, Named!patternVars
<1>3. CASE ~Supported(pattern) /\ Refuse(OpsRefusal(pattern)) /\ UNCHANGED ops
  BY <1>1, <1>3, SameSupport
     DEF Named!OpsCreate, NamedOps, Refuse, Named!Refuse, patternVars, Named!patternVars
<1>4. CASE /\ Supported(pattern) /\ Succeed
           /\ \E e \in EnginesOf(pattern) : \E f \in [Ops(pattern) -> Ops(Families[e])] :
                /\ IsIsomorphism(pattern, Families[e], f)
                /\ ops' = [user |-> pattern, engine |-> e,
                           operandOf |-> OperandMap(pattern, Families[e], f), opOf |-> f]
  <2>1. pattern \in BuilderType
    BY <1>4 DEF BindingInv, Supported
  <2>2. PICK e \in EnginesOf(pattern) : \E f \in [Ops(pattern) -> Ops(Families[e])] :
                /\ IsIsomorphism(pattern, Families[e], f)
                /\ ops' = [user |-> pattern, engine |-> e,
                           operandOf |-> OperandMap(pattern, Families[e], f), opOf |-> f]
    BY <1>4
  <2>3. PICK f \in [Ops(pattern) -> Ops(Families[e])] :
                /\ IsIsomorphism(pattern, Families[e], f)
                /\ ops' = [user |-> pattern, engine |-> e,
                           operandOf |-> OperandMap(pattern, Families[e], f), opOf |-> f]
    BY <2>2
  <2>4. Matched(ops')
    BY <1>4, <2>1, <2>3, MatchesAreRight
  <2>5. ops' # None
    BY <2>4, NotNull DEF Matched, Fits
  <2> QED BY <1>2, <1>4, <2>3, <2>5
<1> QED BY <1>3, <1>4 DEF OpsCreate

LEMMA ArgsCreateNamed ==
  ASSUME BindingInv, BindingInv', NEW h \in Handles, ArgsCreate(h)
  PROVE  Named!ArgsCreate(h)
<1>1. UNCHANGED <<patternVars, ops, plan>>
  BY DEF ArgsCreate
<1>2. CASE ops # None /\ args' = [args EXCEPT ![h] = EmptyArgs(ops)] /\ Succeed
  <2>1. Matched(ops) /\ ArgsRight(EmptyArgs(ops))
    BY <1>2, EmptyArgsAreRight DEF BindingInv
  <2>2. EmptyArgs(ops) # None
    BY <2>1, ArgsAreObjects
  <2>3. NamedArgsAll' = [NamedArgsAll EXCEPT ![h] = Named!Unset(ops.user)]
    BY <1>2, <2>1, <2>2, NamedUpdate, FreshArgsNamed
  <2>4. NamedOps = ops.user /\ NamedOps # None
    BY <1>2, <2>1, FamilyAssumption DEF NamedOps, Matched, Meet
  <2> QED BY <1>1, <1>2, <2>3, <2>4
          DEF Named!ArgsCreate, NamedArgsAll, NamedOps, Succeed, Named!Succeed, patternVars,
              Named!patternVars
<1>3. CASE ops = None /\ Refuse("INVALID_ARGUMENT") /\ UNCHANGED args
  BY <1>1, <1>3 DEF Named!ArgsCreate, NamedOps, Refuse, Named!Refuse, patternVars, Named!patternVars
<1> QED BY <1>2, <1>3 DEF ArgsCreate

LEMMA SetOperandNamed ==
  ASSUME BindingInv, NEW h \in Handles, NEW s \in OperandSettings, SetOperand(h, s)
  PROVE  Named!SetOperand(h, s)
<1> DEFINE a == args[h]
<1> DEFINE answer == IF a = None \/ ~Sound(s.value) THEN "INVALID_ARGUMENT"
                     ELSE MapUserOperand(a, s.id, s.value.kind)
<1> DEFINE b == [a EXCEPT !.operands[OperandSlot(a, s.id)] = s.value]
<1>1. /\ UNCHANGED <<patternVars, ops, plan>> /\ status' = answer
      /\ args' = IF answer = "SUCCESS" THEN [args EXCEPT ![h] = b] ELSE args
  BY DEF SetOperand
<1>2. answer \in {"SUCCESS", "INVALID_ARGUMENT"}
      /\ (answer = "SUCCESS" <=> Named!Takes(NamedArgsAll[h], s.id, s.value))
  <2>1. CASE a = None
    BY <2>1, NamedAt DEF Named!Takes
  <2>2. CASE a # None
    BY <2>2, NamedAt, TakenByCaller
  <2> QED BY <2>1, <2>2
<1>3. CASE answer = "SUCCESS"
  <2>1. a # None /\ Sound(s.value) /\ MapUserOperand(a, s.id, s.value.kind) = "SUCCESS"
    BY <1>3
  <2>2. ArgsRight(a) /\ NamedArgsAll[h] = NamedArgsOf(a)
    BY <2>1, NamedAt
  <2>3. /\ ArgsRight(b)
        /\ b = [of |-> a.of, attributes |-> a.attributes,
                operands |-> [a.operands EXCEPT ![a.of.operandOf[s.id]] = s.value]]
    BY <2>1, <2>2, OperandSet DEF OperandSlot
  <2>4. s.id \in Operands(a.of.user)
    BY <2>1, <2>2, TakenByCaller
  <2> HIDE DEF b
  <2>5. NamedArgsOf(b) = [NamedArgsAll[h] EXCEPT !.operands[s.id] = s.value]
    <3>1. NamedArgsOf(b) = [NamedArgsOf(a) EXCEPT !.operands[s.id] = s.value]
      <4> HIDE DEF a
      <4> QED BY <2>2, <2>3, <2>4, OperandNamed
    <3> QED BY <2>2, <3>1
  <2>6. b # None
    BY <2>3, ArgsAreObjects
  <2>7. args' = [args EXCEPT ![h] = b]
    BY <1>1, <1>3 DEF b
  <2>8. NamedArgsAll' = [NamedArgsAll EXCEPT ![h] = NamedArgsOf(b)]
    BY <2>6, <2>7, NamedUpdate
  <2>9. NamedArgsAll' = [NamedArgsAll EXCEPT ![h].operands[s.id] = s.value]
    BY <2>5, <2>8
  <2> QED BY <1>1, <1>2, <1>3, <2>9
          DEF Named!SetOperand, NamedArgsAll, NamedOps, NamedPlan, Named!Succeed, patternVars,
              Named!patternVars
<1>4. CASE answer # "SUCCESS"
  <2>1. UNCHANGED args /\ status' = "INVALID_ARGUMENT" /\ ~Named!Takes(NamedArgsAll[h], s.id, s.value)
    BY <1>1, <1>2, <1>4
  <2> QED BY <1>1, <2>1
          DEF Named!SetOperand, NamedArgsAll, NamedOps, Named!Refuse, patternVars, Named!patternVars
<1> QED BY <1>3, <1>4

LEMMA SetOperationNamed ==
  ASSUME BindingInv, NEW h \in Handles, NEW s \in OpSettings, SetOperation(h, s)
  PROVE  Named!SetOperation(h, s)
<1> DEFINE a == args[h]
<1> DEFINE answer == IF a = None \/ ~Computes(s.value) THEN "INVALID_ARGUMENT"
                     ELSE MapUserOp(a, s.id, s.value.kind)
<1> DEFINE b == [a EXCEPT !.attributes[OpSlot(a, s.id)] = s.value]
<1>1. /\ UNCHANGED <<patternVars, ops, plan>> /\ status' = answer
      /\ args' = IF answer = "SUCCESS" THEN [args EXCEPT ![h] = b] ELSE args
  BY DEF SetOperation
<1>2. answer \in {"SUCCESS", "INVALID_ARGUMENT"}
      /\ (answer = "SUCCESS" <=> Named!TakesOp(NamedArgsAll[h], s.id, s.value))
  <2>1. CASE a = None
    BY <2>1, NamedAt DEF Named!TakesOp
  <2>2. CASE a # None
    BY <2>2, NamedAt, TakenByCallersOperation
  <2> QED BY <2>1, <2>2
<1>3. CASE answer = "SUCCESS"
  <2>1. a # None /\ Computes(s.value) /\ MapUserOp(a, s.id, s.value.kind) = "SUCCESS"
    BY <1>3
  <2>2. ArgsRight(a) /\ NamedArgsAll[h] = NamedArgsOf(a)
    BY <2>1, NamedAt
  <2>3. /\ ArgsRight(b)
        /\ b = [of |-> a.of, operands |-> a.operands,
                attributes |-> [a.attributes EXCEPT ![a.of.opOf[s.id]] = s.value]]
    BY <2>1, <2>2, OperationSet DEF OpSlot
  <2>4. s.id \in Ops(a.of.user)
    BY <2>1, <2>2, TakenByCallersOperation
  <2> HIDE DEF b
  <2>5. NamedArgsOf(b) = [NamedArgsAll[h] EXCEPT !.attributes[s.id] = s.value]
    BY <2>2, <2>3, <2>4, OperationNamed
  <2>6. b # None
    BY <2>3, ArgsAreObjects
  <2>7. args' = [args EXCEPT ![h] = b]
    BY <1>1, <1>3 DEF b
  <2>8. NamedArgsAll' = [NamedArgsAll EXCEPT ![h] = NamedArgsOf(b)]
    BY <2>6, <2>7, NamedUpdate
  <2>9. NamedArgsAll' = [NamedArgsAll EXCEPT ![h].attributes[s.id] = s.value]
    BY <2>5, <2>8
  <2> QED BY <1>1, <1>2, <1>3, <2>9
          DEF Named!SetOperation, NamedArgsAll, NamedOps, NamedPlan, Named!Succeed, patternVars,
              Named!patternVars
<1>4. CASE answer # "SUCCESS"
  <2>1. UNCHANGED args /\ status' = "INVALID_ARGUMENT" /\ ~Named!TakesOp(NamedArgsAll[h], s.id, s.value)
    BY <1>1, <1>2, <1>4
  <2> QED BY <1>1, <2>1
          DEF Named!SetOperation, NamedArgsAll, NamedOps, Named!Refuse, patternVars, Named!patternVars
<1> QED BY <1>3, <1>4

LEMMA PlanCreateNamed ==
  ASSUME BindingInv, BindingInv', NEW h \in Handles, PlanCreate(h)
  PROVE  Named!PlanCreate(h)
<1> DEFINE a == args[h]
<1> DEFINE valid == a # None /\ IsComplete(a)
<1>1. UNCHANGED <<patternVars, ops, args>>
  BY DEF PlanCreate
<1>2. Named!Ready(NamedArgsAll[h]) <=> valid
  <2>1. CASE a = None
    BY <2>1, NamedAt DEF Named!Ready
  <2>2. CASE a # None
    BY <2>2, NamedAt, CompleteByCaller
  <2> QED BY <2>1, <2>2
<1>3. CASE valid /\ plan' = [of |-> a.of, problem |-> MakeProblem(a)] /\ Succeed
  <2>1. ArgsRight(a) /\ NamedArgsAll[h] = NamedArgsOf(a)
    BY <1>3, NamedAt
  <2>2. plan' # None
    BY <1>3, <2>1, PlansAreRight, PlansAreObjects
  <2>3. NamedPlanOf(plan') = Named!Wired(NamedArgsAll[h])
    BY <1>3, <2>1, PlanNamed
  <2>4. NamedPlan' = Named!Wired(NamedArgsAll[h])
    BY <2>2, <2>3 DEF NamedPlan
  <2> HIDE DEF valid
  <2> QED BY <1>1, <1>2, <1>3, <2>4
          DEF Named!PlanCreate, NamedArgsAll, NamedOps, NamedPlan, Succeed, Named!Succeed,
              patternVars, Named!patternVars
<1>4. CASE valid /\ (\E s \in PlanFailures : Refuse(s)) /\ UNCHANGED plan
  <2> HIDE DEF valid
  <2> QED BY <1>1, <1>2, <1>4
          DEF Named!PlanCreate, NamedArgsAll, NamedOps, PlanFailures, Named!PlanFailures, Refuse,
              Named!Refuse, patternVars, Named!patternVars
<1>5. CASE ~valid /\ Refuse("INVALID_ARGUMENT") /\ UNCHANGED plan
  <2> HIDE DEF valid
  <2> QED BY <1>1, <1>2, <1>5
          DEF Named!PlanCreate, NamedArgsAll, NamedOps, Refuse, Named!Refuse, patternVars,
              Named!patternVars
<1> QED BY <1>3, <1>4, <1>5 DEF PlanCreate

LEMMA DestroysNamed ==
  ASSUME BindingInv
  PROVE  /\ OpsDestroy => Named!OpsDestroy
         /\ PlanDestroy => Named!PlanDestroy
         /\ \A h \in Handles : ArgsDestroy(h) => Named!ArgsDestroy(h)
<1>1. ASSUME OpsDestroy PROVE Named!OpsDestroy
  <2>1. NamedOps = None <=> ops = None
    BY FamilyAssumption DEF NamedOps, BindingInv, Matched, Meet
  <2> QED BY <1>1, <2>1
          DEF OpsDestroy, Named!OpsDestroy, NamedOps, Answer, Named!Answer, Succeed,
              Named!Succeed, Refuse, Named!Refuse, patternVars, Named!patternVars
<1>2. ASSUME PlanDestroy PROVE Named!PlanDestroy
  <2>1. NamedPlan = None <=> plan = None
    BY PlansAreObjects DEF NamedPlan, BindingInv
  <2> QED BY <1>2, <2>1
          DEF PlanDestroy, Named!PlanDestroy, NamedOps, NamedPlan, Answer, Named!Answer, Succeed,
              Named!Succeed, Refuse, Named!Refuse, patternVars, Named!patternVars
<1>3. ASSUME NEW h \in Handles, ArgsDestroy(h) PROVE Named!ArgsDestroy(h)
  <2>1. NamedArgsAll[h] = None <=> args[h] = None
    BY NamedAt
  <2>2. \A k \in Handles : args'[k] = IF k = h THEN None ELSE args[k]
    BY <1>3 DEF ArgsDestroy, BindingInv
  <2>3. NamedArgsAll' = [NamedArgsAll EXCEPT ![h] = None]
    <3>1. /\ \A k \in Handles : NamedArgsAll'[k] = IF args'[k] = None THEN None ELSE NamedArgsOf(args'[k])
          /\ \A k \in Handles : NamedArgsAll[k] = IF args[k] = None THEN None ELSE NamedArgsOf(args[k])
          /\ NamedArgsAll' = [k \in Handles |-> NamedArgsAll'[k]]
          /\ NamedArgsAll = [k \in Handles |-> NamedArgsAll[k]]
      BY DEF NamedArgsAll
    <3>2. \A k \in Handles : NamedArgsAll'[k] = IF k = h THEN None ELSE NamedArgsAll[k]
      BY <2>2, <3>1
    <3>3. [NamedArgsAll EXCEPT ![h] = None] = [k \in Handles |-> IF k = h THEN None ELSE NamedArgsAll[k]]
      BY <3>1
    <3> QED BY <3>1, <3>2, <3>3
  <2> QED BY <1>3, <2>1, <2>3
          DEF ArgsDestroy, Named!ArgsDestroy, NamedArgsAll, NamedOps, NamedPlan, Answer,
              Named!Answer, Succeed, Named!Succeed, Refuse, Named!Refuse, patternVars,
              Named!patternVars
<1> QED BY <1>1, <1>2, <1>3

LEMMA StartNamed == Init => Named!Init
  BY DEF Init, Named!Init, PatternInit, Named!PatternInit, NamedOps

LEMMA StepNamed ==
  ASSUME BindingInv, BindingInv', [Next]_vars
  PROVE  [Named!Next]_(Named!vars)
<1>1. CASE Describe /\ UNCHANGED <<ops, args, plan>>
  <2>1. Named!Describe
    BY <1>1, SameDescribe
  <2> QED BY <1>1, <2>1 DEF Named!Next, NamedOps
<1>2. CASE OpsCreate
  BY <1>2, OpsCreateNamed DEF Named!Next
<1>3. ASSUME NEW h \in Handles, ArgsCreate(h) PROVE Named!Next
  BY <1>3, ArgsCreateNamed DEF Named!Next
<1>4. ASSUME NEW h \in Handles, NEW s \in OperandSettings, SetOperand(h, s) PROVE Named!Next
  BY <1>4, SetOperandNamed DEF Named!Next
<1>5. ASSUME NEW h \in Handles, NEW s \in OpSettings, SetOperation(h, s) PROVE Named!Next
  BY <1>5, SetOperationNamed DEF Named!Next
<1>6. ASSUME NEW h \in Handles, PlanCreate(h) PROVE Named!Next
  BY <1>6, PlanCreateNamed DEF Named!Next
<1>7. CASE OpsDestroy \/ PlanDestroy
  BY <1>7, DestroysNamed DEF Named!Next
<1>8. ASSUME NEW h \in Handles, ArgsDestroy(h) PROVE Named!Next
  BY <1>8, DestroysNamed DEF Named!Next
<1>9. CASE OutOfMemory
  <2>1. Named!OutOfMemory
    BY <1>9 DEF OutOfMemory, Named!OutOfMemory, NamedOps, Refuse, Named!Refuse, patternVars,
            Named!patternVars
  <2> QED BY <2>1 DEF Named!Next
<1>10. CASE UNCHANGED vars
  BY <1>10 DEF vars, Named!vars, NamedOps, patternVars, Named!patternVars
<1> QED BY <1>1, <1>2, <1>3, <1>4, <1>5, <1>6, <1>7, <1>8, <1>9, <1>10 DEF Next

\* For all engines, matches, settings and handles: Ops, Args and Plans behave
\* as common.h says in terms of the IDs of the caller's own Pattern.
THEOREM CallersSeeTheirIds == Spec => ImplementsNamed
<1>1. BindingInv /\ BindingInv' /\ [Next]_vars => [Named!Next]_(Named!vars)
  BY StepNamed
<1> QED BY StartNamed, <1>1, AlwaysRight, PTL DEF Spec, ImplementsNamed, Named!Spec
===============================================================================
