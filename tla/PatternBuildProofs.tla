-------------------------- MODULE PatternBuildProofs --------------------------
(***************************************************************************)
(* Theorems about PatternBuild, for every set of builders: a pattern is    *)
(* built exactly from the acyclic ones, a cycle is always reported with an *)
(* edge, and colors are stable and follow the shape.                       *)
(*                                                                         *)
(* The argument is the one of Kahn's algorithm. While operations are       *)
(* peeled, the in-degree of an operation is the number of its inputs that  *)
(* wait for an operation not peeled yet (Counted), and no operation of a   *)
(* set whose operations wait for each other was ever peeled.               *)
(*                                                                         *)
(* Of colors: a round tells apart whatever the one before did, so as many  *)
(* colors are the same partition, and signatures depend on the partition   *)
(* alone (SettledIsStable); a symmetry carries the ports of an operand to  *)
(* those of another, which therefore see the same (SymmetryStays).         *)
(***************************************************************************)
EXTENDS PatternBuild, TLAPS, FiniteSetTheorems, WellFoundedInduction

PortsOf(b, s) == {q \in InputPorts(b) : q.op = s}

\* The input ports of s that wait for an operation outside P.
Waiting(b, P, s) ==
  {q \in PortsOf(b, s) : \E r \in Producers(b, InputAt(b, q)) : r.op \notin P}

\* What was taken away: it waits for nothing and is not peelable any more.
Peeled(b, degree, list) == {o \in Ops(b) : degree[o] = 0 /\ o \notin list}

Acyclic(b) == \A S \in SUBSET Ops(b) : ~Blocked(b, S)

\* The state of the peeling loop.
Counted(b, degree, list, n) ==
  LET P == Peeled(b, degree, list)
  IN  /\ \A o \in Ops(b) : degree[o] = Cardinality(Waiting(b, P, o))
      /\ \A o \in list : degree[o] = 0
      /\ n = Cardinality(P)
      /\ \A S \in SUBSET Ops(b) : Blocked(b, S) => S \cap P = {}

PhaseInv ==
  /\ builder \in Builders
  /\ pc \notin {"validate", "done"} => WellFormed(builder)
  /\ pc \in {"peel", "name"} => Counted(builder, inDegree, peelable, numPeeled)
  /\ pc = "name" => peelable = {} /\ numPeeled # Len(builder.ops)
  /\ pc = "color" => Acyclic(builder)
  /\ pc = "done" <=> outcome # "none"

KahnInv == TypeOK /\ PhaseInv /\ AcceptsExactlyDags /\ AlwaysNamesEdge

-----------------------------------------------------------------------------
(* Facts about the operators. *)

LEMMA Lengths ==
  ASSUME NEW b \in Builders
  PROVE  /\ Len(b.kinds) \in Nat /\ Operands(b) = 1 .. Len(b.kinds)
         /\ Len(b.ops) \in Nat /\ Ops(b) = 1 .. Len(b.ops)
         /\ \A o \in Ops(b) : IsFiniteSet(DOMAIN b.ops[o].inputs)
         /\ IsFiniteSet(Ops(b)) /\ Cardinality(Ops(b)) = Len(b.ops)
         /\ IsFiniteSet(Operands(b)) /\ Cardinality(Operands(b)) = Len(b.kinds)
<1>1. /\ Len(b.kinds) \in Nat /\ Operands(b) = 1 .. Len(b.kinds)
      /\ Len(b.ops) \in Nat /\ Ops(b) = 1 .. Len(b.ops)
  BY BuildAssumption
<1>2. IsFiniteSet(1 .. Len(b.ops)) /\ Cardinality(1 .. Len(b.ops)) = Len(b.ops)
  BY <1>1, FS_Interval
<1>3. IsFiniteSet(1 .. Len(b.kinds)) /\ Cardinality(1 .. Len(b.kinds)) = Len(b.kinds)
  BY <1>1, FS_Interval
<1>4. ASSUME NEW o \in Ops(b) PROVE IsFiniteSet(DOMAIN b.ops[o].inputs)
  <2>1. b.ops[o].inputs \in Seq(Nat)
    BY BuildAssumption
  <2>2. DOMAIN b.ops[o].inputs = 1 .. Len(b.ops[o].inputs) /\ Len(b.ops[o].inputs) \in Nat
    BY <2>1
  <2> QED BY <2>2, FS_Interval
<1> QED BY <1>1, <1>2, <1>3, <1>4

LEMMA PortsFinite ==
  ASSUME NEW b \in Builders, NEW s \in Ops(b)
  PROVE  IsFiniteSet(PortsOf(b, s))
<1> DEFINE D == DOMAIN b.ops[s].inputs
           f == [i \in D |-> [op |-> s, port |-> i]]
<1>1. PortsOf(b, s) = {[op |-> s, port |-> i] : i \in D}
  BY DEF PortsOf, InputPorts
<1>2. f \in Surjection(D, PortsOf(b, s))
  BY <1>1 DEF Surjection
<1>3. IsFiniteSet(D)
  BY Lengths
<1> QED BY <1>2, <1>3, FS_Surjection

LEMMA WaitingCount ==
  ASSUME NEW b \in Builders, NEW s \in Ops(b), NEW P
  PROVE  /\ IsFiniteSet(Waiting(b, P, s))
         /\ Cardinality(Waiting(b, P, s)) \in Nat
         /\ Cardinality(Waiting(b, P, s)) = 0 <=> Waiting(b, P, s) = {}
<1>1. Waiting(b, P, s) \in SUBSET PortsOf(b, s)
  BY DEF Waiting
<1>2. IsFiniteSet(Waiting(b, P, s))
  BY <1>1, PortsFinite, FS_Subset
<1> QED BY <1>2, FS_CardinalityType, FS_EmptySet

LEMMA ProducerIsOp ==
  ASSUME NEW b, NEW r \in OutputPorts(b)
  PROVE  r.op \in Ops(b)
  BY DEF OutputPorts

LEMMA PeelOne ==
  ASSUME NEW b \in Builders, WellFormed(b), NEW P, NEW o \in Ops(b), o \notin P, NEW s \in Ops(b)
  PROVE  /\ Cardinality(Waiting(b, P \cup {o}, s))
              = Cardinality(Waiting(b, P, s)) - Cardinality(FedPorts(b, o, s))
         /\ Waiting(b, P, s) = {} => FedPorts(b, o, s) = {}
<1>1. FedPorts(b, o, s) \subseteq Waiting(b, P, s)
  BY DEF FedPorts, Waiting, PortsOf
<1>2. ASSUME NEW q \in PortsOf(b, s)
      PROVE  q \in Waiting(b, P \cup {o}, s) <=> q \in Waiting(b, P, s) /\ q \notin FedPorts(b, o, s)
  <2>1. \A r, t \in Producers(b, InputAt(b, q)) : r = t
    BY DEF WellFormed, Producers
  <2> QED BY <1>2, <2>1 DEF Waiting, FedPorts, PortsOf
<1>3. Waiting(b, P \cup {o}, s) = Waiting(b, P, s) \ FedPorts(b, o, s)
  BY <1>2 DEF Waiting
<1>4. Waiting(b, P, s) \cap FedPorts(b, o, s) = FedPorts(b, o, s)
  BY <1>1
<1>5. IsFiniteSet(Waiting(b, P, s))
  BY WaitingCount
<1>6. Cardinality(Waiting(b, P, s) \ FedPorts(b, o, s))
        = Cardinality(Waiting(b, P, s)) - Cardinality(Waiting(b, P, s) \cap FedPorts(b, o, s))
  BY <1>5, FS_Difference
<1> QED BY <1>1, <1>3, <1>4, <1>6

\* What waits for an operation outside P has a producer there.
LEMMA WaitsForAnother ==
  ASSUME NEW b, NEW P, NEW s \in Ops(b)
  PROVE  /\ Waiting(b, P, s) # {} => \E p \in Ops(b) : p \notin P /\ FedPorts(b, p, s) # {}
         /\ \A p \in Ops(b) : p \notin P /\ FedPorts(b, p, s) # {} => Waiting(b, P, s) # {}
<1>1. ASSUME NEW q \in Waiting(b, P, s)
      PROVE  \E p \in Ops(b) : p \notin P /\ FedPorts(b, p, s) # {}
  <2>1. PICK r \in Producers(b, InputAt(b, q)) : r.op \notin P
    BY DEF Waiting
  <2>2. q \in FedPorts(b, r.op, s)
    BY <2>1 DEF Waiting, FedPorts, PortsOf
  <2>3. r.op \in Ops(b)
    BY ProducerIsOp DEF Producers
  <2> QED BY <2>1, <2>2, <2>3
<1>2. ASSUME NEW p \in Ops(b), p \notin P, NEW q \in FedPorts(b, p, s)
      PROVE  q \in Waiting(b, P, s)
  BY <1>2 DEF Waiting, FedPorts, PortsOf
<1> QED BY <1>1, <1>2

-----------------------------------------------------------------------------
(* The peeling loop. *)

LEMMA PeelingStarts ==
  ASSUME NEW b \in Builders, NEW degree,
         degree = [o \in Ops(b) |-> Cardinality(FedByAny(b, o))]
  PROVE  Counted(b, degree, {o \in Ops(b) : degree[o] = 0}, 0)
<1> DEFINE list == {o \in Ops(b) : degree[o] = 0}
<1>1. Peeled(b, degree, list) = {}
  BY DEF Peeled
<1>2. ASSUME NEW o \in Ops(b)
      PROVE  FedByAny(b, o) = Waiting(b, {}, o)
  <2>1. ASSUME NEW q \in FedByAny(b, o)
        PROVE  q \in Waiting(b, {}, o)
    BY DEF FedByAny, FedPorts, Waiting, PortsOf
  <2>2. ASSUME NEW q \in Waiting(b, {}, o)
        PROVE  q \in FedByAny(b, o)
    <3>1. PICK r \in Producers(b, InputAt(b, q)) : TRUE
      BY DEF Waiting
    <3>2. r.op \in Ops(b)
      BY ProducerIsOp DEF Producers
    <3>3. q \in FedPorts(b, r.op, o)
      BY DEF Waiting, FedPorts, PortsOf
    <3> QED BY <3>2, <3>3 DEF FedByAny
  <2> QED BY <2>1, <2>2
<1>3. \A o \in Ops(b) : degree[o] = Cardinality(Waiting(b, {}, o))
  BY <1>2
<1>4. Cardinality({}) = 0
  BY FS_EmptySet
<1> QED BY <1>1, <1>3, <1>4 DEF Counted

LEMMA PeelingGoesOn ==
  ASSUME NEW b \in Builders, WellFormed(b), NEW degree, NEW list \in SUBSET Ops(b), NEW n,
         Counted(b, degree, list, n), NEW o \in list, NEW degree1, NEW list1,
         degree1 = [s \in Ops(b) |-> degree[s] - Cardinality(FedPorts(b, o, s))],
         list1 = (list \ {o}) \cup {s \in Ops(b) : degree[s] > 0 /\ degree1[s] = 0}
  PROVE  Counted(b, degree1, list1, n + 1)
<1> DEFINE P == Peeled(b, degree, list)
           P1 == Peeled(b, degree1, list1)
<1>1. o \in Ops(b) /\ o \notin P /\ degree[o] = 0
  BY DEF Counted, Peeled
<1> HIDE DEF P
<1>2. ASSUME NEW s \in Ops(b)
      PROVE  /\ degree1[s] = Cardinality(Waiting(b, P \cup {o}, s))
             /\ degree[s] = 0 => degree1[s] = 0
             /\ degree[s] \in Nat
  <2>1. degree[s] = Cardinality(Waiting(b, P, s))
    BY DEF Counted, P
  <2>2. degree1[s] = Cardinality(Waiting(b, P \cup {o}, s))
    <3>1. Cardinality(Waiting(b, P \cup {o}, s))
            = Cardinality(Waiting(b, P, s)) - Cardinality(FedPorts(b, o, s))
      BY <1>1, PeelOne
    <3> QED BY <2>1, <3>1
  <2>3. degree[s] = 0 => degree1[s] = 0
    <3>1. Waiting(b, P, s) = {} => FedPorts(b, o, s) = {}
      BY <1>1, PeelOne
    <3>2. degree[s] = 0 => Cardinality(FedPorts(b, o, s)) = 0
      BY <2>1, <3>1, WaitingCount, FS_EmptySet
    <3> QED BY <3>2
  <2> QED BY <2>1, <2>2, <2>3, WaitingCount
<1>3. P1 = P \cup {o}
  <2>1. ASSUME NEW s \in Ops(b)
        PROVE  s \in P1 <=> s \in P \/ s = o
    <3>1. s \in list1 <=> (s \in list /\ s # o) \/ (degree[s] > 0 /\ degree1[s] = 0)
      OBVIOUS
    <3>2. s \in P <=> degree[s] = 0 /\ s \notin list
      BY DEF Peeled, P
    <3>3. s \in P1 <=> degree1[s] = 0 /\ s \notin list1
      BY DEF Peeled
    <3>4. degree[s] \in Nat /\ (degree[s] = 0 => degree1[s] = 0)
      BY <1>2
    <3>5. CASE s = o
      BY <1>1, <3>1, <3>3, <3>4, <3>5
    <3>6. CASE s # o
      <4>1. CASE degree[s] = 0
        BY <3>1, <3>2, <3>3, <3>4, <3>6, <4>1
      <4>2. CASE degree[s] > 0
        BY <3>1, <3>2, <3>3, <3>6, <4>2
      <4> QED BY <3>4, <4>1, <4>2
    <3> QED BY <3>5, <3>6
  <2> QED BY <1>1, <2>1 DEF Peeled, P
<1>4. Cardinality(P \cup {o}) = Cardinality(P) + 1
  <2>1. IsFiniteSet(P)
    BY Lengths, FS_Subset DEF Peeled, P
  <2> QED BY <1>1, <2>1, FS_AddElement
<1>5. ASSUME NEW s \in list1
      PROVE  degree1[s] = 0
  BY <1>2 DEF Counted
<1>6. ASSUME NEW S \in SUBSET Ops(b), Blocked(b, S)
      PROVE  S \cap P1 = {}
  <2>1. S \cap P = {}
    BY <1>6 DEF Counted, P
  <2>2. ASSUME o \in S PROVE FALSE
    <3>1. PICK p \in S : FedPorts(b, p, o) # {}
      BY <1>6, <2>2 DEF Blocked
    <3>2. Waiting(b, P, o) # {}
      BY <1>1, <2>1, <3>1, WaitsForAnother
    <3> QED BY <1>1, <3>2, WaitingCount DEF Counted, P
  <2> QED BY <1>3, <2>1, <2>2
<1> QED BY <1>2, <1>3, <1>4, <1>5, <1>6 DEF Counted, P

LEMMA PeelingEnds ==
  ASSUME NEW b \in Builders, NEW degree, NEW n, Counted(b, degree, {}, n)
  PROVE  /\ n = Len(b.ops) => Acyclic(b)
         /\ n # Len(b.ops) => Blocked(b, {o \in Ops(b) : degree[o] # 0})
<1> DEFINE P == Peeled(b, degree, {})
           U == {o \in Ops(b) : degree[o] # 0}
<1>1. P \in SUBSET Ops(b) /\ U = Ops(b) \ P
  BY DEF Peeled
<1>2. ASSUME n = Len(b.ops) PROVE Acyclic(b)
  <2>1. P = Ops(b)
    BY <1>1, <1>2, Lengths, FS_Subset DEF Counted
  <2>2. ASSUME NEW S \in SUBSET Ops(b), Blocked(b, S)
        PROVE  FALSE
    <3>1. S \cap P = {} /\ S # {}
      BY <2>2 DEF Counted, Blocked
    <3> QED BY <2>1, <3>1
  <2> QED BY <2>2 DEF Acyclic
<1>3. ASSUME n # Len(b.ops) PROVE Blocked(b, U)
  <2>1. U # {}
    <3>1. P # Ops(b)
      BY <1>3, Lengths DEF Counted
    <3> QED BY <1>1, <3>1
  <2>2. ASSUME NEW s \in U
        PROVE  \E p \in U : FedPorts(b, p, s) # {}
    <3>1. Waiting(b, P, s) # {}
      BY WaitingCount DEF Counted
    <3> QED BY <1>1, <3>1, WaitsForAnother
  <2> QED BY <2>1, <2>2 DEF Blocked
<1> QED BY <1>2, <1>3

-----------------------------------------------------------------------------
(* The inductive invariant. *)

LEMMA SumBound ==
  ASSUME NEW x \in Nat, NEW y \in Nat, NEW m \in Nat, NEW n \in Nat, x <= m, y <= n
  PROVE  m + n \in Nat /\ x + y \in 0 .. m + n
  OBVIOUS

LEMMA ColorBound ==
  ASSUME NEW b \in Builders, NEW c
  PROVE  NumVertices(b) \in Nat /\ CountColors(b, c) \in 0 .. NumVertices(b)
<1> DEFINE X == {c.operands[x] : x \in Operands(b)}
           Y == {c.ops[o] : o \in Ops(b)}
<1>1. [x \in Operands(b) |-> c.operands[x]] \in Surjection(Operands(b), X)
  BY DEF Surjection
<1>2. [o \in Ops(b) |-> c.ops[o]] \in Surjection(Ops(b), Y)
  BY DEF Surjection
<1>3. IsFiniteSet(X) /\ Cardinality(X) <= Len(b.kinds)
  BY <1>1, Lengths, FS_Surjection
<1>4. IsFiniteSet(Y) /\ Cardinality(Y) <= Len(b.ops)
  BY <1>2, Lengths, FS_Surjection
<1>5. Cardinality(X) \in Nat /\ Cardinality(Y) \in Nat
  BY <1>3, <1>4, FS_CardinalityType
<1> HIDE DEF X, Y
<1>6. NumVertices(b) = Len(b.kinds) + Len(b.ops)
  BY DEF NumVertices
<1>7. PICK m \in Nat, n \in Nat : m = Len(b.kinds) /\ n = Len(b.ops)
  BY Lengths
<1>8. Cardinality(X) <= m /\ Cardinality(Y) <= n /\ NumVertices(b) = m + n
  BY <1>3, <1>4, <1>6, <1>7
<1>9. m + n \in Nat /\ Cardinality(X) + Cardinality(Y) \in 0 .. m + n
  BY <1>5, <1>8, SumBound
<1> QED BY <1>8, <1>9 DEF CountColors, X, Y

LEMMA CountedTypes ==
  ASSUME NEW b \in Builders, NEW degree, NEW list, NEW n, Counted(b, degree, list, n)
  PROVE  /\ \A o \in Ops(b) : degree[o] \in Nat
         /\ n \in 0 .. Len(b.ops)
<1>1. \A o \in Ops(b) : degree[o] \in Nat
  BY WaitingCount DEF Counted
<1> DEFINE P == Peeled(b, degree, list)
<1>2. P \in SUBSET Ops(b)
  BY DEF Peeled
<1> HIDE DEF P
<1>3. IsFiniteSet(P) /\ Cardinality(P) <= Len(b.ops)
  BY <1>2, Lengths, FS_Subset
<1>4. n = Cardinality(P)
  BY DEF Counted, P
<1> QED BY <1>1, <1>3, <1>4, Lengths, FS_CardinalityType

LEMMA InitKahn == Init => KahnInv
<1> SUFFICES ASSUME Init PROVE KahnInv
  OBVIOUS
<1>1. builder \in Builders
  BY DEF Init
<1>2. NumVertices(builder) \in Nat /\ Len(builder.ops) \in Nat
  BY <1>1, Lengths, ColorBound
<1>3. TypeOK
  BY <1>1, <1>2 DEF Init, TypeOK, NoEdge
<1> QED BY <1>3 DEF Init, KahnInv, PhaseInv, AcceptsExactlyDags, AlwaysNamesEdge

LEMMA ValidateKahn == KahnInv /\ Validate => KahnInv'
<1> SUFFICES ASSUME KahnInv, Validate PROVE KahnInv'
  OBVIOUS
<1>1. TypeOK'
  BY DEF KahnInv, TypeOK, Validate, End
<1>2. PhaseInv' /\ AlwaysNamesEdge'
  BY DEF KahnInv, PhaseInv, AlwaysNamesEdge, Validate, End
<1>3. AcceptsExactlyDags'
  BY DEF KahnInv, AcceptsExactlyDags, Validate, End
<1> QED BY <1>1, <1>2, <1>3 DEF KahnInv

LEMMA CountDegreesKahn == KahnInv /\ CountDegrees => KahnInv'
<1> SUFFICES ASSUME KahnInv, CountDegrees PROVE KahnInv'
  OBVIOUS
<1>1. builder' = builder /\ builder \in Builders
  BY DEF KahnInv, PhaseInv, CountDegrees
<1>2. Counted(builder, inDegree', peelable', numPeeled')
  BY <1>1, PeelingStarts DEF CountDegrees
<1>3. TypeOK'
  BY <1>1, <1>2, CountedTypes DEF KahnInv, TypeOK, CountDegrees
<1>4. PhaseInv' /\ AlwaysNamesEdge' /\ AcceptsExactlyDags'
  BY <1>1, <1>2 DEF KahnInv, PhaseInv, AlwaysNamesEdge, AcceptsExactlyDags, CountDegrees
<1> QED BY <1>3, <1>4 DEF KahnInv

LEMMA PeelKahn ==
  ASSUME KahnInv, NEW o \in Ops(builder), Peel(o)
  PROVE  KahnInv'
<1>1. builder' = builder /\ builder \in Builders /\ WellFormed(builder)
  BY DEF KahnInv, PhaseInv, Peel
<1>2. Counted(builder, inDegree, peelable, numPeeled) /\ peelable \in SUBSET Ops(builder)
  BY DEF KahnInv, PhaseInv, TypeOK, Peel
<1>3. Counted(builder, inDegree', peelable', numPeeled')
  BY <1>1, <1>2, PeelingGoesOn DEF Peel
<1>4. TypeOK'
  BY <1>1, <1>3, CountedTypes DEF KahnInv, TypeOK, Peel
<1>5. PhaseInv' /\ AlwaysNamesEdge' /\ AcceptsExactlyDags'
  BY <1>1, <1>3 DEF KahnInv, PhaseInv, AlwaysNamesEdge, AcceptsExactlyDags, Peel
<1> QED BY <1>4, <1>5 DEF KahnInv

LEMMA FinishKahn == KahnInv /\ FinishPeeling => KahnInv'
<1> SUFFICES ASSUME KahnInv, FinishPeeling PROVE KahnInv'
  OBVIOUS
<1>1. builder \in Builders /\ Counted(builder, inDegree, {}, numPeeled)
  BY DEF KahnInv, PhaseInv, FinishPeeling
<1>2. numPeeled = Len(builder.ops) => Acyclic(builder)
  BY <1>1, PeelingEnds
<1>3. TypeOK'
  BY DEF KahnInv, TypeOK, FinishPeeling
<1>4. PhaseInv' /\ AlwaysNamesEdge' /\ AcceptsExactlyDags'
  BY <1>2 DEF KahnInv, PhaseInv, AlwaysNamesEdge, AcceptsExactlyDags, FinishPeeling
<1> QED BY <1>3, <1>4 DEF KahnInv

LEMMA NameEdgeKahn == KahnInv /\ NameEdge => KahnInv'
<1> SUFFICES ASSUME KahnInv, NameEdge PROVE KahnInv'
  OBVIOUS
<1>1. /\ builder' = builder /\ builder \in Builders /\ WellFormed(builder)
      /\ Counted(builder, inDegree, {}, numPeeled) /\ numPeeled # Len(builder.ops)
  BY DEF KahnInv, PhaseInv, NameEdge
<1>2. Blocked(builder, Unpeeled)
  BY <1>1, PeelingEnds DEF Unpeeled
<1>3. CycleEdges # {}
  <2>1. PICK s \in Unpeeled : \E p \in Unpeeled : FedPorts(builder, p, s) # {}
    BY <1>2 DEF Blocked
  <2>2. PICK p \in Unpeeled : FedPorts(builder, p, s) # {}
    BY <2>1
  <2>3. PICK q \in FedPorts(builder, p, s) : TRUE
    BY <2>2
  <2>4. q \in CycleEdges
    BY <2>1, <2>2, <2>3 DEF CycleEdges, FedPorts
  <2> QED BY <2>4
<1>4. PICK q \in CycleEdges :
        /\ edge' = [op |-> q.op, operand |-> InputAt(builder, q)]
        /\ pc' = "done" /\ outcome' = "INVALID_ARGUMENT"
  BY <1>3 DEF NameEdge, End
<1>5. q.op \in Ops(builder) /\ InputAt(builder, q) \in Operands(builder)
  BY <1>1 DEF CycleEdges, Unpeeled, WellFormed
<1>6. TypeOK'
  BY <1>4, <1>5 DEF KahnInv, TypeOK, NameEdge
<1>7. AcceptsExactlyDags'
  <2>1. Unpeeled \in SUBSET Ops(builder)
    BY DEF Unpeeled
  <2> QED BY <1>1, <1>2, <1>4, <2>1 DEF AcceptsExactlyDags
<1>8. PhaseInv' /\ AlwaysNamesEdge'
  BY <1>1, <1>4 DEF PhaseInv, AlwaysNamesEdge
<1> QED BY <1>6, <1>7, <1>8 DEF KahnInv

LEMMA ColorKahn == KahnInv /\ Color => KahnInv'
<1> SUFFICES ASSUME KahnInv, Color PROVE KahnInv'
  OBVIOUS
<1>1. builder' = builder /\ builder \in Builders /\ WellFormed(builder) /\ Acyclic(builder)
  BY DEF KahnInv, PhaseInv, Color
<1>2. CountColors(builder, Refine(builder, colors)) \in 0 .. NumVertices(builder)
  BY <1>1, ColorBound
<1>3. \/ pc' = "done" /\ outcome' = "SUCCESS" /\ numColors' = numColors
      \/ pc' = pc /\ outcome' = outcome
         /\ numColors' = CountColors(builder, Refine(builder, colors))
  BY DEF Color, End
<1>4. pc = "color" /\ UNCHANGED <<inDegree, peelable, numPeeled, edge>>
  BY DEF Color
<1>5. TypeOK'
  BY <1>1, <1>2, <1>3, <1>4 DEF KahnInv, TypeOK
<1>6. PhaseInv' /\ AlwaysNamesEdge' /\ AcceptsExactlyDags'
  BY <1>1, <1>3, <1>4 DEF KahnInv, PhaseInv, AlwaysNamesEdge, AcceptsExactlyDags, Acyclic
<1> QED BY <1>5, <1>6 DEF KahnInv

LEMMA StutterKahn == KahnInv /\ UNCHANGED vars => KahnInv'
  BY DEF KahnInv, TypeOK, PhaseInv, AcceptsExactlyDags, AlwaysNamesEdge, vars

LEMMA NextKahn == KahnInv /\ [Next]_vars => KahnInv'
<1> SUFFICES ASSUME KahnInv, [Next]_vars PROVE KahnInv'
  OBVIOUS
<1>1. CASE Validate
  BY <1>1, ValidateKahn
<1>2. CASE CountDegrees
  BY <1>2, CountDegreesKahn
<1>3. CASE \E o \in Ops(builder) : Peel(o)
  BY <1>3, PeelKahn
<1>4. CASE FinishPeeling
  BY <1>4, FinishKahn
<1>5. CASE NameEdge
  BY <1>5, NameEdgeKahn
<1>6. CASE Color
  BY <1>6, ColorKahn
<1>7. CASE UNCHANGED vars
  BY <1>7, StutterKahn
<1> QED BY <1>1, <1>2, <1>3, <1>4, <1>5, <1>6, <1>7 DEF Next

LEMMA KahnAlways == Spec => []KahnInv
  BY InitKahn, NextKahn, PTL DEF Spec

-----------------------------------------------------------------------------
(* Ports and colors. *)

LEMMA PortsInRange ==
  ASSUME NEW b, WellFormed(b), NEW s \in Ops(b)
  PROVE  /\ \A i \in DOMAIN b.ops[s].inputs : b.ops[s].inputs[i] \in Operands(b)
         /\ \A i \in DOMAIN b.ops[s].outputs : b.ops[s].outputs[i] \in Operands(b)
<1>1. ASSUME NEW i \in DOMAIN b.ops[s].inputs PROVE b.ops[s].inputs[i] \in Operands(b)
  <2> DEFINE q == [op |-> s, port |-> i]
  <2>1. q \in InputPorts(b)
    BY DEF InputPorts
  <2> QED BY <2>1 DEF WellFormed, InputAt
<1>2. ASSUME NEW i \in DOMAIN b.ops[s].outputs PROVE b.ops[s].outputs[i] \in Operands(b)
  <2> DEFINE q == [op |-> s, port |-> i]
  <2>1. q \in OutputPorts(b)
    BY DEF OutputPorts
  <2> QED BY <2>1 DEF WellFormed, OutputAt
<1> QED BY <1>1, <1>2

-----------------------------------------------------------------------------
(* A round of colors. *)

Alike(s, v) == {u \in DOMAIN s : s[u] = s[v]}

FirstOf(s, v) == CHOOSE u \in Alike(s, v) : \A w \in Alike(s, v) : u <= w

\* The signatures of a round as functions.
OperandSignatures(b, c) == [x \in Operands(b) |-> OperandSignature(b, c, x)]

OpSignatures(b, c) == [o \in Ops(b) |-> OpSignature(b, c, o)]

LEMMA RefinedColors ==
  ASSUME NEW b, NEW c
  PROVE  /\ \A x \in Operands(b) : Refine(b, c).operands[x] = FirstOf(OperandSignatures(b, c), x)
         /\ \A o \in Ops(b) : Refine(b, c).ops[o] = FirstOf(OpSignatures(b, c), o)
<1>1. ASSUME NEW x \in Operands(b)
      PROVE  Refine(b, c).operands[x] = FirstOf(OperandSignatures(b, c), x)
  <2> DEFINE signed == {<<OperandSignature(b, c, v), v>> : v \in Operands(b)}
             A == {t[2] : t \in {t \in signed : <<t[1], x>> \in signed}}
  <2>1. A = Alike(OperandSignatures(b, c), x)
    <3> DEFINE s == OperandSignatures(b, c)
    <3>1. DOMAIN s = Operands(b) /\ \A v \in Operands(b) : s[v] = OperandSignature(b, c, v)
      BY DEF OperandSignatures
    <3> HIDE DEF s
    <3>2. \A g, v : <<g, v>> \in signed <=> v \in Operands(b) /\ g = s[v]
      BY <3>1
    <3>3. ASSUME NEW u \in Operands(b), s[u] = s[x] PROVE u \in A
      <4> DEFINE t == <<s[u], u>>
      <4>1. t \in signed /\ <<t[1], x>> \in signed /\ t[2] = u
        BY <3>2, <3>3
      <4> QED BY <4>1
    <3>4. ASSUME NEW u \in A PROVE u \in Operands(b) /\ s[u] = s[x]
      <4>1. PICK t \in signed : t[2] = u /\ <<t[1], x>> \in signed
        OBVIOUS
      <4>2. t = <<s[t[2]], t[2]>> /\ t[2] \in Operands(b) /\ t[1] = s[x]
        BY <3>1, <3>2, <4>1
      <4> QED BY <4>1, <4>2
    <3>5. \A u : u \in A <=> u \in Operands(b) /\ s[u] = s[x]
      BY <3>3, <3>4
    <3> HIDE DEF A
    <3> QED BY <3>1, <3>5 DEF Alike, s
  <2>2. Refine(b, c).operands[x] = CHOOSE u \in A : \A w \in A : u <= w
    BY DEF Refine, FirstAlike
  <2> HIDE DEF A
  <2> QED BY <2>1, <2>2 DEF FirstOf
<1>2. ASSUME NEW o \in Ops(b)
      PROVE  Refine(b, c).ops[o] = FirstOf(OpSignatures(b, c), o)
  <2> DEFINE signed == {<<OpSignature(b, c, v), v>> : v \in Ops(b)}
             A == {t[2] : t \in {t \in signed : <<t[1], o>> \in signed}}
  <2>1. A = Alike(OpSignatures(b, c), o)
    <3> DEFINE s == OpSignatures(b, c)
    <3>1. DOMAIN s = Ops(b) /\ \A v \in Ops(b) : s[v] = OpSignature(b, c, v)
      BY DEF OpSignatures
    <3> HIDE DEF s
    <3>2. \A g, v : <<g, v>> \in signed <=> v \in Ops(b) /\ g = s[v]
      BY <3>1
    <3>3. ASSUME NEW u \in Ops(b), s[u] = s[o] PROVE u \in A
      <4> DEFINE t == <<s[u], u>>
      <4>1. t \in signed /\ <<t[1], o>> \in signed /\ t[2] = u
        BY <3>2, <3>3
      <4> QED BY <4>1
    <3>4. ASSUME NEW u \in A PROVE u \in Ops(b) /\ s[u] = s[o]
      <4>1. PICK t \in signed : t[2] = u /\ <<t[1], o>> \in signed
        OBVIOUS
      <4>2. t = <<s[t[2]], t[2]>> /\ t[2] \in Ops(b) /\ t[1] = s[o]
        BY <3>1, <3>2, <4>1
      <4> QED BY <4>1, <4>2
    <3>5. \A u : u \in A <=> u \in Ops(b) /\ s[u] = s[o]
      BY <3>3, <3>4
    <3> HIDE DEF A
    <3> QED BY <3>1, <3>5 DEF Alike, s
  <2>2. Refine(b, c).ops[o] = CHOOSE u \in A : \A w \in A : u <= w
    BY DEF Refine, FirstAlike
  <2> HIDE DEF A
  <2> QED BY <2>1, <2>2 DEF FirstOf
<1> QED BY <1>1, <1>2

LEMMA LeastOf ==
  ASSUME NEW A, A \subseteq Nat, A # {}
  PROVE  \E m \in A : \A k \in A : m <= k
<1> DEFINE Less == {ss \in Nat \X Nat : ss[1] < ss[2]}
<1>1. IsWellFoundedOn(Less, Nat)
  BY NatLessThanWellFounded, Zenon DEF OpToRel
<1> HIDE DEF Less
<1>2. PICK m \in A : \A k \in A : ~(<<k, m>> \in Less)
  BY <1>1, WFMin
<1> USE DEF Less
<1>3. ASSUME NEW k \in A PROVE m <= k
  <2>1. k \in Nat /\ m \in Nat /\ ~(<<k, m>> \in Less)
    BY <1>2
  <2> QED BY <2>1
<1> QED BY <1>3

\* The first of those with a signature stands for the signature.
LEMMA FirstDecides ==
  ASSUME NEW n \in Nat, NEW s, DOMAIN s = 1 .. n, NEW v \in 1 .. n, NEW w \in 1 .. n
  PROVE  FirstOf(s, v) = FirstOf(s, w) <=> s[v] = s[w]
<1>1. ASSUME NEW u \in 1 .. n PROVE s[FirstOf(s, u)] = s[u]
  <2>1. Alike(s, u) \subseteq Nat /\ u \in Alike(s, u)
    BY DEF Alike
  <2>2. \E m \in Alike(s, u) : \A k \in Alike(s, u) : m <= k
    BY <2>1, LeastOf
  <2>3. FirstOf(s, u) \in Alike(s, u)
    BY <2>2 DEF FirstOf
  <2> QED BY <2>3 DEF Alike
<1>2. s[v] = s[w] => Alike(s, v) = Alike(s, w)
  BY DEF Alike
<1>3. s[v] = s[w] => FirstOf(s, v) = FirstOf(s, w)
  BY <1>2 DEF FirstOf
<1> QED BY <1>1, <1>3

\* After a round, two vertices have one color exactly if they had one signature.
LEMMA ColorsAreSignatures ==
  ASSUME NEW b \in Builders, NEW c
  PROVE  /\ \A x, y \in Operands(b) :
              Refine(b, c).operands[x] = Refine(b, c).operands[y]
                <=> OperandSignature(b, c, x) = OperandSignature(b, c, y)
         /\ \A o, p \in Ops(b) :
              Refine(b, c).ops[o] = Refine(b, c).ops[p]
                <=> OpSignature(b, c, o) = OpSignature(b, c, p)
<1>1. ASSUME NEW x \in Operands(b), NEW y \in Operands(b)
      PROVE  Refine(b, c).operands[x] = Refine(b, c).operands[y]
               <=> OperandSignature(b, c, x) = OperandSignature(b, c, y)
  <2> DEFINE s == OperandSignatures(b, c)
  <2>1. DOMAIN s = 1 .. Len(b.kinds) /\ s[x] = OperandSignature(b, c, x) /\ s[y] = OperandSignature(b, c, y)
    BY Lengths DEF OperandSignatures
  <2> HIDE DEF s
  <2>2. FirstOf(s, x) = FirstOf(s, y) <=> s[x] = s[y]
    BY <2>1, Lengths, FirstDecides
  <2> QED BY <2>1, <2>2, RefinedColors DEF s
<1>2. ASSUME NEW o \in Ops(b), NEW p \in Ops(b)
      PROVE  Refine(b, c).ops[o] = Refine(b, c).ops[p]
               <=> OpSignature(b, c, o) = OpSignature(b, c, p)
  <2> DEFINE s == OpSignatures(b, c)
  <2>1. DOMAIN s = 1 .. Len(b.ops) /\ s[o] = OpSignature(b, c, o) /\ s[p] = OpSignature(b, c, p)
    BY Lengths DEF OpSignatures
  <2> HIDE DEF s
  <2>2. FirstOf(s, o) = FirstOf(s, p) <=> s[o] = s[p]
    BY <2>1, Lengths, FirstDecides
  <2> QED BY <2>1, <2>2, RefinedColors DEF s
<1> QED BY <1>1, <1>2

-----------------------------------------------------------------------------
(* The number of colors. *)

ColorsIn(V, f) == {f[x] : x \in V}

\* g tells apart whatever f does.
Finer(V, f, g) == \A x, y \in V : g[x] = g[y] => f[x] = f[y]

\* A finer coloring has no fewer colors, and with as many it is no finer.
LEMMA FinerHasMore ==
  ASSUME NEW V, IsFiniteSet(V), NEW f, NEW g, Finer(V, f, g)
  PROVE  LET X == ColorsIn(V, f)
             Y == ColorsIn(V, g)
         IN  /\ Cardinality(X) \in Nat /\ Cardinality(Y) \in Nat
             /\ Cardinality(X) <= Cardinality(Y) /\ Cardinality(Y) <= Cardinality(V)
             /\ Cardinality(X) = Cardinality(Y) => Finer(V, g, f)
             /\ Cardinality(Y) = Cardinality(V) => \A x, y \in V : g[x] = g[y] => x = y
<1> USE DEF Finer, ColorsIn
<1> DEFINE X == {f[x] : x \in V}
           Y == {g[x] : x \in V}
           h == [v \in Y |-> f[CHOOSE x \in V : g[x] = v]]
           e == [x \in V |-> g[x]]
<1>1. \A x \in V : g[x] \in Y /\ h[g[x]] = f[x]
  <2> SUFFICES ASSUME NEW x \in V PROVE g[x] \in Y /\ h[g[x]] = f[x]
    OBVIOUS
  <2> DEFINE z == CHOOSE z \in V : g[z] = g[x]
  <2>1. z \in V /\ g[z] = g[x]
    OBVIOUS
  <2>2. h[g[x]] = f[z]
    OBVIOUS
  <2> HIDE DEF z
  <2> QED BY <2>1, <2>2
<1>2. e \in Surjection(V, Y)
  BY DEF Surjection
<1>3. IsFiniteSet(Y) /\ Cardinality(Y) <= Cardinality(V)
      /\ (Cardinality(Y) = Cardinality(V) <=> e \in Injection(V, Y))
  <2> HIDE DEF e, Y
  <2> QED BY <1>2, FS_Surjection
<1>4. h \in Surjection(Y, X)
  <2>1. \A v \in Y : \E x \in V : v = g[x]
    OBVIOUS
  <2>2. \A v \in Y : h[v] \in X
    BY <1>1, <2>1
  <2>3. \A u \in X : \E v \in Y : h[v] = u
    <3> SUFFICES ASSUME NEW u \in X PROVE \E v \in Y : h[v] = u
      OBVIOUS
    <3>1. PICK x \in V : u = f[x]
      OBVIOUS
    <3>2. g[x] \in Y /\ h[g[x]] = u
      BY <1>1, <3>1
    <3> HIDE DEF h, X, Y
    <3> QED BY <3>2
  <2>4. h \in [Y -> X]
    BY <2>2
  <2> HIDE DEF h, X, Y
  <2> QED BY <2>3, <2>4 DEF Surjection
<1>5. IsFiniteSet(X) /\ Cardinality(X) <= Cardinality(Y)
      /\ (Cardinality(X) = Cardinality(Y) <=> h \in Injection(Y, X))
  <2> HIDE DEF h, X, Y
  <2> QED BY <1>3, <1>4, FS_Surjection
<1>6. ASSUME h \in Injection(Y, X), NEW x \in V, NEW y \in V, f[x] = f[y] PROVE g[x] = g[y]
  <2>1. h[g[x]] = h[g[y]] /\ g[x] \in Y /\ g[y] \in Y
    BY <1>1, <1>6
  <2> HIDE DEF h, X, Y
  <2> QED BY <1>6, <2>1 DEF Injection, IsInjective
<1>7. ASSUME e \in Injection(V, Y), NEW x \in V, NEW y \in V, g[x] = g[y] PROVE x = y
  <2>1. e[x] = e[y]
    BY <1>7
  <2> HIDE DEF e, Y
  <2> QED BY <1>7, <2>1 DEF Injection, IsInjective
<1>8. Cardinality(X) \in Nat /\ Cardinality(Y) \in Nat
  BY <1>3, <1>5, FS_CardinalityType
<1> HIDE DEF X, Y, h, e
<1>9. /\ Cardinality(X) = Cardinality(Y) => \A x, y \in V : f[x] = f[y] => g[x] = g[y]
      /\ Cardinality(Y) = Cardinality(V) => \A x, y \in V : g[x] = g[y] => x = y
  BY <1>3, <1>5, <1>6, <1>7
<1> QED BY <1>3, <1>5, <1>8, <1>9 DEF X, Y

-----------------------------------------------------------------------------
(* What a round makes of a coloring that tells the same vertices apart. *)

SamePartition(b, c, d) ==
  /\ \A x, y \in Operands(b) : c.operands[x] = c.operands[y] <=> d.operands[x] = d.operands[y]
  /\ \A o, p \in Ops(b) : c.ops[o] = c.ops[p] <=> d.ops[o] = d.ops[p]

\* What an operand sees at a port, and the bag of it over several.
SeenAt(c, q) == <<q.port, c.ops[q.op]>>

AllSeen(c, Q) == {SeenAt(c, q) : q \in Q}

SeenLike(c, Q, v) == {q \in Q : SeenAt(c, q) = v}

SeenBag(c, Q) == [v \in AllSeen(c, Q) |-> Cardinality(SeenLike(c, Q, v))]

LEMMA SignatureIs ==
  ASSUME NEW b, NEW c, NEW x
  PROVE  OperandSignature(b, c, x)
           = <<c.operands[x], b.kinds[x], AllSeen(c, Producers(b, x)), SeenBag(c, Consumers(b, x))>>
BY DEF OperandSignature, Bag, SeenAt, AllSeen, SeenLike, SeenBag

\* Where c and d tell the same ports apart, what c sees alike d sees alike.
LEMMA SeenAlike ==
  ASSUME NEW c, NEW d, NEW P, NEW Q, NEW R, Q \subseteq P, R \subseteq P,
         \A q, r \in P : SeenAt(c, q) = SeenAt(c, r) <=> SeenAt(d, q) = SeenAt(d, r)
  PROVE  /\ AllSeen(c, Q) = AllSeen(c, R) => AllSeen(d, Q) = AllSeen(d, R)
         /\ SeenBag(c, Q) = SeenBag(c, R) => SeenBag(d, Q) = SeenBag(d, R)
<1>1. ASSUME AllSeen(c, Q) = AllSeen(c, R) PROVE AllSeen(d, Q) = AllSeen(d, R)
  <2>1. \A q \in Q : \E r \in R : SeenAt(c, q) = SeenAt(c, r)
    BY <1>1 DEF AllSeen
  <2>2. \A r \in R : \E q \in Q : SeenAt(c, q) = SeenAt(c, r)
    BY <1>1 DEF AllSeen
  <2> QED BY <2>1, <2>2 DEF AllSeen
<1>2. ASSUME SeenBag(c, Q) = SeenBag(c, R) PROVE SeenBag(d, Q) = SeenBag(d, R)
  <2>1. AllSeen(c, Q) = AllSeen(c, R)
    <3>1. AllSeen(c, Q) = DOMAIN SeenBag(c, Q) /\ AllSeen(c, R) = DOMAIN SeenBag(c, R)
      BY DEF SeenBag
    <3> QED BY <1>2, <3>1
  <2>2. AllSeen(d, Q) = AllSeen(d, R)
    BY <1>1, <2>1
  <2>3. ASSUME NEW v \in AllSeen(d, Q)
        PROVE  Cardinality(SeenLike(d, Q, v)) = Cardinality(SeenLike(d, R, v))
    <3>1. PICK q \in Q : v = SeenAt(d, q)
      BY DEF AllSeen
    <3> DEFINE u == SeenAt(c, q)
    <3>2. SeenLike(d, Q, v) = SeenLike(c, Q, u) /\ SeenLike(d, R, v) = SeenLike(c, R, u)
      BY <3>1 DEF SeenLike
    <3>3. u \in AllSeen(c, Q) /\ u \in AllSeen(c, R)
      BY <2>1 DEF AllSeen
    <3> HIDE DEF u
    <3>4. /\ SeenBag(c, Q)[u] = Cardinality(SeenLike(c, Q, u))
          /\ SeenBag(c, R)[u] = Cardinality(SeenLike(c, R, u))
      BY <3>3 DEF SeenBag
    <3> QED BY <1>2, <3>2, <3>4
  <2> QED BY <2>2, <2>3 DEF SeenBag
<1> QED BY <1>1, <1>2

\* One round of such a coloring tells the same apart again.
LEMMA SignaturesFollow ==
  ASSUME NEW b \in Builders, WellFormed(b), NEW c, NEW d, SamePartition(b, c, d)
  PROVE  /\ \A x, y \in Operands(b) : OperandSignature(b, c, x) = OperandSignature(b, c, y)
                                        => OperandSignature(b, d, x) = OperandSignature(b, d, y)
         /\ \A o, p \in Ops(b) : OpSignature(b, c, o) = OpSignature(b, c, p)
                                   => OpSignature(b, d, o) = OpSignature(b, d, p)
<1>1. ASSUME NEW x \in Operands(b), NEW y \in Operands(b),
             OperandSignature(b, c, x) = OperandSignature(b, c, y)
      PROVE  OperandSignature(b, d, x) = OperandSignature(b, d, y)
  <2>1. /\ c.operands[x] = c.operands[y] /\ b.kinds[x] = b.kinds[y]
        /\ AllSeen(c, Producers(b, x)) = AllSeen(c, Producers(b, y))
        /\ SeenBag(c, Consumers(b, x)) = SeenBag(c, Consumers(b, y))
    BY <1>1, SignatureIs
  <2>2. d.operands[x] = d.operands[y]
    BY <2>1 DEF SamePartition
  <2>3. ASSUME NEW P, \A q \in P : q.op \in Ops(b)
        PROVE  \A q, r \in P : SeenAt(c, q) = SeenAt(c, r) <=> SeenAt(d, q) = SeenAt(d, r)
    BY <2>3 DEF SeenAt, SamePartition
  <2>4. \A q \in InputPorts(b) : q.op \in Ops(b)
    BY DEF InputPorts
  <2>5. \A q \in OutputPorts(b) : q.op \in Ops(b)
    BY DEF OutputPorts
  <2>6. SeenBag(d, Consumers(b, x)) = SeenBag(d, Consumers(b, y))
    <3>1. \A q, r \in InputPorts(b) : SeenAt(c, q) = SeenAt(c, r) <=> SeenAt(d, q) = SeenAt(d, r)
      BY <2>3, <2>4
    <3>2. Consumers(b, x) \subseteq InputPorts(b) /\ Consumers(b, y) \subseteq InputPorts(b)
      BY DEF Consumers
    <3> QED BY <2>1, <3>1, <3>2, SeenAlike
  <2>7. AllSeen(d, Producers(b, x)) = AllSeen(d, Producers(b, y))
    <3>1. \A q, r \in OutputPorts(b) : SeenAt(c, q) = SeenAt(c, r) <=> SeenAt(d, q) = SeenAt(d, r)
      BY <2>3, <2>5
    <3>2. Producers(b, x) \subseteq OutputPorts(b) /\ Producers(b, y) \subseteq OutputPorts(b)
      BY DEF Producers
    <3> QED BY <2>1, <3>1, <3>2, SeenAlike
  <2> QED BY <2>1, <2>2, <2>6, <2>7, SignatureIs
<1>2. ASSUME NEW o \in Ops(b), NEW p \in Ops(b), OpSignature(b, c, o) = OpSignature(b, c, p)
      PROVE  OpSignature(b, d, o) = OpSignature(b, d, p)
  <2> DEFINE In(e, s) == [i \in DOMAIN b.ops[s].inputs |-> e.operands[b.ops[s].inputs[i]]]
             Out(e, s) == [i \in DOMAIN b.ops[s].outputs |-> e.operands[b.ops[s].outputs[i]]]
  <2>1. \A e, s : OpSignature(b, e, s) = <<e.ops[s], b.ops[s].kind, In(e, s), Out(e, s)>>
    BY DEF OpSignature
  <2>2. ASSUME NEW s \in Ops(b)
        PROVE  /\ \A i \in DOMAIN b.ops[s].inputs : b.ops[s].inputs[i] \in Operands(b)
               /\ \A i \in DOMAIN b.ops[s].outputs : b.ops[s].outputs[i] \in Operands(b)
    BY PortsInRange
  <2>3. c.ops[o] = c.ops[p] /\ b.ops[o].kind = b.ops[p].kind /\ In(c, o) = In(c, p) /\ Out(c, o) = Out(c, p)
    <3> HIDE DEF In, Out
    <3> QED BY <1>2, <2>1
  <2>4. d.ops[o] = d.ops[p]
    BY <2>3 DEF SamePartition
  <2>5. In(d, o) = In(d, p)
    <3>1. DOMAIN b.ops[o].inputs = DOMAIN b.ops[p].inputs
      BY <2>3
    <3>2. ASSUME NEW i \in DOMAIN b.ops[o].inputs
          PROVE  d.operands[b.ops[o].inputs[i]] = d.operands[b.ops[p].inputs[i]]
      <4>1. In(c, o)[i] = In(c, p)[i]
        BY <2>3
      <4>2. c.operands[b.ops[o].inputs[i]] = c.operands[b.ops[p].inputs[i]]
        BY <3>1, <4>1
      <4> QED BY <2>2, <3>1, <4>2 DEF SamePartition
    <3> QED BY <3>1, <3>2
  <2>6. Out(d, o) = Out(d, p)
    <3>1. DOMAIN b.ops[o].outputs = DOMAIN b.ops[p].outputs
      BY <2>3
    <3>2. ASSUME NEW i \in DOMAIN b.ops[o].outputs
          PROVE  d.operands[b.ops[o].outputs[i]] = d.operands[b.ops[p].outputs[i]]
      <4>1. Out(c, o)[i] = Out(c, p)[i]
        BY <2>3
      <4>2. c.operands[b.ops[o].outputs[i]] = c.operands[b.ops[p].outputs[i]]
        BY <3>1, <4>1
      <4> QED BY <2>2, <3>1, <4>2 DEF SamePartition
    <3> QED BY <3>1, <3>2
  <2> HIDE DEF In, Out
  <2> QED BY <2>1, <2>3, <2>4, <2>5, <2>6
<1> QED BY <1>1, <1>2

\* A coloring another round would not tell more apart in.
Stable(b, c) ==
  LET next == Refine(b, c)
  IN  /\ \A x, y \in Operands(b) : c.operands[x] = c.operands[y] => next.operands[x] = next.operands[y]
      /\ \A o, p \in Ops(b) : c.ops[o] = c.ops[p] => next.ops[o] = next.ops[p]

LEMMA PartitionStays ==
  ASSUME NEW b \in Builders, WellFormed(b), NEW c, SamePartition(b, c, Refine(b, c))
  PROVE  Stable(b, Refine(b, c))
<1> DEFINE d == Refine(b, c)
<1>1. /\ \A x, y \in Operands(b) : d.operands[x] = d.operands[y]
                                     <=> OperandSignature(b, c, x) = OperandSignature(b, c, y)
      /\ \A o, p \in Ops(b) : d.ops[o] = d.ops[p] <=> OpSignature(b, c, o) = OpSignature(b, c, p)
  BY ColorsAreSignatures
<1> HIDE DEF d
<1>2. SamePartition(b, c, d)
  BY DEF d
<1>3. Stable(b, d)
  BY <1>1, <1>2, SignaturesFollow, ColorsAreSignatures DEF Stable
<1> QED BY <1>3 DEF d

LEMMA SumsEqual ==
  ASSUME NEW x \in Nat, NEW y \in Nat, NEW m \in Nat, NEW n \in Nat, x <= m, y <= n, x + y = m + n
  PROVE  x = m /\ y = n
OBVIOUS

\* The rule by which buildPattern() ends: no more colors than before, or as
\* many as there are vertices.
LEMMA SettledIsStable ==
  ASSUME NEW b \in Builders, WellFormed(b), NEW c, NEW count, count = 0 \/ count = CountColors(b, c),
         Settled(b, count, CountColors(b, Refine(b, c)))
  PROVE  Stable(b, Refine(b, c))
<1> DEFINE d == Refine(b, c)
           X1 == ColorsIn(Operands(b), c.operands)
           Y1 == ColorsIn(Operands(b), d.operands)
           X2 == ColorsIn(Ops(b), c.ops)
           Y2 == ColorsIn(Ops(b), d.ops)
           n1 == Len(b.kinds)
           n2 == Len(b.ops)
<1>1. /\ \A x, y \in Operands(b) : d.operands[x] = d.operands[y]
                                     <=> OperandSignature(b, c, x) = OperandSignature(b, c, y)
      /\ \A o, p \in Ops(b) : d.ops[o] = d.ops[p] <=> OpSignature(b, c, o) = OpSignature(b, c, p)
  BY ColorsAreSignatures
<1>2. /\ CountColors(b, c) = Cardinality(X1) + Cardinality(X2)
      /\ CountColors(b, d) = Cardinality(Y1) + Cardinality(Y2)
      /\ NumVertices(b) = n1 + n2
  BY DEF CountColors, NumVertices, ColorsIn
<1>3. Settled(b, count, CountColors(b, d))
  OBVIOUS
<1> HIDE DEF d
<1>4. Finer(Operands(b), c.operands, d.operands)
  BY <1>1, SignatureIs DEF Finer
<1>5. Finer(Ops(b), c.ops, d.ops)
  BY <1>1 DEF OpSignature, Finer
<1>6. /\ Cardinality(X1) \in Nat /\ Cardinality(Y1) \in Nat
      /\ Cardinality(X1) <= Cardinality(Y1) /\ Cardinality(Y1) <= Cardinality(Operands(b))
      /\ Cardinality(X1) = Cardinality(Y1) => Finer(Operands(b), d.operands, c.operands)
      /\ Cardinality(Y1) = Cardinality(Operands(b))
           => \A x, y \in Operands(b) : d.operands[x] = d.operands[y] => x = y
  BY <1>4, Lengths, FinerHasMore
<1>7. /\ Cardinality(X2) \in Nat /\ Cardinality(Y2) \in Nat
      /\ Cardinality(X2) <= Cardinality(Y2) /\ Cardinality(Y2) <= Cardinality(Ops(b))
      /\ Cardinality(X2) = Cardinality(Y2) => Finer(Ops(b), d.ops, c.ops)
      /\ Cardinality(Y2) = Cardinality(Ops(b))
           => \A o, p \in Ops(b) : d.ops[o] = d.ops[p] => o = p
  BY <1>5, Lengths, FinerHasMore
<1>8. /\ n1 \in Nat /\ Cardinality(Operands(b)) = n1
      /\ n2 \in Nat /\ Cardinality(Ops(b)) = n2
  BY Lengths
<1>9. CASE CountColors(b, d) = NumVertices(b)
  <2>1. Cardinality(Y1) = n1 /\ Cardinality(Y2) = n2
    <3> HIDE DEF X1, X2, Y1, Y2, n1, n2
    <3> QED BY <1>2, <1>6, <1>7, <1>8, <1>9, SumsEqual
  <2>2. /\ \A x, y \in Operands(b) : d.operands[x] = d.operands[y] => x = y
        /\ \A o, p \in Ops(b) : d.ops[o] = d.ops[p] => o = p
    BY <1>6, <1>7, <1>8, <2>1
  <2> QED BY <2>2 DEF Stable, d
<1>10. CASE CountColors(b, d) = CountColors(b, c)
  <2>1. Cardinality(X1) = Cardinality(Y1) /\ Cardinality(X2) = Cardinality(Y2)
    <3> HIDE DEF X1, X2, Y1, Y2, n1, n2
    <3> QED BY <1>2, <1>6, <1>7, <1>10, SumsEqual
  <2>2. SamePartition(b, c, d)
    BY <1>4, <1>5, <1>6, <1>7, <2>1 DEF SamePartition, Finer
  <2> QED BY <2>2, PartitionStays DEF d
<1>11. CASE CountColors(b, d) = 0
  <2>1. Cardinality(Y1) = 0 /\ Cardinality(Y2) = 0
    <3> HIDE DEF X1, X2, Y1, Y2, n1, n2
    <3> QED BY <1>2, <1>6, <1>7, <1>11
  <2>2. CountColors(b, d) = CountColors(b, c)
    <3> HIDE DEF X1, X2, Y1, Y2, n1, n2
    <3> QED BY <1>2, <1>6, <1>7, <1>11, <2>1
  <2> QED BY <1>10, <2>2
<1> QED BY <1>3, <1>9, <1>10, <1>11 DEF Settled

-----------------------------------------------------------------------------
(* Symmetries. *)

\* f exchanges vertices of one color only.
KeepsColors(b, c, f) ==
  /\ \A o \in Ops(b) : c.ops[f[o]] = c.ops[o]
  /\ \A p \in PortPairs(b, b, f) : c.operands[p[1]] = c.operands[p[2]]

Symmetric(b, c) ==
  \A f \in [Ops(b) -> Ops(b)] : IsIsomorphism(b, b, f) => KeepsColors(b, c, f)

\* Where f takes a port.
Moved(f, q) == [op |-> f[q.op], port |-> q.port]

\* f takes the ports Q of some operands to the ports R, one to one.
Carries(b, f, Q, R) ==
  /\ \A q \in Q : q = [op |-> q.op, port |-> q.port] /\ q.op \in Ops(b) /\ Moved(f, q) \in R
  /\ \A r \in R : \E q \in Q : Moved(f, q) = r

LEMMA CarriedSeen ==
  ASSUME NEW b, NEW c, NEW f, \A o, p \in Ops(b) : f[o] = f[p] => o = p,
         \A o \in Ops(b) : c.ops[f[o]] = c.ops[o],
         NEW Q, NEW R, IsFiniteSet(Q), Carries(b, f, Q, R)
  PROVE  AllSeen(c, Q) = AllSeen(c, R) /\ SeenBag(c, Q) = SeenBag(c, R)
<1>1. \A q \in Q : SeenAt(c, Moved(f, q)) = SeenAt(c, q)
  BY DEF SeenAt, Moved, Carries
<1>2. AllSeen(c, Q) = AllSeen(c, R)
  BY <1>1 DEF AllSeen, Carries
<1>3. ASSUME NEW v PROVE Cardinality(SeenLike(c, Q, v)) = Cardinality(SeenLike(c, R, v))
  <2> DEFINE A == SeenLike(c, Q, v)
             B == SeenLike(c, R, v)
             m == [q \in A |-> Moved(f, q)]
  <2>1. A \subseteq Q /\ IsFiniteSet(A)
    BY FS_Subset DEF SeenLike
  <2>2. \A q \in A : m[q] \in B
    BY <1>1 DEF SeenLike, Carries
  <2>3. \A r \in B : \E q \in A : m[q] = r
    <3> SUFFICES ASSUME NEW r \in B PROVE \E q \in A : m[q] = r
      OBVIOUS
    <3>1. PICK q \in Q : Moved(f, q) = r
      BY DEF SeenLike, Carries
    <3>2. q \in A
      BY <1>1, <3>1 DEF SeenLike
    <3> QED BY <3>1, <3>2
  <2>4. \A q, r \in A : m[q] = m[r] => q = r
    <3> SUFFICES ASSUME NEW q \in A, NEW r \in A, m[q] = m[r] PROVE q = r
      OBVIOUS
    <3>1. f[q.op] = f[r.op] /\ q.port = r.port
      BY DEF Moved
    <3> QED BY <2>1, <3>1 DEF Carries
  <2>5. m \in Bijection(A, B)
    <3>1. m \in [A -> B]
      BY <2>2
    <3> HIDE DEF m, A, B
    <3> QED BY <2>3, <2>4, <3>1 DEF Bijection, Injection, Surjection, IsInjective
  <2> HIDE DEF m, A, B
  <2>6. ExistsBijection(A, B)
    BY <2>5 DEF ExistsBijection
  <2>7. Cardinality(B) = Cardinality(A)
    BY <2>1, <2>6, FS_Bijection
  <2> QED BY <2>7 DEF A, B
<1> QED BY <1>2, <1>3 DEF SeenBag

\* An operand has one input port of each operation at most.
LEMMA ConsumersFinite ==
  ASSUME NEW b \in Builders, WellFormed(b), NEW x
  PROVE  IsFiniteSet(Consumers(b, x)) /\ IsFiniteSet(Producers(b, x))
<1>1. ASSUME NEW Q, \A q \in Q : q.op \in Ops(b), \A q, r \in Q : q.op = r.op => q = r
      PROVE  IsFiniteSet(Q)
  <2> DEFINE e == [q \in Q |-> q.op]
  <2>1. e \in Injection(Q, Ops(b))
    BY <1>1 DEF Injection, IsInjective
  <2> HIDE DEF e
  <2> QED BY <2>1, Lengths, FS_Injection
<1>2. \A q \in Consumers(b, x) : q.op \in Ops(b)
  BY DEF Consumers, InputPorts
<1>3. \A q, r \in Consumers(b, x) : q.op = r.op => q = r
  BY DEF Consumers, WellFormed
<1>4. \A q \in Producers(b, x) : q.op \in Ops(b)
  BY DEF Producers, OutputPorts
<1>5. \A q, r \in Producers(b, x) : q.op = r.op => q = r
  BY DEF Producers, WellFormed
<1> QED BY <1>1, <1>2, <1>3, <1>4, <1>5

\* A symmetry takes every port of an operation to the same port of another.
LEMMA SymmetryPorts ==
  ASSUME NEW b \in Builders, WellFormed(b),
         NEW f \in [Ops(b) -> Ops(b)], IsIsomorphism(b, b, f)
  PROVE  /\ \A o \in Ops(b) : /\ DOMAIN b.ops[f[o]].inputs = DOMAIN b.ops[o].inputs
                              /\ DOMAIN b.ops[f[o]].outputs = DOMAIN b.ops[o].outputs
         /\ \A o \in Ops(b) : \E p \in Ops(b) : f[p] = o
         /\ \A q \in InputPorts(b) :
              /\ q = [op |-> q.op, port |-> q.port] /\ q.op \in Ops(b) /\ Moved(f, q) \in InputPorts(b)
              /\ <<InputAt(b, q), InputAt(b, Moved(f, q))>> \in PortPairs(b, b, f)
         /\ \A q \in OutputPorts(b) :
              /\ q = [op |-> q.op, port |-> q.port] /\ q.op \in Ops(b) /\ Moved(f, q) \in OutputPorts(b)
              /\ <<OutputAt(b, q), OutputAt(b, Moved(f, q))>> \in PortPairs(b, b, f)
<1>1. ASSUME NEW o \in Ops(b)
      PROVE  /\ DOMAIN b.ops[f[o]].inputs = DOMAIN b.ops[o].inputs
             /\ DOMAIN b.ops[f[o]].outputs = DOMAIN b.ops[o].outputs
  <2>1. ASSUME NEW s \in Ops(b)
        PROVE  /\ DOMAIN b.ops[s].inputs = 1 .. Len(b.ops[s].inputs)
               /\ DOMAIN b.ops[s].outputs = 1 .. Len(b.ops[s].outputs)
    <3>1. b.ops[s].inputs \in Seq(Nat) /\ b.ops[s].outputs \in Seq(Nat)
      BY BuildAssumption
    <3> QED BY <3>1
  <2>2. f[o] \in Ops(b)
    OBVIOUS
  <2>3. Len(b.ops[o].inputs) = Len(b.ops[f[o]].inputs) /\ Len(b.ops[o].outputs) = Len(b.ops[f[o]].outputs)
    BY DEF IsIsomorphism
  <2> QED BY <2>1, <2>2, <2>3
<1>2. \A o \in Ops(b) : \E p \in Ops(b) : f[p] = o
  <2>1. f \in Injection(Ops(b), Ops(b))
    BY DEF IsIsomorphism, Injection, IsInjective
  <2>2. f \in Surjection(Ops(b), Ops(b))
    BY <2>1, Lengths, FS_Injection
  <2> QED BY <2>2 DEF Surjection
<1>3. ASSUME NEW q \in InputPorts(b)
      PROVE  /\ q = [op |-> q.op, port |-> q.port] /\ q.op \in Ops(b) /\ Moved(f, q) \in InputPorts(b)
             /\ <<InputAt(b, q), InputAt(b, Moved(f, q))>> \in PortPairs(b, b, f)
  <2>1. PICK o \in Ops(b) : \E i \in DOMAIN b.ops[o].inputs : q = [op |-> o, port |-> i]
    BY DEF InputPorts
  <2> PICK i \in DOMAIN b.ops[o].inputs : q = [op |-> o, port |-> i]
    BY <2>1
  <2>2. i \in DOMAIN b.ops[f[o]].inputs /\ f[o] \in Ops(b)
    BY <1>1
  <2>3. Moved(f, q) = [op |-> f[o], port |-> i] /\ Moved(f, q) = [q EXCEPT !.op = f[q.op]]
    BY DEF Moved
  <2>4. Moved(f, q) \in InputPorts(b)
    BY <2>2, <2>3 DEF InputPorts
  <2> QED BY <2>3, <2>4 DEF PortPairs
<1>4. ASSUME NEW q \in OutputPorts(b)
      PROVE  /\ q = [op |-> q.op, port |-> q.port] /\ q.op \in Ops(b) /\ Moved(f, q) \in OutputPorts(b)
             /\ <<OutputAt(b, q), OutputAt(b, Moved(f, q))>> \in PortPairs(b, b, f)
  <2>1. PICK o \in Ops(b) : \E i \in DOMAIN b.ops[o].outputs : q = [op |-> o, port |-> i]
    BY DEF OutputPorts
  <2> PICK i \in DOMAIN b.ops[o].outputs : q = [op |-> o, port |-> i]
    BY <2>1
  <2>2. i \in DOMAIN b.ops[f[o]].outputs /\ f[o] \in Ops(b)
    BY <1>1
  <2>3. Moved(f, q) = [op |-> f[o], port |-> i] /\ Moved(f, q) = [q EXCEPT !.op = f[q.op]]
    BY DEF Moved
  <2>4. Moved(f, q) \in OutputPorts(b)
    BY <2>2, <2>3 DEF OutputPorts
  <2> QED BY <2>3, <2>4 DEF PortPairs
<1> QED BY <1>1, <1>2, <1>3, <1>4

\* The operands of a pair have the same ports, up to f.
LEMMA PairsCarried ==
  ASSUME NEW b \in Builders, WellFormed(b),
         NEW f \in [Ops(b) -> Ops(b)], IsIsomorphism(b, b, f), NEW p \in PortPairs(b, b, f)
  PROVE  /\ p[1] \in Operands(b) /\ p[2] \in Operands(b) /\ b.kinds[p[1]] = b.kinds[p[2]]
         /\ Carries(b, f, Consumers(b, p[1]), Consumers(b, p[2]))
         /\ Carries(b, f, Producers(b, p[1]), Producers(b, p[2]))
<1> DEFINE x == p[1]
           y == p[2]
<1>1. \A r \in PortPairs(b, b, f) : p[1] = r[1] <=> p[2] = r[2]
  BY DEF IsIsomorphism
<1>2. b.kinds[x] = b.kinds[y]
  BY DEF IsIsomorphism
<1>3. x \in Operands(b) /\ y \in Operands(b)
  <2>1. \/ \E q \in InputPorts(b) : p = <<InputAt(b, q), InputAt(b, Moved(f, q))>>
        \/ \E q \in OutputPorts(b) : p = <<OutputAt(b, q), OutputAt(b, Moved(f, q))>>
    <3>1. \A q \in InputPorts(b) : [q EXCEPT !.op = f[q.op]] = Moved(f, q)
      BY DEF InputPorts, Moved
    <3>2. \A q \in OutputPorts(b) : [q EXCEPT !.op = f[q.op]] = Moved(f, q)
      BY DEF OutputPorts, Moved
    <3> QED BY <3>1, <3>2 DEF PortPairs
  <2>2. \A q \in InputPorts(b) : Moved(f, q) \in InputPorts(b)
    BY SymmetryPorts
  <2>3. \A q \in OutputPorts(b) : Moved(f, q) \in OutputPorts(b)
    BY SymmetryPorts
  <2>4. /\ \A q \in InputPorts(b) : InputAt(b, q) \in Operands(b)
        /\ \A q \in OutputPorts(b) : OutputAt(b, q) \in Operands(b)
    BY DEF WellFormed
  <2>5. CASE \E q \in InputPorts(b) : p = <<InputAt(b, q), InputAt(b, Moved(f, q))>>
    BY <2>2, <2>4, <2>5
  <2>6. CASE \E q \in OutputPorts(b) : p = <<OutputAt(b, q), OutputAt(b, Moved(f, q))>>
    BY <2>3, <2>4, <2>6
  <2> QED BY <2>1, <2>5, <2>6
<1>4. Carries(b, f, Consumers(b, x), Consumers(b, y))
  <2>1. ASSUME NEW q \in Consumers(b, x)
        PROVE  q = [op |-> q.op, port |-> q.port] /\ q.op \in Ops(b) /\ Moved(f, q) \in Consumers(b, y)
    <3>1. q \in InputPorts(b) /\ InputAt(b, q) = x
      BY DEF Consumers
    <3> DEFINE r == <<InputAt(b, q), InputAt(b, Moved(f, q))>>
    <3>2. r \in PortPairs(b, b, f) /\ r[1] = p[1] /\ r[2] = InputAt(b, Moved(f, q))
      BY <3>1, SymmetryPorts
    <3> HIDE DEF r
    <3>3. InputAt(b, Moved(f, q)) = y
      BY <1>1, <3>2
    <3> QED BY <3>1, <3>3, SymmetryPorts DEF Consumers
  <2>2. ASSUME NEW s \in Consumers(b, y) PROVE \E q \in Consumers(b, x) : Moved(f, q) = s
    <3>1. s \in InputPorts(b) /\ InputAt(b, s) = y
      BY DEF Consumers
    <3>2. s = [op |-> s.op, port |-> s.port] /\ s.op \in Ops(b) /\ s.port \in DOMAIN b.ops[s.op].inputs
      BY <3>1 DEF InputPorts
    <3>3. PICK o \in Ops(b) : f[o] = s.op
      BY <3>2, SymmetryPorts
    <3> DEFINE q == [op |-> o, port |-> s.port]
    <3>4. q \in InputPorts(b) /\ Moved(f, q) = s
      <4>1. s.port \in DOMAIN b.ops[o].inputs
        BY <3>2, <3>3, SymmetryPorts
      <4>2. q \in InputPorts(b)
        BY <4>1 DEF InputPorts
      <4>3. Moved(f, q) = s
        BY <3>2, <3>3 DEF Moved
      <4> QED BY <4>2, <4>3
    <3> HIDE DEF q
    <3> DEFINE r == <<InputAt(b, q), InputAt(b, Moved(f, q))>>
    <3>5. r \in PortPairs(b, b, f) /\ r[1] = InputAt(b, q) /\ r[2] = p[2]
      BY <3>1, <3>4, SymmetryPorts
    <3> HIDE DEF r
    <3>6. InputAt(b, q) = x
      BY <1>1, <3>5
    <3> QED BY <3>4, <3>6 DEF Consumers
  <2> QED BY <2>1, <2>2 DEF Carries
<1>5. Carries(b, f, Producers(b, x), Producers(b, y))
  <2>1. ASSUME NEW q \in Producers(b, x)
        PROVE  q = [op |-> q.op, port |-> q.port] /\ q.op \in Ops(b) /\ Moved(f, q) \in Producers(b, y)
    <3>1. q \in OutputPorts(b) /\ OutputAt(b, q) = x
      BY DEF Producers
    <3> DEFINE r == <<OutputAt(b, q), OutputAt(b, Moved(f, q))>>
    <3>2. r \in PortPairs(b, b, f) /\ r[1] = p[1] /\ r[2] = OutputAt(b, Moved(f, q))
      BY <3>1, SymmetryPorts
    <3> HIDE DEF r
    <3>3. OutputAt(b, Moved(f, q)) = y
      BY <1>1, <3>2
    <3> QED BY <3>1, <3>3, SymmetryPorts DEF Producers
  <2>2. ASSUME NEW s \in Producers(b, y) PROVE \E q \in Producers(b, x) : Moved(f, q) = s
    <3>1. s \in OutputPorts(b) /\ OutputAt(b, s) = y
      BY DEF Producers
    <3>2. s = [op |-> s.op, port |-> s.port] /\ s.op \in Ops(b) /\ s.port \in DOMAIN b.ops[s.op].outputs
      BY <3>1 DEF OutputPorts
    <3>3. PICK o \in Ops(b) : f[o] = s.op
      BY <3>2, SymmetryPorts
    <3> DEFINE q == [op |-> o, port |-> s.port]
    <3>4. q \in OutputPorts(b) /\ Moved(f, q) = s
      <4>1. s.port \in DOMAIN b.ops[o].outputs
        BY <3>2, <3>3, SymmetryPorts
      <4>2. q \in OutputPorts(b)
        BY <4>1 DEF OutputPorts
      <4>3. Moved(f, q) = s
        BY <3>2, <3>3 DEF Moved
      <4> QED BY <4>2, <4>3
    <3> HIDE DEF q
    <3> DEFINE r == <<OutputAt(b, q), OutputAt(b, Moved(f, q))>>
    <3>5. r \in PortPairs(b, b, f) /\ r[1] = OutputAt(b, q) /\ r[2] = p[2]
      BY <3>1, <3>4, SymmetryPorts
    <3> HIDE DEF r
    <3>6. OutputAt(b, q) = x
      BY <1>1, <3>5
    <3> QED BY <3>4, <3>6 DEF Producers
  <2> QED BY <2>1, <2>2 DEF Carries
<1> QED BY <1>2, <1>3, <1>4, <1>5

\* A round keeps what a symmetry keeps.
LEMMA SymmetryStays ==
  ASSUME NEW b \in Builders, WellFormed(b), NEW c,
         NEW f \in [Ops(b) -> Ops(b)], IsIsomorphism(b, b, f), KeepsColors(b, c, f)
  PROVE  KeepsColors(b, Refine(b, c), f)
<1>1. ASSUME NEW o \in Ops(b) PROVE OpSignature(b, c, f[o]) = OpSignature(b, c, o)
  <2> DEFINE In(s) == [i \in DOMAIN b.ops[s].inputs |-> c.operands[b.ops[s].inputs[i]]]
             Out(s) == [i \in DOMAIN b.ops[s].outputs |-> c.operands[b.ops[s].outputs[i]]]
  <2>1. \A s : OpSignature(b, c, s) = <<c.ops[s], b.ops[s].kind, In(s), Out(s)>>
    BY DEF OpSignature
  <2>2. c.ops[f[o]] = c.ops[o] /\ b.ops[f[o]].kind = b.ops[o].kind
    BY DEF KeepsColors, IsIsomorphism
  <2>3. In(f[o]) = In(o)
    <3>1. DOMAIN b.ops[f[o]].inputs = DOMAIN b.ops[o].inputs
      BY SymmetryPorts
    <3>2. ASSUME NEW i \in DOMAIN b.ops[o].inputs
          PROVE  c.operands[b.ops[f[o]].inputs[i]] = c.operands[b.ops[o].inputs[i]]
      <4> DEFINE q == [op |-> o, port |-> i]
                 r == <<InputAt(b, q), InputAt(b, Moved(f, q))>>
      <4>1. q \in InputPorts(b)
        BY DEF InputPorts
      <4>2. r \in PortPairs(b, b, f)
        BY <4>1, SymmetryPorts
      <4>3. r[1] = b.ops[o].inputs[i] /\ r[2] = b.ops[f[o]].inputs[i]
        BY DEF InputAt, Moved
      <4> HIDE DEF r
      <4> QED BY <4>2, <4>3 DEF KeepsColors
    <3> QED BY <3>1, <3>2
  <2>4. Out(f[o]) = Out(o)
    <3>1. DOMAIN b.ops[f[o]].outputs = DOMAIN b.ops[o].outputs
      BY SymmetryPorts
    <3>2. ASSUME NEW i \in DOMAIN b.ops[o].outputs
          PROVE  c.operands[b.ops[f[o]].outputs[i]] = c.operands[b.ops[o].outputs[i]]
      <4> DEFINE q == [op |-> o, port |-> i]
                 r == <<OutputAt(b, q), OutputAt(b, Moved(f, q))>>
      <4>1. q \in OutputPorts(b)
        BY DEF OutputPorts
      <4>2. r \in PortPairs(b, b, f)
        BY <4>1, SymmetryPorts
      <4>3. r[1] = b.ops[o].outputs[i] /\ r[2] = b.ops[f[o]].outputs[i]
        BY DEF OutputAt, Moved
      <4> HIDE DEF r
      <4> QED BY <4>2, <4>3 DEF KeepsColors
    <3> QED BY <3>1, <3>2
  <2> HIDE DEF In, Out
  <2> QED BY <2>1, <2>2, <2>3, <2>4
<1>2. ASSUME NEW p \in PortPairs(b, b, f)
      PROVE  OperandSignature(b, c, p[1]) = OperandSignature(b, c, p[2])
  <2>1. c.operands[p[1]] = c.operands[p[2]] /\ b.kinds[p[1]] = b.kinds[p[2]]
    BY PairsCarried DEF KeepsColors
  <2>2. /\ \A o, s \in Ops(b) : f[o] = f[s] => o = s
        /\ \A o \in Ops(b) : c.ops[f[o]] = c.ops[o]
    BY DEF IsIsomorphism, KeepsColors
  <2>3. SeenBag(c, Consumers(b, p[1])) = SeenBag(c, Consumers(b, p[2]))
    <3>1. IsFiniteSet(Consumers(b, p[1]))
      BY ConsumersFinite
    <3>2. Carries(b, f, Consumers(b, p[1]), Consumers(b, p[2]))
      BY PairsCarried
    <3> QED BY <2>2, <3>1, <3>2, CarriedSeen
  <2>4. AllSeen(c, Producers(b, p[1])) = AllSeen(c, Producers(b, p[2]))
    <3>1. IsFiniteSet(Producers(b, p[1]))
      BY ConsumersFinite
    <3>2. Carries(b, f, Producers(b, p[1]), Producers(b, p[2]))
      BY PairsCarried
    <3> QED BY <2>2, <3>1, <3>2, CarriedSeen
  <2> QED BY <2>1, <2>3, <2>4, SignatureIs
<1>3. \A o \in Ops(b) : Refine(b, c).ops[f[o]] = Refine(b, c).ops[o]
  BY <1>1, ColorsAreSignatures
<1>4. \A p \in PortPairs(b, b, f) : Refine(b, c).operands[p[1]] = Refine(b, c).operands[p[2]]
  BY <1>2, PairsCarried, ColorsAreSignatures
<1> QED BY <1>3, <1>4 DEF KeepsColors

LEMMA UncoloredSymmetric ==
  ASSUME NEW b \in Builders, WellFormed(b)
  PROVE  Symmetric(b, Uncolored(b))
<1> SUFFICES ASSUME NEW f \in [Ops(b) -> Ops(b)], IsIsomorphism(b, b, f)
             PROVE  KeepsColors(b, Uncolored(b), f)
  BY DEF Symmetric
<1> QED BY PairsCarried DEF KeepsColors, Uncolored

-----------------------------------------------------------------------------
(* The colors of a run. *)

\* The count is that of the colors, or no round was made.
ColorInv ==
  /\ pc \in {"validate", "degrees", "peel"} => colors = Uncolored(builder) /\ numColors = 0
  /\ pc = "color" => /\ numColors = 0 \/ numColors = CountColors(builder, colors)
                     /\ Symmetric(builder, colors)
  /\ outcome = "SUCCESS" => Stable(builder, colors) /\ Symmetric(builder, colors)
  /\ pc # "done" => outcome = "none"

LEMMA InitColor == Init => ColorInv
  BY DEF Init, ColorInv

LEMMA RoundColor == KahnInv /\ ColorInv /\ Color => ColorInv'
<1> SUFFICES ASSUME KahnInv, ColorInv, Color PROVE ColorInv'
  OBVIOUS
<1> DEFINE refined == Refine(builder, colors)
           count == CountColors(builder, refined)
<1>1. builder' = builder /\ builder \in Builders /\ WellFormed(builder) /\ pc = "color"
  BY DEF KahnInv, PhaseInv, Color
<1>2. colors' = refined
  BY DEF Color
<1>3. Symmetric(builder, refined)
  BY <1>1, SymmetryStays DEF Symmetric, ColorInv
<1>4. CASE Settled(builder, numColors, count) /\ End("SUCCESS")
  <2>1. Stable(builder, refined)
    BY <1>1, <1>4, SettledIsStable DEF ColorInv
  <2>2. pc' = "done" /\ outcome' = "SUCCESS"
    BY <1>4 DEF End
  <2> HIDE DEF refined
  <2> QED BY <1>1, <1>2, <1>3, <2>1, <2>2 DEF ColorInv
<1>5. CASE numColors' = count /\ UNCHANGED <<pc, outcome>>
  <2>1. numColors' = CountColors(builder', colors')
    BY <1>1, <1>2, <1>5
  <2>2. outcome = "none"
    BY <1>1 DEF ColorInv
  <2> HIDE DEF refined
  <2> QED BY <1>1, <1>2, <1>3, <1>5, <2>1, <2>2 DEF ColorInv
<1> QED BY <1>4, <1>5 DEF Color

LEMMA NextColor == KahnInv /\ ColorInv /\ [Next]_vars => ColorInv'
<1> SUFFICES ASSUME KahnInv, ColorInv, [Next]_vars PROVE ColorInv'
  OBVIOUS
<1>1. CASE Validate
  BY <1>1 DEF Validate, End, ColorInv
<1>2. CASE CountDegrees
  BY <1>2 DEF CountDegrees, ColorInv
<1>3. CASE \E o \in Ops(builder) : Peel(o)
  BY <1>3 DEF Peel, ColorInv
<1>4. CASE FinishPeeling
  <2>1. builder' = builder /\ builder \in Builders /\ WellFormed(builder)
    BY <1>4 DEF KahnInv, PhaseInv, FinishPeeling
  <2>2. colors' = Uncolored(builder) /\ numColors' = 0 /\ outcome' = "none" /\ pc' \in {"color", "name"}
    BY <1>4 DEF FinishPeeling, ColorInv
  <2>3. Symmetric(builder, Uncolored(builder))
    BY <2>1, UncoloredSymmetric
  <2> QED BY <2>1, <2>2, <2>3 DEF ColorInv
<1>5. CASE NameEdge
  <2>1. outcome' \in {"INTERNAL_ERROR", "INVALID_ARGUMENT"} /\ pc' = "done"
    BY <1>5 DEF NameEdge, End
  <2> QED BY <2>1 DEF ColorInv
<1>6. CASE Color
  BY <1>6, RoundColor
<1>7. CASE UNCHANGED vars
  BY <1>7 DEF vars, ColorInv
<1> QED BY <1>1, <1>2, <1>3, <1>4, <1>5, <1>6, <1>7 DEF Next

LEMMA ColorAlways == Spec => []ColorInv
  BY InitColor, NextColor, KahnAlways, PTL DEF Spec

-----------------------------------------------------------------------------
(* The theorems. *)

\* No degree falls below zero and nothing is peeled twice, whatever the order
\* in which peelable operations are taken.
THEOREM TypeCorrect == Spec => []TypeOK
<1>1. KahnInv => TypeOK
  BY DEF KahnInv
<1> QED BY <1>1, KahnAlways, PTL

\* pattern.cpp:240-241: the scan for an edge of a cycle always names one; the
\* exception after it is never thrown.
THEOREM EdgeAlwaysNamed == Spec => []AlwaysNamesEdge
<1>1. KahnInv => AlwaysNamesEdge
  BY DEF KahnInv
<1> QED BY <1>1, KahnAlways, PTL

\* buildPattern() accepts a builder exactly when its operand IDs are sound and
\* no set of its operations wait for each other.
THEOREM AcceptsExactlyAcyclic == Spec => []AcceptsExactlyDags
<1>1. KahnInv => AcceptsExactlyDags
  BY DEF KahnInv
<1> QED BY <1>1, KahnAlways, PTL

\* The colors a pattern is built with do not change by another round: it is
\* enough to look at their number, as a round only ever tells more apart.
THEOREM ColorsAlwaysStable == Spec => []ColorsStable
<1>1. ColorInv => ColorsStable
  BY DEF ColorInv, ColorsStable, Stable
<1> QED BY <1>1, ColorAlways, PTL

\* Vertices a symmetry of the pattern exchanges get one color, whatever the
\* order in which the host described them.
THEOREM ColorsFollowSymmetry == Spec => []ColorsKeepSymmetry
<1>1. ColorInv => ColorsKeepSymmetry
  BY DEF ColorInv, ColorsKeepSymmetry, Symmetric, KeepsColors
<1> QED BY <1>1, ColorAlways, PTL

===============================================================================
