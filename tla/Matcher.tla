------------------------------- MODULE Matcher -------------------------------
(***************************************************************************)
(* Ops::Ops (ops_args.cpp): the keys of a user Pattern and of a supported  *)
(* one are compared, their vertices are paired by color, and where the     *)
(* pairing does not verify the exact search of MatchState runs. The        *)
(* recursion of searchOps() is a stack of frames, and a step is one        *)
(* iteration of its loops or one pair of ports of bindOp(). The rounds     *)
(* that colored the two patterns when they were built run in front.        *)
(***************************************************************************)
EXTENDS PatternGraph

CONSTANTS
  Patterns,   \* a sequence of builders, all of which buildPattern() accepts
  None        \* the operation of the frame that has none left to select

\* Builders are of sequences, and sound; that they are acyclic is not used.
ASSUME MatcherAssumption ==
  /\ None \notin Nat
  /\ \A n \in DOMAIN Patterns :
       LET b == Patterns[n]
       IN  /\ b.kinds \in Seq({b.kinds[x] : x \in Operands(b)})
           /\ b.ops \in Seq({b.ops[o] : o \in Ops(b)})
           /\ \A o \in Ops(b) : /\ b.ops[o].inputs \in Seq(Operands(b))
                               /\ b.ops[o].outputs \in Seq(Operands(b))
           /\ WellFormed(b)

VARIABLES
  user, supported,      \* the two patterns, as places in Patterns
  pc,                   \* what runs next
  colors, counts,       \* the colors of both patterns, and the number of each
  userOperandOf, supportedOperandOf,   \* *_operand_ids_by_*, both directions
  userOpOf, supportedOpOf,             \* *_op_ids_by_*, both directions
  boundOperands, boundOps,             \* bound_supported_*: what rollback() undoes
  frames,               \* the calls of searchOps(), the innermost last
  todo,                 \* the pairs of operands bindOp() has yet to bind
  outcome               \* "none", or how the constructor ended

maps == <<userOperandOf, supportedOperandOf, userOpOf, supportedOpOf, boundOperands, boundOps>>
given == <<user, supported, colors, counts>>
vars == <<given, pc, maps, frames, todo, outcome>>

Unmatched == 0

U == Patterns[user]
S == Patterns[supported]

\* Both patterns as one graph, the user's vertices first: colors are equal
\* across the patterns exactly when the signatures are.
Joined ==
  LET Moved(operands) == [i \in DOMAIN operands |-> operands[i] + Len(U.kinds)]
  IN  [kinds |-> U.kinds \o S.kinds,
       ops |-> U.ops \o [o \in Ops(S) |-> [kind |-> S.ops[o].kind,
                                           inputs |-> Moved(S.ops[o].inputs),
                                           outputs |-> Moved(S.ops[o].outputs)]]]

\* The colors of a pattern, each vertex with its place in the pattern.
UserColors(c) == [operands |-> [y \in Operands(U) |-> c.operands[y]], ops |-> [v \in Ops(U) |-> c.ops[v]]]

SupportedColors(c) ==
  [operands |-> [x \in Operands(S) |-> c.operands[x + Len(U.kinds)]],
   ops |-> [o \in Ops(S) |-> c.ops[o + Len(U.ops)]]]

Init ==
  /\ user \in DOMAIN Patterns /\ supported \in DOMAIN Patterns
  /\ pc = "color"
  /\ colors = Uncolored(Joined) /\ counts = [user |-> 0, supported |-> 0]
  /\ userOperandOf = [x \in Operands(S) |-> Unmatched]
  /\ supportedOperandOf = [y \in Operands(U) |-> Unmatched]
  /\ userOpOf = [o \in Ops(S) |-> Unmatched]
  /\ supportedOpOf = [v \in Ops(U) |-> Unmatched]
  /\ boundOperands = <<>> /\ boundOps = <<>>
  /\ frames = <<>> /\ todo = <<>>
  /\ outcome = "none"

End(result) == pc' = "done" /\ outcome' = result

Goto(next) == pc' = next /\ UNCHANGED outcome

-----------------------------------------------------------------------------
\* A round of both refinements. Where one ends before the other the keys
\* differ: colors of different rounds are never equal.
ColorBoth ==
  LET refined == Refine(Joined, colors)
      inUser == CountColors(U, UserColors(refined))
      inSupported == CountColors(S, SupportedColors(refined))
      userEnds == Settled(U, counts.user, inUser)
      supportedEnds == Settled(S, counts.supported, inSupported)
  IN  /\ pc = "color"
      /\ colors' = refined
      /\ counts' = [user |-> inUser, supported |-> inSupported]
      /\ IF userEnds = supportedEnds
         THEN Goto(IF userEnds THEN "key" ELSE "color")
         ELSE End("UNSUPPORTED")
      /\ UNCHANGED <<user, supported, maps, frames, todo>>

SameBag(left, right) == Bag(DOMAIN left, LAMBDA i : left[i]) = Bag(DOMAIN right, LAMBDA i : right[i])

\* PatternKey's operator==: the sorted colors of all vertices are equal.
SameKey ==
  /\ SameBag(UserColors(colors).operands, SupportedColors(colors).operands)
  /\ SameBag(UserColors(colors).ops, SupportedColors(colors).ops)

\* pair_by_color: the members of a class meet in the order of their places.
PairedByColor(left, right) ==
  LET Rank(c, i) == Cardinality({k \in DOMAIN c : k <= i /\ c[k] = c[i]})
  IN  [i \in DOMAIN left |->
         CHOOSE k \in DOMAIN right : right[k] = left[i] /\ Rank(right, k) = Rank(left, i)]

OperandsPaired == PairedByColor(UserColors(colors).operands, SupportedColors(colors).operands)

OpsPaired == PairedByColor(UserColors(colors).ops, SupportedColors(colors).ops)

\* The pairing agrees with both patterns' kinds, ports, producers and
\* consumers.
Verified(operandOf, opOf) ==
  /\ \A v \in Ops(U) :
       LET o == opOf[v]
       IN  /\ U.ops[v].kind = S.ops[o].kind
           /\ [i \in DOMAIN U.ops[v].inputs |-> operandOf[U.ops[v].inputs[i]]] = S.ops[o].inputs
           /\ [i \in DOMAIN U.ops[v].outputs |-> operandOf[U.ops[v].outputs[i]]] = S.ops[o].outputs
  /\ \A y \in Operands(U) :
       LET x == operandOf[y]
           Paired(q) == [q EXCEPT !.op = opOf[q.op]]
       IN  /\ U.kinds[y] = S.kinds[x]
           /\ {Paired(q) : q \in Producers(U, y)} = Producers(S, x)
           /\ {Paired(q) : q \in Consumers(U, y)} = Consumers(S, x)

Compare ==
  /\ pc = "key"
  /\ IF SameKey THEN Goto("pair") ELSE End("UNSUPPORTED")
  /\ UNCHANGED <<given, maps, frames, todo>>

\* Mutant: the pairing is not verified.
PairUnverified ==
  /\ pc = "pair"
  /\ supportedOperandOf' = OperandsPaired /\ supportedOpOf' = OpsPaired /\ End("PAIRED")
  /\ UNCHANGED <<given, userOperandOf, userOpOf, boundOperands, boundOps, frames, todo>>

\* matchBySignature(), and the way to match() where it finds nothing. The
\* fast path knows one direction of the correspondence only.
Pair ==
  /\ pc = "pair"
  /\ IF Verified(OperandsPaired, OpsPaired)
     THEN supportedOperandOf' = OperandsPaired /\ supportedOpOf' = OpsPaired /\ End("PAIRED")
     ELSE Goto("select") /\ UNCHANGED <<supportedOperandOf, supportedOpOf>>
  /\ UNCHANGED <<given, userOperandOf, userOpOf, boundOperands, boundOps, frames, todo>>

-----------------------------------------------------------------------------
\* The ports and kinds around an operand, which must be alike on both sides.
ConsumerKinds(b, x) == Bag(Consumers(b, x), LAMBDA q : <<q.port, b.ops[q.op].kind>>)

ProducerKinds(b, x) == {<<q.port, b.ops[q.op].kind>> : q \in Producers(b, x)}

\* isOperandPairCompatible: alike, and every mapped neighbor agrees.
OperandsCompatible(x, y) ==
  IF userOperandOf[x] # Unmatched THEN userOperandOf[x] = y
  ELSE /\ supportedOperandOf[y] = Unmatched
       /\ S.kinds[x] = U.kinds[y]
       /\ ProducerKinds(S, x) = ProducerKinds(U, y)
       /\ \A q \in Producers(S, x), r \in Producers(U, y) :
            /\ userOpOf[q.op] \in {Unmatched, r.op}
            /\ supportedOpOf[r.op] \in {Unmatched, q.op}
       /\ ConsumerKinds(S, x) = ConsumerKinds(U, y)
       /\ \A q \in Consumers(S, x) :
            userOpOf[q.op] # Unmatched => U.ops[userOpOf[q.op]].inputs[q.port] = y
       /\ \A r \in Consumers(U, y) :
            supportedOpOf[r.op] # Unmatched => S.ops[supportedOpOf[r.op]].inputs[r.port] = x

Facing(left, right) == [i \in DOMAIN left |-> <<left[i], right[i]>>]

\* The operands at the ports of supported o and user v, inputs first.
PairsAtPorts(o, v) ==
  Facing(S.ops[o].inputs, U.ops[v].inputs) \o Facing(S.ops[o].outputs, U.ops[v].outputs)

\* Mutant: the operands at the ports are not compared.
OpsAlike(o, v) ==
  /\ S.ops[o].kind = U.ops[v].kind
  /\ Len(S.ops[o].inputs) = Len(U.ops[v].inputs)
  /\ Len(S.ops[o].outputs) = Len(U.ops[v].outputs)

\* isOpPairCompatible, for two operations neither of which is mapped.
OpsCompatible(o, v) ==
  /\ S.ops[o].kind = U.ops[v].kind
  /\ Len(S.ops[o].inputs) = Len(U.ops[v].inputs)
  /\ Len(S.ops[o].outputs) = Len(U.ops[v].outputs)
  /\ \A i \in DOMAIN PairsAtPorts(o, v) :
       OperandsCompatible(PairsAtPorts(o, v)[i][1], PairsAtPorts(o, v)[i][2])

Candidates(o) == {v \in Ops(U) : supportedOpOf[v] = Unmatched /\ OpsCompatible(o, v)}

OpenOps == {o \in Ops(S) : userOpOf[o] = Unmatched}

Frame(op, tried) ==
  [op |-> op, tried |-> tried, operands |-> Len(boundOperands), ops |-> Len(boundOps)]

Top == frames[Len(frames)]

\* selectNextSupportedOp: the first of those with the fewest candidates. With
\* none to select the call goes on to the operands at no port.
Select ==
  /\ pc = "select"
  /\ IF OpenOps = {}
     THEN frames' = Append(frames, Frame(None, 0)) /\ Goto("rest")
     ELSE \E o \in OpenOps :
            /\ \A p \in OpenOps :
                 \/ Cardinality(Candidates(o)) < Cardinality(Candidates(p))
                 \/ Cardinality(Candidates(o)) = Cardinality(Candidates(p)) /\ o <= p
            /\ frames' = Append(frames, Frame(o, 0))
            /\ Goto("try")
  /\ UNCHANGED <<given, maps, todo>>

\* The innermost call returns false: the one around it rolls back.
Fail ==
  /\ frames' = SubSeq(frames, 1, Len(frames) - 1)
  /\ IF Len(frames) = 1 THEN End("UNSUPPORTED") ELSE Goto("undo")

\* Mutants: the loop ends with the first candidate, or starts with it again.
FirstOnly == IF Top.tried = 0 THEN Candidates(Top.op) ELSE {}

FirstAgain == Candidates(Top.op)

\* What the loop over the user's operations has yet to try.
Untried == {v \in Candidates(Top.op) : v > Top.tried}

\* The next candidate of the call's operation: checkpoints are taken and
\* bindOp() maps the two operations.
Try ==
  /\ pc = "try"
  /\ IF Untried = {}
     THEN Fail /\ UNCHANGED <<maps, todo>>
     ELSE \E v \in Untried :
            /\ \A w \in Untried : v <= w
            /\ frames' = [frames EXCEPT ![Len(frames)] = Frame(Top.op, v)]
            /\ userOpOf' = [userOpOf EXCEPT ![Top.op] = v]
            /\ supportedOpOf' = [supportedOpOf EXCEPT ![v] = Top.op]
            /\ boundOps' = Append(boundOps, Top.op)
            /\ todo' = PairsAtPorts(Top.op, v)
            /\ Goto("bind")
            /\ UNCHANGED <<userOperandOf, supportedOperandOf, boundOperands>>
  /\ UNCHANGED given

\* bindOperand for a pair neither side of which is mapped.
BindOperand(x, y) ==
  /\ userOperandOf' = [userOperandOf EXCEPT ![x] = y]
  /\ supportedOperandOf' = [supportedOperandOf EXCEPT ![y] = x]
  /\ boundOperands' = Append(boundOperands, x)
  /\ UNCHANGED <<userOpOf, supportedOpOf, boundOps>>

\* The rest of bindOp(), a pair of operands at a time: one that is mapped to
\* the other is passed, one that is not compatible ends the branch.
Bind ==
  /\ pc = "bind"
  /\ IF todo = <<>>
     THEN Goto("select") /\ UNCHANGED <<maps, todo>>
     ELSE LET x == Head(todo)[1]
              y == Head(todo)[2]
          IN  IF ~OperandsCompatible(x, y)
              THEN Goto("undo") /\ todo' = <<>> /\ UNCHANGED maps
              ELSE /\ IF userOperandOf[x] = y THEN UNCHANGED maps ELSE BindOperand(x, y)
                   /\ todo' = Tail(todo)
                   /\ Goto("bind")
  /\ UNCHANGED <<given, frames>>

Dropped(bound, checkpoint) == {bound[i] : i \in checkpoint + 1 .. Len(bound)}

Cleared(map, keys) == [k \in DOMAIN map |-> IF k \in keys THEN Unmatched ELSE map[k]]

\* Mutant: rollback() leaves the user's side of the operands as it is.
RollbackOneSide(operandCheckpoint, opCheckpoint) ==
  LET operands == Dropped(boundOperands, operandCheckpoint)
      ops == Dropped(boundOps, opCheckpoint)
  IN  /\ userOperandOf' = Cleared(userOperandOf, operands)
      /\ userOpOf' = Cleared(userOpOf, ops)
      /\ supportedOpOf' = Cleared(supportedOpOf, {userOpOf[o] : o \in ops})
      /\ boundOperands' = SubSeq(boundOperands, 1, operandCheckpoint)
      /\ boundOps' = SubSeq(boundOps, 1, opCheckpoint)
      /\ UNCHANGED supportedOperandOf

Rollback(operandCheckpoint, opCheckpoint) ==
  LET operands == Dropped(boundOperands, operandCheckpoint)
      ops == Dropped(boundOps, opCheckpoint)
  IN  /\ userOperandOf' = Cleared(userOperandOf, operands)
      /\ supportedOperandOf' = Cleared(supportedOperandOf, {userOperandOf[x] : x \in operands})
      /\ userOpOf' = Cleared(userOpOf, ops)
      /\ supportedOpOf' = Cleared(supportedOpOf, {userOpOf[o] : o \in ops})
      /\ boundOperands' = SubSeq(boundOperands, 1, operandCheckpoint)
      /\ boundOps' = SubSeq(boundOps, 1, opCheckpoint)

\* The innermost call rolls back to its checkpoints and goes on with its loop;
\* the call that only pairs what is left has no loop and returns false.
Undo ==
  /\ pc = "undo"
  /\ Rollback(Top.operands, Top.ops)
  /\ IF Top.op = None THEN Fail ELSE Goto("try") /\ UNCHANGED frames
  /\ UNCHANGED <<given, todo>>

OpenOperands == {x \in Operands(S) : userOperandOf[x] = Unmatched}

\* bindRemainingOperands, an operand at a time: the first open one takes the
\* first compatible operand of the user's that no operation touches either.
Rest ==
  /\ pc = "rest"
  /\ IF OpenOperands = {}
     THEN Goto("validate") /\ UNCHANGED maps
     ELSE \E x \in OpenOperands :
            LET partners == {y \in Isolated(U) : OperandsCompatible(x, y)}
            IN  /\ \A z \in OpenOperands : x <= z
                /\ IF x \notin Isolated(S) \/ partners = {}
                   THEN Goto("undo") /\ UNCHANGED maps
                   ELSE /\ \E y \in partners :
                             (\A z \in partners : y <= z) /\ BindOperand(x, y)
                        /\ Goto("rest")
  /\ UNCHANGED <<given, frames, todo>>

\* validateCompleteMapping: a bijection that keeps kinds and wiring.
Complete ==
  /\ \A x \in Operands(S) :
       /\ userOperandOf[x] # Unmatched
       /\ supportedOperandOf[userOperandOf[x]] = x
       /\ S.kinds[x] = U.kinds[userOperandOf[x]]
  /\ \A o \in Ops(S) :
       LET v == userOpOf[o]
       IN  /\ v # Unmatched
           /\ supportedOpOf[v] = o
           /\ S.ops[o].kind = U.ops[v].kind
           /\ [i \in DOMAIN S.ops[o].inputs |-> userOperandOf[S.ops[o].inputs[i]]] = U.ops[v].inputs
           /\ [i \in DOMAIN S.ops[o].outputs |-> userOperandOf[S.ops[o].outputs[i]]] = U.ops[v].outputs

Validate ==
  /\ pc = "validate"
  /\ IF Complete THEN End("SEARCHED") ELSE Goto("undo")
  /\ UNCHANGED <<given, maps, frames, todo>>

Next ==
  \/ ColorBoth \/ Compare \/ Pair \/ Select \/ Try \/ Bind \/ Undo \/ Rest \/ Validate
  \/ pc = "done" /\ UNCHANGED vars

Spec == Init /\ [][Next]_vars

\* A constructor that is called takes steps until it is done. Some action is
\* enabled wherever it is not, so this is WF_vars(Next) without ENABLED.
FairSpec == Spec /\ ([]<><<TRUE>>_vars \/ <>[](pc = "done"))

-----------------------------------------------------------------------------
Matched == outcome \in {"PAIRED", "SEARCHED"}

\* ops_args.cpp:34-36: what Ops keeps is a one-to-one mapping of the user's
\* operands and operations onto the supported pattern's that keeps kinds and
\* the order of ports, whichever way it was found.
MatchIsIsomorphism ==
  Matched =>
    /\ supportedOpOf \in [Ops(U) -> Ops(S)] /\ Len(U.ops) = Len(S.ops)
    /\ IsIsomorphism(U, S, supportedOpOf)
    /\ \A p \in PortPairs(U, S, supportedOpOf) : supportedOperandOf[p[1]] = p[2]
    /\ Len(U.kinds) = Len(S.kinds)
    /\ \A y, z \in Operands(U) : supportedOperandOf[y] = supportedOperandOf[z] => y = z
    /\ \A y \in Operands(U) : S.kinds[supportedOperandOf[y]] = U.kinds[y]

\* Patterns of the same shape are never told apart: neither by their keys,
\* nor by the search with its checks ahead and its rollbacks.
NoneMissed == outcome = "UNSUPPORTED" => ~SameShape(U, S)

\* The two directions of the mapping agree, the trail that rollback() follows
\* holds exactly what is bound, once, and no call has a checkpoint beyond it.
DirectionsAgree ==
  outcome # "PAIRED" =>
    /\ \A x \in Operands(S), y \in Operands(U) : userOperandOf[x] = y <=> supportedOperandOf[y] = x
    /\ \A o \in Ops(S), v \in Ops(U) : userOpOf[o] = v <=> supportedOpOf[v] = o
    /\ \A x \in Operands(S) :
         Cardinality({i \in DOMAIN boundOperands : boundOperands[i] = x})
           = IF userOperandOf[x] = Unmatched THEN 0 ELSE 1
    /\ \A o \in Ops(S) :
         Cardinality({i \in DOMAIN boundOps : boundOps[i] = o})
           = IF userOpOf[o] = Unmatched THEN 0 ELSE 1
    /\ \A i \in DOMAIN frames :
         frames[i].operands <= Len(boundOperands) /\ frames[i].ops <= Len(boundOps)

\* A pair of operations found compatible can be bound at all its ports, and
\* the leaf of the search always completes the bijection: only a call that ran
\* out of candidates makes the one around it roll back.
OnlyExhaustionFails == [][pc' = "undo" => pc \in {"try", "undo"}]_vars

\* The search ends.
MatchEnds == <>(pc = "done")
===============================================================================
