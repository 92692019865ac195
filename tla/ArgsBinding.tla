------------------------------ MODULE ArgsBinding ------------------------------
(***************************************************************************)
(* Ops and Args (ops_args.cpp) behind the calls of ops_args_api.cpp, and   *)
(* what ftrainPlanCreate makes of Args. Ops holds how the operands and     *)
(* operations of the caller's Pattern map to those of an engine's pattern; *)
(* Args hold a copy of it and a slot for each operand and operation of the *)
(* engine's pattern. A setter takes an ID of the caller's Pattern and the  *)
(* engine reads slots by the IDs of its own, so every value passes the     *)
(* map on its way. Any match will do: it is what Matcher shows of the ones *)
(* the search finds.                                                       *)
(***************************************************************************)
EXTENDS ArgsValues

VARIABLES
  ops,   \* the caller's Ops: a match, or None
  args,  \* args[h]: the match and the slots, or None
  plan   \* the caller's Plan: the match and the problem it was made for, or None

vars == <<patternVars, status, ops, args, plan>>

\* The pattern of the engine a match is with.
Supporting(match) == Families[match.engine]

\* supported_operand_ids_by_user_operand_: operands meet at equal ports.
OperandMap(u, c, f) ==
  [y \in Operands(u) |-> CHOOSE x \in Operands(c) : <<y, x>> \in PortPairs(u, c, f)]

Init == PatternInit /\ ops = None /\ args = [h \in Handles |-> None] /\ plan = None

OpsCreate ==
  /\ \/ /\ Supported(pattern)
        /\ \E e \in EnginesOf(pattern) : \E f \in [Ops(pattern) -> Ops(Families[e])] :
             /\ IsIsomorphism(pattern, Families[e], f)
             /\ ops' = [user |-> pattern, engine |-> e,
                        operandOf |-> OperandMap(pattern, Families[e], f), opOf |-> f]
        /\ Succeed
     \/ ~Supported(pattern) /\ Refuse(OpsRefusal(pattern)) /\ UNCHANGED ops
  /\ UNCHANGED <<patternVars, args, plan>>

\* Ops::makeArgs.
EmptyArgs(match) ==
  [of |-> match,
   operands |-> [x \in Operands(Supporting(match)) |-> None],
   attributes |-> [o \in Ops(Supporting(match)) |-> None]]

ArgsCreate(h) ==
  /\ \/ ops # None /\ args' = [args EXCEPT ![h] = EmptyArgs(ops)] /\ Succeed
     \/ ops = None /\ Refuse("INVALID_ARGUMENT") /\ UNCHANGED args
  /\ UNCHANGED <<patternVars, ops, plan>>

-----------------------------------------------------------------------------
\* Mutants: the slot is the one under the caller's ID; its kind is not asked.
OwnSlot(a, id) == id

MapUserOperandOfAnyKind(a, id, kind) ==
  IF id \notin DOMAIN a.of.operandOf THEN "INVALID_ARGUMENT"
  ELSE IF a.of.operandOf[id] \notin DOMAIN a.operands THEN "INTERNAL_ERROR"
  ELSE "SUCCESS"

OperandSlot(a, id) == a.of.operandOf[id]

OpSlot(a, id) == a.of.opOf[id]

\* mapUserOperand and mapUserOp: the first check that fails.
MapUserOperand(a, id, kind) ==
  IF id \notin DOMAIN a.of.operandOf THEN "INVALID_ARGUMENT"
  ELSE IF OperandSlot(a, id) \notin DOMAIN a.operands THEN "INTERNAL_ERROR"
  ELSE IF Supporting(a.of).kinds[OperandSlot(a, id)] # kind THEN "INVALID_ARGUMENT"
  ELSE "SUCCESS"

MapUserOp(a, id, kind) ==
  IF id \notin DOMAIN a.of.opOf THEN "INVALID_ARGUMENT"
  ELSE IF OpSlot(a, id) \notin DOMAIN a.attributes THEN "INTERNAL_ERROR"
  ELSE IF Supporting(a.of).ops[OpSlot(a, id)].kind # kind THEN "INVALID_ARGUMENT"
  ELSE "SUCCESS"

\* ftrainArgsSetTensor, -SetTensorList and -SetGroupedTensor build the value
\* before they look for its slot.
SetOperand(h, s) ==
  LET a == args[h]
      answer == IF a = None \/ ~Sound(s.value) THEN "INVALID_ARGUMENT"
                ELSE MapUserOperand(a, s.id, s.value.kind)
  IN  /\ args' = IF answer = "SUCCESS"
                 THEN [args EXCEPT ![h].operands[OperandSlot(a, s.id)] = s.value]
                 ELSE args
      /\ status' = answer
      /\ UNCHANGED <<patternVars, ops, plan>>

\* ftrainArgsSetGemm and the three grouped ones.
SetOperation(h, s) ==
  LET a == args[h]
      answer == IF a = None \/ ~Computes(s.value) THEN "INVALID_ARGUMENT"
                ELSE MapUserOp(a, s.id, s.value.kind)
  IN  /\ args' = IF answer = "SUCCESS"
                 THEN [args EXCEPT ![h].attributes[OpSlot(a, s.id)] = s.value]
                 ELSE args
      /\ status' = answer
      /\ UNCHANGED <<patternVars, ops, plan>>

-----------------------------------------------------------------------------
\* Mutant: only the operands are asked for.
HasOperands(a) == None \notin {a.operands[x] : x \in DOMAIN a.operands}

IsComplete(a) ==
  /\ None \notin {a.operands[x] : x \in DOMAIN a.operands}
  /\ None \notin {a.attributes[o] : o \in DOMAIN a.attributes}

\* makeProblem: the engine reads the slots at the ports of its own pattern.
MakeProblem(a) == ProblemOf(Supporting(a.of), a.operands, a.attributes)

\* The engine is found again by the key of the Args, which is the key the Ops
\* was matched under.
PlanCreate(h) ==
  LET a == args[h]
      valid == a # None /\ IsComplete(a)
  IN  /\ \/ valid /\ plan' = [of |-> a.of, problem |-> MakeProblem(a)] /\ Succeed
         \/ valid /\ (\E s \in PlanFailures : Refuse(s)) /\ UNCHANGED plan
         \/ ~valid /\ Refuse("INVALID_ARGUMENT") /\ UNCHANGED plan
      /\ UNCHANGED <<patternVars, ops, args>>

OpsDestroy == Answer(ops) /\ ops' = None /\ UNCHANGED <<patternVars, args, plan>>

ArgsDestroy(h) ==
  Answer(args[h]) /\ args' = [args EXCEPT ![h] = None] /\ UNCHANGED <<patternVars, ops, plan>>

PlanDestroy == Answer(plan) /\ plan' = None /\ UNCHANGED <<patternVars, ops, args>>

\* A call that cannot allocate does nothing.
OutOfMemory == Refuse("OUT_OF_MEMORY") /\ UNCHANGED <<patternVars, ops, args, plan>>

Next ==
  \/ Describe /\ UNCHANGED <<ops, args, plan>>
  \/ OpsCreate \/ OpsDestroy \/ PlanDestroy \/ OutOfMemory
  \/ \E h \in Handles :
       \/ ArgsCreate(h) \/ ArgsDestroy(h) \/ PlanCreate(h)
       \/ \E s \in OperandSettings : SetOperand(h, s)
       \/ \E s \in OpSettings : SetOperation(h, s)

Spec == Init /\ [][Next]_vars

-----------------------------------------------------------------------------
\* A match takes every operand and operation of the caller's Pattern to one
\* of the engine's.
Fits(match) ==
  /\ match \in Matches /\ match.engine \in DOMAIN Families
  /\ match.operandOf \in [Operands(match.user) -> Operands(Supporting(match))]
  /\ match.opOf \in [Ops(match.user) -> Ops(Supporting(match))]

Statuses == {"SUCCESS", "INVALID_ARGUMENT", "UNSUPPORTED", "OVERFLOW", "INTERNAL_ERROR", "OUT_OF_MEMORY"}

\* Every object is null or what its class says: maps within the two patterns,
\* and slots of the engine's pattern with values of the kinds it gives them
\* (Args::operand_kinds_, Args::operation_kinds_).
TypeOK ==
  /\ pattern \in BuilderType \cup {None} /\ created \in 0 .. MaxPatterns
  /\ status \in Statuses
  /\ ops # None => Fits(ops)
  /\ DOMAIN args = Handles
  /\ \A h \in Handles : args[h] # None =>
       LET a == args[h]
           c == Supporting(a.of)
       IN  /\ Fits(a.of)
           /\ a = [of |-> a.of, operands |-> a.operands, attributes |-> a.attributes]
           /\ a.operands \in [Operands(c) -> Value \cup {None}]
           /\ a.attributes \in [Ops(c) -> Attributes \cup {None}]
           /\ \A x \in Operands(c) : a.operands[x] # None => a.operands[x].kind = c.kinds[x]
           /\ \A o \in Ops(c) : a.attributes[o] # None => a.attributes[o].kind = c.ops[o].kind
  /\ plan # None => Fits(plan.of) /\ plan = [of |-> plan.of, problem |-> plan.problem]

\* family.hpp:60-72 takes each value out of its slot unchecked, as a variant of
\* the kind its own pattern has there: of every Plan ever made, each port had a
\* value, of that kind and of a sound form, whatever the caller's own numbering
\* and whichever setters failed or were repeated before.
ReadsRightVariants ==
  plan # None =>
    LET c == Supporting(plan.of)
        Right(v, x) == v # None /\ v.kind = c.kinds[x] /\ Sound(v)
    IN  \A o \in Ops(c) :
          /\ \A i \in DOMAIN c.ops[o].inputs :
               Right(plan.problem.inputs[o][i], c.ops[o].inputs[i])
          /\ \A i \in DOMAIN c.ops[o].outputs :
               Right(plan.problem.outputs[o][i], c.ops[o].outputs[i])
          /\ plan.problem.attributes[o] # None
          /\ plan.problem.attributes[o].kind = c.ops[o].kind
          /\ Computes(plan.problem.attributes[o])

-----------------------------------------------------------------------------
(***************************************************************************)
(* What the caller sees: the slots under the caller's own IDs, and of a    *)
(* Plan the values at the ports of the caller's own operations.            *)
(***************************************************************************)
NamedOps == IF ops = None THEN None ELSE ops.user

NamedArgsOf(a) ==
  [user |-> a.of.user,
   operands |-> [y \in Operands(a.of.user) |-> a.operands[a.of.operandOf[y]]],
   attributes |-> [v \in Ops(a.of.user) |-> a.attributes[a.of.opOf[v]]]]

NamedPlanOf(p) ==
  [user |-> p.of.user,
   problem |-> [inputs |-> [v \in Ops(p.of.user) |-> p.problem.inputs[p.of.opOf[v]]],
                outputs |-> [v \in Ops(p.of.user) |-> p.problem.outputs[p.of.opOf[v]]],
                attributes |-> [v \in Ops(p.of.user) |-> p.problem.attributes[p.of.opOf[v]]]]]

Named ==
  INSTANCE NamedArgs WITH
    ops <- NamedOps,
    args <- [h \in Handles |-> IF args[h] = None THEN None ELSE NamedArgsOf(args[h])],
    plan <- IF plan = None THEN None ELSE NamedPlanOf(plan)

\* However the IDs of the two patterns relate, the caller sees values set and
\* read under its own: common.h's account of Ops, Args and Plan holds.
ImplementsNamed == Named!Spec
===============================================================================
