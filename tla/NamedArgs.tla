------------------------------ MODULE NamedArgs ------------------------------
(***************************************************************************)
(* What common.h promises of Args, in the words of the caller alone: Args  *)
(* hold a value under each ID of the Pattern as it was when its Ops was    *)
(* created. A setter takes an ID of that Pattern and a value of the kind   *)
(* the operand was added with, and changes nothing else; a Plan is made    *)
(* when every ID has a value, and has at each port of each operation the   *)
(* value of the operand the caller wired there.                            *)
(***************************************************************************)
EXTENDS ArgsValues

VARIABLES
  ops,   \* the Pattern the caller's Ops was created from, or None
  args,  \* args[h]: that Pattern and the values under its IDs, or None
  plan   \* the caller's Plan: the Pattern and the values at its ports, or None

vars == <<patternVars, status, ops, args, plan>>

Unset(u) ==
  [user |-> u, operands |-> [y \in Operands(u) |-> None], attributes |-> [v \in Ops(u) |-> None]]

Init == PatternInit /\ ops = None /\ args = [h \in Handles |-> None] /\ plan = None

OpsCreate ==
  /\ UNCHANGED <<patternVars, args, plan>>
  /\ \/ Succeed /\ ops' = pattern /\ Supported(pattern)
     \/ UNCHANGED ops /\ ~Supported(pattern) /\ Refuse(OpsRefusal(pattern))

ArgsCreate(h) ==
  /\ \/ Succeed /\ ops # None /\ args' = [args EXCEPT ![h] = Unset(ops)]
     \/ Refuse("INVALID_ARGUMENT") /\ ops = None /\ UNCHANGED args
  /\ UNCHANGED <<patternVars, ops, plan>>

\* The caller may give this value for this operand, or these attributes.
Takes(a, id, v) == a # None /\ id \in Operands(a.user) /\ a.user.kinds[id] = v.kind /\ Sound(v)

TakesOp(a, id, v) == a # None /\ id \in Ops(a.user) /\ a.user.ops[id].kind = v.kind /\ Computes(v)

SetOperand(h, s) ==
  LET takes == Takes(args[h], s.id, s.value)
  IN  /\ \/ Succeed /\ takes /\ args' = [args EXCEPT ![h].operands[s.id] = s.value]
         \/ Refuse("INVALID_ARGUMENT") /\ ~takes /\ UNCHANGED args
      /\ UNCHANGED <<patternVars, ops, plan>>

SetOperation(h, s) ==
  LET takes == TakesOp(args[h], s.id, s.value)
  IN  /\ \/ Succeed /\ takes /\ args' = [args EXCEPT ![h].attributes[s.id] = s.value]
         \/ Refuse("INVALID_ARGUMENT") /\ ~takes /\ UNCHANGED args
      /\ UNCHANGED <<patternVars, ops, plan>>

\* There are Args and every ID has a value.
Ready(a) ==
  /\ a # None
  /\ \A y \in Operands(a.user) : a.operands[y] # None
  /\ \A v \in Ops(a.user) : a.attributes[v] # None

\* The values at the ports of the caller's own operations.
Wired(a) == [user |-> a.user, problem |-> ProblemOf(a.user, a.operands, a.attributes)]

PlanCreate(h) ==
  /\ \/ Succeed /\ Ready(args[h]) /\ plan' = Wired(args[h])
     \/ (\E s \in PlanFailures : Refuse(s)) /\ Ready(args[h]) /\ UNCHANGED plan
     \/ Refuse("INVALID_ARGUMENT") /\ ~Ready(args[h]) /\ UNCHANGED plan
  /\ UNCHANGED <<patternVars, ops, args>>

OpsDestroy == Answer(ops) /\ ops' = None /\ UNCHANGED <<patternVars, args, plan>>

ArgsDestroy(h) ==
  Answer(args[h]) /\ args' = [args EXCEPT ![h] = None] /\ UNCHANGED <<patternVars, ops, plan>>

PlanDestroy == Answer(plan) /\ plan' = None /\ UNCHANGED <<patternVars, ops, args>>

\* A call that cannot allocate does nothing.
OutOfMemory == Refuse("OUT_OF_MEMORY") /\ UNCHANGED <<patternVars, ops, args, plan>>

Next ==
  \/ \E h \in Handles :
       \/ \E s \in OperandSettings : SetOperand(h, s)
       \/ \E s \in OpSettings : SetOperation(h, s)
       \/ ArgsCreate(h) \/ ArgsDestroy(h) \/ PlanCreate(h)
  \/ OpsDestroy \/ PlanDestroy \/ OutOfMemory
  \/ Describe /\ UNCHANGED <<ops, args, plan>>
  \/ OpsCreate

Spec == Init /\ [][Next]_vars
===============================================================================
