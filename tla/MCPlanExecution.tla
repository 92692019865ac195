---------------------------- MODULE MCPlanExecution ----------------------------
(* An instance of PlanExecution for TLC: on each device two of three records *)
(* apply, which need no workspace, a little, and more of it.                 *)
EXTENDS PlanExecution

CONSTANTS d1, d2, plain, small, large

MCApplicableOn == [d \in Devices |-> IF d = d1 THEN {small, large} ELSE {plain, large}]

MCRequired == [p \in Primitives |-> IF p = plain THEN 0 ELSE IF p = small THEN 1 ELSE 2]

\* None, as large as asked for, and a size without the memory.
MCWorkspaces ==
  {[memory |-> FALSE, bytes |-> 0], [memory |-> TRUE, bytes |-> 1],
   [memory |-> TRUE, bytes |-> 2], [memory |-> FALSE, bytes |-> 2]}
===============================================================================
